--------------------------- MODULE WatorElements ---------------------------
(***************************************************************************)
(* Fish and Shark, the predators and prey of Wa-Tor.  Both grow older up   *)
(* to their birth age, when a move leaves a newborn behind.                *)
(***************************************************************************)
EXTENDS EventWindow

CONSTANTS
  FishBirthAge,     \* m_fishBirthAge
  SharkBirthAge,    \* m_sharkBirthAge
  EnergyPerFish,    \* m_sharkEnergyPerFish
  MaxSharkEnergy    \* MAX_SHARK_ENERGY

ASSUME WatorAssumption ==
  /\ FishBirthAge \in Nat /\ SharkBirthAge \in Nat
  /\ EnergyPerFish \in Nat /\ MaxSharkEnergy \in Nat

Fish(age) == [type |-> "Fish", age |-> age]
Shark(age, energy) == [type |-> "Shark", age |-> age, energy |-> energy]

\* Leave a newborn, or nothing, at the centre and be at p.
MoveLeaving(w, p, left, self) == Put(w, Center, left) \o Put(w, p, self)

FishBehavior(w) ==
  LET age   == Self(w).age
      ready == age >= FishBirthAge
      empty == OfType(w, VonNeumann, "Empty")
      older == Fish(age + 1)
  IN  CASE empty # {} /\ ready  -> {MoveLeaving(w, p, Fish(0), Fish(0)) : p \in empty}
        [] empty # {} /\ ~ready -> {MoveLeaving(w, p, Empty, older) : p \in empty}
        [] empty = {} /\ ~ready -> {Put(w, Center, older)}
        [] OTHER                -> {Stay}

\* What a fish adds, up to what fits, and what a newborn leaves its parent.
FedWithoutLimit(energy) == energy + EnergyPerFish
FedEnergy(energy) ==
  IF energy + EnergyPerFish > MaxSharkEnergy THEN MaxSharkEnergy ELSE energy + EnergyPerFish
KeptEnergy(energy) == energy
SharedEnergy(energy) == energy \div 2

\* A Shark that starts its event with energy lives one event more, eats fish
\* before it moves, and shares what energy it has with a newborn.
SharkBehavior(w) ==
  LET me     == Self(w)
      ready  == me.age >= SharkBirthAge
      age    == IF ready THEN me.age ELSE me.age + 1
      fish   == OfType(w, VonNeumann, "Fish")
      empty  == OfType(w, VonNeumann, "Empty")
      energy == IF fish = {} THEN me.energy - 1 ELSE FedEnergy(me.energy - 1)
      half   == Shark(0, SharedEnergy(energy))
      Go(p)  == IF ready THEN MoveLeaving(w, p, half, half)
                ELSE MoveLeaving(w, p, Empty, Shark(age, energy))
  IN  CASE me.energy = 0 -> {Put(w, Center, Empty)}
        [] me.energy > 0 /\ fish # {} -> {Go(p) : p \in fish}
        [] me.energy > 0 /\ fish = {} /\ empty # {} -> {Go(p) : p \in empty}
        [] OTHER -> {Put(w, Center, Shark(age, energy))}
=============================================================================
