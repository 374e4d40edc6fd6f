--------------------------- MODULE TribalElements --------------------------
(***************************************************************************)
(* Bases that turn Res to gold and gold to units, Infantry that kills      *)
(* units of other tribes, and Mines that bring Res and gold.  The friendly *)
(* bases a Base counts change only its odds of moving.                     *)
(***************************************************************************)
EXTENDS EventWindow

CONSTANTS
  GoldPerRes,       \* m_goldPerRes
  BaseCost,         \* m_baseGoldCost
  InfantryCost      \* m_infantryGoldCost

ASSUME TribalAssumption ==
  GoldPerRes \in Nat /\ BaseCost \in Nat /\ InfantryCost \in Nat

GoldField == 256           \* eight bits
ExhaustField == 1048576    \* twenty bits
East == <<1, 0>>

Base(tribe, gold) == [type |-> "Base", tribe |-> tribe, gold |-> gold]
Infantry(tribe, dir) == [type |-> "Infantry", tribe |-> tribe, dir |-> dir]
Mine(exhaust) == [type |-> "Mine", exhaust |-> exhaust]

\* Whether an atom is of a tribe is asked in two ways: of its bits, whatever its element
\* (which of those here only Bases and Infantry have bits there), or of its element.
NoTribe == "none"
GetTribe(atom) == IF "tribe" \in DOMAIN atom THEN atom.tribe ELSE NoTribe
IsTribal(atom) == GetTribe(atom) # NoTribe
IsInSameTribe(a, b) == IsTribal(a) /\ IsTribal(b) /\ GetTribe(a) = GetTribe(b)
IsUnit(atom) == atom.type \in {"Base", "Infantry"}

\* The set of swappables is built from the first of its three types only.
ShouldSwap(you, me) == IF IsTribal(you) /\ IsTribal(me) THEN IsInSameTribe(you, me)
                       ELSE you.type = "Empty"

CanMove(w, p, self) == IsLiveSite(w, p) /\ ShouldSwap(AtomAt(w, p), self)
MoveTo(w, p, self) == Swap(w, p, Center) \o Put(w, p, self)

\* Any of the enemies next to it may die; then it moves on or stays, renewed.
Kills(w, enemies) ==
  FoldSet(LAMBDA d, plans : Both(plans, Maybe({Put(w, d, Empty)})), {Stay}, enemies)
InfantryBehavior(w) ==
  LET enemies == {d \in VonNeumann : /\ IsLiveSite(w, d)
                                     /\ IsUnit(AtomAt(w, d))
                                     /\ GetTribe(AtomAt(w, d)) # GetTribe(Self(w))}
      March(v) ==
        {LET self == [Self(v) EXCEPT !.dir = d]
         IN  IF CanMove(v, d, self) THEN MoveTo(v, d, self) ELSE Put(v, Center, self)
         : d \in {Self(v).dir} \cup Moore}
  IN  Then(w, Kills(w, enemies), March)

\* The first empty neighbour in the order of MDist: by column, then by row.
FirstEmpty(w) ==
  LET Precedes(p, q) == p[1] < q[1] \/ (p[1] = q[1] /\ p[2] <= q[2])
      empty == OfType(w, VonNeumann, "Empty")
  IN  {p \in empty : \A q \in empty : Precedes(p, q)}

\* What a Base has done so far in an event, and the gold it has in hand: [plan, gold].
\* A purchase is tried once, if the gold and the odds allow it.
BuyUnpaid(w, done, cost, unit) ==
  LET v == After(w, done.plan)
  IN  {done} \cup {[done EXCEPT !.plan = @ \o Put(v, p, unit)]
                   : p \in IF done.gold >= cost THEN FirstEmpty(v) ELSE {}}
Buy(w, done, cost, unit) ==
  LET v == After(w, done.plan)
  IN  {done} \cup {[plan |-> done.plan \o Put(v, p, unit), gold |-> done.gold - cost]
                   : p \in IF done.gold >= cost THEN FirstEmpty(v) ELSE {}}

\* It eats, buys a base, buys infantry, and moves on or stays; only then is the gold in
\* hand stored, in eight bits.
BaseBehavior(w) ==
  LET res   == OfType(w, VonNeumann, "Res")
      eaten == [plan |-> FoldSet(LAMBDA p, plan : plan \o Put(w, p, Empty), Stay, res),
                gold |-> Self(w).gold + GoldPerRes * Cardinality(res)]
      tribe == Self(w).tribe
      armed == UNION {Buy(w, based, InfantryCost, Infantry(tribe, East))
                      : based \in Buy(w, eaten, BaseCost, Base(tribe, 0))}
      Settle(done) ==
        LET v    == After(w, done.plan)
            self == [Self(w) EXCEPT !.gold = done.gold % GoldField]
            ends == {Put(v, Center, self)} \cup
                    {MoveTo(v, d, self) : d \in {d \in VonNeumann : CanMove(v, d, self)}}
        IN  {done.plan \o more : more \in ends}
  IN  UNION {Settle(done) : done \in armed}

\* One random neighbour, read even beyond the universe's edge, gets Res or gold.  A Mine
\* whose exhaustion is zero (as bits from a file may say, or radiation) asks for a chance
\* of one in none, which FAILs: its event ends with the Mine erased.
MineBehavior(w) ==
  LET tired == [Self(w) EXCEPT !.exhaust =
                  (@ + (IF @ \div 10 > 1 THEN @ \div 10 ELSE 1)) % ExhaustField]
      Keep(a) == Put(w, Center, a)
      Give(d) == LET base == AtomAt(w, d)
                 IN  Put(w, d, [base EXCEPT !.gold = (@ + GoldPerRes) % GoldField])
      Work(d) ==
        CASE TypeAt(w, d) = "Empty" ->
               {Keep(Self(w))} \cup {Put(w, d, Res) \o Keep(a) : a \in {Self(w), tired}}
          [] TypeAt(w, d) = "Base" -> {Keep(Self(w)), Give(d) \o Keep(Self(w))}
          [] OTHER -> {Keep(Self(w))}
  IN  IF Self(w).exhaust = 0 THEN {Put(w, Center, Empty)} ELSE UNION {Work(d) : d \in VonNeumann}
=============================================================================
