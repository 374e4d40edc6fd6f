---------------------------- MODULE TilePhysics ----------------------------
(***************************************************************************)
(* One tile carrying out events: Tile::DoEvent runs ElementTable::Execute  *)
(* on the executing window, the element's Behavior places atoms, and       *)
(* PlaceAtom keeps the tile's counts of atoms in step.  A world is a       *)
(* starting point, chosen once: grid maps the live sites to atoms; those   *)
(* not owned are caches, filled by other tiles with the atoms in arrivals; *)
(* types are those in the element table; radiation says whether there is   *)
(* any.                                                                    *)
(***************************************************************************)
EXTENDS RegulatorElements, SortingElements, WatorElements, TribalElements, CrystalElements

CONSTANTS
  Worlds,        \* the starting points
  XRayed,        \* what an irradiated atom may turn into and still be sane
  FairSites,     \* the sites that fairness is assumed of
  MaxTally,      \* bound on each of the element data's tallies
  MaxExhaust,    \* bound on a Mine's exhaustion
  MaxDrift       \* bound on how far radiation takes the counts from the truth

\* A grid maps finitely many sites, which are points, to atoms; those a tile owns are all
\* live; a table of elements is finite.
ASSUME WorldsAssumption ==
  \A w \in Worlds : /\ w.grid = [s \in DOMAIN w.grid |-> w.grid[s]]
                    /\ IsFiniteSet(DOMAIN w.grid) /\ DOMAIN w.grid \subseteq Int \X Int
                    /\ IsFiniteSet(w.types) /\ w.owned \subseteq DOMAIN w.grid
ASSUME TallyAssumption == MaxTally \in Nat

VARIABLES
  world,    \* the world this is
  tile,     \* [grid, count, illegal, needRecount]
  sym,      \* m_sym of the tile's m_executingWindow
  tally     \* element data of Emitter and Consumer

vars == <<world, tile, sym, tally>>

Owned == world.owned
KnownTypes == world.types
Junk == [type |-> "Junk"]

\* Sites of S that hold an atom whose type is in Types.
Holding(grid, S, Types) == {s \in S : grid[s].type \in Types}

\* RecountAtoms: what is on the owned sites, by type.
Counts(grid, owned) == [k \in KnownTypes |-> Cardinality(Holding(grid, owned, {k}))]
Illegals(grid, owned) == {s \in owned : grid[s].type \notin KnownTypes}
RecountAtoms(t) ==
  [t EXCEPT !.count = Counts(t.grid, Owned), !.illegal = Cardinality(Illegals(t.grid, Owned))]

\* A count is not let below zero: the loss is noted and a recount asked for.
IncrAtomCount(t, type, delta) ==
  IF type \notin KnownTypes THEN [t EXCEPT !.illegal = @ + delta]
  ELSE IF t.count[type] + delta < 0 THEN [t EXCEPT !.needRecount = TRUE]
  ELSE [t EXCEPT !.count[type] = @ + delta]

PlaceAtomAnywhere(t, s, atom) ==
  IF s \notin DOMAIN t.grid THEN t
  ELSE IncrAtomCount(IncrAtomCount([t EXCEPT !.grid[s] = atom], t.grid[s].type, -1), atom.type, 1)
PlaceAtom(t, s, atom) ==
  LET placed == [t EXCEPT !.grid[s] = atom]
      old    == t.grid[s].type
  IN  IF s \notin DOMAIN t.grid THEN t
      ELSE IF s \notin Owned \/ old = atom.type THEN placed
      ELSE IncrAtomCount(IncrAtomCount(placed, old, -1), atom.type, 1)

\* PlaceAtom's way out when what it would place turns out insane.
EraseAtom(t, s) == RecountAtoms([t EXCEPT !.grid[s] = Empty])

Perform(t, plan) == FoldLeft(LAMBDA u, write : PlaceAtom(u, write[1], write[2]), t, plan)

\* Execute and Behavior.  A Rocket's behaviour, which is not written, and an
\* unknown type fail; DoEvent then erases the centre.
Behavior(w) ==
  LET type == Self(w).type
  IN  CASE type \in {"Empty", "Wall", "Block"} -> {Stay}
        [] type \in {"Res", "Indexed"} -> Diffuse(w)
        [] type = "Dreg" -> DregBehavior(w)
        [] type = "Creg" -> CregBehavior(w)
        [] type = "Mover" -> MoverBehavior(w)
        [] type = "DemoMover" -> DemoMoverBehavior(w)
        [] type = "Dmover" -> DmoverBehavior(w)
        [] type = "Collector" -> CollectorBehavior(w)
        [] type = "Wanderer" -> WandererBehavior(w)
        [] type \in {"BombRed", "BombBlue"} -> ForkBombBehavior(w)
        [] type = "BombYellow" -> ForkBomb3Behavior(w)
        [] type = "CheckerRed" -> CheckerForkBehavior(w, "CheckerBlue")
        [] type = "CheckerBlue" -> CheckerForkBehavior(w, "CheckerRed")
        [] type = "AntiFork" -> AntiForkBehavior(w)
        [] type = "Data" -> DataBehavior(w)
        [] type = "Sorter" -> SorterBehavior(w)
        [] type = "Fish" -> FishBehavior(w)
        [] type = "Shark" -> SharkBehavior(w)
        [] type = "Infantry" -> InfantryBehavior(w)
        [] type = "Base" -> BaseBehavior(w)
        [] type = "Mine" -> MineBehavior(w)
        [] type = "MQBar" -> MQBarBehavior(w)
        [] type = "DemoMQBar" -> DemoMQBarBehavior(w)
        [] type = "QBar" -> QBarBehavior(w)
        [] type = "SBar" -> SBarBehavior(w)
        [] type = "DBar" -> DBarBehavior(w)
        [] type \in CrystalTypes -> XtalBehavior(w)
        [] OTHER -> {Put(w, Center, Empty)}

SetsSymmetry(atom) == atom.type \in BarTypes \cup CrystalTypes
SymmetryOf(atom) == IF atom.type \in BarTypes THEN atom.sym ELSE CrystalSymmetry(atom)

Outcomes(w) ==
  CASE Self(w).type = "Emitter"  -> EmitterBehavior(w)
    [] Self(w).type = "Consumer" -> ConsumerBehavior(w)
    [] OTHER -> Silently(Behavior(w))

Init ==
  /\ world \in Worlds
  /\ tile = [grid |-> world.grid, needRecount |-> FALSE,
             count |-> Counts(world.grid, Owned),
             illegal |-> Cardinality(Illegals(world.grid, Owned))]
  /\ sym = 0
  /\ tally = NoTally

WindowAt(s) == [grid |-> tile.grid, center |-> s, sym |-> sym]

InBounds ==
  /\ \A k \in DOMAIN tally : tally'[k] <= MaxTally
  /\ \A s \in Holding(tile'.grid, DOMAIN tile.grid, {"Mine"}) :
       tile'.grid[s].exhaust <= MaxExhaust
  /\ tile'.illegal \in -MaxDrift..Cardinality(Owned) + MaxDrift
  /\ \A k \in KnownTypes : tile'.count[k] <= Cardinality(Owned) + MaxDrift

\* An event at s with this outcome.  Nothing gives the window its first symmetry
\* back: the next event of any element finds what the last crystal or bar has set.
Carry(s, outcome) ==
  /\ tile' = Perform(tile, outcome.plan)
  /\ tally' = [k \in DOMAIN tally |-> tally[k] + outcome.tally[k]]
  /\ sym' = IF SetsSymmetry(tile.grid[s]) THEN SymmetryOf(tile.grid[s]) ELSE sym
  /\ InBounds
  /\ UNCHANGED world

DoEvent(s) == \E outcome \in Outcomes(WindowAt(s)) : Carry(s, outcome)

\* Background radiation strikes the last atom that an event places.
IrradiatedEvent(s) ==
  /\ world.radiation
  /\ \E outcome \in Outcomes(WindowAt(s)) :
       LET plan == outcome.plan
           hit  == plan[Len(plan)][1]
           before == Perform(tile, SubSeq(plan, 1, Len(plan) - 1))
       IN  /\ plan # Stay
           /\ hit \in DOMAIN tile.grid
           /\ \/ \E atom \in XRayed : tile' = PlaceAtom(before, hit, atom)
              \/ tile' = EraseAtom(before, hit)
  /\ sym' = IF SetsSymmetry(tile.grid[s]) THEN SymmetryOf(tile.grid[s]) ELSE sym
  /\ UNCHANGED <<world, tally>>
  /\ InBounds

\* XRay alters an atom where it is and leaves the counts alone.
XRay(s) ==
  /\ world.radiation
  /\ s \in DOMAIN tile.grid
  /\ \E atom \in XRayed : tile' = [tile EXCEPT !.grid[s] = atom]
  /\ UNCHANGED <<world, sym, tally>>

\* An update packet for a cached site.
ReceiveUpdate(s) ==
  /\ s \notin Owned
  /\ \E atom \in world.arrivals : tile' = PlaceAtom(tile, s, atom)
  /\ UNCHANGED <<world, sym, tally>>

RecountAtomsIfNeeded ==
  /\ tile.needRecount
  /\ tile' = [RecountAtoms(tile) EXCEPT !.needRecount = FALSE]
  /\ UNCHANGED <<world, sym, tally>>

Next ==
  \/ \E s \in Owned : DoEvent(s) \/ IrradiatedEvent(s)
  \/ \E s \in DOMAIN tile.grid : XRay(s) \/ ReceiveUpdate(s)
  \/ RecountAtomsIfNeeded

\* Every site gets its turn, and every random choice its chance, again and again.
\* The two kinds of event that the liveness properties rely on: an inflamed atom may
\* be swapped away and back before its turn comes, hence strong fairness for it.
CalmDown(s) ==
  /\ s \in Owned /\ tile.grid[s].type = "AntiFork" /\ tile.grid[s].level > 0
  /\ DoEvent(s)
LookAlongStack(s, down) ==
  /\ s \in Owned /\ tile.grid[s].type = "Consumer"
  /\ \E plan \in LookAlong(WindowAt(s), down) \ {Stay} :
       Carry(s, [plan |-> plan, tally |-> NoTally])

Fairness == \A s \in FairSites : /\ SF_vars(CalmDown(s))
                                /\ \A down \in BOOLEAN : WF_vars(LookAlongStack(s, down))

Spec == Init /\ [][Next]_vars /\ Fairness

(* -- What the physics keeps ---------------------------------------------- *)

\* All the types there are at the start, or may come.
Starting == {world.grid[s].type : s \in DOMAIN tile.grid}
Calm == ~world.radiation /\ world.arrivals = {}
Number(grid, Types) == Cardinality(Holding(grid, DOMAIN grid, Types))
Total(grid, Types, Value(_)) ==
  MapThenSumSet(LAMBDA s : Value(grid[s]), Holding(grid, DOMAIN grid, Types))

\* An atom has its element's fields, and what they hold is within their bits, or bounds.
FieldsFit(a) ==
  /\ "type" \in DOMAIN a
  /\ CASE a.type \in StackTypes ->
            a \in [type : StackTypes, below : 0..StackField - 1, above : 0..StackField - 1]
       [] a.type = "Data"  -> a = Data(a.value) /\ a.value \in 1..DataMax
       [] a.type = "Fish"  -> a = Fish(a.age) /\ a.age \in 0..FishBirthAge
       [] a.type = "Shark" -> /\ a = Shark(a.age, a.energy)
                              /\ a.age \in 0..SharkBirthAge /\ a.energy \in 0..MaxSharkEnergy
       [] a.type = "Base"  -> a = Base(a.tribe, a.gold) /\ a.gold \in 0..GoldField - 1
       [] a.type = "Mine"  -> a = Mine(a.exhaust) /\ a.exhaust \in 0..ExhaustField - 1
       [] a.type = "AntiFork" -> a = AntiFork(a.level) /\ a.level \in 0..3
       [] a.type \in TimedBarTypes ->
            /\ a \in [type : TimedBarTypes, pos : Nat \X Nat, max : Sizes, sym : 0..3, timer : 0..MaxTimer]
            /\ InBar(a.pos, a.max)
       [] a.type \in {"SBar", "DBar"} ->
            /\ a \in [type : {"SBar", "DBar"}, pos : Nat \X Nat, max : Sizes, sym : 0..7]
            /\ InBar(a.pos, a.max)
       [] OTHER -> TRUE

\* The atoms a world starts with, those that come to it from other tiles, and those that
\* radiation leaves where there is any, fit.
AtomsComeFit ==
  \A w \in Worlds : /\ \A s \in DOMAIN w.grid : FieldsFit(w.grid[s])
                    /\ \A a \in w.arrivals : FieldsFit(a)
                    /\ w.radiation => \A a \in XRayed : FieldsFit(a)

\* Sites keep their places and atoms fit; counts are natural numbers, though
\* illegalAtomCount may well be negative; the symmetry is one of the eight.
PhysicsTypeOK ==
  /\ \A s \in DOMAIN tile.grid : FieldsFit(tile.grid[s])
  /\ DOMAIN tile.grid = DOMAIN world.grid
  /\ tile.count \in [KnownTypes -> Nat]
  /\ tile.illegal \in Int
  /\ tile.needRecount \in BOOLEAN
  /\ sym \in 0..7
  /\ tally \in [DOMAIN NoTally -> 0..MaxTally]

\* Tile::IncrAtomCount under all that places atoms: unless a recount has been
\* asked for, the counts add up to the owned sites, whatever radiation does;
\* without radiation they are right, type by type (AssertValidAtomCounts).
CountsAgree ==
  /\ ~world.radiation =>
       tile = [RecountAtoms(tile) EXCEPT !.needRecount = FALSE]
  /\ tile.needRecount \/
       tile.illegal + SumFunction(tile.count) = Cardinality(Owned)

\* The tallies GetAndResetDatumsEmitted and its like report are the whole story
\* of the Data in a sorting world: none is lost over an edge or between hands.
DataAccounted ==
  (Calm /\ Starting \subseteq {"Empty", "Res", "Wall", "Data", "Sorter", "Emitter", "Consumer"}) =>
    Number(tile.grid, {"Data"}) + tally.consumed =
      Number(world.grid, {"Data"}) + tally.emitted - tally.rejected

\* Bars and crystals are built of Res: no step makes matter, and a crystal's step
\* loses none (a bar's cell made beyond the universe's edge does cost a Res).
Matter(grid) == Number(grid, {"Res"} \cup BarTypes \cup CrystalTypes)
MatterKept ==
  [][(Calm /\ Starting \subseteq {"Empty", "Res", "Wall"} \cup BarTypes \cup CrystalTypes) =>
           /\ Matter(tile'.grid) <= Matter(tile.grid)
           /\ BarTypes \cap Starting = {} => Matter(tile'.grid) = Matter(tile.grid)]_vars

\* What movers carry about is never dropped over an edge nor multiplied.
CargoKept ==
  (Calm /\ Starting \subseteq {"Empty", "Res", "Wall", "Block", "Indexed", "Mover", "Dmover",
                               "Collector", "Wanderer"}) =>
    \A k \in {"Empty", "Wall", "Block", "Indexed", "Dmover", "Wanderer"} :
      Number(tile.grid, {k}) = Number(world.grid, {k})

\* Where no Mine adds to it, the wealth of all tribes, in gold, in Res and in
\* units at cost, never grows: no unit is had for nothing, no Res paid twice.
Worth(a) == CASE a.type = "Base" -> a.gold + BaseCost
              [] a.type = "Infantry" -> InfantryCost
              [] OTHER -> GoldPerRes
Wealth(grid) == Total(grid, {"Base", "Infantry", "Res"}, Worth)
EconomyBalanced ==
  [][(Calm /\ Starting \subseteq {"Empty", "Res", "Wall", "Base", "Infantry"}) =>
           Wealth(tile'.grid) <= Wealth(tile.grid)]_vars

\* Sharks get energy from fish alone: only a step that takes a fish may raise
\* their energy, by no more than a fish is worth less the event spent.
Energy(grid) == Total(grid, {"Shark"}, LAMBDA a : a.energy)
SharksPayForFish ==
  [][(Calm /\ Starting \subseteq {"Empty", "Fish", "Shark", "Wall"}) =>
           \/ Energy(tile'.grid) <= Energy(tile.grid)
           \/ /\ Number(tile'.grid, {"Fish"}) = Number(tile.grid, {"Fish"}) - 1
              /\ Energy(tile'.grid) < Energy(tile.grid) + EnergyPerFish]_vars

\* AntiForks calm down once there is no bomb about.
Inflamed == \E s \in Holding(tile.grid, Owned, {"AntiFork"}) : tile.grid[s].level > 0
Bombed == Holding(tile.grid, Owned, ForkBombTypes) # {}
InflammationSubsides == ~Bombed ~> ~Inflamed

\* A column of Consumers between walls in the end knows how many are above and
\* below each of them, whatever the copies believed when they were made.
StackCountsRight ==
  \A s \in Holding(tile.grid, DOMAIN tile.grid, {"Consumer"}) :
    LET mates == Holding(tile.grid, DOMAIN tile.grid, {"Consumer"})
    IN  /\ tile.grid[s].below = Cardinality({m \in mates : m[2] > s[2]})
        /\ tile.grid[s].above = Cardinality({m \in mates : m[2] < s[2]})
StackCountsSettle == Starting = {"Wall", "Empty", "Consumer"} ~> []StackCountsRight

\* Element_Dmover's own description: it moves southern atoms to northern empty
\* sites, so a Block that moves where only a Dmover moves Blocks goes north.
DmoverMovesNorth ==
  [][(Calm /\ Starting \subseteq {"Empty", "Block", "Dmover", "MQBar"}) =>
     \A s, t \in DOMAIN tile.grid :
       (/\ tile.grid[s].type = "Block" /\ tile'.grid[s].type = "Empty"
        /\ tile.grid[t].type = "Empty" /\ tile'.grid[t].type = "Block") => t[2] < s[2]]_vars
=============================================================================
