------------------------- MODULE RegulatorElements -------------------------
(***************************************************************************)
(* Elements that regulate density, carry other atoms about, or overrun     *)
(* their surroundings.  Each operator XBehavior(w) is the set of plans of  *)
(* Element_X::Behavior over the window w; odds are left open, so that      *)
(* whatever has a chance may happen.                                       *)
(***************************************************************************)
EXTENDS EventWindow

CONSTANTS
  TargetDensity,    \* Creg's m_targetDensity
  SearchRadius,     \* Dmover's m_searchRadius
  WanderDistance,   \* of both Wanderers
  BombRange,        \* m_bombRange of the ForkBombs; Behavior lets it be R at most
  BombCount         \* ForkBomb3's m_bombCount

ASSUME BombAssumption == BombRange \in 0..R

AntiFork(level) == [type |-> "AntiFork", level |-> level]
ForkBombTypes == {"BombRed", "BombBlue", "BombYellow"}

ResBehavior(w) == Diffuse(w)

DregBehavior(w) ==
  LET Regulate(d) ==
        IF ~IsLiveSite(w, d) THEN {Stay} ELSE
        CASE TypeAt(w, d) = "Empty" -> Maybe({Put(w, d, Self(w)), Put(w, d, Res)})
          [] TypeAt(w, d) = "Wall"  -> {Stay}
          [] OTHER                  -> Maybe({Put(w, d, Empty)})
  IN  Then(w, UNION {Regulate(d) : d \in VonNeumann}, Diffuse)

\* Creg looks at and writes to every point, live or not.
CregBehavior(w) ==
  LET cregs  == {p \in Ring(0, R) : TypeAt(w, p) = "Creg"}
      others == {p \in Ring(0, R) : TypeAt(w, p) \notin {"Creg", "Wall"}}
  IN  CASE Cardinality(cregs) > TargetDensity ->
             PickOne(cregs, LAMBDA p : Put(w, p, Empty))
        [] Cardinality(cregs) < TargetDensity ->
             PickOne(others, LAMBDA p : Put(w, p, [type |-> "Creg"]))
        [] OTHER -> {Stay}

\* Carry some occupied neighbour to an empty one, or turn spare Res to Mover.
CarryAmong(w, near) ==
  LET Those(type) == OfTypeAnywhere(w, near, type)
      mayClone == Those(Self(w).type) = {} /\ Cardinality(Those("Res")) > 1
      Carry(occup) ==
        IF mayClone /\ TypeAt(w, occup) = "Res" THEN {Put(w, occup, Self(w))}
        ELSE PickOne(Those("Empty"), LAMBDA e : Swap(w, occup, e))
      plans == IF near = Those("Empty") THEN {Stay}
               ELSE UNION {Carry(p) : p \in near \ Those("Empty")}
  IN  Then(w, plans, Diffuse)
MoverBehavior(w) == CarryAmong(w, {d \in VonNeumann : IsLiveSite(w, d)})

\* mfmdha's Mover does not ask which sites are live, and may drop what it carries.
DemoMoverBehavior(w) == CarryAmong(w, VonNeumann)

\* The Directed Mover: an atom from the south to an empty site in the north.
DmoverBehavior(w) ==
  LET seen  == {p \in Ring(1, SearchRadius) : IsLiveSite(w, p)}
      north == {p \in seen : p[2] < 0 /\ TypeAt(w, p) = "Empty"}
      south == {p \in seen : p[2] > 0 /\ TypeAt(w, p) # "Empty"}
  IN  IF north = {} \/ south = {} THEN {Stay}
      ELSE {Swap(w, n, s) : n \in north, s \in south}

\* The PileMaker pulls in what stands alone; what has company, seldom.
CollectorBehavior(w) ==
  LET seen  == {p \in Ring(1, 2) : IsLiveSite(w, p)}
      empty == OfType(w, seen, "Empty")
      res   == OfType(w, seen, "Res")
      me    == OfType(w, seen, "Collector")
      HasCompany(o) == \E q \in Ring(1, 2) : /\ IsLiveSite(w, Plus(o, q))
                                             /\ TypeAt(w, Plus(o, q)) = TypeAt(w, o)
      Clone == IF Cardinality(res) > 1 /\ me = {}
               THEN PickOne(res, LAMBDA p : Put(w, p, Self(w))) ELSE {Stay}
      Collect(o) == {Swap(w, o, e) : e \in empty} \cup (IF HasCompany(o) THEN Clone ELSE {})
      occup == seen \ (empty \cup res \cup me)
      plans == IF occup = {} \/ empty = {} THEN {Stay} ELSE UNION {Collect(o) : o \in occup}
  IN  Then(w, plans, Diffuse)

WandererBehavior(w) ==
  LET Reach(d) == Times(IF Manhattan(d) = 2 THEN WanderDistance \div 2 ELSE WanderDistance, d)
  IN  {IF IsLiveSite(w, Reach(d)) /\ TypeAt(w, Reach(d)) = "Empty"
       THEN Swap(w, Reach(d), Center) ELSE Stay : d \in Moore}

\* SetRelativeAtom at each of the points that is live.
PutAll(w, points, a) ==
  FoldSet(LAMBDA p, plan : plan \o Put(w, p, a), Stay, {p \in points : IsLiveSite(w, p)})

ForkBombBehavior(w) == {PutAll(w, Ring(1, BombRange), Self(w))}

\* BombCount throws at random points, some of them perhaps beyond the edge.
ForkBomb3Behavior(w) ==
  LET near == {p \in Ring(1, R) : IsLiveSite(w, p)}
      canMiss == near # Ring(1, R)
  IN  {PutAll(w, hit, Self(w)) : hit \in
         {S \in SUBSET near : /\ Cardinality(S) <= BombCount
                              /\ S = {} => canMiss \/ BombCount = 0}}

CheckerForkBehavior(w, other) ==
  {PutAll(w, VonNeumann, [type |-> other])}

\* The level spread to the window is one less than the worst seen in it.
SpreadUnabated(worst) == worst
SpreadLevel(worst) == worst - 1

\* Inflamed by a bomb, or by a neighbour one level worse, an AntiFork takes over
\* its whole window; otherwise it calms down, and then keeps its density.
AntiForkBehavior(w) ==
  LET all   == Ring(1, R)
      us    == OfType(w, all, "AntiFork")
      empty == OfType(w, all, "Empty")
      my    == Self(w).level
      bombed == \E p \in all : IsLiveSite(w, p) /\ TypeAt(w, p) \in ForkBombTypes
      worst == IF bombed THEN 4
               ELSE IF \E p \in us : AtomAt(w, p).level = 3 THEN 3 ELSE 0
      inflamed == AntiFork(SpreadLevel(worst))
      weaker == {p \in all : p \in us => AtomAt(w, p).level < SpreadLevel(worst)}
  IN  CASE worst >= 3 -> {Put(w, Center, inflamed) \o PutAll(w, weaker, inflamed)}
        [] worst < 3 /\ my > 0 -> {Put(w, Center, AntiFork(my - 1))}
        [] worst < 3 /\ my = 0 /\ us = {} ->
             PickOne(empty, LAMBDA p : Put(w, p, AntiFork(0)))
        [] worst < 3 /\ my = 0 /\ Cardinality(us) > 3 -> {Put(w, Center, Empty)}
        [] OTHER -> Diffuse(w)
=============================================================================
