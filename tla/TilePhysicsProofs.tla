------------------------- MODULE TilePhysicsProofs --------------------------
(***************************************************************************)
(* A tile's atoms stay within the bounds of their fields, its counts of    *)
(* atoms are kept, and its elements keep what they claim to, in every      *)
(* world.  First the atoms that fit.  Then whatever an element does in an  *)
(* event is a plan, finitely many writes one after another, of atoms that  *)
(* fit where those seen do: one lemma for each behaviour, along its        *)
(* choices.  Then what one write makes of the counts, and what a fold of   *)
(* writes does; and PhysicsInv is inductive, one step for each action of   *)
(* the tile.  Last, what a plan leaves of a kind of atom (cargo, data,     *)
(* matter), and what it yields of an amount (wealth, energy).              *)
(***************************************************************************)
EXTENDS TilePhysics, FoldProofs, SequenceTheorems

\* Atoms without fields, or with fields of any value.
Bounded == StackTypes \cup BarTypes \cup {"Data", "Fish", "Shark", "Base", "Mine", "AntiFork"}
LEMMA PlainFits == ASSUME NEW a, "type" \in DOMAIN a, a.type \notin Bounded PROVE FieldsFit(a)
  BY DEF FieldsFit, Bounded, BarTypes
LEMMA SimpleFits == \A t : t \notin Bounded => FieldsFit([type |-> t])
  BY PlainFits
LEMMA EmptyAndResFit == FieldsFit(Empty) /\ FieldsFit(Res)
  BY SimpleFits DEF Empty, Res, Bounded, StackTypes, BarTypes, TimedBarTypes
LEMMA InfantryFits == \A tribe, dir : FieldsFit(Infantry(tribe, dir))
  <1> TAKE tribe, dir
  <1> DEFINE a == Infantry(tribe, dir)
  <1>1. a.type = "Infantry" /\ "type" \in DOMAIN a  BY DEF Infantry
  <1> HIDE DEF a
  <1>2. QED  BY <1>1, PlainFits DEF a, Bounded, StackTypes, BarTypes, TimedBarTypes

\* Atoms with fields.
LEMMA DataFits == \A n \in 1..DataMax : FieldsFit(Data(n))
  BY DEF FieldsFit, Data, StackTypes, TimedBarTypes
LEMMA FishFits == \A n \in 0..FishBirthAge : FieldsFit(Fish(n))
  BY DEF FieldsFit, Fish, StackTypes, TimedBarTypes
LEMMA SharkFits == \A n \in 0..SharkBirthAge, m \in 0..MaxSharkEnergy : FieldsFit(Shark(n, m))
  BY DEF FieldsFit, Shark, StackTypes, TimedBarTypes
LEMMA BaseFits == \A tribe : \A n \in 0..GoldField - 1 : FieldsFit(Base(tribe, n))
  BY DEF FieldsFit, Base, StackTypes, TimedBarTypes
LEMMA MineFits == \A n \in 0..ExhaustField - 1 : FieldsFit(Mine(n))
  BY DEF FieldsFit, Mine, StackTypes, TimedBarTypes
LEMMA AntiForkFits == \A n \in 0..3 : FieldsFit(AntiFork(n))
  BY DEF FieldsFit, AntiFork, StackTypes, TimedBarTypes
LEMMA StackFits ==
  \A a \in [type : StackTypes, below : 0..StackField - 1, above : 0..StackField - 1] : FieldsFit(a)
  BY DEF FieldsFit, StackTypes, TimedBarTypes
TimedBars == [type : TimedBarTypes, pos : Nat \X Nat, max : Sizes, sym : 0..3, timer : 0..MaxTimer]
OtherBars == [type : {"SBar", "DBar"}, pos : Nat \X Nat, max : Sizes, sym : 0..7]
LEMMA BarsFit ==
  /\ \A a \in TimedBars : InBar(a.pos, a.max) => FieldsFit(a)
  /\ \A a \in OtherBars : InBar(a.pos, a.max) => FieldsFit(a)
  BY DEF FieldsFit, TimedBars, OtherBars, TimedBarTypes, StackTypes

\* What the fields of one that fits hold.
LEMMA FieldsOfOne ==
  ASSUME NEW a, FieldsFit(a)
  PROVE  /\ a.type \in StackTypes =>
              a \in [type : StackTypes, below : 0..StackField - 1, above : 0..StackField - 1]
         /\ a.type = "Data"  => a = Data(a.value) /\ a.value \in 1..DataMax
         /\ a.type = "Fish"  => a = Fish(a.age) /\ a.age \in 0..FishBirthAge
         /\ a.type = "Shark" => /\ a = Shark(a.age, a.energy)
                                /\ a.age \in 0..SharkBirthAge /\ a.energy \in 0..MaxSharkEnergy
         /\ a.type = "Base"  => a = Base(a.tribe, a.gold) /\ a.gold \in 0..GoldField - 1
         /\ a.type = "Mine"  => a = Mine(a.exhaust) /\ a.exhaust \in 0..ExhaustField - 1
         /\ a.type = "AntiFork" => a = AntiFork(a.level) /\ a.level \in 0..3
         /\ a.type \in TimedBarTypes => a \in TimedBars /\ InBar(a.pos, a.max)
         /\ a.type \in {"SBar", "DBar"} => a \in OtherBars /\ InBar(a.pos, a.max)
  BY DEF FieldsFit, TimedBars, OtherBars, TimedBarTypes, StackTypes

\* A field that has no bounds may be set to anything.
LEMMA AnyThreshold ==
  ASSUME NEW a, FieldsFit(a), NEW n
  PROVE  FieldsFit([a EXCEPT !.threshold = n])
  <1>1. CASE a.type \notin Bounded
    <2> DEFINE b == [a EXCEPT !.threshold = n]
    <2>1. b.type = a.type /\ "type" \in DOMAIN b  BY DEF FieldsFit
    <2> HIDE DEF b
    <2>2. QED  BY <1>1, <2>1, PlainFits DEF b
  <1>2. CASE a.type \in Bounded
    <2>1. [a EXCEPT !.threshold = n] = a
      BY <1>2, FieldsOfOne DEF Bounded, BarTypes, TimedBars, OtherBars, Data, Fish, Shark, Base,
                               Mine, AntiFork
    <2>2. QED  BY <2>1
  <1>3. QED  BY <1>1, <1>2
LEMMA AnyDirection ==
  ASSUME NEW a, FieldsFit(a), NEW d
  PROVE  FieldsFit([a EXCEPT !.dir = d])
  <1>1. CASE a.type \notin Bounded
    <2> DEFINE b == [a EXCEPT !.dir = d]
    <2>1. b.type = a.type /\ "type" \in DOMAIN b  BY DEF FieldsFit
    <2> HIDE DEF b
    <2>2. QED  BY <1>1, <2>1, PlainFits DEF b
  <1>2. CASE a.type \in Bounded
    <2>1. [a EXCEPT !.dir = d] = a
      BY <1>2, FieldsOfOne DEF Bounded, BarTypes, TimedBars, OtherBars, Data, Fish, Shark, Base,
                               Mine, AntiFork
    <2>2. QED  BY <2>1
  <1>3. QED  BY <1>1, <1>2
-----------------------------------------------------------------------------

\* A window whose atoms fit; and a plan, a finite sequence of writes, of atoms that
\* fit as long as those in the window do.
Fitting(w) == /\ w = [grid |-> w.grid, center |-> w.center, sym |-> w.sym]
              /\ w.sym \in 0..7 /\ w.grid = [s \in DOMAIN w.grid |-> w.grid[s]]
              /\ \A s \in DOMAIN w.grid : FieldsFit(w.grid[s])
IsPlan(w, p) == \E S : p \in Seq(S) /\ (Fitting(w) => \A x \in S : FieldsFit(x[2]))
ArePlans(w, plans) == \A p \in plans : IsPlan(w, p)

LEMMA AtomsFit == ASSUME NEW w, Fitting(w), NEW p PROVE FieldsFit(AtomAt(w, p))
  BY EmptyAndResFit DEF Fitting, AtomAt, IsLiveSite

\* No write, one write, one plan after another and two writes that swap are plans.
LEMMA StayIsPlan == \A w : IsPlan(w, Stay)
  <1>1. Stay \in Seq({})  BY DEF Stay
  <1>2. QED  BY <1>1 DEF IsPlan
LEMMA PutIsPlan ==
  ASSUME NEW w, NEW v, NEW p, NEW a, Fitting(w) => FieldsFit(a)
  PROVE  IsPlan(w, Put(v, p, a))
  <1> DEFINE x == <<MapToTile(v, p), a>>
  <1>1. Put(v, p, a) \in Seq({x}) /\ x[2] = a  BY DEF Put
  <1> HIDE DEF x
  <1>2. QED  BY <1>1 DEF IsPlan
LEMMA ConcatIsPlan ==
  ASSUME NEW w, NEW p, NEW q, IsPlan(w, p), IsPlan(w, q)
  PROVE  IsPlan(w, p \o q)
  <1>1. PICK S : p \in Seq(S) /\ (Fitting(w) => \A x \in S : FieldsFit(x[2]))  BY DEF IsPlan
  <1>2. PICK T : q \in Seq(T) /\ (Fitting(w) => \A x \in T : FieldsFit(x[2]))  BY DEF IsPlan
  <1>3. p \in Seq(S \cup T) /\ q \in Seq(S \cup T)  BY <1>1, <1>2, SeqMonotonic
  <1>4. p \o q \in Seq(S \cup T)  BY <1>3, ConcatProperties
  <1>5. QED  BY <1>1, <1>2, <1>4 DEF IsPlan

\* Empty, Res and copies of atoms in the window may be put anywhere.
LEMMA PlainPuts ==
  \A w, v, p : /\ IsPlan(w, Put(v, p, Empty)) /\ IsPlan(w, Put(v, p, Res))
               /\ \A q : IsPlan(w, Put(v, p, AtomAt(w, q)))
               /\ IsPlan(w, Put(v, p, Self(w)))
  BY PutIsPlan, AtomsFit, EmptyAndResFit DEF Self
LEMMA SwapIsPlan == \A w, p, q : IsPlan(w, Swap(w, p, q))
  BY PlainPuts, ConcatIsPlan DEF Swap

\* One of these and one of those is a plan, when these and those are.
LEMMA BothPlans ==
  ASSUME NEW w, NEW A, NEW B, ArePlans(w, A), ArePlans(w, B)
  PROVE  ArePlans(w, Both(A, B))
  <1>1. ASSUME NEW r \in Both(A, B)  PROVE IsPlan(w, r)
    <2>1. PICK p \in A, q \in B : r = p \o q  BY DEF Both
    <2>2. QED  BY <2>1, ConcatIsPlan DEF ArePlans
  <1>2. QED  BY <1>1 DEF ArePlans
LEMMA DiffusePlans == \A w : ArePlans(w, Diffuse(w))
  BY SwapIsPlan, StayIsPlan DEF Diffuse, ArePlans

\* A window turned is as fitting.
LEMMA TurnedFits == ASSUME NEW w, Fitting(w), NEW n \in 0..7 PROVE Fitting(Turned(w, n))
  <1> DEFINE v == Turned(w, n)
  <1>1. v = [grid |-> w.grid, center |-> w.center, sym |-> n]  BY DEF Fitting, Turned
  <1> HIDE DEF v
  <1>2. v.grid = w.grid /\ v.center = w.center /\ v.sym = n  BY <1>1
  <1>3. QED  BY <1>1, <1>2 DEF Fitting, v
\* What a plan leaves behind: each site holds what it held or what was written to it,
\* by the fold's own steps.
Laid(grid, write) ==
  IF write[1] \in DOMAIN grid THEN [grid EXCEPT ![write[1]] = write[2]] ELSE grid
Lays(g, grid, plan) ==
  g = [s \in SUBSET DOMAIN plan |->
         IF s = {} THEN grid ELSE Laid(g[s \ {Max(s)}], plan[Max(s)])]
LayAll(grid, plan) == FoldLeft(Laid, grid, plan)
LEMMA LayingIsRecursive ==
  ASSUME NEW grid, NEW plan
  PROVE  LayAll(grid, plan) = (CHOOSE g : Lays(g, grid, plan))[DOMAIN plan]
  BY DEF LayAll, FoldLeft, MapThenFoldSet, Lays
LEMMA AfterLays == \A w, plan : After(w, plan) = [w EXCEPT !.grid = LayAll(w.grid, plan)]
  BY DEF After, LayAll, Laid

\* The fold of a sequence takes the last of its indices first.
LEMMA LargestIsThere ==
  ASSUME NEW n \in Nat, NEW s \in SUBSET (1..n), s # {}
  PROVE  Max(s) \in s
  <1> DEFINE T == {n - i : i \in s}
  <1>1. T \in SUBSET Nat /\ T # {}
    <2>1. \A i \in s : n - i \in Nat /\ n - i \in T  OBVIOUS
    <2>2. T \subseteq Nat  BY <2>1
    <2>3. PICK i \in s : TRUE  OBVIOUS
    <2>4. n - i \in T  BY <2>1
    <2>5. QED  BY <2>2, <2>4
  <1>2. PICK m \in T : \A y \in T : ~ (y < m)
    <2> HIDE DEF T
    <2>1. QED  BY <1>1, LeastNatural
  <1>3. PICK i \in s : m = n - i  BY <1>2
  <1>4. \A j \in s : n - j \in T  OBVIOUS
  <1>5. ASSUME NEW j \in s  PROVE i >= j
    <2>1. ~ (n - j < n - i)  BY <1>2, <1>3, <1>4
    <2> HIDE DEF T
    <2>2. i \in Int /\ j \in Int /\ n \in Int  OBVIOUS
    <2>3. QED  BY <2>1, <2>2
  <1>6. QED  BY <1>3, <1>5 DEF Max

\* What each write keeps, a plan keeps.
LEMMA LayingKeeps ==
  ASSUME NEW V, NEW grid \in V, NEW S, NEW plan \in Seq(S), \A x \in S : \A u \in V : Laid(u, x) \in V
  PROVE  LayAll(grid, plan) \in V
  <1> DEFINE I == DOMAIN plan
             F == [i \in I |-> [u \in V |-> Laid(u, plan[i])]]
             c == [s \in SUBSET I |-> Max(s)]
  <1>1. PICK n \in Nat : I = 1..n /\ \A i \in I : plan[i] \in S  BY LenProperties
  <1>2. IsFiniteSet(I)  BY <1>1, FS_Interval
  <1>3. ASSUME NEW i \in I, NEW u \in V  PROVE Laid(u, plan[i]) \in V
    BY <1>1
  <1>4. \A s \in SUBSET I : s # {} => Max(s) \in s  BY <1>1, LargestIsThere
  <1> HIDE DEF I
  <1>6. Acts(F, I, V) /\ Chooses(c, I)  BY <1>3, <1>4 DEF Acts, Chooses
  <1>7. \A i \in I : \A u \in V : F[i][u] = Laid(u, plan[i])  OBVIOUS
  <1>8. \A s \in SUBSET I : c[s] = Max(s)  OBVIOUS
  <1> HIDE DEF F, c
  <1>9. HasFold(grid, F, c, I, V)  BY <1>2, <1>6, FoldExists
  <1>10. PICK g \in [SUBSET I -> V] : FoldOf(g, grid, F, c, I)  BY <1>9 DEF HasFold
  <1>11. Lays(g, grid, plan)
    <2> SUFFICES ASSUME NEW s \in SUBSET I, s # {}
                 PROVE  g[s] = Laid(g[s \ {Max(s)}], plan[Max(s)])
      BY <1>10 DEF FoldOf, Lays, I
    <2>1. g[s] = F[Max(s)][g[s \ {Max(s)}]]  BY <1>8, <1>10 DEF FoldOf
    <2>2. Max(s) \in I /\ g[s \ {Max(s)}] \in V  BY <1>4
    <2>3. QED  BY <1>7, <2>1, <2>2
  <1> DEFINE h == CHOOSE k : Lays(k, grid, plan)
  <1>12. Lays(h, grid, plan)  BY <1>11
  <1> HIDE DEF h
  <1>13. Keeps(h, c, I, V)
    <2>1. h[{}] \in V  BY <1>12 DEF Lays, I
    <2> SUFFICES ASSUME NEW s \in SUBSET I, s # {}, h[s \ {Max(s)}] \in V
                 PROVE  h[s] \in V
      BY <1>8, <2>1 DEF Keeps
    <2>2. h[s] = Laid(h[s \ {Max(s)}], plan[Max(s)])  BY <1>12 DEF Lays, I
    <2>3. Max(s) \in I  BY <1>4
    <2>4. QED  BY <1>3, <2>2, <2>3
  <1>14. h[I] \in V  BY <1>2, <1>6, <1>13, FoldStays
  <1>15. QED  BY <1>14, LayingIsRecursive DEF h, I
LEMMA Laying ==
  ASSUME NEW A, NEW D, NEW grid \in [D -> A], NEW S, NEW plan \in Seq(S), \A x \in S : x[2] \in A
  PROVE  LayAll(grid, plan) \in [D -> A]
  <1>1. \A x \in S : \A u \in [D -> A] : Laid(u, x) \in [D -> A]  BY DEF Laid
  <1>2. QED  BY <1>1, LayingKeeps

\* A plan leaves a fitting window fitting; so plans may follow one another.
LEMMA WindowAfter ==
  ASSUME NEW w, Fitting(w), NEW plan, IsPlan(w, plan)
  PROVE  Fitting(After(w, plan))
  <1>1. PICK S : plan \in Seq(S) /\ \A x \in S : FieldsFit(x[2])  BY DEF IsPlan
  <1> DEFINE A == {w.grid[s] : s \in DOMAIN w.grid} \cup {x[2] : x \in S}
             grid == LayAll(w.grid, plan)
  <1>2. w.grid \in [DOMAIN w.grid -> A]  BY DEF Fitting
  <1>3. \A a \in A : FieldsFit(a)  BY <1>1 DEF Fitting
  <1>4. \A x \in S : x[2] \in A  OBVIOUS
  <1> HIDE DEF A
  <1>5. grid \in [DOMAIN w.grid -> A]  BY <1>1, <1>2, <1>4, Laying
  <1> HIDE DEF grid
  <1>6. After(w, plan) = [grid |-> grid, center |-> w.center, sym |-> w.sym]
    BY AfterLays DEF grid, Fitting
  <1>7. QED  BY <1>3, <1>5, <1>6 DEF Fitting
LEMMA AfterIsPlan ==
  ASSUME NEW w, NEW p, NEW q, IsPlan(w, p), IsPlan(After(w, p), q)
  PROVE  IsPlan(w, p \o q)
  <1>1. IsPlan(w, q)  BY WindowAfter DEF IsPlan
  <1>2. QED  BY <1>1, ConcatIsPlan
LEMMA ThenDiffuse ==
  ASSUME NEW w, NEW plans, ArePlans(w, plans)
  PROVE  ArePlans(w, Then(w, plans, Diffuse))
  <1>1. ASSUME NEW p \in Then(w, plans, Diffuse)  PROVE IsPlan(w, p)
    <2>1. PICK plan \in plans : \E more \in Diffuse(After(w, plan)) : p = plan \o more
      BY DEF Then
    <2>2. QED  BY <2>1, DiffusePlans, AfterIsPlan DEF ArePlans
  <1>2. QED  BY <1>1 DEF ArePlans
-----------------------------------------------------------------------------

\* A Dreg puts or takes what is next to it, then diffuses.
LEMMA DregPlans == \A w : ArePlans(w, DregBehavior(w))
  <1> TAKE w
  <1> DEFINE Regulate(d) ==
        IF ~IsLiveSite(w, d) THEN {Stay} ELSE
        CASE TypeAt(w, d) = "Empty" -> Maybe({Put(w, d, Self(w)), Put(w, d, Res)})
          [] TypeAt(w, d) = "Wall"  -> {Stay}
          [] OTHER                  -> Maybe({Put(w, d, Empty)})
      first == UNION {Regulate(d) : d \in VonNeumann}
  <1>1. \A d : ArePlans(w, Regulate(d))
    BY StayIsPlan, PlainPuts DEF ArePlans, Maybe
  <1> HIDE DEF Regulate
  <1>2. ArePlans(w, first)  BY <1>1 DEF ArePlans
  <1>3. DregBehavior(w) = Then(w, first, Diffuse)  BY DEF DregBehavior, Regulate
  <1> HIDE DEF first
  <1>4. QED  BY <1>2, <1>3, ThenDiffuse

PutsAll(g, w, a, S) ==
  g = [s \in SUBSET S |->
         IF s = {} THEN Stay ELSE g[s \ {Pick(s)}] \o Put(w, Pick(s), a)]
PutEach(w, S, a) == FoldSet(LAMBDA p, plan : plan \o Put(w, p, a), Stay, S)
LEMMA PutAllIsRecursive ==
  ASSUME NEW w, NEW S, NEW a
  PROVE  PutEach(w, S, a) = (CHOOSE g : PutsAll(g, w, a, S))[S]
  BY DEF FoldSet, MapThenFoldSet, Pick, PutsAll, PutEach

\* Putting an atom on each of finitely many points: the fold's own steps.
PutsOf(w, a, S) == {<<MapToTile(w, p), a>> : p \in S}
FoldsPuts(h, w, a, S) ==
  PutsAll(h, w, a, S) /\ PutEach(w, S, a) = h[S] /\ h[S] \in Seq(PutsOf(w, a, S))
LEMMA PutsAreFolded ==
  ASSUME NEW w, NEW S, NEW a, IsFiniteSet(S)
  PROVE  \E h : FoldsPuts(h, w, a, S)
  <1> DEFINE W == PutsOf(w, a, S)
             V == Seq(W)
             F == [p \in S |-> [v \in V |-> v \o Put(w, p, a)]]
             c == [s \in SUBSET S |-> Pick(s)]
  <1>1. Stay \in V  BY DEF Stay
  <1>2. \A p \in S : \A v \in V : v \o Put(w, p, a) \in V
    <2> TAKE p \in S
    <2> TAKE v \in V
    <2>1. Put(w, p, a) \in V  BY DEF Put, PutsOf
    <2> HIDE DEF W
    <2>2. QED  BY <2>1, ConcatProperties
  <1> HIDE DEF V
  <1>3. Acts(F, S, V) /\ Chooses(c, S)  BY <1>2 DEF Acts, Chooses, Pick
  <1>4. \A p \in S : \A v \in V : F[p][v] = v \o Put(w, p, a)  OBVIOUS
  <1>5. \A s \in SUBSET S : c[s] = Pick(s)  OBVIOUS
  <1> HIDE DEF F, c
  <1>6. HasFold(Stay, F, c, S, V)  BY <1>1, <1>3, FoldExists
  <1>7. PICK g \in [SUBSET S -> V] : FoldOf(g, Stay, F, c, S)  BY <1>6 DEF HasFold
  <1>8. PutsAll(g, w, a, S)
    <2> SUFFICES ASSUME NEW s \in SUBSET S, s # {}
                 PROVE  g[s] = g[s \ {Pick(s)}] \o Put(w, Pick(s), a)
      BY <1>7 DEF FoldOf, PutsAll
    <2>1. g[s] = F[Pick(s)][g[s \ {Pick(s)}]]  BY <1>5, <1>7 DEF FoldOf
    <2>2. Pick(s) \in S /\ g[s \ {Pick(s)}] \in V  BY DEF Pick
    <2>3. QED  BY <1>4, <2>1, <2>2
  <1> DEFINE h == CHOOSE k : PutsAll(k, w, a, S)
  <1>9. PutsAll(h, w, a, S)  BY <1>8
  <1> HIDE DEF h
  <1>10. h[{}] \in V  BY <1>1, <1>9 DEF PutsAll
  <1>11. Keeps(h, c, S, V)
    <2> SUFFICES ASSUME NEW s \in SUBSET S, s # {}, h[s \ {Pick(s)}] \in V
                 PROVE  h[s] \in V
      BY <1>5, <1>10 DEF Keeps
    <2>1. h[s] = h[s \ {Pick(s)}] \o Put(w, Pick(s), a)  BY <1>9 DEF PutsAll
    <2>2. Pick(s) \in S  BY DEF Pick
    <2>3. QED  BY <1>2, <2>1, <2>2
  <1>12. h[S] \in V  BY <1>3, <1>11, FoldStays
  <1>13. PutEach(w, S, a) = h[S]  BY PutAllIsRecursive DEF h
  <1>14. QED  BY <1>9, <1>12, <1>13 DEF V, FoldsPuts
LEMMA FoldedPuts ==
  ASSUME NEW w, NEW S, NEW a, IsFiniteSet(S), Fitting(w) => FieldsFit(a)
  PROVE  IsPlan(w, PutEach(w, S, a))
  <1>1. PICK h : FoldsPuts(h, w, a, S)  BY PutsAreFolded
  <1>2. \A x \in PutsOf(w, a, S) : x[2] = a  BY DEF PutsOf
  <1>3. QED  BY <1>1, <1>2 DEF FoldsPuts, IsPlan

LEMMA PutAllIsPlan ==
  ASSUME NEW w, NEW S, NEW a, IsFiniteSet(S), Fitting(w) => FieldsFit(a)
  PROVE  IsPlan(w, PutAll(w, S, a))
  <1> DEFINE live == {p \in S : IsLiveSite(w, p)}
  <1>1. IsFiniteSet(live)  BY FS_Subset
  <1>2. PutAll(w, S, a) = PutEach(w, live, a)  BY DEF PutAll, PutEach
  <1>3. QED  BY <1>1, <1>2, FoldedPuts

\* The window has finitely many points.
LEMMA RingsAreFinite ==
  ASSUME NEW lo \in 0..R, NEW hi \in 0..R
  PROVE  IsFiniteSet(Ring(lo, hi))
  <1>1. R \in Nat  BY WindowAssumption
  <1>2. IsFiniteSet((-R..R) \X (-R..R))
    <2>1. IsFiniteSet(-R..R)  BY <1>1, FS_Interval
    <2>2. QED  BY <2>1, FS_Product
  <1>3. Ring(lo, hi) \subseteq (-R..R) \X (-R..R)
    <2> SUFFICES ASSUME NEW p \in Ring(lo, hi)  PROVE p \in (-R..R) \X (-R..R)
      OBVIOUS
    <2>1. PICK n \in lo..hi : p \in MDist[n]  BY DEF Ring
    <2>2. n \in 0..R  BY <1>1
    <2>3. QED  BY <2>1, <2>2 DEF MDist
  <1>4. QED  BY <1>2, <1>3, FS_Subset

LEMMA CregPlans == \A w : ArePlans(w, CregBehavior(w))
  <1> TAKE w
  <1> DEFINE creg == [type |-> "Creg"]
  <1>1. ArePlans(w, {Stay})  BY StayIsPlan DEF ArePlans
  <1>2. FieldsFit(creg)
    BY SimpleFits DEF Bounded, StackTypes, BarTypes, TimedBarTypes
  <1> HIDE DEF creg
  <1>3. \A S : ArePlans(w, {Put(w, p, Empty) : p \in S}) /\ ArePlans(w, {Put(w, p, creg) : p \in S})
    BY <1>2, PlainPuts, PutIsPlan DEF ArePlans
  <1>4. QED  BY <1>1, <1>3 DEF CregBehavior, PickOne, creg

\* Movers carry or clone, then diffuse.
LEMMA CarryPlans == \A w, near : ArePlans(w, CarryAmong(w, near))
  <1> TAKE w, near
  <1> DEFINE Those(type) == OfTypeAnywhere(w, near, type)
             mayClone == Those(Self(w).type) = {} /\ Cardinality(Those("Res")) > 1
             Carrying(occup) ==
               IF mayClone /\ TypeAt(w, occup) = "Res" THEN {Put(w, occup, Self(w))}
               ELSE PickOne(Those("Empty"), LAMBDA e : Swap(w, occup, e))
             plans == IF near = Those("Empty") THEN {Stay}
                      ELSE UNION {Carrying(p) : p \in near \ Those("Empty")}
  <1>1. \A p : ArePlans(w, Carrying(p))
    BY StayIsPlan, PlainPuts, SwapIsPlan DEF PickOne, ArePlans
  <1>2. CarryAmong(w, near) = Then(w, plans, Diffuse)  BY DEF CarryAmong
  <1> HIDE DEF Carrying, Those
  <1>3. ArePlans(w, plans)  BY <1>1, StayIsPlan DEF ArePlans
  <1> HIDE DEF plans
  <1>4. QED  BY <1>2, <1>3, ThenDiffuse

LEMMA DmoverPlans == \A w : ArePlans(w, DmoverBehavior(w))
  BY StayIsPlan, SwapIsPlan DEF DmoverBehavior, ArePlans

LEMMA WandererPlans == \A w : ArePlans(w, WandererBehavior(w))
  BY StayIsPlan, SwapIsPlan DEF WandererBehavior, ArePlans

LEMMA SelfFits == \A w : Fitting(w) => FieldsFit(Self(w))
  BY AtomsFit DEF Self

\* The fork bombs put atoms on rings of the window.
LEMMA ForkBombPlans == \A w : ArePlans(w, ForkBombBehavior(w))
  <1> TAKE w
  <1>1. IsFiniteSet(Ring(1, BombRange))
    BY WindowAssumption, BombAssumption, RingsAreFinite
  <1>2. QED  BY <1>1, SelfFits, PutAllIsPlan DEF ForkBombBehavior, ArePlans

LEMMA ForkBomb3Plans == \A w : ArePlans(w, ForkBomb3Behavior(w))
  <1> TAKE w
  <1>1. IsFiniteSet(Ring(1, R))  BY WindowAssumption, RingsAreFinite
  <1>2. \A S \in SUBSET Ring(1, R) : IsPlan(w, PutAll(w, S, Self(w)))
    BY <1>1, FS_Subset, SelfFits, PutAllIsPlan
  <1>3. QED  BY <1>2 DEF ForkBomb3Behavior, ArePlans

LEMMA CheckerForkPlans ==
  \A w : \A other \in {"CheckerRed", "CheckerBlue"} : ArePlans(w, CheckerForkBehavior(w, other))
  <1> TAKE w
  <1> TAKE other \in {"CheckerRed", "CheckerBlue"}
  <1> DEFINE fork == [type |-> other]
  <1>1. IsFiniteSet(VonNeumann)  BY WindowAssumption, RingsAreFinite DEF VonNeumann
  <1>2. FieldsFit(fork)
    BY SimpleFits DEF Bounded, StackTypes, BarTypes, TimedBarTypes
  <1> HIDE DEF fork
  <1>3. IsPlan(w, PutAll(w, VonNeumann, fork))  BY <1>1, <1>2, PutAllIsPlan
  <1>4. QED  BY <1>3 DEF CheckerForkBehavior, ArePlans, fork

\* An AntiFork's level goes up to what it sees, or down one.
LEMMA AntiForkPlans == \A w : Self(w).type = "AntiFork" => ArePlans(w, AntiForkBehavior(w))
  <1> SUFFICES ASSUME NEW w, Self(w).type = "AntiFork"  PROVE ArePlans(w, AntiForkBehavior(w))
    OBVIOUS
  <1> DEFINE all   == Ring(1, R)
             us    == OfType(w, all, "AntiFork")
             empty == OfType(w, all, "Empty")
             my    == Self(w).level
             bombed == \E p \in all : IsLiveSite(w, p) /\ TypeAt(w, p) \in ForkBombTypes
             worst == IF bombed THEN 4
                      ELSE IF \E p \in us : AtomAt(w, p).level = 3 THEN 3 ELSE 0
             inflamed == AntiFork(SpreadLevel(worst))
             weaker == {p \in all : p \in us => AtomAt(w, p).level < SpreadLevel(worst)}
  <1>1. Fitting(w) => my \in 0..3
    BY SelfFits, FieldsOfOne
  <1>2. worst >= 3 => FieldsFit(inflamed)
    <2>1. worst >= 3 => SpreadLevel(worst) \in 0..3  BY DEF SpreadLevel
    <2> HIDE DEF worst
    <2>2. QED  BY <2>1, AntiForkFits
  <1>3. weaker \subseteq Ring(1, R) /\ IsFiniteSet(Ring(1, R))
    BY WindowAssumption, RingsAreFinite
  <1>4. IsFiniteSet(weaker)  BY <1>3, FS_Subset
  <1> DEFINE flame == {Put(w, Center, inflamed) \o PutAll(w, weaker, inflamed)}
             calm  == {Put(w, Center, AntiFork(my - 1))}
             alone == PickOne(empty, LAMBDA p : Put(w, p, AntiFork(0)))
  <1> HIDE DEF inflamed, weaker, worst, my
  <1>5. worst >= 3 => ArePlans(w, flame)
    BY <1>2, <1>4, PutIsPlan, PutAllIsPlan, ConcatIsPlan DEF ArePlans
  <1>6. my > 0 => ArePlans(w, calm)
    <2>1. Fitting(w) /\ my > 0 => FieldsFit(AntiFork(my - 1))
      <3>1. my \in 0..3 /\ my > 0 => my - 1 \in 0..3  OBVIOUS
      <3>2. QED  BY <1>1, <3>1, AntiForkFits
    <2>2. QED  BY <2>1, PutIsPlan DEF ArePlans
  <1>7. ArePlans(w, alone)
    <2>1. FieldsFit(AntiFork(0))  BY AntiForkFits
    <2>2. QED  BY <2>1, PutIsPlan, StayIsPlan DEF ArePlans, PickOne
  <1>8. ArePlans(w, {Put(w, Center, Empty)})  BY PlainPuts DEF ArePlans
  <1>9. AntiForkBehavior(w) =
          CASE worst >= 3 -> flame
            [] worst < 3 /\ my > 0 -> calm
            [] worst < 3 /\ my = 0 /\ us = {} -> alone
            [] worst < 3 /\ my = 0 /\ Cardinality(us) > 3 -> {Put(w, Center, Empty)}
            [] OTHER -> Diffuse(w)
    BY DEF AntiForkBehavior, inflamed, weaker, worst, my
  <1> HIDE DEF flame, calm, alone, us
  <1>10. QED  BY <1>5, <1>6, <1>7, <1>8, <1>9, DiffusePlans

\* Collectors, data and sorters.
LEMMA CollectorPlans == \A w : ArePlans(w, CollectorBehavior(w))
  <1> TAKE w
  <1> DEFINE seen  == {p \in Ring(1, 2) : IsLiveSite(w, p)}
             empty == OfType(w, seen, "Empty")
             res   == OfType(w, seen, "Res")
             me    == OfType(w, seen, "Collector")
             HasCompany(o) == \E q \in Ring(1, 2) :
                                /\ IsLiveSite(w, Plus(o, q))
                                /\ TypeAt(w, Plus(o, q)) = TypeAt(w, o)
             Clone == IF Cardinality(res) > 1 /\ me = {}
                      THEN PickOne(res, LAMBDA p : Put(w, p, Self(w))) ELSE {Stay}
             Collect(o) == {Swap(w, o, e) : e \in empty}
                             \cup (IF HasCompany(o) THEN Clone ELSE {})
             occup == seen \ (empty \cup res \cup me)
             plans == IF occup = {} \/ empty = {} THEN {Stay}
                      ELSE UNION {Collect(o) : o \in occup}
  <1>1. CollectorBehavior(w) = Then(w, plans, Diffuse)  BY DEF CollectorBehavior
  <1> HIDE DEF HasCompany, empty, res, me
  <1>2. ArePlans(w, Clone)  BY StayIsPlan, PlainPuts DEF ArePlans, PickOne
  <1> HIDE DEF Clone
  <1>3. \A o : ArePlans(w, Collect(o))  BY <1>2, SwapIsPlan DEF ArePlans
  <1> HIDE DEF Collect, occup
  <1>4. ArePlans(w, plans)  BY <1>3, StayIsPlan DEF ArePlans
  <1> HIDE DEF plans
  <1>5. QED  BY <1>1, <1>4, ThenDiffuse

LEMMA DataPlans == \A w : ArePlans(w, DataBehavior(w))
  BY PlainPuts, DiffusePlans DEF DataBehavior, ArePlans

LEMMA SorterPlans == \A w : ArePlans(w, SorterBehavior(w))
  <1> TAKE w
  <1> DEFINE Quadrant(x, y) == {<<x, y>>, <<x, 2 * y>>, <<2 * x, y>>, <<2 * x, 2 * y>>}
             Spread == PickOne(OfType(w, VonNeumann, "Res"), LAMBDA p : Put(w, p, Self(w)))
             Move(v, up) ==
               LET y  == IF up THEN 1 ELSE -1
                   from == OfType(v, Quadrant(1, y), "Data")
                   to   == OfType(v, Quadrant(-1, -y), "Empty")
                   Wanted(d) == IF up THEN d < Self(v).threshold ELSE d > Self(v).threshold
                   Carried(src, dst) ==
                     IF Wanted(AtomAt(v, src).value)
                     THEN Put(v, Center, [Self(v) EXCEPT !.threshold = AtomAt(v, src).value])
                            \o Swap(v, src, dst)
                     ELSE Stay
               IN  IF from = {} \/ to = {} THEN {Stay}
                   ELSE {Carried(s, d) : s \in from, d \in to}
             Sort(v) == UNION {(Move(v, up) \ {Stay})
                                 \cup (IF Stay \in Move(v, up) THEN Move(v, ~up) ELSE {})
                               : up \in BOOLEAN}
             sorted == Then(w, Spread, Sort)
  <1>1. SorterBehavior(w) = Then(w, sorted, Diffuse)  BY DEF SorterBehavior, Then
  <1>2. ArePlans(w, Spread)  BY StayIsPlan, PlainPuts DEF ArePlans, PickOne
  <1>3. \A v, n, s, d : IsPlan(v, Put(v, Center, [Self(v) EXCEPT !.threshold = n]) \o Swap(v, s, d))
    <2> TAKE v, n, s, d
    <2>1. IsPlan(v, Put(v, Center, [Self(v) EXCEPT !.threshold = n]))
      BY SelfFits, AnyThreshold, PutIsPlan
    <2>2. QED  BY <2>1, SwapIsPlan, ConcatIsPlan
  <1>4. ASSUME NEW v, NEW up  PROVE ArePlans(v, Move(v, up))
    <2> DEFINE y  == IF up THEN 1 ELSE -1
               from == OfType(v, Quadrant(1, y), "Data")
               to   == OfType(v, Quadrant(-1, -y), "Empty")
               Wanted(d) == IF up THEN d < Self(v).threshold ELSE d > Self(v).threshold
               Carried(src, dst) ==
                 IF Wanted(AtomAt(v, src).value)
                 THEN Put(v, Center, [Self(v) EXCEPT !.threshold = AtomAt(v, src).value])
                        \o Swap(v, src, dst)
                 ELSE Stay
               moves == IF from = {} \/ to = {} THEN {Stay}
                        ELSE {Carried(s, d) : s \in from, d \in to}
    <2>1. Move(v, up) = moves  OBVIOUS
    <2> HIDE DEF from, to, Wanted, Move
    <2>2. \A src, dst : IsPlan(v, Carried(src, dst))  BY <1>3, StayIsPlan
    <2> HIDE DEF Carried
    <2>3. ArePlans(v, moves)  BY <2>2, StayIsPlan DEF ArePlans
    <2>4. QED  BY <2>1, <2>3
  <1> HIDE DEF Spread, Move
  <1>5. \A v : ArePlans(v, Sort(v))  BY <1>4 DEF ArePlans
  <1>6. ArePlans(w, sorted)
    <2> SUFFICES ASSUME NEW p \in Then(w, Spread, Sort)  PROVE IsPlan(w, p)
      BY DEF ArePlans
    <2> HIDE DEF Sort
    <2>1. PICK plan \in Spread : \E more \in Sort(After(w, plan)) : p = plan \o more
      BY DEF Then
    <2>2. QED  BY <1>2, <1>5, <2>1, AfterIsPlan DEF ArePlans
  <1> HIDE DEF sorted
  <1>7. QED  BY <1>1, <1>6, ThenDiffuse

LEMMA LeavingIsPlan ==
  ASSUME NEW w, NEW p, NEW left, NEW self, Fitting(w) => FieldsFit(left) /\ FieldsFit(self)
  PROVE  IsPlan(w, MoveLeaving(w, p, left, self))
  BY PutIsPlan, ConcatIsPlan DEF MoveLeaving

\* Fish and sharks eat, give birth, move or starve; their age and energy stay in bounds.
LEMMA FishPlans == \A w : Self(w).type = "Fish" => ArePlans(w, FishBehavior(w))
  <1> SUFFICES ASSUME NEW w, Self(w).type = "Fish"  PROVE ArePlans(w, FishBehavior(w))
    OBVIOUS
  <1> DEFINE age   == Self(w).age
             ready == age >= FishBirthAge
             empty == OfType(w, VonNeumann, "Empty")
             older == Fish(age + 1)
             born  == {MoveLeaving(w, p, Fish(0), Fish(0)) : p \in empty}
             moved == {MoveLeaving(w, p, Empty, older) : p \in empty}
             stayed == {Put(w, Center, older)}
  <1>1. Fitting(w) => age \in 0..FishBirthAge  BY SelfFits, FieldsOfOne
  <1>2. Fitting(w) /\ ~ready => FieldsFit(older)
    <2>1. \A n \in 0..FishBirthAge : ~ (n >= FishBirthAge) => n + 1 \in 0..FishBirthAge
      BY WatorAssumption
    <2> HIDE DEF age
    <2>2. QED  BY <1>1, <2>1, FishFits
  <1>3. FieldsFit(Fish(0))
    <2>1. 0 \in 0..FishBirthAge  BY WatorAssumption
    <2>2. QED  BY <2>1, FishFits
  <1> HIDE DEF older, ready, empty
  <1>4. ArePlans(w, born)  BY <1>3, LeavingIsPlan DEF ArePlans
  <1>5. ~ready => ArePlans(w, moved) /\ ArePlans(w, stayed)
    BY <1>2, EmptyAndResFit, LeavingIsPlan, PutIsPlan DEF ArePlans
  <1>6. ArePlans(w, {Stay})  BY StayIsPlan DEF ArePlans
  <1>7. FishBehavior(w) = CASE empty # {} /\ ready  -> born
                            [] empty # {} /\ ~ready -> moved
                            [] empty = {} /\ ~ready -> stayed
                            [] OTHER                -> {Stay}
    BY DEF FishBehavior, older, ready, empty
  <1> HIDE DEF born, moved, stayed
  <1>8. QED  BY <1>4, <1>5, <1>6, <1>7

LEMMA SharkPlans == \A w : Self(w).type = "Shark" => ArePlans(w, SharkBehavior(w))
  <1> SUFFICES ASSUME NEW w, Self(w).type = "Shark"  PROVE ArePlans(w, SharkBehavior(w))
    OBVIOUS
  <1> DEFINE me     == Self(w)
             ready  == me.age >= SharkBirthAge
             age    == IF ready THEN me.age ELSE me.age + 1
             fish   == OfType(w, VonNeumann, "Fish")
             empty  == OfType(w, VonNeumann, "Empty")
             energy == IF fish = {} THEN me.energy - 1 ELSE FedEnergy(me.energy - 1)
             half   == Shark(0, SharedEnergy(energy))
             now    == Shark(age, energy)
             Go(p)  == IF ready THEN MoveLeaving(w, p, half, half)
                       ELSE MoveLeaving(w, p, Empty, now)
  <1>1. Fitting(w) => me.age \in 0..SharkBirthAge /\ me.energy \in 0..MaxSharkEnergy
    BY SelfFits, FieldsOfOne
  <1>2. Fitting(w) => age \in 0..SharkBirthAge
    <2>1. \A n \in 0..SharkBirthAge :
            (IF n >= SharkBirthAge THEN n ELSE n + 1) \in 0..SharkBirthAge
      BY WatorAssumption
    <2> HIDE DEF me
    <2>2. QED  BY <1>1, <2>1
  <1>3. Fitting(w) /\ me.energy # 0 => energy \in 0..MaxSharkEnergy
    <2>1. \A n \in 0..MaxSharkEnergy : n # 0 =>
            n - 1 \in 0..MaxSharkEnergy /\ FedEnergy(n - 1) \in 0..MaxSharkEnergy
      BY WatorAssumption DEF FedEnergy
    <2> HIDE DEF me, fish
    <2>2. QED  BY <1>1, <2>1
  <1> HIDE DEF age, energy, ready, fish, empty
  <1>4. Fitting(w) /\ me.energy # 0 => FieldsFit(now)  BY <1>2, <1>3, SharkFits
  <1>5. Fitting(w) /\ me.energy # 0 => FieldsFit(half)
    <2>1. \A n \in 0..MaxSharkEnergy : SharedEnergy(n) \in 0..MaxSharkEnergy
      BY WatorAssumption DEF SharedEnergy
    <2>2. 0 \in 0..SharkBirthAge  BY WatorAssumption
    <2> HIDE DEF me
    <2>3. QED  BY <1>3, <2>1, <2>2, SharkFits
  <1> HIDE DEF me, now, half
  <1>6. ASSUME me.energy # 0, NEW p  PROVE IsPlan(w, Go(p))
    BY <1>4, <1>5, <1>6, EmptyAndResFit, LeavingIsPlan
  <1>7. me.energy # 0 => IsPlan(w, Put(w, Center, now))  BY <1>4, PutIsPlan
  <1>8. IsPlan(w, Put(w, Center, Empty))  BY PlainPuts
  <1> HIDE DEF Go
  <1> DEFINE eats == {Go(p) : p \in fish}
             goes == {Go(p) : p \in empty}
  <1>9. SharkBehavior(w) =
          CASE me.energy = 0 -> {Put(w, Center, Empty)}
            [] me.energy > 0 /\ fish # {} -> eats
            [] me.energy > 0 /\ fish = {} /\ empty # {} -> goes
            [] OTHER -> {Put(w, Center, now)}
    BY DEF SharkBehavior, Go, me, now, half, age, energy, ready, fish, empty
  <1>10. me.energy # 0 => ArePlans(w, eats) /\ ArePlans(w, goes)  BY <1>6 DEF ArePlans
  <1>11. me.energy # 0 => ArePlans(w, {Put(w, Center, now)})  BY <1>7 DEF ArePlans
  <1>12. ArePlans(w, {Put(w, Center, Empty)})  BY <1>8 DEF ArePlans
  <1> HIDE DEF eats, goes
  <1>13. me.energy > 0 => me.energy # 0  OBVIOUS
  <1>14. QED  BY <1>9, <1>10, <1>11, <1>12, <1>13

\* Infantry: the kills, folded as the puts are, and a march.
LEMMA MovingIsPlan ==
  ASSUME NEW w, NEW p, NEW self, Fitting(w) => FieldsFit(self)
  PROVE  IsPlan(w, MoveTo(w, p, self))
  BY PutIsPlan, SwapIsPlan, ConcatIsPlan DEF MoveTo

Slay(w, d, plans) == Both(plans, Maybe({Put(w, d, Empty)}))
Slain(w, g, S) ==
  g = [s \in SUBSET S |-> IF s = {} THEN {Stay} ELSE Slay(w, Pick(s), g[s \ {Pick(s)}])]
LEMMA KillsAreRecursive ==
  ASSUME NEW w, NEW S
  PROVE  Kills(w, S) = (CHOOSE g : Slain(w, g, S))[S]
  BY DEF FoldSet, MapThenFoldSet, Pick, Slain, Slay, Kills
LEMMA JoinedSequences ==
  ASSUME NEW W, NEW A \in SUBSET Seq(W), NEW B \in SUBSET Seq(W)
  PROVE  Both(A, B) \in SUBSET Seq(W)
  <1>1. ASSUME NEW r \in Both(A, B)  PROVE r \in Seq(W)
    <2>1. PICK p \in A, q \in B : r = p \o q  BY DEF Both
    <2>2. QED  BY <2>1, ConcatProperties
  <1>2. QED  BY <1>1

FoldsKills(h, w, S) ==
  Slain(w, h, S) /\ Kills(w, S) = h[S] /\ h[S] \in SUBSET Seq(PutsOf(w, Empty, S))
LEMMA KillsAreFolded ==
  ASSUME NEW w, NEW S, IsFiniteSet(S)
  PROVE  \E h : FoldsKills(h, w, S)
  <1> DEFINE W == PutsOf(w, Empty, S)
             V == SUBSET Seq(W)
             F == [d \in S |-> [v \in V |-> Slay(w, d, v)]]
             c == [s \in SUBSET S |-> Pick(s)]
  <1>1. {Stay} \in V  BY DEF Stay
  <1>2. ASSUME NEW d \in S, NEW v \in V  PROVE Slay(w, d, v) \in V
    <2>1. Put(w, d, Empty) \in Seq(W) /\ Stay \in Seq(W)  BY DEF Put, Stay, PutsOf
    <2> HIDE DEF W
    <2>2. Maybe({Put(w, d, Empty)}) \in V  BY <2>1 DEF Maybe
    <2>3. \A A, B \in V : Both(A, B) \in V  BY JoinedSequences
    <2> HIDE DEF V
    <2>4. QED  BY <2>2, <2>3 DEF Slay
  <1> HIDE DEF V
  <1>3. Acts(F, S, V) /\ Chooses(c, S)  BY <1>2 DEF Acts, Chooses, Pick
  <1>4. \A p \in S : \A v \in V : F[p][v] = Slay(w, p, v)  OBVIOUS
  <1>5. \A s \in SUBSET S : c[s] = Pick(s)  OBVIOUS
  <1> HIDE DEF F, c
  <1>6. HasFold({Stay}, F, c, S, V)  BY <1>1, <1>3, FoldExists
  <1>7. PICK g \in [SUBSET S -> V] : FoldOf(g, {Stay}, F, c, S)  BY <1>6 DEF HasFold
  <1>8. Slain(w, g, S)
    <2>1. ASSUME NEW s \in SUBSET S
          PROVE  g[s] = IF s = {} THEN {Stay} ELSE Slay(w, Pick(s), g[s \ {Pick(s)}])
      <3>1. CASE s = {}  BY <1>7, <3>1 DEF FoldOf
      <3>2. CASE s # {}
        <4>1. g[s] = F[Pick(s)][g[s \ {Pick(s)}]]  BY <1>5, <1>7, <3>2 DEF FoldOf
        <4>2. Pick(s) \in S /\ g[s \ {Pick(s)}] \in V  BY <3>2 DEF Pick
        <4>3. QED  BY <1>4, <3>2, <4>1, <4>2
      <3>3. QED  BY <3>1, <3>2
    <2>2. g = [s \in SUBSET S |-> IF s = {} THEN {Stay} ELSE Slay(w, Pick(s), g[s \ {Pick(s)}])]
      BY <2>1
    <2>3. QED  BY <2>2 DEF Slain
  <1> DEFINE h == CHOOSE k : Slain(w, k, S)
  <1>9. Slain(w, h, S)  BY <1>8
  <1> HIDE DEF h
  <1>10. \A s \in SUBSET S : h[s] = IF s = {} THEN {Stay} ELSE Slay(w, Pick(s), h[s \ {Pick(s)}])
    BY <1>9 DEF Slain
  <1>11. Keeps(h, c, S, V)
    <2>1. h[{}] \in V  BY <1>1, <1>10
    <2> SUFFICES ASSUME NEW s \in SUBSET S, s # {}, h[s \ {Pick(s)}] \in V
                 PROVE  h[s] \in V
      BY <1>5, <2>1 DEF Keeps
    <2>2. Pick(s) \in S  BY DEF Pick
    <2>3. QED  BY <1>2, <1>10, <2>2
  <1>12. h[S] \in V  BY <1>3, <1>11, FoldStays
  <1>13. Kills(w, S) = h[S]  BY KillsAreRecursive DEF h
  <1>14. QED  BY <1>9, <1>12, <1>13 DEF V, FoldsKills
LEMMA KillPlans ==
  ASSUME NEW w, NEW S, IsFiniteSet(S)
  PROVE  ArePlans(w, Kills(w, S))
  <1>1. PICK h : FoldsKills(h, w, S)  BY KillsAreFolded
  <1>2. \A x \in PutsOf(w, Empty, S) : FieldsFit(x[2])  BY EmptyAndResFit DEF PutsOf
  <1>3. QED  BY <1>1, <1>2 DEF FoldsKills, IsPlan, ArePlans

LEMMA InfantryPlans == \A w : ArePlans(w, InfantryBehavior(w))
  <1> TAKE w
  <1> DEFINE enemies == {d \in VonNeumann : /\ IsLiveSite(w, d)
                                            /\ IsUnit(AtomAt(w, d))
                                            /\ GetTribe(AtomAt(w, d)) # GetTribe(Self(w))}
             March(v) ==
               {LET self == [Self(v) EXCEPT !.dir = d]
                IN  IF CanMove(v, d, self) THEN MoveTo(v, d, self) ELSE Put(v, Center, self)
                : d \in {Self(v).dir} \cup Moore}
  <1>1. InfantryBehavior(w) = Then(w, Kills(w, enemies), March)
    BY DEF InfantryBehavior, Then
  <1>2. IsFiniteSet(enemies)
    BY WindowAssumption, RingsAreFinite, FS_Subset DEF VonNeumann
  <1> HIDE DEF enemies
  <1>3. ArePlans(w, Kills(w, enemies))  BY <1>2, KillPlans
  <1>4. ASSUME NEW v  PROVE ArePlans(v, March(v))
    <2>1. \A d, self : (Fitting(v) => FieldsFit(self)) =>
            IsPlan(v, IF CanMove(v, d, self) THEN MoveTo(v, d, self) ELSE Put(v, Center, self))
      BY MovingIsPlan, PutIsPlan
    <2>2. \A d : Fitting(v) => FieldsFit([Self(v) EXCEPT !.dir = d])
      BY SelfFits, AnyDirection
    <2>3. QED  BY <2>1, <2>2 DEF ArePlans
  <1> HIDE DEF March
  <1>5. ASSUME NEW p \in Then(w, Kills(w, enemies), March)  PROVE IsPlan(w, p)
    <2>1. PICK plan \in Kills(w, enemies) : \E more \in March(After(w, plan)) : p = plan \o more
      BY DEF Then
    <2>2. QED  BY <1>3, <1>4, <2>1, AfterIsPlan DEF ArePlans
  <1>6. QED  BY <1>1, <1>5 DEF ArePlans

-----------------------------------------------------------------------------

\* What a Base has done so far is a plan, and the gold in its hand is a natural number.
Pursed(w, done) == IsPlan(w, done.plan) /\ (Fitting(w) => done.gold \in Nat)
LEMMA Bought ==
  ASSUME NEW w, NEW done, Pursed(w, done), NEW cost \in Nat, NEW unit, FieldsFit(unit)
  PROVE  \A e \in Buy(w, done, cost, unit) : Pursed(w, e)
  <1> DEFINE v == After(w, done.plan)
             paid(p) == [plan |-> done.plan \o Put(v, p, unit), gold |-> done.gold - cost]
  <1>1. ASSUME NEW p  PROVE IsPlan(w, paid(p).plan)
    <2>1. IsPlan(v, Put(v, p, unit))  BY PutIsPlan
    <2>2. QED  BY <2>1, AfterIsPlan DEF Pursed
  <1>2. ASSUME done.gold >= cost, NEW p  PROVE Fitting(w) => paid(p).gold \in Nat
    <2>1. \A n, m \in Nat : n >= m => n - m \in Nat  OBVIOUS
    <2>2. QED  BY <1>2, <2>1 DEF Pursed
  <1>3. Buy(w, done, cost, unit) =
          {done} \cup {paid(p) : p \in IF done.gold >= cost THEN FirstEmpty(v) ELSE {}}
    BY DEF Buy
  <1> HIDE DEF paid, v
  <1>4. QED  BY <1>1, <1>2, <1>3 DEF Pursed

LEMMA BasePlans == \A w : Self(w).type = "Base" => ArePlans(w, BaseBehavior(w))
  <1> SUFFICES ASSUME NEW w, Self(w).type = "Base"  PROVE ArePlans(w, BaseBehavior(w))
    OBVIOUS
  <1> DEFINE res   == OfType(w, VonNeumann, "Res")
             eaten == [plan |-> PutEach(w, res, Empty),
                       gold |-> Self(w).gold + GoldPerRes * Cardinality(res)]
             tribe == Self(w).tribe
             armed == UNION {Buy(w, based, InfantryCost, Infantry(tribe, East))
                             : based \in Buy(w, eaten, BaseCost, Base(tribe, 0))}
             stored(done) == [Self(w) EXCEPT !.gold = done.gold % GoldField]
             ends(v, self) == {Put(v, Center, self)} \cup
                              {MoveTo(v, d, self) : d \in {d \in VonNeumann : CanMove(v, d, self)}}
             Settle(done) == {done.plan \o more : more \in ends(After(w, done.plan), stored(done))}
  <1>1. BaseBehavior(w) = UNION {Settle(done) : done \in armed}
    BY DEF BaseBehavior, PutEach
  <1>2. Fitting(w) => Self(w) = Base(tribe, Self(w).gold) /\ Self(w).gold \in Nat
    BY SelfFits, FieldsOfOne DEF GoldField
  <1>3. Pursed(w, eaten)
    <2>1. IsFiniteSet(res)
      BY WindowAssumption, RingsAreFinite, FS_Subset DEF VonNeumann, OfType
    <2>2. Cardinality(res) \in Nat  BY <2>1, FS_CardinalityType
    <2> HIDE DEF res
    <2>3. IsPlan(w, PutEach(w, res, Empty))  BY <2>1, EmptyAndResFit, FoldedPuts
    <2>4. \A n, m, k \in Nat : n + m * k \in Nat  OBVIOUS
    <2>5. Fitting(w) => Self(w).gold + GoldPerRes * Cardinality(res) \in Nat
      BY <1>2, <2>2, <2>4, TribalAssumption
    <2>6. QED  BY <2>3, <2>5 DEF Pursed
  <1> HIDE DEF eaten
  <1>4. FieldsFit(Base(tribe, 0))  BY BaseFits DEF GoldField
  <1>5. FieldsFit(Infantry(tribe, East))  BY InfantryFits
  <1>6. \A done \in armed : Pursed(w, done)
    <2>1. \A based \in Buy(w, eaten, BaseCost, Base(tribe, 0)) : Pursed(w, based)
      BY <1>3, <1>4, Bought, TribalAssumption
    <2>2. QED  BY <1>5, <2>1, Bought, TribalAssumption
  <1>7. ASSUME NEW done, Pursed(w, done)  PROVE Fitting(w) => FieldsFit(stored(done))
    <2> SUFFICES ASSUME Fitting(w)  PROVE FieldsFit(stored(done))
      OBVIOUS
    <2>1. done.gold % GoldField \in 0..GoldField - 1
      <3>1. \A n \in Nat : n % GoldField \in 0..GoldField - 1  BY DEF GoldField
      <3>2. QED  BY <1>7, <3>1 DEF Pursed
    <2>2. stored(done) = Base(tribe, done.gold % GoldField)  BY <1>2 DEF Base
    <2>3. QED  BY <2>1, <2>2, BaseFits
  <1> HIDE DEF stored, armed
  <1>8. ASSUME NEW done \in armed, NEW p \in Settle(done)  PROVE IsPlan(w, p)
    <2> DEFINE v == After(w, done.plan)
    <2>1. PICK more \in ends(v, stored(done)) : p = done.plan \o more  OBVIOUS
    <2>2. IsPlan(w, done.plan)  BY <1>6 DEF Pursed
    <2>3. Fitting(w) => FieldsFit(stored(done))  BY <1>6, <1>7
    <2> HIDE DEF v
    <2>4. Fitting(w) => \A d : FieldsFit(AtomAt(v, d))  BY <2>2, WindowAfter, AtomsFit DEF v
    <2>5. \A d : IsPlan(w, Put(v, d, stored(done)))  BY <2>3, PutIsPlan
    <2>6. \A d, q : IsPlan(w, Put(v, d, AtomAt(v, q)))  BY <2>4, PutIsPlan
    <2>7. \A d : IsPlan(w, MoveTo(v, d, stored(done)))
      BY <2>5, <2>6, ConcatIsPlan DEF MoveTo, Swap
    <2>8. QED  BY <2>1, <2>2, <2>5, <2>7, ConcatIsPlan
  <1>9. QED  BY <1>1, <1>8 DEF ArePlans

\* A Mine tires in twenty bits and gives gold to a Base in eight.
LEMMA ExhaustIsWide == ExhaustField \in Nat \ {0}
  BY SMT DEF ExhaustField
LEMMA MinePlans == \A w : Self(w).type = "Mine" => ArePlans(w, MineBehavior(w))
  <1> SUFFICES ASSUME NEW w, Self(w).type = "Mine"  PROVE ArePlans(w, MineBehavior(w))
    OBVIOUS
  <1> DEFINE worn(n) == (n + (IF n \div 10 > 1 THEN n \div 10 ELSE 1)) % ExhaustField
             tired == [Self(w) EXCEPT !.exhaust = worn(@)]
             richer(base) == [base EXCEPT !.gold = (@ + GoldPerRes) % GoldField]
             Keep(a) == Put(w, Center, a)
             Give(d) == Put(w, d, richer(AtomAt(w, d)))
             works(d) == {Keep(Self(w))} \cup {Put(w, d, Res) \o Keep(a) : a \in {Self(w), tired}}
             gifts(d) == {Keep(Self(w)), Give(d) \o Keep(Self(w))}
             Work(d) == CASE TypeAt(w, d) = "Empty" -> works(d)
                          [] TypeAt(w, d) = "Base" -> gifts(d)
                          [] OTHER -> {Keep(Self(w))}
  <1>1. MineBehavior(w) = IF Self(w).exhaust = 0 THEN {Put(w, Center, Empty)}
                          ELSE UNION {Work(d) : d \in VonNeumann}
    BY DEF MineBehavior
  <1>2. Fitting(w) => FieldsFit(tired)
    <2> SUFFICES ASSUME Fitting(w)  PROVE FieldsFit(tired)
      OBVIOUS
    <2>1. Self(w) = Mine(Self(w).exhaust) /\ Self(w).exhaust \in Nat
      <3>1. 0..ExhaustField - 1 \subseteq Nat  BY ExhaustIsWide
      <3>2. QED  BY <3>1, SelfFits, FieldsOfOne
    <2>2. \A n \in Nat : worn(n) \in 0..ExhaustField - 1
      <3>1. \A n, m \in Nat : (n + m) % ExhaustField \in 0..ExhaustField - 1  BY ExhaustIsWide
      <3>2. \A n \in Nat : n \div 10 \in Nat  OBVIOUS
      <3>3. QED  BY <3>1, <3>2
    <2> HIDE DEF worn
    <2>3. tired = Mine(worn(Self(w).exhaust))  BY <2>1 DEF Mine
    <2>4. QED  BY <2>1, <2>2, <2>3, MineFits
  <1>3. ASSUME NEW d, TypeAt(w, d) = "Base"  PROVE Fitting(w) => FieldsFit(richer(AtomAt(w, d)))
    <2> SUFFICES ASSUME Fitting(w)  PROVE FieldsFit(richer(AtomAt(w, d)))
      OBVIOUS
    <2> DEFINE base == AtomAt(w, d)
               more == (base.gold + GoldPerRes) % GoldField
    <2>1. base = Base(base.tribe, base.gold) /\ base.gold \in Nat
      BY <1>3, AtomsFit, FieldsOfOne DEF GoldField, TypeAt
    <2>2. \A n, m \in Nat : (n + m) % GoldField \in 0..GoldField - 1  BY DEF GoldField
    <2>3. more \in 0..GoldField - 1  BY <2>1, <2>2, TribalAssumption
    <2>4. richer(base) = Base(base.tribe, more)  BY <2>1 DEF Base
    <2>5. QED  BY <2>3, <2>4, BaseFits
  <1> HIDE DEF tired, richer
  <1>4. \A d : ArePlans(w, works(d))
    <2>1. IsPlan(w, Keep(Self(w))) /\ IsPlan(w, Keep(tired))  BY <1>2, PlainPuts, PutIsPlan
    <2>2. QED  BY <2>1, PlainPuts, ConcatIsPlan DEF ArePlans
  <1>5. \A d : TypeAt(w, d) = "Base" => ArePlans(w, gifts(d))
    <2>1. \A d : TypeAt(w, d) = "Base" => IsPlan(w, Give(d))  BY <1>3, PutIsPlan
    <2> HIDE DEF Give
    <2>2. QED  BY <2>1, PlainPuts, ConcatIsPlan DEF ArePlans
  <1>6. ArePlans(w, {Keep(Self(w))})  BY PlainPuts DEF ArePlans
  <1> HIDE DEF works, gifts, Keep
  <1>7. \A d : ArePlans(w, Work(d))  BY <1>4, <1>5, <1>6
  <1> HIDE DEF Work
  <1>8. ArePlans(w, {Put(w, Center, Empty)})  BY EmptyAndResFit, PutIsPlan DEF ArePlans
  <1>9. QED  BY <1>1, <1>7, <1>8 DEF ArePlans
-----------------------------------------------------------------------------

\* A bar's cell that fits: one that has a timer, or none.
BarFits(a) == (a \in TimedBars \/ a \in OtherBars) /\ InBar(a.pos, a.max)
LEMMA BarOfOne == \A a : FieldsFit(a) /\ a.type \in BarTypes => BarFits(a)
  BY FieldsOfOne DEF BarFits, BarTypes
LEMMA BarSymmetry == \A a : BarFits(a) => a.sym \in 0..7
  BY DEF BarFits, TimedBars, OtherBars

\* Twelve bits hold any size, and any place in a bar of that size.
LEMMA PackingKeeps == \A v \in Sizes : Unpacked(Packed(v)) = v
  <1> SUFFICES ASSUME NEW v \in Sizes  PROVE Unpacked(Packed(v)) = v
    OBVIOUS
  <1>1. PICK a \in 0..31, b \in 0..127 : v = <<a, b>>  BY DEF Sizes, WideField, HighField
  <1>2. Packed(v) = a * 128 + b  BY <1>1 DEF Packed, WideField, HighField
  <1>3. (a * 128 + b) \div 128 = a /\ (a * 128 + b) % 128 = b  OBVIOUS
  <1>4. QED  BY <1>1, <1>2, <1>3 DEF Unpacked, HighField
LEMMA PlacesAreSizes ==
  ASSUME NEW x, NEW y, NEW max \in Sizes, InBar(<<x, y>>, max)
  PROVE  <<x, y>> \in Sizes
  BY DEF InBar, Sizes, WideField, HighField
LEMMA PlacedFits ==
  ASSUME NEW a, BarFits(a), NEW x, NEW y, InBar(<<x, y>>, a.max)
  PROVE  FieldsFit(SetPos(a, <<x, y>>)) /\ BarFits(SetPos(a, <<x, y>>))
  <1> DEFINE place == <<x, y>>
             b == [a EXCEPT !.pos = place]
  <1>1. a.max \in Sizes  BY DEF BarFits, TimedBars, OtherBars
  <1>2. place \in Sizes  BY <1>1, PlacesAreSizes
  <1>3. SetPos(a, place) = b  BY <1>2, PackingKeeps DEF SetPos
  <1>4. place \in Nat \X Nat  BY <1>2 DEF Sizes, WideField, HighField
  <1>5. InBar(place, a.max)  OBVIOUS
  <1> HIDE DEF place
  <1>6. (b \in TimedBars \/ b \in OtherBars) /\ b.pos = place /\ b.max = a.max
    BY <1>4 DEF BarFits, TimedBars, OtherBars
  <1> HIDE DEF b
  <1>7. BarFits(b) /\ FieldsFit(b)  BY <1>5, <1>6, BarsFit DEF BarFits
  <1>8. QED  BY <1>3, <1>7 DEF place
LEMMA CornerFits == ASSUME NEW a, BarFits(a) PROVE FieldsFit(SetPos(a, Center))
  <1>1. InBar(<<0, 0>>, a.max)
    <2>1. a.max \in Sizes  BY DEF BarFits, TimedBars, OtherBars
    <2>2. QED  BY <2>1 DEF InBar, Sizes, WideField, HighField
  <1>2. QED  BY <1>1, PlacedFits DEF Center

\* The places where a cell would have its bar's next cells are in its bar.
Within(w, place) == \E x, y : place = <<x, y>> /\ InBar(<<x, y>>, Self(w).max)
LEMMA MakingInBar ==
  \A w, slanted, beyond : \A m \in Scan(w, slanted, beyond).make : Within(w, m.place)
  <1> SUFFICES ASSUME NEW w, NEW slanted, NEW beyond, NEW m \in Scan(w, slanted, beyond).make
               PROVE  Within(w, m.place)
    OBVIOUS
  <1> DEFINE me == Self(w)
             Place(p) == Plus(me.pos, IF slanted THEN <<p[1] + p[2], p[2]>> ELSE p)
             grid == {p \in Ring(1, R) : OnGrid(p) /\ InBar(Place(p), me.max)}
             made(p) == [at |-> p, place |-> Place(p)]
  <1>1. Scan(w, slanted, beyond).make = {made(p) : p \in {q \in grid : TypeAt(w, q) = "Empty"}}
    BY DEF Scan
  <1>2. \A p : made(p).place = Place(p)  OBVIOUS
  <1>3. \A p : \E x, y : Place(p) = <<x, y>>  BY DEF Plus
  <1> HIDE DEF made, Place, me
  <1>4. PICK p \in grid : m = made(p)  BY <1>1
  <1>5. InBar(Place(p), me.max)  BY <1>4
  <1>6. QED  BY <1>2, <1>3, <1>4, <1>5 DEF me, Within

\* What a cell decides is a plan when what it would do otherwise is.
LEMMA MakingPlans ==
  ASSUME NEW u, NEW w, NEW at, NEW cell, NEW eat, Fitting(u) => FieldsFit(cell)
  PROVE  ArePlans(u, MakeAndEat(w, at, cell, eat))
  BY PutIsPlan, PlainPuts, ConcatIsPlan DEF ArePlans, MakeAndEat
LEMMA DecidePlans ==
  ASSUME NEW u, NEW w, NEW slanted, NEW beyond, NEW wrong, NEW newborn, NEW unsure, NEW content,
         Fitting(u) => BarFits(newborn) /\ newborn.max = Self(w).max,
         ArePlans(u, unsure), ArePlans(u, content)
  PROVE  ArePlans(u, Decide(w, Scan(w, slanted, beyond), wrong, newborn, unsure, content))
  <1> DEFINE scan == Scan(w, slanted, beyond)
             unmade == {Unmade(w, p) : p \in wrong}
             made == UNION {MakeAndEat(w, m.at, SetPos(newborn, m.place), scan.eat) : m \in scan.make}
  <1>1. ASSUME NEW m \in scan.make  PROVE Fitting(u) => FieldsFit(SetPos(newborn, m.place))
    <2>1. Within(w, m.place)  BY MakingInBar
    <2>2. PICK x, y : m.place = <<x, y>> /\ InBar(<<x, y>>, Self(w).max)  BY <2>1 DEF Within
    <2>3. QED  BY <2>2, PlacedFits
  <1> HIDE DEF scan
  <1>2. ArePlans(u, made)
    <2>1. \A m \in scan.make : ArePlans(u, MakeAndEat(w, m.at, SetPos(newborn, m.place), scan.eat))
      BY <1>1, MakingPlans
    <2>2. QED  BY <2>1 DEF ArePlans
  <1>3. ArePlans(u, unmade)  BY PlainPuts DEF ArePlans, Unmade
  <1>4. ArePlans(u, {Put(w, Center, Res)})  BY PlainPuts DEF ArePlans
  <1> DEFINE bad == Cardinality(wrong)
             more == bad > 0 /\ scan.good <= 3 * bad /\ bad <= 3 * scan.good
             making == bad = 0 /\ scan.make # {} /\ scan.eat # {}
  <1>5. Decide(w, scan, wrong, newborn, unsure, content) =
          CASE bad > 0 /\ scan.good > 3 * bad -> unmade
            [] bad > 3 * scan.good -> {Put(w, Center, Res)}
            [] more -> unsure
            [] making -> made
            [] OTHER -> content
    BY DEF Decide
  <1> HIDE DEF unmade, made, more, making, bad
  <1>6. QED  BY <1>2, <1>3, <1>4, <1>5 DEF scan
LEMMA StartPlans ==
  ASSUME NEW u, NEW w, NEW scan, NEW corner, Fitting(u) => FieldsFit(corner)
  PROVE  ArePlans(u, StartBar(w, scan, corner))
  <1>1. ArePlans(u, {Stay})  BY StayIsPlan DEF ArePlans
  <1>2. ArePlans(u, MakeAndEat(w, <<0, 2>>, corner, scan.eat))  BY MakingPlans
  <1>3. QED  BY <1>1, <1>2 DEF StartBar

\* A cell's timer and symmetry stay in bounds; its size and place are as they were.
LEMMA TimedFits ==
  ASSUME NEW a \in TimedBars, InBar(a.pos, a.max)
  PROVE  /\ \A n \in 0..MaxTimer : BarFits([a EXCEPT !.timer = n])
         /\ \A n \in 0..3 : BarFits([a EXCEPT !.sym = n])
         /\ \A n \in 0..3, m \in 0..MaxTimer : BarFits([a EXCEPT !.sym = n, !.timer = m])
  <1>1. \A n \in 0..MaxTimer : [a EXCEPT !.timer = n] \in TimedBars  BY DEF TimedBars
  <1>2. \A n \in 0..3 : [a EXCEPT !.sym = n] \in TimedBars  BY DEF TimedBars
  <1>3. \A n \in 0..3, m \in 0..MaxTimer : [a EXCEPT !.sym = n, !.timer = m] \in TimedBars
    BY DEF TimedBars
  <1>4. \A n, m : /\ [a EXCEPT !.timer = n].pos = a.pos /\ [a EXCEPT !.timer = n].max = a.max
                  /\ [a EXCEPT !.sym = n].pos = a.pos /\ [a EXCEPT !.sym = n].max = a.max
                  /\ [a EXCEPT !.sym = n, !.timer = m].pos = a.pos
                  /\ [a EXCEPT !.sym = n, !.timer = m].max = a.max
    BY DEF TimedBars
  <1>5. QED  BY <1>1, <1>2, <1>3, <1>4 DEF BarFits
LEMMA BarFitsFields == \A a : BarFits(a) => FieldsFit(a)
  BY BarsFit DEF BarFits

\* A window turned to its own centre's symmetry has the same centre.
LEMMA TurnedSelf == ASSUME NEW w, Fitting(w), NEW n \in 0..7 PROVE Self(Turned(w, n)) = Self(w)
  <1> DEFINE v == Turned(w, n)
  <1>1. v.grid = w.grid /\ v.center = w.center /\ v.sym = n /\ w.sym \in 0..7
    BY DEF Turned, Fitting
  <1>2. \A k \in 0..7 : SymmetryMap(<<0, 0>>, k) = <<0, 0>>  BY DEF SymmetryMap
  <1>3. MapToTile(v, Center) = MapToTile(w, Center)  BY <1>1, <1>2 DEF MapToTile, Center
  <1> HIDE DEF v
  <1>4. AtomAt(v, Center) = AtomAt(w, Center)  BY <1>1, <1>3 DEF AtomAt, IsLiveSite
  <1>5. QED  BY <1>4 DEF Self, v
LEMMA GrowingPlans ==
  ASSUME NEW u, NEW w, NEW scan, Fitting(u) => Self(w) \in TimedBars /\ BarFits(Self(w))
  PROVE  ArePlans(u, GrowOlder(w, scan))
  <1> DEFINE me == Self(w)
             ripe == \/ me.timer = 0
                     \/ /\ scan.agrees # {}
                        /\ \A p \in scan.agrees : AtomAt(w, p).timer + 1 >= me.timer
             old(n) == n + 1
             older == {Put(w, Center, [me EXCEPT !.timer = old(me.timer)])}
             late == me.timer >= MaxTimer
             ready == me.timer < MaxTimer /\ me.timer = 0
  <1>1. ASSUME ~late  PROVE Fitting(u) => FieldsFit([me EXCEPT !.timer = old(me.timer)])
    <2>1. \A n \in 0..MaxTimer : ~ (n >= MaxTimer) => old(n) \in 0..MaxTimer  BY TimerAssumption
    <2> HIDE DEF old
    <2>2. Fitting(u) => me.timer \in 0..MaxTimer /\ InBar(me.pos, me.max)
      BY DEF TimedBars, BarFits
    <2> HIDE DEF me
    <2>3. Fitting(u) => old(me.timer) \in 0..MaxTimer  BY <1>1, <2>1, <2>2
    <2>4. QED  BY <2>2, <2>3, TimedFits, BarFitsFields DEF me
  <1>2. ~late => ArePlans(u, older)  BY <1>1, PutIsPlan DEF ArePlans
  <1>3. ArePlans(u, {Stay})  BY StayIsPlan DEF ArePlans
  <1>4. ~late => ArePlans(u, Maybe(older))  BY <1>2, <1>3 DEF ArePlans, Maybe
  <1>5. GrowOlder(w, scan) = CASE late \/ ~ripe -> {Stay}
                               [] ready -> older
                               [] OTHER -> Maybe(older)
    BY DEF GrowOlder
  <1>6. ready => ~late
    <2>1. ~ (0 >= MaxTimer /\ 0 < MaxTimer)  BY TimerAssumption
    <2> HIDE DEF me
    <2>2. QED  BY <2>1
  <1> HIDE DEF older, late, ripe, ready
  <1>7. QED  BY <1>2, <1>3, <1>4, <1>5, <1>6

\* The window a bar's cell sees: turned its own way.
LEMMA BarWindow ==
  ASSUME NEW window, Self(window).type \in BarTypes, NEW w, w = Turned(window, Self(window).sym)
  PROVE  Fitting(window) => Fitting(w) /\ Self(w) = Self(window) /\ BarFits(Self(w))
  <1> SUFFICES ASSUME Fitting(window)
               PROVE  Fitting(w) /\ Self(w) = Self(window) /\ BarFits(Self(w))
    OBVIOUS
  <1>1. BarFits(Self(window))  BY SelfFits, BarOfOne
  <1>2. Self(window).sym \in 0..7  BY <1>1, BarSymmetry
  <1>3. QED  BY <1>1, <1>2, TurnedFits, TurnedSelf

\* A cell with a timer, and what it makes of itself.
LEMMA TimedWindow ==
  ASSUME NEW window, Self(window).type \in TimedBarTypes, NEW w, w = Turned(window, Self(window).sym)
  PROVE  Fitting(window) => /\ Self(w) \in TimedBars /\ BarFits(Self(w)) /\ InBar(Self(w).pos, Self(w).max)
                            /\ Fitting(w) /\ Self(w).type \in TimedBarTypes
  <1>1. Fitting(window) => Fitting(w) /\ Self(w) = Self(window) /\ BarFits(Self(w))
    BY BarWindow DEF BarTypes
  <1>2. ASSUME NEW a, BarFits(a), a.type \in TimedBarTypes  PROVE a \in TimedBars
    BY <1>2 DEF BarFits, OtherBars, TimedBarTypes
  <1>3. QED  BY <1>1, <1>2 DEF BarFits
LEMMA NewbornFits ==
  ASSUME NEW a \in TimedBars, BarFits(a)
  PROVE  /\ BarFits([a EXCEPT !.timer = 0]) /\ [a EXCEPT !.timer = 0].max = a.max
         /\ FieldsFit(SetPos([a EXCEPT !.sym = (@ + 1) % 4, !.timer = 0], Center))
         /\ FieldsFit(SetPos([a EXCEPT !.sym = (@ + 1) % 4], Center))
  <1>1. 0 \in 0..MaxTimer  BY TimerAssumption
  <1>2. (a.sym + 1) % 4 \in 0..3
    <2>1. \A n \in 0..3 : (n + 1) % 4 \in 0..3  OBVIOUS
    <2>2. a.sym \in 0..3  BY DEF TimedBars
    <2>3. QED  BY <2>1, <2>2
  <1>3. InBar(a.pos, a.max)  BY DEF BarFits
  <1>4. [a EXCEPT !.timer = 0].max = a.max  BY DEF TimedBars
  <1>5. QED  BY <1>1, <1>2, <1>3, <1>4, TimedFits, CornerFits

LEMMA MQBarPlans ==
  \A window : Self(window).type \in TimedBarTypes => ArePlans(window, MQBarBehavior(window))
  <1> SUFFICES ASSUME NEW window, Self(window).type \in TimedBarTypes
               PROVE  ArePlans(window, MQBarBehavior(window))
    OBVIOUS
  <1> DEFINE w       == Turned(window, Self(window).sym)
             me      == Self(w)
             scan    == Scan(w, FALSE, FALSE)
             wrong   == {p \in scan.wrong : AtomAt(w, p).timer < me.timer}
             newborn == [me EXCEPT !.timer = 0]
             corner  == SetPos([me EXCEPT !.sym = (@ + 1) % 4, !.timer = 0], Center)
  <1>1. Fitting(window) => me \in TimedBars /\ BarFits(me)  BY TimedWindow
  <1>2. Fitting(window) => BarFits(newborn) /\ newborn.max = me.max  BY <1>1, NewbornFits
  <1>3. Fitting(window) => FieldsFit(corner)  BY <1>1, NewbornFits
  <1> HIDE DEF w
  <1>4. ArePlans(window, GrowOlder(w, scan))  BY <1>1, GrowingPlans
  <1> HIDE DEF newborn, corner
  <1>5. ArePlans(window, Both(StartBar(w, scan, corner), GrowOlder(w, scan)))
    BY <1>3, <1>4, StartPlans, BothPlans
  <1>6. ArePlans(window, {Stay})  BY StayIsPlan DEF ArePlans
  <1>7. ArePlans(window, Decide(w, scan, wrong, newborn, {Stay},
                                Both(StartBar(w, scan, corner), GrowOlder(w, scan))))
    <2> HIDE DEF wrong
    <2>1. QED  BY <1>2, <1>5, <1>6, DecidePlans
  <1>8. QED  BY <1>7 DEF MQBarBehavior, w, newborn, corner

LEMMA QBarPlans ==
  \A window : Self(window).type \in TimedBarTypes => ArePlans(window, QBarBehavior(window))
  <1> SUFFICES ASSUME NEW window, Self(window).type \in TimedBarTypes
               PROVE  ArePlans(window, QBarBehavior(window))
    OBVIOUS
  <1> DEFINE w       == Turned(window, Self(window).sym)
             me      == Self(w)
             scan    == Scan(w, FALSE, FALSE)
             timers  == {AtomAt(w, p).timer : p \in scan.agrees}
             least   == {t \in timers : \A u \in timers : t <= u}
             dock    == IF \E t \in least : t < me.timer THEN least ELSE {me.timer - 1}
             younger == {Put(w, Center, [me EXCEPT !.timer = t]) : t \in dock}
             newborn == [me EXCEPT !.timer = 0]
             corner  == SetPos([me EXCEPT !.sym = (@ + 1) % 4], Center)
  <1>1. Fitting(window) => /\ me \in TimedBars /\ BarFits(me) /\ InBar(me.pos, me.max)
                           /\ Fitting(w) /\ me.type \in TimedBarTypes
    BY TimedWindow
  <1>2. Fitting(window) => BarFits(newborn) /\ newborn.max = me.max  BY <1>1, NewbornFits
  <1>3. Fitting(window) => FieldsFit(corner)  BY <1>1, NewbornFits
  <1> HIDE DEF w
  <1>4. ArePlans(window, GrowOlder(w, scan))  BY <1>1, GrowingPlans
  <1>5. Fitting(window) => timers \subseteq 0..MaxTimer
    <2> SUFFICES ASSUME Fitting(window), NEW p \in scan.agrees
                 PROVE  AtomAt(w, p).timer \in 0..MaxTimer
      OBVIOUS
    <2>1. TypeAt(w, p) = me.type  BY DEF Scan
    <2>2. AtomAt(w, p) \in TimedBars  BY <1>1, <2>1, AtomsFit, FieldsOfOne DEF TypeAt
    <2>3. QED  BY <2>2 DEF TimedBars
  <1>6. me.timer # 0 => (Fitting(window) => dock \subseteq 0..MaxTimer)
    <2>1. Fitting(window) => me.timer \in 0..MaxTimer  BY <1>1 DEF TimedBars
    <2>2. \A n \in 0..MaxTimer : n # 0 => n - 1 \in 0..MaxTimer  BY TimerAssumption
    <2> HIDE DEF timers, me
    <2>3. QED  BY <1>5, <2>1, <2>2
  <1> HIDE DEF dock, timers
  <1>7. me.timer # 0 => ArePlans(window, younger)
    <2> SUFFICES ASSUME me.timer # 0, NEW t \in dock
                 PROVE  IsPlan(window, Put(w, Center, [me EXCEPT !.timer = t]))
      BY DEF ArePlans
    <2>1. Fitting(window) => FieldsFit([me EXCEPT !.timer = t])
      BY <1>1, <1>6, TimedFits, BarFitsFields
    <2>2. QED  BY <2>1, PutIsPlan
  <1> HIDE DEF newborn, corner, younger, me
  <1>8. ArePlans(window, Both(StartBar(w, scan, corner), GrowOlder(w, scan)))
    BY <1>3, <1>4, StartPlans, BothPlans
  <1>9. ArePlans(window, {Stay})  BY StayIsPlan DEF ArePlans
  <1>10. ArePlans(window, IF me.timer = 0 THEN {Stay} ELSE younger)  BY <1>7, <1>9
  <1>11. ArePlans(window, Decide(w, scan, scan.wrong, newborn, IF me.timer = 0 THEN {Stay} ELSE younger,
                                 Both(StartBar(w, scan, corner), GrowOlder(w, scan))))
    BY <1>2, <1>8, <1>10, DecidePlans DEF me
  <1>12. QED  BY <1>11 DEF QBarBehavior, w, newborn, corner, younger, me, dock, timers

\* Straight and diagonal bars begin each other at their corners.
LEMMA OtherBarFits ==
  \A max \in Sizes, n \in 0..7 :
    FieldsFit(SBar(Center, max, n)) /\ FieldsFit(DBar(Center, max, n))
  <1> SUFFICES ASSUME NEW max \in Sizes, NEW n \in 0..7, NEW t \in {"SBar", "DBar"}
               PROVE  FieldsFit(Cell([type |-> t, pos |-> Center, max |-> max, sym |-> n]))
    BY DEF SBar, DBar
  <1> DEFINE a == [type |-> t, pos |-> Center, max |-> max, sym |-> n]
  <1>1. a \in OtherBars /\ InBar(a.pos, a.max) /\ a.pos = Center /\ a.max = max
    BY DEF OtherBars, Center, InBar, Sizes, WideField, HighField
  <1>2. SetSize(a, max) = a  BY PackingKeeps DEF SetSize
  <1> HIDE DEF a
  <1>3. Cell(a) = SetPos(a, Center)  BY <1>1, <1>2 DEF Cell
  <1>4. QED  BY <1>1, <1>3, CornerFits DEF BarFits, a
LEMMA SlantedWindow ==
  ASSUME NEW window, Self(window).type \in {"SBar", "DBar"}, NEW w, w = Turned(window, Self(window).sym)
  PROVE  Fitting(window) => BarFits(Self(w)) /\ Self(w).max \in Sizes /\ Self(w).sym \in 0..7
  <1>1. Fitting(window) => BarFits(Self(w))  BY BarWindow DEF BarTypes
  <1>2. QED  BY <1>1 DEF BarFits, TimedBars, OtherBars

LEMMA SBarPlans == \A window : Self(window).type = "SBar" => ArePlans(window, SBarBehavior(window))
  <1> SUFFICES ASSUME NEW window, Self(window).type = "SBar"
               PROVE  ArePlans(window, SBarBehavior(window))
    OBVIOUS
  <1> DEFINE w      == Turned(window, Self(window).sym)
             me     == Self(w)
             scan   == Scan(w, FALSE, TRUE)
             corner == DBar(Center, me.max, me.sym)
  <1>1. Fitting(window) => BarFits(me) /\ FieldsFit(corner)  BY SlantedWindow, OtherBarFits
  <1> HIDE DEF w, corner
  <1>2. ArePlans(window, StartBar(w, scan, corner))  BY <1>1, StartPlans
  <1>3. ArePlans(window, {Stay})  BY StayIsPlan DEF ArePlans
  <1>4. ArePlans(window, Decide(w, scan, scan.wrong, me, {Stay}, StartBar(w, scan, corner)))
    BY <1>1, <1>2, <1>3, DecidePlans
  <1>5. QED  BY <1>4 DEF SBarBehavior, w, corner
LEMMA DBarPlans == \A window : Self(window).type = "DBar" => ArePlans(window, DBarBehavior(window))
  <1> SUFFICES ASSUME NEW window, Self(window).type = "DBar"
               PROVE  ArePlans(window, DBarBehavior(window))
    OBVIOUS
  <1> DEFINE w      == Turned(window, Self(window).sym)
             me     == Self(w)
             scan   == Scan(w, TRUE, TRUE)
             corner == SBar(Center, me.max, (me.sym + 6) % 8)
  <1>1. Fitting(window) => BarFits(me) /\ FieldsFit(corner)
    <2>1. \A n \in 0..7 : (n + 6) % 8 \in 0..7  OBVIOUS
    <2>2. QED  BY <2>1, SlantedWindow, OtherBarFits
  <1> HIDE DEF w, corner
  <1>2. ArePlans(window, StartBar(w, scan, corner))  BY <1>1, StartPlans
  <1>3. ArePlans(window, {Stay})  BY StayIsPlan DEF ArePlans
  <1>4. ArePlans(window, Decide(w, scan, scan.wrong, me, {Stay}, StartBar(w, scan, corner)))
    BY <1>1, <1>2, <1>3, DecidePlans
  <1>5. QED  BY <1>4 DEF DBarBehavior, w, corner

\* A crystal puts Res, copies of itself or of atoms it sees; which of its cases applies
\* makes no difference.
First(cases) ==
  cases[CHOOSE i \in DOMAIN cases : cases[i].when /\ \A j \in 1..i - 1 : ~cases[j].when].plans
LEMMA FirstCase ==
  ASSUME NEW a, NEW b, NEW c, NEW d, NEW e, NEW A, NEW B, NEW C, NEW D, NEW E, NEW F
  PROVE  First(<< [when |-> a, plans |-> A], [when |-> b, plans |-> B],
                  [when |-> c, plans |-> C], [when |-> d, plans |-> D],
                  [when |-> e, plans |-> E], [when |-> TRUE, plans |-> F] >>)
           \in {A, B, C, D, E, F}
  <1> DEFINE cases == << [when |-> a, plans |-> A], [when |-> b, plans |-> B],
                         [when |-> c, plans |-> C], [when |-> d, plans |-> D],
                         [when |-> e, plans |-> E], [when |-> TRUE, plans |-> F] >>
             first == CHOOSE i \in DOMAIN cases : cases[i].when /\ \A j \in 1..i - 1 : ~cases[j].when
  <1>1. DOMAIN cases = 1..6  OBVIOUS
  <1>2. /\ cases[1].when = a /\ cases[2].when = b /\ cases[3].when = c /\ cases[4].when = d
        /\ cases[5].when = e /\ cases[6].when = TRUE
    OBVIOUS
  <1>3. \A i \in 1..6 : cases[i].plans \in {A, B, C, D, E, F}  OBVIOUS
  <1> DEFINE Is(i) == cases[i].when /\ \A j \in 1..i - 1 : ~cases[j].when
  <1>4. \E i \in 1..6 : Is(i)
    <2>1. CASE cases[1].when  BY <2>1
    <2>2. CASE ~cases[1].when /\ cases[2].when  BY <2>2
    <2>3. CASE ~cases[1].when /\ ~cases[2].when /\ cases[3].when  BY <2>3
    <2>4. CASE ~cases[1].when /\ ~cases[2].when /\ ~cases[3].when /\ cases[4].when  BY <2>4
    <2>5. CASE /\ ~cases[1].when /\ ~cases[2].when /\ ~cases[3].when /\ ~cases[4].when
               /\ cases[5].when
      BY <2>5
    <2>6. CASE /\ ~cases[1].when /\ ~cases[2].when /\ ~cases[3].when /\ ~cases[4].when
               /\ ~cases[5].when
      BY <1>2, <2>6
    <2>7. QED  BY <2>1, <2>2, <2>3, <2>4, <2>5, <2>6
  <1>5. first \in 1..6
    <2>1. first = CHOOSE i \in 1..6 : Is(i)  BY <1>1
    <2> HIDE DEF Is
    <2>2. QED  BY <1>4, <2>1
  <1>6. QED  BY <1>3, <1>5 DEF First

LEMMA XtalPlans ==
  \A window : Self(window).type \in CrystalTypes => ArePlans(window, XtalBehavior(window))
  <1> SUFFICES ASSUME NEW window, Self(window).type \in CrystalTypes
               PROVE  ArePlans(window, XtalBehavior(window))
    OBVIOUS
  <1> DEFINE w  == Turned(window, CrystalSymmetry(Self(window)))
             me == Self(w)
             live   == {p \in Ring(0, R) : IsLiveSite(w, p)}
             points == live \cap GetSites(me)
             fields == live \ points
             us(S)  == {p \in S : AtomAt(w, p) = me}
             gaps   == OfType(w, points, "Empty")
             strangers == {p \in points \ us(points) : TypeAt(w, p) \in CrystalTypes}
             spare  == OfType(w, points, "Res")
             stock  == OfType(w, fields, "Res")
             brought(f, p) == Swap(w, f, p) \o Put(w, p, me)
             mine  == Cardinality(us(fields)) > Cardinality(us(points))
             amiss == us(fields) # {} /\ gaps # {}
             bare  == spare # {}
             apt   == stock # {} /\ gaps # {}
             odd   == strangers # {} /\ gaps # {}
             yield   == {Put(w, Center, Res)}
             move    == {Swap(w, f, p) : f \in us(fields), p \in gaps}
             turn    == {Put(w, p, me) : p \in spare}
             bring   == {brought(f, p) : f \in stock, p \in gaps}
             resolve == {Put(w, p, Res) : p \in strangers}
             cases == << [when |-> mine, plans |-> yield],
                         [when |-> amiss, plans |-> move],
                         [when |-> bare, plans |-> turn],
                         [when |-> apt, plans |-> bring],
                         [when |-> odd, plans |-> resolve],
                         [when |-> TRUE, plans |-> {Stay}] >>
  <1>1. XtalBehavior(window) = First(cases)  BY DEF XtalBehavior, First
  <1>2. CrystalSymmetry(Self(window)) \in 0..7  BY DEF CrystalSymmetry, FlipY
  <1>3. Fitting(window) => Fitting(w)  BY <1>2, TurnedFits
  <1> HIDE DEF w
  <1>4. \A p, q : IsPlan(window, Put(w, p, AtomAt(w, q))) /\ IsPlan(window, Put(w, p, me))
    BY <1>3, AtomsFit, PutIsPlan DEF Self
  <1>5. \A p, q : IsPlan(window, Swap(w, p, q))  BY <1>4, ConcatIsPlan DEF Swap
  <1>6. \A f, p : IsPlan(window, brought(f, p))  BY <1>4, <1>5, ConcatIsPlan
  <1>7. \A p : IsPlan(window, Put(w, p, Res))  BY PlainPuts
  <1> HIDE DEF me, us, gaps, spare, stock, strangers, brought
  <1>8. ArePlans(window, yield) /\ ArePlans(window, turn) /\ ArePlans(window, resolve)
    BY <1>4, <1>7 DEF ArePlans
  <1>9. ASSUME NEW r \in move  PROVE IsPlan(window, r)
    <2>1. PICK f \in us(fields), p \in gaps : r = Swap(w, f, p)  OBVIOUS
    <2>2. QED  BY <1>5, <2>1
  <1>10. ASSUME NEW r \in bring  PROVE IsPlan(window, r)
    <2>1. PICK f \in stock, p \in gaps : r = brought(f, p)  OBVIOUS
    <2>2. QED  BY <1>6, <2>1
  <1>11. ArePlans(window, {Stay})  BY StayIsPlan DEF ArePlans
  <1> HIDE DEF yield, turn, resolve, move, bring, mine, amiss, bare, apt, odd
  <1>12. ArePlans(window, move) /\ ArePlans(window, bring)  BY <1>9, <1>10 DEF ArePlans
  <1>13. First(cases) \in {yield, move, turn, bring, resolve, {Stay}}
    BY FirstCase
  <1> HIDE DEF cases
  <1>14. QED  BY <1>1, <1>8, <1>11, <1>12, <1>13
-----------------------------------------------------------------------------

\* An Emitter or a Consumer writes members of stacks only, itself or the next one.
Stacks == [type : StackTypes, below : 0..StackField - 1, above : 0..StackField - 1]
StackPlan(w, p) == \E S : p \in Seq(S) /\ (Fitting(w) => \A x \in S : x[2] \in Stacks)
LEMMA HeightsFit == /\ \A n \in 0..StackField - 1 : /\ Further(n) \in 0..StackField - 1
                                                     /\ Less(n) \in 0..StackField - 1
                                                     /\ (n + 1) % StackField \in 0..StackField - 1
                     /\ 0 \in 0..StackField - 1
  BY DEF Further, Less, StackField
LEMMA StackPuts ==
  ASSUME NEW w, NEW p, NEW a, Fitting(w) => a \in Stacks
  PROVE  StackPlan(w, Put(w, p, a))
  <1> DEFINE x == <<MapToTile(w, p), a>>
  <1>1. Put(w, p, a) \in Seq({x}) /\ x[2] = a  BY DEF Put
  <1> HIDE DEF x
  <1>2. QED  BY <1>1 DEF StackPlan
LEMMA LookingPlans ==
  ASSUME NEW w, Self(w).type \in StackTypes, NEW down \in BOOLEAN
  PROVE  \A p \in LookAlong(w, down) : StackPlan(w, p)
  <1> DEFINE me    == Self(w)
             at    == <<0, IF down THEN Gap(me) ELSE -Gap(me)>>
             other == AtomAt(w, at)
             copy  == [me EXCEPT !.below = IF down THEN 0 ELSE Further(@),
                                 !.above = IF down THEN Further(@) ELSE 0]
             agreed == IF down THEN [me EXCEPT !.below = (other.below + 1) % StackField]
                               ELSE [me EXCEPT !.above = (other.above + 1) % StackField]
             worn  == IF down THEN [me EXCEPT !.below = Less(@)] ELSE [me EXCEPT !.above = Less(@)]
             Become(a) == IF a = me THEN Stay ELSE Put(w, Center, a)
             live == IsLiveSite(w, at)
  <1>1. Fitting(w) => me \in Stacks  BY SelfFits, FieldsOfOne DEF Stacks
  <1>2. Fitting(w) /\ other.type = me.type => other \in Stacks
    BY AtomsFit, FieldsOfOne DEF Stacks
  <1>3. Fitting(w) => copy \in Stacks  BY <1>1, HeightsFit DEF Stacks
  <1>4. Fitting(w) => worn \in Stacks  BY <1>1, HeightsFit DEF Stacks
  <1>5. Fitting(w) /\ other.type = me.type => agreed \in Stacks
    <2>1. \A a, b \in Stacks : /\ [a EXCEPT !.below = (b.below + 1) % StackField] \in Stacks
                               /\ [a EXCEPT !.above = (b.above + 1) % StackField] \in Stacks
      BY HeightsFit DEF Stacks
    <2> HIDE DEF me, other
    <2>2. QED  BY <1>1, <1>2, <2>1
  <1>6. StackPlan(w, Stay)
    <2>1. Stay \in Seq({})  BY DEF Stay
    <2>2. QED  BY <2>1 DEF StackPlan
  <1> HIDE DEF copy, worn, agreed
  <1>7. \A a : (Fitting(w) => a \in Stacks) => StackPlan(w, Become(a))  BY <1>6, StackPuts
  <1> HIDE DEF Become, at
  <1>8. StackPlan(w, Put(w, at, copy))  BY <1>3, StackPuts
  <1>9. StackPlan(w, Become(worn))  BY <1>4, <1>7
  <1>10. other.type = me.type => StackPlan(w, Become(agreed))  BY <1>5, <1>7
  <1>11. LookAlong(w, down) = CASE ~live -> {Stay}
                                [] live /\ other.type = "Empty" -> {Put(w, at, copy)}
                                [] other.type = me.type -> {Become(agreed)}
                                [] OTHER                -> Maybe({Become(worn)})
    BY DEF LookAlong, Become, copy, worn, agreed, at
  <1> HIDE DEF live, other
  <1>12. \A p \in Maybe({Become(worn)}) : StackPlan(w, p)  BY <1>6, <1>9 DEF Maybe
  <1> HIDE DEF me
  <1>13. QED  BY <1>6, <1>8, <1>10, <1>11, <1>12
LEMMA GrownPlans ==
  ASSUME NEW w, Self(w).type \in StackTypes, NEW grown \in ReproduceVertically(w)
  PROVE  /\ IsPlan(w, grown)
         /\ Fitting(w) => Fitting(After(w, grown)) /\ Self(After(w, grown)) \in Stacks
  <1>1. StackPlan(w, grown)  BY LookingPlans DEF ReproduceVertically
  <1>2. PICK S : grown \in Seq(S) /\ (Fitting(w) => \A x \in S : x[2] \in Stacks)
    BY <1>1 DEF StackPlan
  <1>3. IsPlan(w, grown)  BY <1>2, StackFits DEF IsPlan, Stacks
  <1>4. ASSUME Fitting(w)  PROVE Self(After(w, grown)) \in Stacks
    <2> DEFINE c == MapToTile(w, Center)
               D == DOMAIN w.grid
               A == {w.grid[s] : s \in D} \cup Stacks
               V == {g \in [D -> A] : g[c] \in Stacks}
               v == After(w, grown)
    <2>1. Self(w) \in Stacks  BY <1>4, SelfFits, FieldsOfOne DEF Stacks
    <2>2. c \in D
      <3>1. Empty \notin Stacks  BY DEF Empty, Stacks, StackTypes
      <3>2. QED  BY <2>1, <3>1 DEF Self, AtomAt, IsLiveSite
    <2>3. w.grid \in V
      <3>1. w.grid \in [D -> A]  BY <1>4 DEF Fitting
      <3>2. w.grid[c] \in Stacks  BY <2>1, <2>2 DEF Self, AtomAt, IsLiveSite
      <3>3. QED  BY <3>1, <3>2
    <2>4. ASSUME NEW x \in S, NEW u \in V  PROVE Laid(u, x) \in V
      <3>1. x[2] \in Stacks  BY <1>2, <1>4
      <3> HIDE DEF Stacks, c, D
      <3>2. QED  BY <2>2, <3>1 DEF Laid
    <2> HIDE DEF V
    <2>5. LayAll(w.grid, grown) \in V  BY <1>2, <2>3, <2>4, LayingKeeps
    <2>6. v = [grid |-> LayAll(w.grid, grown), center |-> w.center, sym |-> w.sym]
      BY <1>4, AfterLays DEF Fitting
    <2> HIDE DEF v
    <2>7. v.grid \in V /\ MapToTile(v, Center) = c  BY <2>5, <2>6 DEF MapToTile
    <2>8. QED  BY <2>2, <2>7 DEF V, Self, AtomAt, IsLiveSite, v
  <1>5. QED  BY <1>3, <1>4, WindowAfter

\* An outcome is a plan, and natural numbers to add to the tallies.
Tallies == [DOMAIN NoTally -> Nat]
IsOutcome(w, o) == IsPlan(w, o.plan) /\ (Fitting(w) => o.tally \in Tallies)
LEMMA TalliesCount ==
  /\ NoTally \in Tallies
  /\ [NoTally EXCEPT !.emitted = 1] \in Tallies
  /\ [NoTally EXCEPT !.emitted = 1, !.rejected = 1] \in Tallies
  /\ \A n \in Nat : [NoTally EXCEPT !.consumed = 1, !.bucketError = n] \in Tallies
  <1> DEFINE Keys == {"emitted", "rejected", "consumed", "bucketError"}
  <1>1. NoTally = [k \in Keys |-> 0] /\ DOMAIN NoTally = Keys  BY DEF NoTally
  <1>2. \A f \in [Keys -> Nat], k \in Keys, n \in Nat : [f EXCEPT ![k] = n] \in [Keys -> Nat]
    OBVIOUS
  <1> DEFINE one == [NoTally EXCEPT !.emitted = 1]
             two == [NoTally EXCEPT !.consumed = 1]
  <1>3. NoTally \in [Keys -> Nat]  BY <1>1
  <1>4. one \in [Keys -> Nat] /\ two \in [Keys -> Nat]  BY <1>2, <1>3
  <1>5. [NoTally EXCEPT !.emitted = 1, !.rejected = 1] = [one EXCEPT !.rejected = 1]  OBVIOUS
  <1>6. \A n : [NoTally EXCEPT !.consumed = 1, !.bucketError = n] = [two EXCEPT !.bucketError = n]
    OBVIOUS
  <1> HIDE DEF one, two
  <1>7. [one EXCEPT !.rejected = 1] \in [Keys -> Nat]  BY <1>2, <1>4
  <1>8. \A n \in Nat : [two EXCEPT !.bucketError = n] \in [Keys -> Nat]  BY <1>2, <1>4
  <1>9. QED  BY <1>1, <1>3, <1>4, <1>5, <1>6, <1>7, <1>8 DEF Tallies, one
LEMMA SilentOutcomes ==
  ASSUME NEW w, NEW plans, ArePlans(w, plans)
  PROVE  \A o \in Silently(plans) : IsOutcome(w, o)
  <1> SUFFICES ASSUME NEW o \in Silently(plans)  PROVE IsOutcome(w, o)
    OBVIOUS
  <1>1. PICK p \in plans : o = [plan |-> p, tally |-> NoTally]  BY DEF Silently
  <1>2. o.plan = p /\ o.tally = NoTally  BY <1>1
  <1>3. QED  BY <1>2, TalliesCount DEF IsOutcome, ArePlans

LEMMA EmitterOutcomes ==
  \A w : Self(w).type \in StackTypes => \A o \in EmitterBehavior(w) : IsOutcome(w, o)
  <1> SUFFICES ASSUME NEW w, Self(w).type \in StackTypes, NEW o \in EmitterBehavior(w)
               PROVE  IsOutcome(w, o)
    OBVIOUS
  <1> DEFINE Room(v) == LET near == OfType(v, Ring(1, 1), "Empty")
                        IN  IF near # {} THEN near ELSE OfType(v, Ring(2, 2), "Empty")
             none == [NoTally EXCEPT !.emitted = 1, !.rejected = 1]
             one  == [NoTally EXCEPT !.emitted = 1]
             Placed(v, p, d) == [plan |-> Put(v, p, Data(d)), tally |-> one]
             Emit(v) == IF Room(v) = {} THEN {[plan |-> Stay, tally |-> none]}
                        ELSE {Placed(v, p, d) : p \in Room(v), d \in Datums}
             Whole(grown, e) == [e EXCEPT !.plan = grown \o @]
             ends(v) == Silently({Stay}) \cup Emit(v)
  <1>1. EmitterBehavior(w) =
          UNION {{Whole(grown, e) : e \in ends(After(w, grown))} : grown \in ReproduceVertically(w)}
    BY DEF EmitterBehavior
  <1> HIDE DEF Whole, ends
  <1>2. PICK grown \in ReproduceVertically(w) : \E e \in ends(After(w, grown)) : o = Whole(grown, e)
    BY <1>1
  <1> DEFINE v == After(w, grown)
  <1>3. PICK e \in ends(v) : o = Whole(grown, e)  BY <1>2
  <1>4. IsPlan(w, grown)  BY GrownPlans
  <1>5. e = [plan |-> e.plan, tally |-> e.tally] /\ IsPlan(v, e.plan) /\ e.tally \in Tallies
    <2>1. CASE e \in Silently({Stay})
      <3>1. e = [plan |-> Stay, tally |-> NoTally]  BY <2>1 DEF Silently
      <3>2. e.plan = Stay /\ e.tally = NoTally  BY <3>1
      <3>3. QED  BY <3>1, <3>2, StayIsPlan, TalliesCount
    <2>2. CASE e = [plan |-> Stay, tally |-> none]  BY <2>2, StayIsPlan, TalliesCount
    <2>3. CASE e \in {Placed(v, p, d) : p \in Room(v), d \in Datums}
      <3> HIDE DEF v, Room, Placed
      <3>1. PICK p \in Room(v), d \in Datums : e = Placed(v, p, d)  BY <2>3
      <3>2. FieldsFit(Data(d))  BY DatumAssumption, DataFits
      <3>3. IsPlan(v, Put(v, p, Data(d)))  BY <3>2, PutIsPlan
      <3>4. QED  BY <3>1, <3>3, TalliesCount DEF Placed
    <2> HIDE DEF none, v
    <2>4. QED  BY <2>1, <2>2, <2>3 DEF ends
  <1>6. o = [plan |-> grown \o e.plan, tally |-> e.tally]  BY <1>3, <1>5 DEF Whole
  <1>7. IsPlan(w, grown \o e.plan)  BY <1>4, <1>5, AfterIsPlan
  <1>8. QED  BY <1>5, <1>6, <1>7 DEF IsOutcome

\* How far a datum is from the bucket it should be in: there is more room for data
\* than a stack has members, so that a bucket holds one value at least.
LEMMA LeastOne ==
  ASSUME NEW n, NEW S \in SUBSET (1..n), n \in Int, S # {}
  PROVE  (CHOOSE i \in S : \A j \in S : i <= j) \in S
  <1>1. S \in SUBSET Nat  OBVIOUS
  <1>2. PICK m \in S : \A j \in S : ~ (j < m)  BY <1>1, LeastNatural
  <1>3. \A j \in S : m <= j  BY <1>1, <1>2
  <1>4. QED  BY <1>3
LEMMA BucketsHold ==
  ASSUME NEW a \in 0..StackField - 1, NEW b \in 0..StackField - 1
  PROVE  DataMax \div (a + b + 1) \in Nat \ {0}
  <1> DEFINE d == a + b + 1
  <1>1. d \in Nat /\ d > 0 /\ d <= DataMax /\ DataMax \in Nat  BY DatumAssumption DEF StackField
  <1> HIDE DEF d
  <1> DEFINE q == DataMax \div d
  <1>2. q \in Int /\ DataMax = d * q + (DataMax % d) /\ DataMax % d \in 0..d - 1  BY <1>1
  <1>3. DataMax % d < d  BY <1>1, <1>2
  <1> HIDE DEF q
  <1>4. ASSUME q <= 0  PROVE FALSE
    <2>1. d * q <= 0  BY <1>1, <1>2, <1>4
    <2>2. QED  BY <1>1, <1>2, <1>3, <2>1
  <1>5. QED  BY <1>2, <1>4 DEF q, d
Wide(a, b) == DataMax \div (a + b + 1)
Middle(a, b) == (Wide(a, b) * a + Wide(a, b) * (a + 1)) \div 2
LEMMA ErrorsAreNat ==
  ASSUME NEW a \in 0..StackField - 1, NEW b \in 0..StackField - 1, NEW n \in 1..DataMax
  PROVE  Abs(n - Middle(a, b)) \div Wide(a, b) \in Nat
  <1>1. Wide(a, b) \in Nat \ {0}  BY BucketsHold DEF Wide
  <1>2. a \in Nat  BY DEF StackField
  <1>3. Middle(a, b) \in Int
    <2> DEFINE q == Wide(a, b)
    <2>1. \A k, m \in Nat : k * m \in Nat  OBVIOUS
    <2>2. q * a \in Nat /\ q * (a + 1) \in Nat  BY <1>1, <1>2, <2>1
    <2>3. \A k, m \in Nat : (k + m) \div 2 \in Int  OBVIOUS
    <2> HIDE DEF q
    <2>4. QED  BY <2>2, <2>3 DEF Middle, q
  <1>4. \A k, m \in Int : Abs(k - m) \in Nat  BY DEF Abs
  <1>5. \A k \in Nat, q \in Nat \ {0} : k \div q \in Nat
    <2>1. \A k \in Nat, q \in Nat \ {0} : k \div q \in Int /\ k \div q >= 0  OBVIOUS
    <2>2. QED  BY <2>1
  <1>6. n \in Int  BY DatumAssumption
  <1>7. QED  BY <1>1, <1>3, <1>4, <1>5, <1>6

LEMMA ConsumerOutcomes ==
  \A w : Self(w).type \in StackTypes => \A o \in ConsumerBehavior(w) : IsOutcome(w, o)
  <1> SUFFICES ASSUME NEW w, Self(w).type \in StackTypes, NEW o \in ConsumerBehavior(w)
               PROVE  IsOutcome(w, o)
    OBVIOUS
  <1> DEFINE found(v) == {i \in 1..R - 1 : TypeAt(v, <<i, 0>>) = "Data"}
             at(v)    == <<CHOOSE i \in found(v) : \A j \in found(v) : i <= j, 0>>
             error(v) == Abs(AtomAt(v, at(v)).value - Middle(Self(v).above, Self(v).below))
                           \div Wide(Self(v).above, Self(v).below)
             none     == [plan |-> Stay, tally |-> NoTally]
             fed(v)   == [plan |-> Put(v, at(v), Empty),
                          tally |-> [NoTally EXCEPT !.consumed = 1, !.bucketError = error(v)]]
             Feed(v)  == IF found(v) = {} THEN none ELSE fed(v)
             Whole(grown, e) == [e EXCEPT !.plan = grown \o @]
  <1>1. ConsumerBehavior(w) = {Whole(grown, Feed(After(w, grown))) : grown \in ReproduceVertically(w)}
    BY DEF ConsumerBehavior, Middle, Wide
  <1> HIDE DEF Whole, Feed
  <1>2. PICK grown \in ReproduceVertically(w) : o = Whole(grown, Feed(After(w, grown)))
    BY <1>1
  <1> DEFINE v == After(w, grown)
             e == Feed(v)
  <1>3. IsPlan(w, grown) /\ (Fitting(w) => Fitting(v) /\ Self(v) \in Stacks)  BY GrownPlans
  <1> HIDE DEF v
  <1>4. e = [plan |-> e.plan, tally |-> e.tally] /\ IsPlan(v, e.plan)
        /\ (Fitting(w) => e.tally \in Tallies)
    <2>1. CASE found(v) = {}
      <3>1. e = none  BY <2>1 DEF Feed
      <3>2. e.plan = Stay /\ e.tally = NoTally  BY <3>1
      <3>3. QED  BY <3>1, <3>2, StayIsPlan, TalliesCount
    <2>2. CASE found(v) # {}
      <3>1. e = fed(v)  BY <2>2 DEF Feed
      <3>2. IsPlan(v, Put(v, at(v), Empty))  BY PlainPuts
      <3>3. Fitting(w) => error(v) \in Nat
        <4> SUFFICES ASSUME Fitting(w)  PROVE error(v) \in Nat
          OBVIOUS
        <4>1. \E i \in found(v) : at(v) = <<i, 0>>
          <5>1. R - 1 \in Int /\ found(v) \in SUBSET (1..R - 1)  BY WindowAssumption
          <5> HIDE DEF found
          <5>2. QED  BY <2>2, <5>1, LeastOne
        <4>2. TypeAt(v, at(v)) = "Data"  BY <4>1
        <4> HIDE DEF at
        <4>3. AtomAt(v, at(v)).value \in 1..DataMax
          BY <1>3, <4>2, AtomsFit, FieldsOfOne DEF TypeAt
        <4>4. Self(v).above \in 0..StackField - 1 /\ Self(v).below \in 0..StackField - 1
          BY <1>3 DEF Stacks
        <4>5. QED  BY <4>3, <4>4, ErrorsAreNat
      <3>4. Fitting(w) => [NoTally EXCEPT !.consumed = 1, !.bucketError = error(v)] \in Tallies
        BY <3>3, TalliesCount
      <3>5. /\ e.plan = Put(v, at(v), Empty)
            /\ e.tally = [NoTally EXCEPT !.consumed = 1, !.bucketError = error(v)]
            /\ e = [plan |-> e.plan, tally |-> e.tally]
        BY <3>1
      <3> HIDE DEF error, at
      <3>6. QED  BY <3>2, <3>4, <3>5
    <2>3. QED  BY <2>1, <2>2
  <1> HIDE DEF e
  <1>5. o = [plan |-> grown \o e.plan, tally |-> e.tally]  BY <1>2, <1>4 DEF Whole, e, v
  <1>6. IsPlan(w, grown \o e.plan)  BY <1>3, <1>4, AfterIsPlan DEF v
  <1>7. QED  BY <1>4, <1>5, <1>6 DEF IsOutcome

\* Any element's behaviour, by the table of Behavior.
LEMMA PlainBehaviors ==
  \A w : /\ ArePlans(w, MoverBehavior(w)) /\ ArePlans(w, DemoMoverBehavior(w))
         /\ ArePlans(w, {Stay}) /\ ArePlans(w, {Put(w, Center, Empty)})
  BY CarryPlans, StayIsPlan, PlainPuts DEF MoverBehavior, DemoMoverBehavior, ArePlans
LEMMA BehaviorPlans == \A w : ArePlans(w, Behavior(w))
  <1> TAKE w
  <1> DEFINE type == Self(w).type
  <1>1. /\ type = "AntiFork" => ArePlans(w, AntiForkBehavior(w))
        /\ type = "Fish" => ArePlans(w, FishBehavior(w))
        /\ type = "Shark" => ArePlans(w, SharkBehavior(w))
        /\ type = "Base" => ArePlans(w, BaseBehavior(w))
        /\ type = "Mine" => ArePlans(w, MineBehavior(w))
        /\ type = "SBar" => ArePlans(w, SBarBehavior(w))
        /\ type = "DBar" => ArePlans(w, DBarBehavior(w))
        /\ type \in CrystalTypes => ArePlans(w, XtalBehavior(w))
    BY AntiForkPlans, FishPlans, SharkPlans, BasePlans, MinePlans, SBarPlans, DBarPlans, XtalPlans
  <1>2. /\ type = "MQBar" => ArePlans(w, MQBarBehavior(w))
        /\ type = "DemoMQBar" => ArePlans(w, DemoMQBarBehavior(w))
        /\ type = "QBar" => ArePlans(w, QBarBehavior(w))
    BY MQBarPlans, QBarPlans DEF TimedBarTypes, DemoMQBarBehavior
  <1>3. /\ ArePlans(w, Diffuse(w)) /\ ArePlans(w, DregBehavior(w)) /\ ArePlans(w, CregBehavior(w))
        /\ ArePlans(w, DmoverBehavior(w)) /\ ArePlans(w, CollectorBehavior(w))
        /\ ArePlans(w, WandererBehavior(w)) /\ ArePlans(w, DataBehavior(w))
        /\ ArePlans(w, SorterBehavior(w)) /\ ArePlans(w, InfantryBehavior(w))
    BY DiffusePlans, DregPlans, CregPlans, DmoverPlans, CollectorPlans, WandererPlans, DataPlans,
       SorterPlans, InfantryPlans
  <1>4. /\ ArePlans(w, ForkBombBehavior(w)) /\ ArePlans(w, ForkBomb3Behavior(w))
        /\ ArePlans(w, CheckerForkBehavior(w, "CheckerBlue"))
        /\ ArePlans(w, CheckerForkBehavior(w, "CheckerRed"))
    BY ForkBombPlans, ForkBomb3Plans, CheckerForkPlans
  <1> HIDE DEF type
  <1>5. QED  BY <1>1, <1>2, <1>3, <1>4, PlainBehaviors DEF Behavior, type

\* Whatever an element does in an event, it is finitely many writes, one after another,
\* of atoms that fit where those it saw do.
LEMMA OutcomesArePlans == \A w : \A o \in Outcomes(w) : IsOutcome(w, o)
  <1> TAKE w
  <1>1. \A o \in Silently(Behavior(w)) : IsOutcome(w, o)  BY BehaviorPlans, SilentOutcomes
  <1>2. /\ Self(w).type = "Emitter" => \A o \in EmitterBehavior(w) : IsOutcome(w, o)
        /\ Self(w).type = "Consumer" => \A o \in ConsumerBehavior(w) : IsOutcome(w, o)
    BY EmitterOutcomes, ConsumerOutcomes DEF StackTypes
  <1>3. QED  BY <1>1, <1>2 DEF Outcomes
-----------------------------------------------------------------------------
(* The counts *)

\* Tiles of the world w, whose atoms are among those of A.
Tiles(w, A) == [grid : [DOMAIN w.grid -> A], count : [w.types -> Nat],
                illegal : Int, needRecount : BOOLEAN]

Sane(w) == /\ IsFiniteSet(w.types) /\ IsFiniteSet(w.owned)
           /\ w.owned \subseteq DOMAIN w.grid

\* What the counts add up to.
Balance(w, t) == t.illegal + SumFunctionOnSet(t.count, w.types)
Balanced(w, t) == t.needRecount \/ Balance(w, t) = Cardinality(w.owned)

CountOf(w, grid, k) == Cardinality(Holding(grid, w.owned, {k}))
IllegalsOf(w, grid) == Cardinality(w.owned \ Holding(grid, w.owned, w.types))
Right(w, t) == /\ \A k \in w.types : t.count[k] = CountOf(w, t.grid, k)
               /\ t.illegal = IllegalsOf(w, t.grid)
               /\ t.needRecount = FALSE

Kept(w, t) == Balanced(w, t) /\ (~w.radiation => Right(w, t))

\* RecountAtoms writes down the right counts.
LEMMA Recounted ==
  ASSUME Sane(world), NEW A, NEW t \in Tiles(world, A)
  PROVE  /\ RecountAtoms(t) \in Tiles(world, A)
         /\ \A k \in world.types : RecountAtoms(t).count[k] = CountOf(world, t.grid, k)
         /\ RecountAtoms(t).illegal = IllegalsOf(world, t.grid)
         /\ RecountAtoms(t).grid = t.grid
         /\ RecountAtoms(t).needRecount = t.needRecount
  <1> DEFINE H(K) == Holding(t.grid, world.owned, K)
  <1>1. \A K : IsFiniteSet(H(K)) /\ Cardinality(H(K)) \in Nat
    BY FS_Subset, FS_CardinalityType DEF Holding, Sane
  <1>2. IsFiniteSet(world.owned \ H(world.types))
        /\ Cardinality(world.owned \ H(world.types)) \in Nat
    BY FS_Subset, FS_CardinalityType DEF Sane
  <1>3. Illegals(t.grid, Owned) = world.owned \ H(world.types)
    BY DEF Illegals, Holding, Owned, KnownTypes
  <1>4. Counts(t.grid, Owned) = [k \in world.types |-> Cardinality(H({k}))]
    BY DEF Counts, Owned, KnownTypes
  <1>5. Counts(t.grid, Owned) \in [world.types -> Nat]  BY <1>1, <1>4
  <1>6. Cardinality(Illegals(t.grid, Owned)) \in Int  BY <1>2, <1>3
  <1>7. QED
    BY <1>3, <1>4, <1>5, <1>6 DEF RecountAtoms, Tiles, CountOf, IllegalsOf

\* Counts that are right add up to the owned sites.
LEMMA RightIsBalanced ==
  ASSUME NEW w, Sane(w), NEW A, NEW t \in Tiles(w, A),
         \A k \in w.types : t.count[k] = CountOf(w, t.grid, k),
         t.illegal = IllegalsOf(w, t.grid)
  PROVE  Balance(w, t) = Cardinality(w.owned)
  <1> DEFINE f == [s \in w.owned |-> t.grid[s].type]
             known == Holding(t.grid, w.owned, w.types)
  <1>1. known = Kinds(f, w.owned, w.types)  BY DEF Kinds, Holding
  <1>2. CountedByKind(t.count, f, w.owned, w.types)
    <2>1. \A k : Holding(t.grid, w.owned, {k}) = Kinds(f, w.owned, {k})
      BY DEF Kinds, Holding
    <2>2. QED  BY <2>1 DEF CountedByKind, CountOf
  <1>3. t.count \in [w.types -> Int]  BY DEF Tiles
  <1> HIDE DEF f
  <1>4. SumFunctionOnSet(t.count, w.types) = Cardinality(known)
    BY <1>1, <1>2, <1>3, KindsAddUp DEF Sane
  <1>5. /\ Cardinality(w.owned) \in Nat
        /\ Cardinality(known) \in Nat
    BY FS_Subset, FS_CardinalityType DEF Sane, Holding
  <1>6. Cardinality(w.owned \ known) = Cardinality(w.owned) - Cardinality(known)
    <2>1. w.owned \cap known = known  BY DEF Holding
    <2>2. QED  BY <2>1, FS_Difference DEF Sane
  <1>7. \A a, b \in Nat : (a - b) + b = a  OBVIOUS
  <1>8. Balance(w, t) = (Cardinality(w.owned) - Cardinality(known)) + Cardinality(known)
    BY <1>4, <1>6 DEF Balance, IllegalsOf
  <1> HIDE DEF known
  <1>9. QED  BY <1>5, <1>7, <1>8, Zenon

\* What one step of IncrAtomCount makes of the balance.
Moves(t, u, w, delta) ==
  /\ u.grid = t.grid
  /\ t.needRecount => u.needRecount
  /\ u.needRecount \/ Balance(w, u) = Balance(w, t) + delta

\* IncrAtomCount moves the balance by delta, or asks for a recount.
LEMMA IncrMoves ==
  ASSUME Sane(world), NEW A, NEW t \in Tiles(world, A), NEW k, NEW delta \in {-1, 1}
  PROVE  /\ IncrAtomCount(t, k, delta) \in Tiles(world, A)
         /\ Moves(t, IncrAtomCount(t, k, delta), world, delta)
  <1> DEFINE u == IncrAtomCount(t, k, delta)
             sum == SumFunctionOnSet(t.count, world.types)
  <1>1. t.count \in [world.types -> Nat] /\ t.count \in [world.types -> Int] /\ t.illegal \in Int
    BY DEF Tiles
  <1>2. sum \in Int  BY <1>1, SumType DEF Sane
  <1>3. CASE k \notin world.types
    <2>1. u = [t EXCEPT !.illegal = @ + delta]  BY <1>3 DEF IncrAtomCount, KnownTypes
    <2>2. /\ u \in Tiles(world, A) /\ u.grid = t.grid /\ u.needRecount = t.needRecount
          /\ u.count = t.count /\ u.illegal = t.illegal + delta
      BY <2>1 DEF Tiles
    <2>3. Balance(world, u) = (t.illegal + delta) + sum  BY <2>2 DEF Balance
    <2>4. Balance(world, t) = t.illegal + sum  BY DEF Balance
    <2> HIDE DEF u, sum
    <2>5. \A a, b \in Int : (a + delta) + b = (a + b) + delta  OBVIOUS
    <2>6. QED  BY <1>1, <1>2, <2>2, <2>3, <2>4, <2>5 DEF Moves, u
  <1>4. CASE k \in world.types /\ t.count[k] + delta < 0
    <2>1. u = [t EXCEPT !.needRecount = TRUE]  BY <1>4 DEF IncrAtomCount, KnownTypes
    <2>2. QED  BY <2>1 DEF Tiles, Moves
  <1>5. CASE k \in world.types /\ ~ (t.count[k] + delta < 0)
    <2>1. u = [t EXCEPT !.count[k] = @ + delta]  BY <1>5 DEF IncrAtomCount, KnownTypes
    <2>2. t.count[k] + delta \in Nat  BY <1>1, <1>5
    <2>3. /\ u \in Tiles(world, A) /\ u.grid = t.grid /\ u.needRecount = t.needRecount
          /\ u.count = [t.count EXCEPT ![k] = t.count[k] + delta] /\ u.illegal = t.illegal
      BY <1>5, <2>1, <2>2 DEF Tiles
    <2> DEFINE others == SumFunctionOnSet(t.count, world.types \ {k})
    <2> HIDE DEF u, others
    <2>4. u.count \in [world.types -> Int]
      <3>1. u.count \in [world.types -> Nat]  BY <2>3 DEF Tiles
      <3>2. QED  BY <3>1
    <2>5. TakenFirst(t.count, world.types, k) /\ TakenFirst(u.count, world.types, k)
      BY <1>1, <1>5, <2>4, SumTakes DEF Sane
    <2>6. SumFunctionOnSet(u.count, world.types \ {k}) = others
      <3>1. \A x \in world.types \ {k} : t.count[x] = u.count[x]  BY <2>3, <1>1
      <3>2. IsFiniteSet(world.types \ {k})  BY FS_RemoveElement DEF Sane
      <3>3. QED  BY <1>1, <2>4, <3>1, <3>2, SumDepends DEF Sane, others
    <2>7. others \in Int  BY <1>1, SumType DEF Sane, others
    <2>8. u.count[k] = t.count[k] + delta  BY <1>1, <1>5, <2>3
    <2>9. SumFunctionOnSet(u.count, world.types) = (t.count[k] + delta) + others
      BY <2>5, <2>6, <2>8 DEF TakenFirst
    <2>10. sum = t.count[k] + others  BY <2>5 DEF TakenFirst, others
    <2>11. Balance(world, u) = t.illegal + ((t.count[k] + delta) + others)
      BY <2>3, <2>9 DEF Balance
    <2>12. Balance(world, t) = t.illegal + (t.count[k] + others)  BY <2>10 DEF Balance
    <2> HIDE DEF sum
    <2>13. \A a, b, c \in Int : a + ((b + delta) + c) = (a + (b + c)) + delta  OBVIOUS
    <2>14. t.count[k] \in Int  BY <1>1, <1>5
    <2>15. Balance(world, u) = Balance(world, t) + delta
      BY <1>1, <2>7, <2>11, <2>12, <2>13, <2>14
    <2>16. QED  BY <2>3, <2>15 DEF Moves, u
  <1>6. QED  BY <1>3, <1>4, <1>5

\* What it makes of each count when none is to be let below zero.
Counted(t, u, w, k, delta) ==
  /\ \A j \in w.types : u.count[j] = IF j = k THEN t.count[j] + delta ELSE t.count[j]
  /\ u.illegal = IF k \in w.types THEN t.illegal ELSE t.illegal + delta
  /\ u.needRecount = t.needRecount

\* It moves the one count that it names.
LEMMA IncrCounts ==
  ASSUME NEW A, NEW t \in Tiles(world, A), NEW k, NEW delta \in {-1, 1},
         ~ (k \in world.types /\ t.count[k] + delta < 0)
  PROVE  Counted(t, IncrAtomCount(t, k, delta), world, k, delta)
  <1>1. CASE k \notin world.types
    BY <1>1 DEF Counted, IncrAtomCount, KnownTypes, Tiles
  <1>2. CASE k \in world.types
    BY <1>2 DEF Counted, IncrAtomCount, KnownTypes, Tiles
  <1>3. QED  BY <1>1, <1>2

\* What an atom placed makes of the number of those of some types.
Changed(grid, S, s, atom, K) ==
  LET now == [grid EXCEPT ![s] = atom]
      was == Cardinality(Holding(grid, S, K))
      is  == Cardinality(Holding(now, S, K))
  IN  /\ was \in Nat /\ is \in Nat
      /\ grid[s].type \in K => was > 0
      /\ (grid[s].type \in K) = (atom.type \in K) => is = was
      /\ grid[s].type \in K /\ atom.type \notin K => is = was - 1
      /\ grid[s].type \notin K /\ atom.type \in K => is = was + 1

LEMMA HoldingChanges ==
  ASSUME NEW S, IsFiniteSet(S), NEW D, S \subseteq D, NEW A, NEW grid \in [D -> A],
         NEW s \in S, NEW atom, NEW K
  PROVE  Changed(grid, S, s, atom, K)
  <1> DEFINE now == [grid EXCEPT ![s] = atom]
             W == Holding(grid, S, K)
             I == Holding(now, S, K)
  <1>1. IsFiniteSet(W) /\ IsFiniteSet(I)  BY FS_Subset DEF Holding
  <1>2. Cardinality(W) \in Nat /\ Cardinality(I) \in Nat  BY <1>1, FS_CardinalityType
  <1>3. s \in W <=> grid[s].type \in K  BY DEF Holding
  <1>4. I = IF atom.type \in K THEN W \cup {s} ELSE W \ {s}  BY DEF Holding
  <1> HIDE DEF W, I
  <1>5. /\ Cardinality(W \cup {s}) = IF s \in W THEN Cardinality(W) ELSE Cardinality(W) + 1
        /\ Cardinality(W \ {s}) = IF s \in W THEN Cardinality(W) - 1 ELSE Cardinality(W)
    BY <1>1, FS_AddElement, FS_RemoveElement
  <1>6. s \in W => Cardinality(W) > 0
    <2>1. Cardinality(W) = 0 => W = {}  BY <1>1, FS_EmptySet
    <2>2. QED  BY <1>2, <2>1
  <1>7. QED  BY <1>2, <1>3, <1>4, <1>5, <1>6 DEF W, I, Changed

\* The same for the atoms that are not of some types.
LEMMA OthersAre ==
  ASSUME NEW w, Sane(w), NEW grid
  PROVE  /\ IllegalsOf(w, grid)
              = Cardinality(w.owned) - Cardinality(Holding(grid, w.owned, w.types))
         /\ Cardinality(w.owned) \in Nat
  <1> DEFINE known == Holding(grid, w.owned, w.types)
  <1>1. w.owned \cap known = known  BY DEF Holding
  <1>2. QED  BY <1>1, FS_Difference, FS_CardinalityType DEF Sane, IllegalsOf

\* An atom placed on an owned site, of another type than the atom it replaces.
LEMMA CountedPlacing ==
  ASSUME Sane(world), NEW A, NEW t \in Tiles(world, A), Kept(world, t),
         NEW s \in world.owned, NEW atom \in A, t.grid[s].type # atom.type
  PROVE  /\ PlaceAtom(t, s, atom) \in Tiles(world, A)
         /\ Kept(world, PlaceAtom(t, s, atom))
  <1> DEFINE placed == [t EXCEPT !.grid[s] = atom]
             old == t.grid[s].type
             less == IncrAtomCount(placed, old, -1)
             done == IncrAtomCount(less, atom.type, 1)
  <1>1. PlaceAtom(t, s, atom) = done  BY DEF PlaceAtom, Sane, Owned, Tiles
  <1>2. /\ placed \in Tiles(world, A)
        /\ placed.grid = [t.grid EXCEPT ![s] = atom]
        /\ placed.count = t.count /\ placed.illegal = t.illegal
        /\ placed.needRecount = t.needRecount
    BY DEF Tiles, Sane
  <1> HIDE DEF placed, old
  <1>3. less \in Tiles(world, A) /\ Moves(placed, less, world, -1)  BY <1>2, IncrMoves
  <1> HIDE DEF less
  <1>4. done \in Tiles(world, A) /\ Moves(less, done, world, 1)  BY <1>3, IncrMoves
  <1> HIDE DEF done
  <1>5. Balanced(world, done)
    <2>1. Balance(world, placed) = Balance(world, t)  BY <1>2 DEF Balance
    <2>2. done.needRecount \/ Balance(world, done) = (Balance(world, t) + -1) + 1
      BY <1>3, <1>4, <2>1 DEF Moves
    <2>3. Balance(world, t) \in Int
      <3>1. t.illegal \in Int /\ t.count \in [world.types -> Int]  BY DEF Tiles
      <3>2. QED  BY <3>1, SumType DEF Sane, Balance
    <2>4. t.needRecount => done.needRecount  BY <1>2, <1>3, <1>4 DEF Moves
    <2>5. \A b \in Int : (b + -1) + 1 = b  OBVIOUS
    <2>6. QED  BY <2>2, <2>3, <2>4, <2>5 DEF Kept, Balanced
  <1>6. ASSUME ~world.radiation  PROVE Right(world, done)
    <2>1. Right(world, t)  BY <1>6 DEF Kept
    <2>2. t.grid \in [DOMAIN world.grid -> A] /\ t.count \in [world.types -> Nat]
      BY DEF Tiles
    <2> DEFINE was(K) == Cardinality(Holding(t.grid, world.owned, K))
               is(K) == Cardinality(Holding(placed.grid, world.owned, K))
    <2>3. \A K : /\ was(K) \in Nat /\ is(K) \in Nat
                 /\ old \in K => was(K) > 0
                 /\ (old \in K) = (atom.type \in K) => is(K) = was(K)
                 /\ old \in K /\ atom.type \notin K => is(K) = was(K) - 1
                 /\ old \notin K /\ atom.type \in K => is(K) = was(K) + 1
      <3> TAKE K
      <3>1. Changed(t.grid, world.owned, s, atom, K)  BY <2>2, HoldingChanges DEF Sane
      <3>2. QED  BY <1>2, <3>1 DEF Changed, old
    <2>4. old # atom.type  BY DEF old
    <2>5. \A k \in world.types : t.count[k] = was({k})  BY <2>1 DEF Right, CountOf
    <2>6. t.illegal = Cardinality(world.owned) - was(world.types)
          /\ Cardinality(world.owned) \in Nat
      BY <2>1, OthersAre DEF Right
    <2>7. IllegalsOf(world, done.grid) = Cardinality(world.owned) - is(world.types)
      BY <1>3, <1>4, OthersAre DEF Moves
    <2>8. \A k : CountOf(world, done.grid, k) = is({k})  BY <1>3, <1>4 DEF Moves, CountOf
    <2> HIDE DEF was, is
    <2>9. ~ (old \in world.types /\ placed.count[old] + -1 < 0)
      <3> SUFFICES ASSUME old \in world.types  PROVE ~ (t.count[old] + -1 < 0)
        BY <1>2
      <3>1. was({old}) \in Nat /\ was({old}) > 0  BY <2>3
      <3>2. t.count[old] = was({old})  BY <2>5
      <3>3. QED  BY <3>1, <3>2
    <2>10. Counted(placed, less, world, old, -1)
      BY <1>2, <2>9, IncrCounts DEF less
    <2>11. ~ (atom.type \in world.types /\ less.count[atom.type] + 1 < 0)
      <3>1. atom.type \in world.types => less.count[atom.type] \in Nat  BY <1>3 DEF Tiles
      <3>2. QED  BY <3>1
    <2>12. Counted(less, done, world, atom.type, 1)
      BY <1>3, <2>11, IncrCounts DEF done
    <2>13. ASSUME NEW k \in world.types  PROVE done.count[k] = is({k})
      <3>1. t.count[k] = was({k}) /\ was({k}) \in Nat /\ is({k}) \in Nat  BY <2>3, <2>5
      <3>2. less.count[k] = IF k = old THEN t.count[k] + -1 ELSE t.count[k]
        BY <1>2, <2>10 DEF Counted
      <3>3. done.count[k] = IF k = atom.type THEN less.count[k] + 1 ELSE less.count[k]
        BY <2>12 DEF Counted
      <3>4. /\ k = old => is({k}) = was({k}) - 1
            /\ k = atom.type => is({k}) = was({k}) + 1
            /\ k # old /\ k # atom.type => is({k}) = was({k})
        BY <2>3, <2>4
      <3>5. QED  BY <2>4, <3>1, <3>2, <3>3, <3>4
    <2>14. done.illegal = Cardinality(world.owned) - is(world.types)
      <3>1. less.illegal = IF old \in world.types THEN t.illegal ELSE t.illegal + -1
        BY <1>2, <2>10 DEF Counted
      <3>2. done.illegal = IF atom.type \in world.types THEN less.illegal ELSE less.illegal + 1
        BY <2>12 DEF Counted
      <3>3. was(world.types) \in Nat /\ is(world.types) \in Nat  BY <2>3
      <3>4. CASE old \in world.types /\ atom.type \in world.types
        <4>1. is(world.types) = was(world.types)  BY <2>3, <3>4
        <4>2. QED  BY <2>6, <3>1, <3>2, <3>4, <4>1
      <3>5. CASE old \notin world.types /\ atom.type \notin world.types
        <4>1. is(world.types) = was(world.types)  BY <2>3, <3>5
        <4>2. done.illegal = (t.illegal + -1) + 1  BY <3>1, <3>2, <3>5
        <4>3. QED  BY <2>6, <3>3, <4>1, <4>2
      <3>6. CASE old \in world.types /\ atom.type \notin world.types
        <4>1. is(world.types) = was(world.types) - 1  BY <2>3, <3>6
        <4>2. done.illegal = t.illegal + 1  BY <3>1, <3>2, <3>6
        <4>3. QED  BY <2>6, <3>3, <4>1, <4>2
      <3>7. CASE old \notin world.types /\ atom.type \in world.types
        <4>1. is(world.types) = was(world.types) + 1  BY <2>3, <3>7
        <4>2. done.illegal = t.illegal + -1  BY <3>1, <3>2, <3>7
        <4>3. QED  BY <2>6, <3>3, <4>1, <4>2
      <3>8. QED  BY <3>4, <3>5, <3>6, <3>7
    <2>15. done.needRecount = FALSE
      BY <1>2, <2>1, <2>10, <2>12 DEF Right, Counted
    <2>16. QED  BY <2>7, <2>8, <2>13, <2>14, <2>15 DEF Right
  <1>7. QED  BY <1>1, <1>4, <1>5, <1>6 DEF Kept

\* PlaceAtom keeps the counts, cached sites and places off the tile included.
LEMMA Placing ==
  ASSUME Sane(world), NEW A, NEW t \in Tiles(world, A), Kept(world, t),
         NEW s, NEW atom \in A
  PROVE  /\ PlaceAtom(t, s, atom) \in Tiles(world, A)
         /\ Kept(world, PlaceAtom(t, s, atom))
  <1> DEFINE placed == [t EXCEPT !.grid[s] = atom]
  <1>1. CASE s \notin DOMAIN t.grid
    BY <1>1 DEF PlaceAtom
  <1>2. CASE s \in DOMAIN t.grid /\ (s \notin Owned \/ t.grid[s].type = atom.type)
    <2>1. PlaceAtom(t, s, atom) = placed  BY <1>2 DEF PlaceAtom
    <2>2. /\ placed \in Tiles(world, A)
          /\ placed.grid = [t.grid EXCEPT ![s] = atom]
          /\ placed.count = t.count /\ placed.illegal = t.illegal
          /\ placed.needRecount = t.needRecount
      BY <1>2 DEF Tiles
    <2> HIDE DEF placed
    <2>3. \A K : Holding(placed.grid, world.owned, K) = Holding(t.grid, world.owned, K)
      BY <1>2, <2>2 DEF Holding, Owned, Tiles, Sane
    <2>4. Balance(world, placed) = Balance(world, t)  BY <2>2 DEF Balance
    <2>5. Balanced(world, placed)  BY <2>2, <2>4 DEF Balanced, Kept
    <2>6. Right(world, t) => Right(world, placed)
      BY <2>2, <2>3 DEF Right, CountOf, IllegalsOf
    <2>7. QED  BY <2>1, <2>2, <2>5, <2>6 DEF Kept
  <1>3. CASE s \in DOMAIN t.grid /\ s \in Owned /\ t.grid[s].type # atom.type
    BY <1>3, CountedPlacing DEF Owned
  <1>4. QED  BY <1>1, <1>2, <1>3

\* The writes of a plan, each done after those before it.
Performs(g, t, plan) ==
  g = [s \in SUBSET DOMAIN plan |->
         IF s = {} THEN t
         ELSE PlaceAtom(g[s \ {Max(s)}], plan[Max(s)][1], plan[Max(s)][2])]

\* The meaning of Perform's fold; and all the writes of a plan keep the counts.
LEMMA PerformIsRecursive ==
  ASSUME NEW t, NEW plan
  PROVE  Perform(t, plan) = (CHOOSE g : Performs(g, t, plan))[DOMAIN plan]
  BY DEF Perform, FoldLeft, MapThenFoldSet, Performs

\* A tile of the world w, whose atoms fit if those that come do.
Tiled(w, t) == \E A : t \in Tiles(w, A) /\ (AtomsComeFit => \A a \in A : FieldsFit(a))

LEMMA Performing ==
  ASSUME Sane(world), NEW t, Tiled(world, t), Kept(world, t), 
         NEW w, AtomsComeFit => Fitting(w), NEW plan, IsPlan(w, plan)
  PROVE  Tiled(world, Perform(t, plan)) /\ Kept(world, Perform(t, plan))
  <1>1. PICK A : t \in Tiles(world, A) /\ (AtomsComeFit => \A a \in A : FieldsFit(a))  BY DEF Tiled
  <1>0. PICK X : plan \in Seq(X) /\ (AtomsComeFit => \A x \in X : FieldsFit(x[2]))  BY DEF IsPlan
  <1> DEFINE S == DOMAIN plan
             B == A \cup {plan[i][2] : i \in S}
             V == {u \in Tiles(world, B) : Kept(world, u)}
             F == [i \in S |-> [u \in V |-> PlaceAtom(u, plan[i][1], plan[i][2])]]
             c == [s \in SUBSET S |-> Max(s)]
  <1>2. PICK n \in Nat : S = 1..n /\ \A i \in S : plan[i] \in X  BY <1>0, LenProperties
  <1>3. IsFiniteSet(S)  BY <1>2, FS_Interval
  <1>4. t \in V
    <2>1. t \in Tiles(world, B)  BY <1>1 DEF Tiles
    <2>2. QED  BY <2>1
  <1>5. ASSUME NEW i \in S, NEW u \in V  PROVE PlaceAtom(u, plan[i][1], plan[i][2]) \in V
    <2>1. u \in Tiles(world, B) /\ Kept(world, u) /\ plan[i][2] \in B  OBVIOUS
    <2> HIDE DEF B
    <2>2. QED  BY <2>1, Placing
  <1>6. \A s \in SUBSET S : s # {} => Max(s) \in s  BY <1>2, LargestIsThere
  <1> HIDE DEF V, S
  <1>7. Acts(F, S, V) /\ Chooses(c, S)  BY <1>5, <1>6 DEF Acts, Chooses
  <1>8. \A i \in S : \A u \in V : F[i][u] = PlaceAtom(u, plan[i][1], plan[i][2])  OBVIOUS
  <1>9. \A s \in SUBSET S : c[s] = Max(s)  OBVIOUS
  <1> HIDE DEF F, c
  <1>10. HasFold(t, F, c, S, V)  BY <1>3, <1>4, <1>7, FoldExists
  <1>11. PICK g \in [SUBSET S -> V] : FoldOf(g, t, F, c, S)  BY <1>10 DEF HasFold
  <1>12. Performs(g, t, plan)
    <2> SUFFICES ASSUME NEW s \in SUBSET S, s # {}
                 PROVE  g[s] = PlaceAtom(g[s \ {Max(s)}], plan[Max(s)][1], plan[Max(s)][2])
      BY <1>11 DEF FoldOf, Performs, S
    <2>1. g[s] = F[Max(s)][g[s \ {Max(s)}]]  BY <1>9, <1>11 DEF FoldOf
    <2>2. Max(s) \in S /\ g[s \ {Max(s)}] \in V  BY <1>6
    <2>3. QED  BY <1>8, <2>1, <2>2
  <1> DEFINE h == CHOOSE k : Performs(k, t, plan)
  <1>13. Performs(h, t, plan)  BY <1>12
  <1> HIDE DEF h
  <1>14. Keeps(h, c, S, V)
    <2>1. h[{}] \in V  BY <1>4, <1>13 DEF Performs, S
    <2> SUFFICES ASSUME NEW s \in SUBSET S, s # {}, h[s \ {Max(s)}] \in V
                 PROVE  h[s] \in V
      BY <1>9, <2>1 DEF Keeps
    <2>2. h[s] = PlaceAtom(h[s \ {Max(s)}], plan[Max(s)][1], plan[Max(s)][2])
      BY <1>13 DEF Performs, S
    <2>3. Max(s) \in S  BY <1>6
    <2>4. QED  BY <1>5, <2>2, <2>3
  <1>15. h[S] \in V  BY <1>3, <1>7, <1>14, FoldStays
  <1>16. Perform(t, plan) \in V  BY <1>15, PerformIsRecursive DEF h, S
  <1>17. AtomsComeFit => \A a \in B : FieldsFit(a)  BY <1>0, <1>1, <1>2 DEF S
  <1>18. Perform(t, plan) \in Tiles(world, B) /\ Kept(world, Perform(t, plan))  BY <1>16 DEF V
  <1> HIDE DEF B
  <1>19. QED  BY <1>17, <1>18 DEF Tiled

\* What is left of a plan without its last write.
LEMMA ShorterPlan ==
  ASSUME NEW w, NEW plan, IsPlan(w, plan)
  PROVE  IsPlan(w, SubSeq(plan, 1, Len(plan) - 1))
  <1>1. PICK S : plan \in Seq(S) /\ (Fitting(w) => \A x \in S : FieldsFit(x[2]))  BY DEF IsPlan
  <1>2. Len(plan) \in Nat /\ plan \in [1..Len(plan) -> S]  BY <1>1, LenProperties
  <1>3. \A i \in 1..Len(plan) - 1 : plan[i] \in S  BY <1>2
  <1>4. SubSeq(plan, 1, Len(plan) - 1) \in Seq(S)  BY <1>2, <1>3, SubSeqProperties
  <1>5. QED  BY <1>1, <1>4 DEF IsPlan

\* EraseAtom erases and counts anew.
LEMMA Erasing ==
  ASSUME Sane(world), NEW t, Tiled(world, t), Kept(world, t), NEW s
  PROVE  Tiled(world, EraseAtom(t, s)) /\ Balanced(world, EraseAtom(t, s))
  <1>1. PICK A : t \in Tiles(world, A) /\ (AtomsComeFit => \A a \in A : FieldsFit(a))  BY DEF Tiled
  <1> DEFINE B == A \cup {Empty}
             erased == [t EXCEPT !.grid[s] = Empty]
  <1>2. erased \in Tiles(world, B)  BY <1>1 DEF Tiles
  <1>6. AtomsComeFit => \A a \in B : FieldsFit(a)  BY <1>1, EmptyAndResFit
  <1> HIDE DEF B, erased
  <1>3. /\ RecountAtoms(erased) \in Tiles(world, B)
        /\ \A k \in world.types : RecountAtoms(erased).count[k] = CountOf(world, erased.grid, k)
        /\ RecountAtoms(erased).illegal = IllegalsOf(world, erased.grid)
        /\ RecountAtoms(erased).grid = erased.grid
    BY <1>2, Recounted
  <1>4. Balance(world, RecountAtoms(erased)) = Cardinality(world.owned)
    BY <1>3, RightIsBalanced
  <1>5. QED  BY <1>3, <1>4, <1>6 DEF EraseAtom, erased, Tiled, Balanced
-----------------------------------------------------------------------------
\* Whatever is the world, its tile is one of its tiles, and its counts are kept; and the
\* window is one of the eight, the tallies within their bound, if the atoms that come fit.
Windowed == sym \in 0..7 /\ tally \in [DOMAIN NoTally -> 0..MaxTally]
PhysicsInv == /\ world \in Worlds /\ Tiled(world, tile) /\ Kept(world, tile)
              /\ AtomsComeFit => Windowed

LEMMA WorldsAreSane == ASSUME NEW w \in Worlds PROVE Sane(w)
  BY WorldsAssumption, FS_Subset DEF Sane

LEMMA InvAtFirst == Init => PhysicsInv
  <1> SUFFICES ASSUME Init  PROVE PhysicsInv
    OBVIOUS
  <1> DEFINE A == {world.grid[s] : s \in DOMAIN world.grid}
             blank == [grid |-> world.grid, needRecount |-> FALSE,
                       count |-> [k \in world.types |-> 0], illegal |-> 0]
  <1>1. Sane(world)  BY WorldsAreSane DEF Init
  <1>2. world.grid \in [DOMAIN world.grid -> A]  BY WorldsAssumption DEF Init
  <1>3. blank \in Tiles(world, A)  BY <1>2 DEF Tiles
  <1>4. tile = RecountAtoms(blank)
    <2>1. blank.grid = world.grid  OBVIOUS
    <2>2. RecountAtoms(blank) = [blank EXCEPT !.count = Counts(world.grid, Owned),
                                              !.illegal = Cardinality(Illegals(world.grid, Owned))]
      BY <2>1 DEF RecountAtoms
    <2>3. QED  BY <2>2 DEF Init
  <1>5. blank.needRecount = FALSE  OBVIOUS
  <1> HIDE DEF blank, A
  <1>6. /\ tile \in Tiles(world, A)
        /\ \A k \in world.types : tile.count[k] = CountOf(world, blank.grid, k)
        /\ tile.illegal = IllegalsOf(world, blank.grid)
        /\ tile.grid = blank.grid
        /\ tile.needRecount = FALSE
    BY <1>1, <1>3, <1>4, <1>5, Recounted
  <1>7. Balance(world, tile) = Cardinality(world.owned)  BY <1>1, <1>6, RightIsBalanced
  <1>8. AtomsComeFit => \A a \in A : FieldsFit(a)  BY DEF AtomsComeFit, Init, A
  <1>9. Windowed  BY TallyAssumption DEF Init, Windowed, NoTally
  <1>10. QED  BY <1>6, <1>7, <1>8, <1>9 DEF PhysicsInv, Kept, Balanced, Right, Tiled, Init

\* What an event at an owned site sees fits, and so does the symmetry it sets.
LEMMA WindowFits ==
  ASSUME PhysicsInv, AtomsComeFit, NEW s
  PROVE  Fitting(WindowAt(s))
  <1>1. PICK A : tile \in Tiles(world, A) /\ \A a \in A : FieldsFit(a)  BY DEF PhysicsInv, Tiled
  <1>2. tile.grid \in [DOMAIN world.grid -> A]  BY <1>1 DEF Tiles
  <1>3. sym \in 0..7  BY DEF PhysicsInv, Windowed
  <1>4. QED  BY <1>1, <1>2, <1>3 DEF WindowAt, Fitting
LEMMA SymmetryFits ==
  ASSUME Sane(world), PhysicsInv, AtomsComeFit, NEW s \in Owned
  PROVE  (IF SetsSymmetry(tile.grid[s]) THEN SymmetryOf(tile.grid[s]) ELSE sym) \in 0..7
  <1> DEFINE a == tile.grid[s]
  <1>1. FieldsFit(a)
    <2>1. PICK A : tile \in Tiles(world, A) /\ \A b \in A : FieldsFit(b)  BY DEF PhysicsInv, Tiled
    <2>2. a \in A  BY <2>1 DEF Tiles, Sane, Owned
    <2>3. QED  BY <2>1, <2>2
  <1> HIDE DEF a
  <1>2. a.type \in BarTypes => a.sym \in 0..7  BY <1>1, BarOfOne, BarSymmetry
  <1>3. CrystalSymmetry(a) \in 0..7  BY DEF CrystalSymmetry, FlipY
  <1>4. sym \in 0..7  BY DEF PhysicsInv, Windowed
  <1>5. QED  BY <1>2, <1>3, <1>4 DEF SymmetryOf, a

\* An atom that comes from elsewhere is placed.
LEMMA PlacingOne ==
  ASSUME Sane(world), NEW t, Tiled(world, t), Kept(world, t), NEW s, NEW atom,
         AtomsComeFit => FieldsFit(atom)
  PROVE  Tiled(world, PlaceAtom(t, s, atom)) /\ Kept(world, PlaceAtom(t, s, atom))
  <1>1. PICK A : t \in Tiles(world, A) /\ (AtomsComeFit => \A a \in A : FieldsFit(a))  BY DEF Tiled
  <1> DEFINE B == A \cup {atom}
  <1>2. t \in Tiles(world, B)  BY <1>1 DEF Tiles
  <1>3. atom \in B /\ (AtomsComeFit => \A a \in B : FieldsFit(a))  BY <1>1
  <1> HIDE DEF B
  <1>4. QED  BY <1>2, <1>3, Placing DEF Tiled

\* One step for each action of the tile.
LEMMA InvStays == PhysicsInv /\ [Next]_vars => PhysicsInv'
  <1> SUFFICES ASSUME PhysicsInv, [Next]_vars  PROVE PhysicsInv'
    OBVIOUS
  <1>0. Sane(world)  BY WorldsAreSane DEF PhysicsInv
  <1>8. PICK A : tile \in Tiles(world, A) /\ (AtomsComeFit => \A a \in A : FieldsFit(a))
    BY DEF PhysicsInv, Tiled
  <1>1. ASSUME NEW s \in Owned, DoEvent(s)  PROVE PhysicsInv'
    <2>1. PICK outcome \in Outcomes(WindowAt(s)) : Carry(s, outcome)  BY <1>1 DEF DoEvent
    <2>2. IsOutcome(WindowAt(s), outcome)  BY OutcomesArePlans
    <2>3. tile' = Perform(tile, outcome.plan) /\ world' = world  BY <2>1 DEF Carry
    <2>4. Tiled(world, tile') /\ Kept(world, tile')
      BY <1>0, <2>2, <2>3, WindowFits, Performing DEF PhysicsInv, IsOutcome
    <2>5. AtomsComeFit => sym' \in 0..7  BY <1>0, <2>1, SymmetryFits DEF Carry
    <2>6. AtomsComeFit => tally' \in [DOMAIN NoTally -> 0..MaxTally]
      <3> SUFFICES ASSUME AtomsComeFit  PROVE tally' \in [DOMAIN NoTally -> 0..MaxTally]
        OBVIOUS
      <3>1. tally \in [DOMAIN NoTally -> 0..MaxTally]  BY DEF PhysicsInv, Windowed
      <3>2. outcome.tally \in [DOMAIN NoTally -> Nat]
        BY <2>2, WindowFits DEF IsOutcome, Tallies
      <3>3. /\ tally' = [k \in DOMAIN NoTally |-> tally[k] + outcome.tally[k]]
            /\ \A k \in DOMAIN NoTally : tally'[k] <= MaxTally
        BY <2>1, <3>1 DEF Carry, InBounds
      <3>4. QED  BY <3>1, <3>2, <3>3, TallyAssumption
    <2>7. QED  BY <2>3, <2>4, <2>5, <2>6 DEF PhysicsInv, Windowed
  <1>2. ASSUME NEW s \in Owned, IrradiatedEvent(s)  PROVE PhysicsInv'
    <2>1. PICK outcome \in Outcomes(WindowAt(s)) :
            LET plan == outcome.plan
                hit  == plan[Len(plan)][1]
                before == Perform(tile, SubSeq(plan, 1, Len(plan) - 1))
            IN  /\ plan # Stay
                /\ hit \in DOMAIN tile.grid
                /\ \/ \E atom \in XRayed : tile' = PlaceAtom(before, hit, atom)
                   \/ tile' = EraseAtom(before, hit)
      BY <1>2 DEF IrradiatedEvent
    <2> DEFINE plan == outcome.plan
               hit  == plan[Len(plan)][1]
               before == Perform(tile, SubSeq(plan, 1, Len(plan) - 1))
    <2>2. IsPlan(WindowAt(s), SubSeq(plan, 1, Len(plan) - 1))
      BY OutcomesArePlans, ShorterPlan DEF IsOutcome
    <2>3. Tiled(world, before) /\ Kept(world, before)
      BY <1>0, <2>2, WindowFits, Performing DEF PhysicsInv
    <2>4. world' = world /\ world.radiation /\ tally' = tally  BY <1>2 DEF IrradiatedEvent
    <2>8. AtomsComeFit => Windowed'
      BY <1>0, <1>2, <2>4, SymmetryFits DEF IrradiatedEvent, PhysicsInv, Windowed
    <2> HIDE DEF before, hit
    <2>5. CASE \E atom \in XRayed : tile' = PlaceAtom(before, hit, atom)
      <3>1. PICK atom \in XRayed : tile' = PlaceAtom(before, hit, atom)  BY <2>5
      <3>2. AtomsComeFit => FieldsFit(atom)  BY <2>4 DEF AtomsComeFit, PhysicsInv
      <3>3. Tiled(world, tile') /\ Kept(world, tile')
        BY <1>0, <2>3, <3>1, <3>2, PlacingOne
      <3>4. QED  BY <2>4, <2>8, <3>3 DEF PhysicsInv
    <2>6. CASE tile' = EraseAtom(before, hit)
      <3>1. Tiled(world, tile') /\ Balanced(world, tile')
        BY <1>0, <2>3, <2>6, Erasing
      <3>2. QED  BY <2>4, <2>8, <3>1 DEF PhysicsInv, Kept
    <2>7. QED  BY <2>1, <2>5, <2>6 DEF before, hit
  <1>3. ASSUME NEW s, XRay(s)  PROVE PhysicsInv'
    <2>1. PICK atom \in XRayed : tile' = [tile EXCEPT !.grid[s] = atom]  BY <1>3 DEF XRay
    <2> DEFINE B == A \cup {atom}
    <2>2. /\ tile' \in Tiles(world, B)
          /\ tile'.count = tile.count /\ tile'.illegal = tile.illegal
          /\ tile'.needRecount = tile.needRecount
      BY <1>8, <2>1 DEF Tiles
    <2>3. world' = world /\ world.radiation /\ sym' = sym /\ tally' = tally  BY <1>3 DEF XRay
    <2>4. AtomsComeFit => \A a \in B : FieldsFit(a)  BY <1>8, <2>3 DEF AtomsComeFit, PhysicsInv
    <2> HIDE DEF B
    <2>5. Tiled(world, tile')  BY <2>2, <2>4 DEF Tiled
    <2>6. Balance(world, tile') = Balance(world, tile)  BY <2>2 DEF Balance
    <2>7. QED  BY <2>2, <2>3, <2>5, <2>6 DEF PhysicsInv, Windowed, Kept, Balanced
  <1>4. ASSUME NEW s, ReceiveUpdate(s)  PROVE PhysicsInv'
    <2>1. PICK atom \in world.arrivals : tile' = PlaceAtom(tile, s, atom)
      BY <1>4 DEF ReceiveUpdate
    <2>2. AtomsComeFit => FieldsFit(atom)  BY DEF AtomsComeFit, PhysicsInv
    <2>3. Tiled(world, tile') /\ Kept(world, tile')
      BY <1>0, <2>1, <2>2, PlacingOne DEF PhysicsInv
    <2>4. world' = world /\ sym' = sym /\ tally' = tally  BY <1>4 DEF ReceiveUpdate
    <2>5. QED  BY <2>3, <2>4 DEF PhysicsInv, Windowed
  <1>5. CASE RecountAtomsIfNeeded
    <2> DEFINE now == RecountAtoms(tile)
    <2>2. /\ now \in Tiles(world, A)
          /\ \A k \in world.types : now.count[k] = CountOf(world, tile.grid, k)
          /\ now.illegal = IllegalsOf(world, tile.grid)
          /\ now.grid = tile.grid
      BY <1>0, <1>8, Recounted
    <2>3. tile' = [now EXCEPT !.needRecount = FALSE] /\ world' = world /\ sym' = sym /\ tally' = tally
      BY <1>5 DEF RecountAtomsIfNeeded
    <2> HIDE DEF now
    <2>4. /\ tile' \in Tiles(world, A)
          /\ \A k \in world.types : tile'.count[k] = CountOf(world, tile'.grid, k)
          /\ tile'.illegal = IllegalsOf(world, tile'.grid)
          /\ tile'.needRecount = FALSE
      BY <2>2, <2>3 DEF Tiles
    <2>5. Balance(world, tile') = Cardinality(world.owned)
      BY <1>0, <2>4, RightIsBalanced
    <2>6. Tiled(world, tile')  BY <1>8, <2>4 DEF Tiled
    <2>7. QED  BY <2>3, <2>4, <2>5, <2>6 DEF PhysicsInv, Windowed, Kept, Balanced, Right
  <1>6. CASE UNCHANGED vars  BY <1>6 DEF vars, PhysicsInv, Windowed
  <1>7. QED  BY <1>1, <1>2, <1>3, <1>4, <1>5, <1>6 DEF Next

LEMMA CountsSuffice == PhysicsInv => CountsAgree
  <1> SUFFICES ASSUME PhysicsInv  PROVE CountsAgree
    OBVIOUS
  <1>0. Sane(world)  BY WorldsAreSane DEF PhysicsInv
  <1>1. PICK A : tile \in Tiles(world, A)  BY DEF PhysicsInv, Tiled
  <1>2. SumFunction(tile.count) = SumFunctionOnSet(tile.count, world.types)
    BY <1>1 DEF SumFunction, Tiles
  <1>3. ASSUME ~world.radiation
        PROVE  tile = [RecountAtoms(tile) EXCEPT !.needRecount = FALSE]
    <2>1. Right(world, tile)  BY <1>3 DEF PhysicsInv, Kept
    <2> DEFINE now == RecountAtoms(tile)
    <2>2. /\ now \in Tiles(world, A)
          /\ \A k \in world.types : now.count[k] = CountOf(world, tile.grid, k)
          /\ now.illegal = IllegalsOf(world, tile.grid)
          /\ now.grid = tile.grid
      BY <1>0, <1>1, Recounted
    <2> HIDE DEF now
    <2>3. now.count = tile.count
      <3>1. now.count \in [world.types -> Nat] /\ tile.count \in [world.types -> Nat]
        BY <1>1, <2>2 DEF Tiles
      <3>2. \A k \in world.types : now.count[k] = tile.count[k]  BY <2>1, <2>2 DEF Right
      <3>3. QED  BY <3>1, <3>2
    <2>4. now.illegal = tile.illegal /\ tile.needRecount = FALSE  BY <2>1, <2>2 DEF Right
    <2>5. tile = [now EXCEPT !.needRecount = FALSE]  BY <1>1, <2>2, <2>3, <2>4 DEF Tiles
    <2>6. QED  BY <2>5 DEF now
  <1>4. QED  BY <1>2, <1>3 DEF CountsAgree, PhysicsInv, Kept, Balanced, Balance, Owned

\* The counts of a tile are right, type by type, as long as there is no radiation;
\* and radiation or not, they add up to the sites the tile owns until it is told to
\* count anew: in any world, with any elements in it (Tile::IncrAtomCount).
THEOREM CountsKept == Spec => []CountsAgree
  <1>1. PhysicsInv => CountsAgree  BY CountsSuffice
  <1>2. QED  BY <1>1, InvAtFirst, InvStays, PTL DEF Spec

\* In any world whose atoms fit to begin with, and whatever elements it has, no field of an
\* atom ever leaves its bounds: the width in bits that a behaviour stores it in, the
\* lengths of a bar, the ages and energies of Fish and Sharks; sites stay in place, counts
\* are natural numbers and the window is turned in one of the eight ways.
THEOREM FieldsStayInBounds == ASSUME AtomsComeFit PROVE Spec => []PhysicsTypeOK
  <1>1. PhysicsInv => PhysicsTypeOK
    <2> SUFFICES ASSUME PhysicsInv  PROVE PhysicsTypeOK
      OBVIOUS
    <2>1. PICK A : tile \in Tiles(world, A) /\ \A a \in A : FieldsFit(a)  BY DEF PhysicsInv, Tiled
    <2>2. Windowed  BY DEF PhysicsInv
    <2>3. QED  BY <2>1, <2>2 DEF PhysicsTypeOK, Tiles, KnownTypes, Windowed
  <1>2. QED  BY <1>1, InvAtFirst, InvStays, PTL DEF Spec
-----------------------------------------------------------------------------
(* What a plan leaves of a kind of atom, and what is so kept *)

\* Plans are laid one after another.  The largest index is the last.
LEMMA LargestIs ==
  ASSUME NEW n \in Nat, NEW s \in SUBSET (1..n), NEW x \in s, \A y \in s : x >= y
  PROVE  Max(s) = x
  <1> DEFINE m == Max(s)
  <1>1. m \in s /\ \A y \in s : m >= y  BY DEF Max
  <1> HIDE DEF m
  <1>2. m >= x /\ x >= m /\ m \in Int /\ x \in Int  BY <1>1
  <1>3. m = x  BY <1>2
  <1>4. QED  BY <1>3 DEF m

IsGrid(g) == g = [s \in DOMAIN g |-> g[s]]

\* There is what a plan leaves of a grid, and it is one with the same sites.
LEMMA LayingHappens ==
  ASSUME NEW grid, IsGrid(grid), NEW S, NEW plan \in Seq(S)
  PROVE  /\ Lays(CHOOSE k : Lays(k, grid, plan), grid, plan)
         /\ IsGrid(LayAll(grid, plan)) /\ DOMAIN LayAll(grid, plan) = DOMAIN grid
  <1> DEFINE A == {grid[s] : s \in DOMAIN grid} \cup {x[2] : x \in S}
             V == [DOMAIN grid -> A]
             I == DOMAIN plan
             F == [i \in I |-> [u \in V |-> Laid(u, plan[i])]]
             c == [s \in SUBSET I |-> Max(s)]
  <1>1. PICK n \in Nat : I = 1..n /\ \A i \in I : plan[i] \in S  BY LenProperties
  <1>2. IsFiniteSet(I)  BY <1>1, FS_Interval
  <1>3. grid \in V  BY DEF IsGrid
  <1>4. \A x \in S : x[2] \in A  OBVIOUS
  <1> HIDE DEF A
  <1>5. LayAll(grid, plan) \in V  BY <1>3, <1>4, Laying
  <1>6. \A i \in I : \A u \in V : Laid(u, plan[i]) \in V  BY <1>1, <1>4 DEF Laid
  <1>7. \A s \in SUBSET I : s # {} => Max(s) \in s  BY <1>1, LargestIsThere
  <1> HIDE DEF I
  <1>8. Acts(F, I, V) /\ Chooses(c, I)  BY <1>6, <1>7 DEF Acts, Chooses
  <1>9. \A i \in I : \A u \in V : F[i][u] = Laid(u, plan[i])  OBVIOUS
  <1>10. \A s \in SUBSET I : c[s] = Max(s)  OBVIOUS
  <1>11. LayAll(grid, plan) \in [DOMAIN grid -> A]  BY <1>5
  <1> HIDE DEF F, c, V
  <1>12. HasFold(grid, F, c, I, V)  BY <1>2, <1>3, <1>8, FoldExists
  <1>13. PICK g \in [SUBSET I -> V] : FoldOf(g, grid, F, c, I)  BY <1>12 DEF HasFold
  <1>14. Lays(g, grid, plan)
    <2> SUFFICES ASSUME NEW s \in SUBSET I, s # {}
                 PROVE  g[s] = Laid(g[s \ {Max(s)}], plan[Max(s)])
      BY <1>13 DEF FoldOf, Lays, I
    <2>1. g[s] = F[Max(s)][g[s \ {Max(s)}]]  BY <1>10, <1>13 DEF FoldOf
    <2>2. Max(s) \in I /\ g[s \ {Max(s)}] \in V  BY <1>7
    <2>3. QED  BY <1>9, <2>1, <2>2
  <1>15. QED  BY <1>11, <1>14 DEF IsGrid

LEMMA LayNone == ASSUME NEW grid, IsGrid(grid) PROVE LayAll(grid, Stay) = grid
  <1> DEFINE h == CHOOSE k : Lays(k, grid, Stay)
  <1>1. Stay \in Seq({}) /\ DOMAIN Stay = {}  BY DEF Stay
  <1>2. Lays(h, grid, Stay)  BY <1>1, LayingHappens
  <1> HIDE DEF h
  <1>3. h[{}] = grid  BY <1>2 DEF Lays
  <1>4. QED  BY <1>1, <1>3, LayingIsRecursive DEF h
LEMMA LayOne == ASSUME NEW grid, IsGrid(grid), NEW x PROVE LayAll(grid, <<x>>) = Laid(grid, x)
  <1> DEFINE one == <<x>>
             h == CHOOSE k : Lays(k, grid, one)
  <1>1. one \in Seq({x}) /\ DOMAIN one = {1} /\ one[1] = x  OBVIOUS
  <1> HIDE DEF one
  <1>2. Lays(h, grid, one)  BY <1>1, LayingHappens
  <1> HIDE DEF h
  <1>3. Max({1}) = 1
    <2>1. {1} \in SUBSET (1..1)  OBVIOUS
    <2>2. QED  BY <2>1, LargestIs
  <1>4. h[{}] = grid  BY <1>2 DEF Lays
  <1>5. h[{1}] = Laid(h[{1} \ {1}], x)
    <2>1. {1} \in SUBSET DOMAIN one /\ {1} # {}  BY <1>1
    <2>2. h[{1}] = Laid(h[{1} \ {Max({1})}], one[Max({1})])  BY <1>2, <2>1 DEF Lays
    <2>3. QED  BY <1>1, <1>3, <2>2
  <1>6. {1} \ {1} = {}  OBVIOUS
  <1>7. h[DOMAIN one] = Laid(grid, x)  BY <1>1, <1>4, <1>5, <1>6
  <1>8. QED  BY <1>7, LayingIsRecursive DEF h, one

\* Indices moved up by m, behind the first m.
Behind(m, s) == (1..m) \cup {m + i : i \in s}
LEMMA BehindIsNext ==
  ASSUME NEW m \in Nat, NEW n \in Nat, NEW s \in SUBSET (1..n), s # {}
  PROVE  /\ Behind(m, s) \in SUBSET (1..(m + n))
         /\ Behind(m, s) # {}
         /\ Max(Behind(m, s)) = m + Max(s)
         /\ Behind(m, s) \ {m + Max(s)} = Behind(m, s \ {Max(s)})
  <1> DEFINE x == Max(s)
  <1>1. x \in s /\ \A y \in s : x >= y
    <2>1. Max(s) \in s  BY LargestIsThere
    <2>2. PICK y \in s : \A z \in s : y >= z
      <3> DEFINE T == {n - i : i \in s}
      <3>1. \A i \in s : n - i \in Nat /\ n - i \in T  OBVIOUS
      <3>2. T \in SUBSET Nat /\ T # {}
        <4>1. T \subseteq Nat  BY <3>1
        <4>2. PICK i \in s : TRUE  OBVIOUS
        <4>3. n - i \in T  BY <3>1
        <4>4. QED  BY <4>1, <4>3
      <3>3. PICK l \in T : \A z \in T : ~ (z < l)
        <4> HIDE DEF T
        <4>1. QED  BY <3>2, LeastNatural
      <3>4. PICK i \in s : l = n - i  BY <3>3
      <3>5. \A j \in s : ~ (n - j < n - i)  BY <3>1, <3>3, <3>4
      <3> HIDE DEF T
      <3>6. \A j \in s : i >= j
        <4> TAKE j \in s
        <4>1. ~ (n - j < n - i)  BY <3>5
        <4>2. i \in Int /\ j \in Int  OBVIOUS
        <4>3. QED  BY <4>1, <4>2
      <3>7. QED  BY <3>6
    <2>3. Max(s) = y  BY <2>2, LargestIs
    <2>4. QED  BY <2>2, <2>3
  <1> HIDE DEF x
  <1>2. x \in 1..n  BY <1>1
  <1>3. Behind(m, s) \in SUBSET (1..(m + n))  BY DEF Behind
  <1>4. m + x \in Behind(m, s)  BY <1>1 DEF Behind
  <1>5. \A y \in Behind(m, s) : m + x >= y
    <2> TAKE y \in Behind(m, s)
    <2>1. CASE y \in 1..m  BY <1>2, <2>1
    <2>2. CASE \E i \in s : y = m + i
      <3>1. PICK i \in s : y = m + i  BY <2>2
      <3>2. x >= i /\ i \in Int /\ x \in Int  BY <1>1, <1>2
      <3>3. QED  BY <3>1, <3>2
    <2>3. QED  BY <2>1, <2>2 DEF Behind
  <1>6. Max(Behind(m, s)) = m + x
    <2>1. m + n \in Nat  OBVIOUS
    <2>2. QED  BY <1>3, <1>4, <1>5, <2>1, LargestIs
  <1>7. Behind(m, s) \ {m + x} = Behind(m, s \ {x})
    <2>1. m + x \notin 1..m  BY <1>2
    <2>2. \A i \in s : m + i = m + x => i = x  BY <1>2
    <2>3. QED  BY <2>1, <2>2 DEF Behind
  <1>8. QED  BY <1>3, <1>4, <1>6, <1>7 DEF x

\* A plan made of two is laid the second on what the first has left.
LEMMA LayBoth ==
  ASSUME NEW grid, IsGrid(grid), NEW S, NEW p \in Seq(S), NEW q \in Seq(S)
  PROVE  LayAll(grid, p \o q) = LayAll(LayAll(grid, p), q)
  <1> DEFINE m   == Len(p)
             n   == Len(q)
             r   == p \o q
             mid == LayAll(grid, p)
             f   == CHOOSE k : Lays(k, grid, p)
             g   == CHOOSE k : Lays(k, mid, q)
             h   == CHOOSE k : Lays(k, grid, r)
  <1>1. /\ m \in Nat /\ n \in Nat /\ DOMAIN p = 1..m /\ DOMAIN q = 1..n
        /\ r \in Seq(S) /\ DOMAIN r = 1..(m + n)
        /\ \A i \in 1..m : r[i] = p[i]
        /\ \A i \in 1..n : r[m + i] = q[i]
    <2>1. m \in Nat /\ n \in Nat /\ DOMAIN p = 1..m /\ DOMAIN q = 1..n  BY LenProperties
    <2>2. r \in Seq(S) /\ Len(r) = m + n  BY ConcatProperties
    <2>3. \A i \in 1..(m + n) : r[i] = IF i <= m THEN p[i] ELSE q[i - m]  BY ConcatProperties
    <2>4. DOMAIN r = 1..(m + n)  BY <2>2, LenProperties
    <2> HIDE DEF m, n, r
    <2>5. \A i \in 1..m : i \in 1..(m + n) /\ i <= m  BY <2>1
    <2>6. \A i \in 1..n : m + i \in 1..(m + n) /\ ~ (m + i <= m) /\ (m + i) - m = i  BY <2>1
    <2>7. QED  BY <2>1, <2>2, <2>3, <2>4, <2>5, <2>6
  <1>2. IsGrid(mid) /\ Lays(f, grid, p)  BY LayingHappens
  <1> HIDE DEF m, n, r
  <1>3. Lays(h, grid, r)  BY <1>1, LayingHappens
  <1>4. mid = f[1..m]  BY <1>1, LayingIsRecursive
  <1> HIDE DEF mid
  <1>5. Lays(g, mid, q)  BY <1>2, LayingHappens
  <1>6. LayAll(grid, r) = h[1..(m + n)] /\ LayAll(mid, q) = g[1..n]
    BY <1>1, LayingIsRecursive
  <1> HIDE DEF f, g, h
  <1>7. f[1..m] = h[1..m]
    <2> DEFINE same == [s \in SUBSET (1..m) |-> f[s] = h[s]]
               c    == [s \in SUBSET (1..m) |-> Max(s)]
    <2>1. IsFiniteSet(1..m)  BY <1>1, FS_Interval
    <2>2. Chooses(c, 1..m)  BY <1>1, LargestIsThere DEF Chooses
    <2>3. f[{}] = h[{}]  BY <1>2, <1>3 DEF Lays
    <2>4. ASSUME NEW s \in SUBSET (1..m), s # {}, f[s \ {Max(s)}] = h[s \ {Max(s)}]
          PROVE  f[s] = h[s]
      <3>1. f[s] = Laid(f[s \ {Max(s)}], p[Max(s)])  BY <1>1, <1>2, <2>4 DEF Lays
      <3>2. s \in SUBSET (1..(m + n))  BY <1>1
      <3>3. h[s] = Laid(h[s \ {Max(s)}], r[Max(s)])  BY <1>1, <1>3, <2>4, <3>2 DEF Lays
      <3>4. Max(s) \in 1..m  BY <1>1, <2>4, LargestIsThere
      <3>5. QED  BY <1>1, <2>4, <3>1, <3>3, <3>4
    <2>5. Keeps(same, c, 1..m, {TRUE})
      <3>1. same[{}] \in {TRUE}  BY <2>3
      <3>2. \A s \in SUBSET (1..m) : s # {} =>
              (same[s \ {c[s]}] \in {TRUE} => same[s] \in {TRUE})  BY <2>4
      <3> HIDE DEF same, c
      <3>3. QED  BY <3>1, <3>2 DEF Keeps
    <2>6. same[1..m] \in {TRUE}
      <3> HIDE DEF same, c
      <3>1. QED  BY <2>1, <2>2, <2>5, FoldStays
    <2>7. QED  BY <2>6
  <1>8. g[1..n] = h[Behind(m, 1..n)]
    <2> DEFINE same == [s \in SUBSET (1..n) |-> g[s] = h[Behind(m, s)]]
               c    == [s \in SUBSET (1..n) |-> Max(s)]
    <2>1. IsFiniteSet(1..n)  BY <1>1, FS_Interval
    <2>2. Chooses(c, 1..n)  BY <1>1, LargestIsThere DEF Chooses
    <2>3. g[{}] = h[Behind(m, {})]
      <3>1. Behind(m, {}) = 1..m  BY DEF Behind
      <3>2. g[{}] = mid  BY <1>5 DEF Lays
      <3>3. QED  BY <1>4, <1>7, <3>1, <3>2
    <2>4. ASSUME NEW s \in SUBSET (1..n), s # {}, g[s \ {Max(s)}] = h[Behind(m, s \ {Max(s)})]
          PROVE  g[s] = h[Behind(m, s)]
      <3> DEFINE b == Behind(m, s)
      <3>1. g[s] = Laid(g[s \ {Max(s)}], q[Max(s)])  BY <1>1, <1>5, <2>4 DEF Lays
      <3>2. /\ b \in SUBSET (1..(m + n)) /\ b # {}
            /\ Max(b) = m + Max(s) /\ b \ {m + Max(s)} = Behind(m, s \ {Max(s)})
        BY <1>1, <2>4, BehindIsNext
      <3> HIDE DEF b
      <3>3. h[b] = Laid(h[b \ {Max(b)}], r[Max(b)])  BY <1>1, <1>3, <3>2 DEF Lays
      <3>4. Max(s) \in 1..n  BY <1>1, <2>4, LargestIsThere
      <3>5. r[Max(b)] = q[Max(s)]  BY <1>1, <3>2, <3>4
      <3>6. h[b] = Laid(g[s \ {Max(s)}], q[Max(s)])  BY <2>4, <3>2, <3>3, <3>5
      <3>7. QED  BY <3>1, <3>6 DEF b
    <2>5. Keeps(same, c, 1..n, {TRUE})
      <3>1. same[{}] \in {TRUE}  BY <2>3
      <3>2. \A s \in SUBSET (1..n) : s # {} =>
              (same[s \ {c[s]}] \in {TRUE} => same[s] \in {TRUE})  BY <2>4
      <3> HIDE DEF same, c
      <3>3. QED  BY <3>1, <3>2 DEF Keeps
    <2>6. same[1..n] \in {TRUE}
      <3> HIDE DEF same, c
      <3>1. QED  BY <2>1, <2>2, <2>5, FoldStays
    <2>7. QED  BY <2>6
  <1>9. Behind(m, 1..n) = 1..(m + n)
    <2>1. \A i \in 1..(m + n) : i \in 1..m \/ (i - m \in 1..n /\ i = m + (i - m))  BY <1>1
    <2>2. \A i \in 1..n : m + i \in 1..(m + n)  BY <1>1
    <2>3. \A i \in 1..m : i \in 1..(m + n)  BY <1>1
    <2>4. QED  BY <2>1, <2>2, <2>3 DEF Behind
  <1>10. QED  BY <1>6, <1>8, <1>9 DEF r, mid

\* A window all of whose atoms are of some types; what a plan leaves of it when it
\* brings none of other types, and makes d more of those in K.
Filled(g, T) == IsGrid(g) /\ IsFiniteSet(DOMAIN g) /\ \A s \in DOMAIN g : g[s].type \in T
View(w, T) == /\ w = [grid |-> w.grid, center |-> w.center, sym |-> w.sym]
              /\ w.center \in DOMAIN w.grid \cap (Int \X Int) /\ w.sym \in 0..7
              /\ Filled(w.grid, T)
Leaves(w, plan, T, K, d) ==
  /\ \E S : plan \in Seq(S)
  /\ Filled(LayAll(w.grid, plan), T)
  /\ Number(LayAll(w.grid, plan), K) = Number(w.grid, K) + d
AllLeave(w, plans, T, K, d) == \A p \in plans : Leaves(w, p, T, K, d)
One(K, atom) == IF atom.type \in K THEN 1 ELSE 0

LEMMA NumbersCount == ASSUME NEW g, NEW T, Filled(g, T), NEW K PROVE Number(g, K) \in Nat
  BY FS_Subset, FS_CardinalityType DEF Filled, Number, Holding

LEMMA ViewAfter ==
  ASSUME NEW w, NEW T, View(w, T), NEW p, NEW K, NEW d, Leaves(w, p, T, K, d)
  PROVE  /\ View(After(w, p), T) /\ After(w, p).grid = LayAll(w.grid, p)
         /\ After(w, p).center = w.center /\ After(w, p).sym = w.sym
  <1> DEFINE grid == LayAll(w.grid, p)
             v == [grid |-> grid, center |-> w.center, sym |-> w.sym]
  <1>1. After(w, p) = v  BY AfterLays DEF View
  <1>2. Filled(grid, T) /\ DOMAIN grid = DOMAIN w.grid  BY LayingHappens DEF Leaves, View, Filled
  <1> HIDE DEF grid
  <1>3. View(v, T)  BY <1>2 DEF View
  <1>4. QED  BY <1>1, <1>3 DEF grid

LEMMA StayLeaves ==
  ASSUME NEW w, NEW T, View(w, T), NEW K
  PROVE  Leaves(w, Stay, T, K, 0)
  <1>1. LayAll(w.grid, Stay) = w.grid  BY LayNone DEF View, Filled
  <1>2. Number(w.grid, K) \in Nat  BY NumbersCount DEF View
  <1>3. Stay \in Seq({})  BY DEF Stay
  <1>4. Number(w.grid, K) = Number(w.grid, K) + 0  BY <1>2
  <1>5. QED  BY <1>1, <1>2, <1>3, <1>4 DEF Leaves, View

\* One write, at a site that is live; and at one that is not.
LEMMA PutLeaves ==
  ASSUME NEW w, NEW T, View(w, T), NEW p, IsLiveSite(w, p), NEW a, a.type \in T, NEW K
  PROVE  Leaves(w, Put(w, p, a), T, K, One(K, a) - One(K, AtomAt(w, p)))
  <1> DEFINE g   == w.grid
             D   == DOMAIN g
             s   == MapToTile(w, p)
             now == [g EXCEPT ![s] = a]
             A   == {g[t] : t \in D}
             x   == <<s, a>>
  <1>1. s \in D /\ AtomAt(w, p) = g[s]  BY DEF IsLiveSite, AtomAt
  <1>2. IsGrid(g) /\ IsFiniteSet(D) /\ \A t \in D : g[t].type \in T  BY DEF View, Filled
  <1>3. Put(w, p, a) = <<x>> /\ x[1] = s /\ x[2] = a /\ <<x>> \in Seq({x})  BY DEF Put
  <1> HIDE DEF x, s
  <1>4. LayAll(g, Put(w, p, a)) = now  BY <1>1, <1>2, <1>3, LayOne DEF Laid
  <1>5. g \in [D -> A]  BY <1>2 DEF IsGrid
  <1>6. Filled(now, T)  BY <1>1, <1>2 DEF Filled, IsGrid
  <1> HIDE DEF A
  <1>7. Changed(g, D, s, a, K)  BY <1>1, <1>2, <1>5, HoldingChanges
  <1>8. DOMAIN now = D  OBVIOUS
  <1>9. Number(now, K) = Number(g, K) + (One(K, a) - One(K, g[s]))
    <2>1. Number(now, K) = Cardinality(Holding(now, D, K))  BY <1>8 DEF Number
    <2>2. Number(g, K) = Cardinality(Holding(g, D, K))  BY DEF Number
    <2> HIDE DEF now
    <2>3. QED  BY <1>7, <2>1, <2>2 DEF Changed, One, now
  <1>10. QED  BY <1>1, <1>3, <1>4, <1>6, <1>9 DEF Leaves
LEMMA PutElsewhere ==
  ASSUME NEW w, NEW T, View(w, T), NEW p, ~IsLiveSite(w, p), NEW a, NEW K
  PROVE  Leaves(w, Put(w, p, a), T, K, 0)
  <1> DEFINE g == w.grid
             x == <<MapToTile(w, p), a>>
  <1>1. x[1] \notin DOMAIN g /\ Put(w, p, a) = <<x>> /\ <<x>> \in Seq({x})  BY DEF Put, IsLiveSite
  <1> HIDE DEF x
  <1>2. LayAll(g, Put(w, p, a)) = g  BY <1>1, LayOne DEF Laid, View, Filled
  <1>3. Number(g, K) \in Nat  BY NumbersCount DEF View
  <1>4. Number(w.grid, K) = Number(w.grid, K) + 0  BY <1>3
  <1>5. QED  BY <1>1, <1>2, <1>3, <1>4 DEF Leaves, View

\* One plan after another.
LEMMA ConcatLeaves ==
  ASSUME NEW w, NEW T, View(w, T), NEW K, NEW p, NEW q, NEW c \in Int, NEW d \in Int,
         Leaves(w, p, T, K, c), Leaves(After(w, p), q, T, K, d)
  PROVE  Leaves(w, p \o q, T, K, c + d)
  <1>1. PICK S : p \in Seq(S)  BY DEF Leaves
  <1>2. PICK U : q \in Seq(U)  BY DEF Leaves
  <1>3. p \in Seq(S \cup U) /\ q \in Seq(S \cup U)  BY <1>1, <1>2, SeqMonotonic
  <1>4. p \o q \in Seq(S \cup U)  BY <1>3, ConcatProperties
  <1>5. LayAll(w.grid, p \o q) = LayAll(LayAll(w.grid, p), q)
    BY <1>3, LayBoth DEF View, Filled
  <1>6. After(w, p).grid = LayAll(w.grid, p)  BY ViewAfter
  <1>7. Number(w.grid, K) \in Nat  BY NumbersCount DEF View
  <1>8. QED  BY <1>4, <1>5, <1>6, <1>7 DEF Leaves

\* A window after a plan is where it was, and sees what the plan has left.
LEMMA SameSites ==
  ASSUME NEW w, NEW T, View(w, T), NEW plan, NEW K, NEW d, Leaves(w, plan, T, K, d)
  PROVE  /\ \A p : MapToTile(After(w, plan), p) = MapToTile(w, p)
         /\ \A p, a : Put(After(w, plan), p, a) = Put(w, p, a)
         /\ \A p : IsLiveSite(After(w, plan), p) <=> IsLiveSite(w, p)
  <1>1. /\ After(w, plan).center = w.center /\ After(w, plan).sym = w.sym
        /\ After(w, plan).grid = LayAll(w.grid, plan)
    BY ViewAfter
  <1>2. DOMAIN LayAll(w.grid, plan) = DOMAIN w.grid
    BY LayingHappens DEF View, Filled, Leaves
  <1>3. QED  BY <1>1, <1>2 DEF MapToTile, Put, IsLiveSite

LEMMA AtomsSeen ==
  ASSUME NEW w, NEW T, View(w, T), NEW p, IsLiveSite(w, p)
  PROVE  TypeAt(w, p) \in T /\ AtomAt(w, p).type \in T
  BY DEF View, Filled, TypeAt, AtomAt, IsLiveSite

\* Atoms that trade places are as many as before, whatever they are.
LEMMA SwapLeaves ==
  ASSUME NEW w, NEW T, View(w, T), NEW p, NEW q, IsLiveSite(w, p), IsLiveSite(w, q), NEW K
  PROVE  Leaves(w, Swap(w, p, q), T, K, 0)
  <1> DEFINE a == AtomAt(w, p)
             b == AtomAt(w, q)
             first == Put(w, p, b)
             v == After(w, first)
  <1>1. a.type \in T /\ b.type \in T  BY AtomsSeen
  <1>2. Leaves(w, first, T, K, One(K, b) - One(K, a))  BY <1>1, PutLeaves
  <1>3. /\ View(v, T) /\ IsLiveSite(v, q) /\ Put(v, q, a) = Put(w, q, a)
        /\ v.grid = LayAll(w.grid, first) /\ MapToTile(v, q) = MapToTile(w, q)
    BY <1>2, ViewAfter, SameSites
  <1>4. AtomAt(v, q).type = b.type
    <2> DEFINE x == <<MapToTile(w, p), b>>
    <2>1. first = <<x>> /\ x[1] = MapToTile(w, p) /\ x[2] = b  BY DEF Put
    <2> HIDE DEF x
    <2>2. LayAll(w.grid, first) = [w.grid EXCEPT ![MapToTile(w, p)] = b]
      BY <2>1, LayOne DEF Laid, View, Filled, IsLiveSite
    <2>3. AtomAt(v, q) = LayAll(w.grid, first)[MapToTile(w, q)]
      BY <1>3 DEF AtomAt
    <2>4. b = w.grid[MapToTile(w, q)] /\ MapToTile(w, q) \in DOMAIN w.grid
      BY DEF AtomAt, IsLiveSite
    <2>5. AtomAt(v, q) = b
      BY <2>2, <2>3, <2>4
    <2>6. QED  BY <2>5
  <1> HIDE DEF v, first, a, b
  <1>5. Leaves(v, Put(w, q, a), T, K, One(K, a) - One(K, b))
    <2>1. Leaves(v, Put(v, q, a), T, K, One(K, a) - One(K, AtomAt(v, q)))
      BY <1>1, <1>3, PutLeaves
    <2>2. One(K, AtomAt(v, q)) = One(K, b)  BY <1>4 DEF One
    <2>3. QED  BY <1>3, <2>1, <2>2
  <1>6. One(K, a) \in Int /\ One(K, b) \in Int  BY DEF One
  <1>7. (One(K, b) - One(K, a)) + (One(K, a) - One(K, b)) = 0  BY <1>6
  <1>8. Leaves(w, first \o Put(w, q, a), T, K, 0)
    <2>1. One(K, b) - One(K, a) \in Int /\ One(K, a) - One(K, b) \in Int  BY <1>6
    <2>2. QED  BY <1>2, <1>5, <1>7, <2>1, ConcatLeaves DEF v
  <1>9. QED  BY <1>8 DEF Swap, first, a, b

\* The centre of a window is live.
LEMMA CenterLives == ASSUME NEW w, NEW T, View(w, T) PROVE IsLiveSite(w, Center)
  <1>1. SymmetryMap(Center, w.sym) = <<0, 0>>  BY DEF SymmetryMap, Center, View
  <1>2. MapToTile(w, Center) = w.center  BY <1>1 DEF MapToTile, Plus, View
  <1>3. QED  BY <1>2 DEF IsLiveSite, View

LEMMA NoneLeave == ASSUME NEW w, NEW T, View(w, T), NEW K PROVE AllLeave(w, {Stay}, T, K, 0)
  BY StayLeaves DEF AllLeave
LEMMA DiffuseLeaves == ASSUME NEW w, NEW T, View(w, T), NEW K PROVE AllLeave(w, Diffuse(w), T, K, 0)
  <1> SUFFICES ASSUME NEW p \in Diffuse(w)  PROVE Leaves(w, p, T, K, 0)
    BY DEF AllLeave
  <1> DEFINE Heading(d) == IF IsLiveSite(w, d) THEN d ELSE Times(-1, d)
  <1>1. PICK d \in VonNeumann :
          p = IF IsLiveSite(w, Heading(d)) /\ TypeAt(w, Heading(d)) \in Diffusible
              THEN Swap(w, Heading(d), Center) ELSE Stay
    BY DEF Diffuse
  <1> HIDE DEF Heading
  <1>2. QED  BY <1>1, CenterLives, StayLeaves, SwapLeaves

\* Plans of which each makes d more, and a diffusion behind.
LEMMA ThenLeaves ==
  ASSUME NEW w, NEW T, View(w, T), NEW K, NEW d \in Int, NEW plans, AllLeave(w, plans, T, K, d)
  PROVE  AllLeave(w, Then(w, plans, Diffuse), T, K, d)
  <1> SUFFICES ASSUME NEW p \in Then(w, plans, Diffuse)  PROVE Leaves(w, p, T, K, d)
    BY DEF AllLeave
  <1>1. PICK plan \in plans : \E more \in Diffuse(After(w, plan)) : p = plan \o more
    BY DEF Then
  <1>2. PICK more \in Diffuse(After(w, plan)) : p = plan \o more  BY <1>1
  <1>3. Leaves(w, plan, T, K, d)  BY DEF AllLeave
  <1>4. View(After(w, plan), T)  BY <1>3, ViewAfter
  <1>5. Leaves(After(w, plan), more, T, K, 0)  BY <1>2, <1>4, DiffuseLeaves DEF AllLeave
  <1>6. Leaves(w, p, T, K, d + 0)  BY <1>2, <1>3, <1>5, ConcatLeaves
  <1>7. QED  BY <1>6

\* What the movers do with what they carry: K is any that Res does not turn into.
LEMMA ClonePuts ==
  ASSUME NEW w, NEW T, View(w, T), NEW p, IsLiveSite(w, p), TypeAt(w, p) = "Res",
         NEW K, "Res" \notin K, Self(w).type \in T \ K
  PROVE  Leaves(w, Put(w, p, Self(w)), T, K, 0)
  <1>1. One(K, Self(w)) = 0 /\ One(K, AtomAt(w, p)) = 0  BY DEF One, TypeAt
  <1>2. Leaves(w, Put(w, p, Self(w)), T, K, One(K, Self(w)) - One(K, AtomAt(w, p)))
    BY PutLeaves
  <1>3. QED  BY <1>1, <1>2
LEMMA MoverLeaves ==
  ASSUME NEW w, NEW T, View(w, T), NEW K, "Res" \notin K, Self(w).type \in T \ K
  PROVE  AllLeave(w, MoverBehavior(w), T, K, 0)
  <1> DEFINE near == {d \in VonNeumann : IsLiveSite(w, d)}
             Those(type) == OfTypeAnywhere(w, near, type)
             mayClone == Those(Self(w).type) = {} /\ Cardinality(Those("Res")) > 1
             Carrying(occup) ==
               IF mayClone /\ TypeAt(w, occup) = "Res" THEN {Put(w, occup, Self(w))}
               ELSE PickOne(Those("Empty"), LAMBDA e : Swap(w, occup, e))
             plans == IF near = Those("Empty") THEN {Stay}
                      ELSE UNION {Carrying(p) : p \in near \ Those("Empty")}
  <1>1. ASSUME NEW p \in near  PROVE AllLeave(w, Carrying(p), T, K, 0)
    <2>1. IsLiveSite(w, p) /\ \A e \in Those("Empty") : IsLiveSite(w, e)
      BY DEF OfTypeAnywhere
    <2>2. \A e \in Those("Empty") : Leaves(w, Swap(w, p, e), T, K, 0)  BY <2>1, SwapLeaves
    <2>3. TypeAt(w, p) = "Res" => Leaves(w, Put(w, p, Self(w)), T, K, 0)  BY <2>1, ClonePuts
    <2>4. QED  BY <2>2, <2>3, StayLeaves DEF PickOne, AllLeave
  <1>2. MoverBehavior(w) = Then(w, plans, Diffuse)  BY DEF MoverBehavior, CarryAmong
  <1> HIDE DEF Carrying, Those, near
  <1>3. AllLeave(w, plans, T, K, 0)  BY <1>1, StayLeaves DEF AllLeave
  <1> HIDE DEF plans
  <1>4. QED  BY <1>2, <1>3, ThenLeaves

LEMMA DmoverLeaves ==
  ASSUME NEW w, NEW T, View(w, T), NEW K  PROVE AllLeave(w, DmoverBehavior(w), T, K, 0)
  <1> DEFINE seen  == {p \in Ring(1, SearchRadius) : IsLiveSite(w, p)}
             north == {p \in seen : p[2] < 0 /\ TypeAt(w, p) = "Empty"}
             south == {p \in seen : p[2] > 0 /\ TypeAt(w, p) # "Empty"}
  <1>1. \A n \in north, s \in south : IsLiveSite(w, n) /\ IsLiveSite(w, s)  OBVIOUS
  <1>2. DmoverBehavior(w) = IF north = {} \/ south = {} THEN {Stay}
                            ELSE {Swap(w, n, s) : n \in north, s \in south}
    BY DEF DmoverBehavior
  <1> HIDE DEF north, south
  <1>3. \A n \in north, s \in south : Leaves(w, Swap(w, n, s), T, K, 0)  BY <1>1, SwapLeaves
  <1>4. QED  BY <1>2, <1>3, StayLeaves DEF AllLeave

LEMMA WandererLeaves ==
  ASSUME NEW w, NEW T, View(w, T), NEW K  PROVE AllLeave(w, WandererBehavior(w), T, K, 0)
  <1> SUFFICES ASSUME NEW p \in WandererBehavior(w)  PROVE Leaves(w, p, T, K, 0)
    BY DEF AllLeave
  <1> DEFINE Reach(d) == Times(IF Manhattan(d) = 2 THEN WanderDistance \div 2 ELSE WanderDistance, d)
  <1>1. PICK d \in Moore : p = IF IsLiveSite(w, Reach(d)) /\ TypeAt(w, Reach(d)) = "Empty"
                               THEN Swap(w, Reach(d), Center) ELSE Stay
    BY DEF WandererBehavior
  <1> HIDE DEF Reach
  <1>2. QED  BY <1>1, CenterLives, StayLeaves, SwapLeaves

LEMMA CollectorLeaves ==
  ASSUME NEW w, NEW T, View(w, T), NEW K, "Res" \notin K, Self(w).type \in T \ K
  PROVE  AllLeave(w, CollectorBehavior(w), T, K, 0)
  <1> DEFINE seen  == {p \in Ring(1, 2) : IsLiveSite(w, p)}
             empty == OfType(w, seen, "Empty")
             res   == OfType(w, seen, "Res")
             me    == OfType(w, seen, "Collector")
             HasCompany(o) == \E q \in Ring(1, 2) : /\ IsLiveSite(w, Plus(o, q))
                                                    /\ TypeAt(w, Plus(o, q)) = TypeAt(w, o)
             Clone == IF Cardinality(res) > 1 /\ me = {}
                      THEN PickOne(res, LAMBDA p : Put(w, p, Self(w))) ELSE {Stay}
             Collect(o) == {Swap(w, o, e) : e \in empty} \cup (IF HasCompany(o) THEN Clone ELSE {})
             occup == seen \ (empty \cup res \cup me)
             plans == IF occup = {} \/ empty = {} THEN {Stay} ELSE UNION {Collect(o) : o \in occup}
  <1>1. /\ \A o \in occup : IsLiveSite(w, o)
        /\ \A e \in empty : IsLiveSite(w, e)
        /\ \A p \in res : IsLiveSite(w, p) /\ TypeAt(w, p) = "Res"
    BY DEF OfType
  <1>2. CollectorBehavior(w) = Then(w, plans, Diffuse)  BY DEF CollectorBehavior
  <1> HIDE DEF seen, empty, res, me, HasCompany, occup
  <1>3. AllLeave(w, Clone, T, K, 0)
    <2>1. \A p \in res : Leaves(w, Put(w, p, Self(w)), T, K, 0)  BY <1>1, ClonePuts
    <2>2. QED  BY <2>1, StayLeaves DEF AllLeave, PickOne
  <1> HIDE DEF Clone
  <1>4. \A o \in occup : AllLeave(w, Collect(o), T, K, 0)
    <2>1. \A o \in occup, e \in empty : Leaves(w, Swap(w, o, e), T, K, 0)  BY <1>1, SwapLeaves
    <2>2. QED  BY <1>3, <2>1 DEF AllLeave
  <1> HIDE DEF Collect
  <1>5. AllLeave(w, plans, T, K, 0)  BY <1>4, StayLeaves DEF AllLeave
  <1> HIDE DEF plans
  <1>6. QED  BY <1>2, <1>5, ThenLeaves

\* What Perform does to the tile's grid is what its plan leaves of it.
LEMMA PerformHappens ==
  ASSUME NEW V, NEW t \in V, NEW S, NEW plan \in Seq(S),
         \A u \in V : \A x \in S : PlaceAtom(u, x[1], x[2]) \in V
  PROVE  /\ Performs(CHOOSE k : Performs(k, t, plan), t, plan)
         /\ \A s \in SUBSET DOMAIN plan : (CHOOSE k : Performs(k, t, plan))[s] \in V
  <1> DEFINE I == DOMAIN plan
             F == [i \in I |-> [u \in V |-> PlaceAtom(u, plan[i][1], plan[i][2])]]
             c == [s \in SUBSET I |-> Max(s)]
             h == CHOOSE k : Performs(k, t, plan)
  <1>1. PICK n \in Nat : I = 1..n /\ \A i \in I : plan[i] \in S  BY LenProperties
  <1>2. IsFiniteSet(I)  BY <1>1, FS_Interval
  <1>3. \A s \in SUBSET I : s # {} => Max(s) \in s  BY <1>1, LargestIsThere
  <1>4. \A i \in I : \A u \in V : PlaceAtom(u, plan[i][1], plan[i][2]) \in V  BY <1>1
  <1> HIDE DEF I
  <1>5. Acts(F, I, V) /\ Chooses(c, I)  BY <1>3, <1>4 DEF Acts, Chooses
  <1>6. \A i \in I : \A u \in V : F[i][u] = PlaceAtom(u, plan[i][1], plan[i][2])  OBVIOUS
  <1>7. \A s \in SUBSET I : c[s] = Max(s)  OBVIOUS
  <1> HIDE DEF F
  <1>8. HasFold(t, F, c, I, V)
    <2> HIDE DEF c
    <2>1. QED  BY <1>2, <1>5, FoldExists
  <1>9. PICK g \in [SUBSET I -> V] : FoldOf(g, t, F, c, I)  BY <1>8 DEF HasFold
  <1>10. Performs(g, t, plan)
    <2> SUFFICES ASSUME NEW s \in SUBSET I, s # {}
                 PROVE  g[s] = PlaceAtom(g[s \ {Max(s)}], plan[Max(s)][1], plan[Max(s)][2])
      BY <1>9 DEF FoldOf, Performs, I
    <2>1. g[s] = F[Max(s)][g[s \ {Max(s)}]]  BY <1>7, <1>9 DEF FoldOf
    <2>2. Max(s) \in I /\ g[s \ {Max(s)}] \in V  BY <1>3
    <2>3. QED  BY <1>6, <2>1, <2>2
  <1>11. Performs(h, t, plan)  BY <1>10
  <1> HIDE DEF h
  <1>12. ASSUME NEW s \in SUBSET I  PROVE h[s] \in V
    <2> DEFINE d == [r \in SUBSET s |-> Max(r)]
    <2>1. IsFiniteSet(s)  BY <1>2, FS_Subset
    <2>2. Chooses(d, s)  BY <1>3 DEF Chooses
    <2>3. h[{}] \in V  BY <1>11 DEF Performs, I
    <2>4. ASSUME NEW r \in SUBSET s, r # {}, h[r \ {d[r]}] \in V  PROVE h[r] \in V
      <3>1. h[r] = PlaceAtom(h[r \ {Max(r)}], plan[Max(r)][1], plan[Max(r)][2])
        BY <1>11, <2>4 DEF Performs, I
      <3>2. Max(r) \in I  BY <1>3, <2>4
      <3>3. QED  BY <1>4, <2>4, <3>1, <3>2
    <2> HIDE DEF d
    <2>5. Keeps(h, d, s, V)  BY <2>3, <2>4 DEF Keeps
    <2>6. QED  BY <2>1, <2>2, <2>5, FoldStays
  <1>13. QED  BY <1>11, <1>12 DEF h, I

LEMMA PerformLays ==
  ASSUME Sane(world), NEW A, NEW t \in Tiles(world, A), Kept(world, t), NEW S, NEW plan \in Seq(S)
  PROVE  Perform(t, plan).grid = LayAll(t.grid, plan)
  <1> DEFINE B == A \cup {x[2] : x \in S}
             V == {u \in Tiles(world, B) : Kept(world, u)}
             I == DOMAIN plan
             f == CHOOSE k : Performs(k, t, plan)
             g == CHOOSE k : Lays(k, t.grid, plan)
             same == [s \in SUBSET I |-> f[s].grid = g[s]]
             c == [s \in SUBSET I |-> Max(s)]
  <1>1. PICK n \in Nat : I = 1..n /\ \A i \in I : plan[i] \in S  BY LenProperties
  <1>2. t \in V  BY DEF Tiles
  <1>3. \A u \in V : \A x \in S : PlaceAtom(u, x[1], x[2]) \in V
    <2> TAKE u \in V
    <2> TAKE x \in S
    <2>1. u \in Tiles(world, B) /\ Kept(world, u) /\ x[2] \in B  OBVIOUS
    <2> HIDE DEF B
    <2>2. QED  BY <2>1, Placing
  <1>4. IsGrid(t.grid)  BY DEF Tiles, IsGrid
  <1>5. \A u \in V : \A x \in S : PlaceAtom(u, x[1], x[2]).grid = Laid(u.grid, x)
    <2> TAKE u \in V
    <2> TAKE x \in S
    <2> DEFINE placed == [u EXCEPT !.grid[x[1]] = x[2]]
               less == IncrAtomCount(placed, u.grid[x[1]].type, -1)
    <2>1. \A v, k, d : IncrAtomCount(v, k, d).grid = v.grid  BY DEF IncrAtomCount
    <2>2. placed.grid = [u.grid EXCEPT ![x[1]] = x[2]]  BY DEF Tiles
    <2> HIDE DEF placed
    <2>3. \/ x[1] \notin DOMAIN u.grid /\ PlaceAtom(u, x[1], x[2]) = u
          \/ x[1] \in DOMAIN u.grid /\ PlaceAtom(u, x[1], x[2]) = placed
          \/ x[1] \in DOMAIN u.grid /\ PlaceAtom(u, x[1], x[2]) = IncrAtomCount(less, x[2].type, 1)
      BY DEF PlaceAtom, placed
    <2>4. less.grid = placed.grid /\ IncrAtomCount(less, x[2].type, 1).grid = less.grid  BY <2>1
    <2>5. QED  BY <2>2, <2>3, <2>4 DEF Laid
  <1> HIDE DEF V
  <1>6. Performs(f, t, plan) /\ \A s \in SUBSET I : f[s] \in V
    BY <1>2, <1>3, PerformHappens
  <1>7. Lays(g, t.grid, plan)  BY <1>4, LayingHappens
  <1>8. Perform(t, plan) = f[I] /\ LayAll(t.grid, plan) = g[I]
    BY PerformIsRecursive, LayingIsRecursive
  <1> HIDE DEF f, g, I
  <1>9. \A s \in SUBSET I : s # {} => Max(s) \in s  BY <1>1, LargestIsThere
  <1>10. IsFiniteSet(I) /\ Chooses(c, I)
    <2>1. IsFiniteSet(I)  BY <1>1, FS_Interval
    <2>2. Chooses(c, I)  BY <1>9 DEF Chooses
    <2>3. QED  BY <2>1, <2>2
  <1>11. f[{}].grid = g[{}]  BY <1>6, <1>7 DEF Performs, Lays
  <1>12. ASSUME NEW s \in SUBSET I, s # {}, f[s \ {Max(s)}].grid = g[s \ {Max(s)}]
         PROVE  f[s].grid = g[s]
    <2>1. f[s] = PlaceAtom(f[s \ {Max(s)}], plan[Max(s)][1], plan[Max(s)][2])
      BY <1>6, <1>12 DEF Performs, I
    <2>2. g[s] = Laid(g[s \ {Max(s)}], plan[Max(s)])  BY <1>7, <1>12 DEF Lays, I
    <2>3. plan[Max(s)] \in S /\ f[s \ {Max(s)}] \in V  BY <1>1, <1>6, <1>9, <1>12
    <2>4. QED  BY <1>5, <1>12, <2>1, <2>2, <2>3
  <1>13. Keeps(same, c, I, {TRUE})
    <2>1. same[{}] \in {TRUE}  BY <1>11
    <2>2. \A s \in SUBSET I : s # {} =>
            (same[s \ {c[s]}] \in {TRUE} => same[s] \in {TRUE})  BY <1>12
    <2> HIDE DEF same, c
    <2>3. QED  BY <2>1, <2>2 DEF Keeps
  <1>14. same[I] \in {TRUE}
    <2> HIDE DEF same, c
    <2>1. QED  BY <1>10, <1>13, FoldStays
  <1>15. QED  BY <1>8, <1>14

\* What an event at an owned site makes of the atoms in K.
LEMMA EventLeaves ==
  ASSUME PhysicsInv, sym \in 0..7, NEW T, Filled(tile.grid, T), NEW s \in Owned,
         NEW outcome, Carry(s, outcome), NEW K, NEW d,
         View(WindowAt(s), T) => Leaves(WindowAt(s), outcome.plan, T, K, d)
  PROVE  Filled(tile'.grid, T) /\ Number(tile'.grid, K) = Number(tile.grid, K) + d
  <1>1. PICK A : tile \in Tiles(world, A)  BY DEF PhysicsInv, Tiled
  <1>2. View(WindowAt(s), T)
    <2>1. s \in DOMAIN tile.grid /\ s \in Int \X Int
      BY <1>1, WorldsAssumption DEF PhysicsInv, Owned, Tiles
    <2>2. QED  BY <2>1 DEF View, WindowAt
  <1>3. Leaves(WindowAt(s), outcome.plan, T, K, d)  BY <1>2
  <1>4. PICK S : outcome.plan \in Seq(S)  BY <1>3 DEF Leaves
  <1>5. WindowAt(s).grid = tile.grid  BY DEF WindowAt
  <1>6. Sane(world) /\ Kept(world, tile)  BY WorldsAreSane DEF PhysicsInv
  <1>7. tile'.grid = LayAll(tile.grid, outcome.plan)
    BY <1>1, <1>4, <1>6, PerformLays DEF Carry
  <1>8. QED  BY <1>3, <1>5, <1>7 DEF Leaves

\* Who may be in a world of movers, and what they may not make or lose.
CargoTypes == {"Empty", "Res", "Wall", "Block", "Indexed", "Mover", "Dmover", "Collector", "Wanderer"}
Cargo == {"Empty", "Wall", "Block", "Indexed", "Dmover", "Wanderer"}

LEMMA CargoBehaviors ==
  ASSUME NEW w, View(w, CargoTypes), NEW k \in Cargo, NEW o \in Outcomes(w)
  PROVE  Leaves(w, o.plan, CargoTypes, {k}, 0)
  <1> DEFINE type == Self(w).type
  <1>1. type \in CargoTypes  BY CenterLives, AtomsSeen DEF Self
  <1>2. /\ "Res" \notin {k}
        /\ type \in {"Mover", "Collector"} => Self(w).type \in CargoTypes \ {k}
    BY <1>1 DEF Cargo
  <1>3. /\ type = "Mover" => AllLeave(w, MoverBehavior(w), CargoTypes, {k}, 0)
        /\ type = "Collector" => AllLeave(w, CollectorBehavior(w), CargoTypes, {k}, 0)
    BY <1>2, MoverLeaves, CollectorLeaves
  <1>4. /\ AllLeave(w, {Stay}, CargoTypes, {k}, 0) /\ AllLeave(w, Diffuse(w), CargoTypes, {k}, 0)
        /\ AllLeave(w, DmoverBehavior(w), CargoTypes, {k}, 0)
        /\ AllLeave(w, WandererBehavior(w), CargoTypes, {k}, 0)
    BY NoneLeave, DiffuseLeaves, DmoverLeaves, WandererLeaves
  <1> HIDE DEF type
  <1>5. AllLeave(w, Behavior(w), CargoTypes, {k}, 0)
    <2>1. type \in {"Empty", "Wall", "Block"} => Behavior(w) = {Stay}  BY DEF Behavior, type, CrystalTypes
    <2>2. type \in {"Res", "Indexed"} => Behavior(w) = Diffuse(w)  BY DEF Behavior, type, CrystalTypes
    <2>3. /\ type = "Mover" => Behavior(w) = MoverBehavior(w)
          /\ type = "Dmover" => Behavior(w) = DmoverBehavior(w)
          /\ type = "Collector" => Behavior(w) = CollectorBehavior(w)
          /\ type = "Wanderer" => Behavior(w) = WandererBehavior(w)
      BY DEF Behavior, type, CrystalTypes
    <2>4. QED  BY <1>1, <1>3, <1>4, <2>1, <2>2, <2>3 DEF CargoTypes
  <1>6. Outcomes(w) = Silently(Behavior(w))  BY <1>1 DEF Outcomes, CargoTypes, type
  <1>7. PICK p \in Behavior(w) : o = [plan |-> p, tally |-> NoTally]  BY <1>6 DEF Silently
  <1>8. QED  BY <1>5, <1>7 DEF AllLeave

\* In such a world nothing has turned the window, and all is as numerous as at first.
Peopled(w, T) == /\ ~w.radiation /\ w.arrivals = {}
                 /\ \A s \in DOMAIN w.grid : w.grid[s].type \in T
Hauled == /\ sym = 0 /\ Filled(tile.grid, CargoTypes)
          /\ \A k \in Cargo : Number(tile.grid, {k}) = Number(world.grid, {k})
CargoInv == PhysicsInv /\ (Peopled(world, CargoTypes) => Hauled)

\* The actions that move nothing, or do not happen in a world that keeps to itself.
LEMMA CalmSteps ==
  ASSUME PhysicsInv, [Next]_vars, NEW T, Peopled(world, T)
  PROVE  \/ \E s \in Owned : \E o \in Outcomes(WindowAt(s)) : Carry(s, o)
         \/ tile'.grid = tile.grid /\ sym' = sym /\ tally' = tally
  <1>1. CASE \E s \in Owned : DoEvent(s)  BY <1>1 DEF DoEvent
  <1>2. ~ \E s : IrradiatedEvent(s) \/ XRay(s) \/ ReceiveUpdate(s)
    BY DEF Peopled, IrradiatedEvent, XRay, ReceiveUpdate
  <1>3. CASE RecountAtomsIfNeeded
    <2>1. PICK A : tile \in Tiles(world, A)  BY DEF PhysicsInv, Tiled
    <2>2. RecountAtoms(tile).grid = tile.grid  BY <2>1, WorldsAreSane, Recounted DEF PhysicsInv
    <2>3. tile' = [RecountAtoms(tile) EXCEPT !.needRecount = FALSE] /\ sym' = sym /\ tally' = tally
      BY <1>3 DEF RecountAtomsIfNeeded
    <2>4. [RecountAtoms(tile) EXCEPT !.needRecount = FALSE].grid = RecountAtoms(tile).grid
      OBVIOUS
    <2>5. QED  BY <2>2, <2>3, <2>4
  <1>4. CASE UNCHANGED vars  BY <1>4 DEF vars
  <1>5. QED  BY <1>1, <1>2, <1>3, <1>4 DEF Next

LEMMA WorldStays == [Next]_vars => world' = world
  BY DEF Next, DoEvent, Carry, IrradiatedEvent, XRay, ReceiveUpdate, RecountAtomsIfNeeded, vars

\* Of such worlds, the one that a tile is in.
LEMMA CalmWorlds ==
  ASSUME PhysicsInv, NEW T
  PROVE  Calm /\ Starting \subseteq T <=> Peopled(world, T)
  <1>1. PICK A : tile \in Tiles(world, A)  BY DEF PhysicsInv, Tiled
  <1>2. DOMAIN tile.grid = DOMAIN world.grid  BY <1>1 DEF Tiles
  <1>3. QED  BY <1>2 DEF Calm, Starting, Peopled

LEMMA FirstGrid ==
  ASSUME Init, NEW T, Peopled(world, T)
  PROVE  tile.grid = world.grid /\ Filled(tile.grid, T) /\ sym = 0
  BY WorldsAssumption DEF Init, Peopled, Filled, IsGrid

LEMMA CargoAtFirst == Init => CargoInv
  BY InvAtFirst, FirstGrid DEF CargoInv, Hauled

LEMMA CargoStays == CargoInv /\ [Next]_vars => CargoInv'
  <1> SUFFICES ASSUME CargoInv, [Next]_vars  PROVE CargoInv'
    OBVIOUS
  <1>1. PhysicsInv' /\ world' = world  BY InvStays, WorldStays DEF CargoInv
  <1>2. ASSUME Peopled(world, CargoTypes)  PROVE Hauled'
    <2>1. PhysicsInv /\ Hauled  BY <1>2 DEF CargoInv
    <2>2. CASE tile'.grid = tile.grid /\ sym' = sym
      BY <1>1, <2>1, <2>2 DEF Hauled
    <2>3. ASSUME NEW s \in Owned, NEW o \in Outcomes(WindowAt(s)), Carry(s, o)  PROVE Hauled'
      <3>1. sym \in 0..7 /\ Filled(tile.grid, CargoTypes)  BY <2>1 DEF Hauled
      <3>2. \A k \in Cargo : /\ Filled(tile'.grid, CargoTypes)
                             /\ Number(tile'.grid, {k}) = Number(tile.grid, {k}) + 0
        <4> SUFFICES ASSUME NEW k \in Cargo
                     PROVE  /\ Filled(tile'.grid, CargoTypes)
                            /\ Number(tile'.grid, {k}) = Number(tile.grid, {k}) + 0
          OBVIOUS
        <4>1. View(WindowAt(s), CargoTypes) => Leaves(WindowAt(s), o.plan, CargoTypes, {k}, 0)
          BY <2>3, CargoBehaviors
        <4>2. QED  BY <2>1, <2>3, <3>1, <4>1, EventLeaves
      <3>3. \A k \in Cargo : Number(tile'.grid, {k}) = Number(tile.grid, {k})
        BY <3>1, <3>2, NumbersCount
      <3>4. sym' = 0
        <4>1. tile.grid[s].type \in CargoTypes
          <5>1. PICK A : tile \in Tiles(world, A)  BY <2>1 DEF PhysicsInv, Tiled
          <5>2. s \in DOMAIN tile.grid
            BY <2>1, <5>1, WorldsAssumption DEF PhysicsInv, Owned, Tiles
          <5>3. QED  BY <3>1, <5>2 DEF Filled
        <4>2. ~SetsSymmetry(tile.grid[s])
          BY <4>1 DEF SetsSymmetry, CargoTypes, BarTypes, TimedBarTypes, CrystalTypes
        <4>3. QED  BY <2>1, <2>3, <4>2 DEF Carry, Hauled
      <3>5. \E k : k \in Cargo  BY DEF Cargo
      <3>6. QED  BY <1>1, <2>1, <3>2, <3>3, <3>4, <3>5 DEF Hauled
    <2>4. QED  BY <1>2, <2>1, <2>2, <2>3, CalmSteps
  <1>3. QED  BY <1>1, <1>2 DEF CargoInv

\* In a world of movers that nothing reaches from outside, the Blocks, Walls, Indexed atoms,
\* Dmovers, Wanderers and empty sites are at all times as many as at the start: whatever is
\* carried is swapped, between live sites, and what a Mover or a Collector turns into its
\* like is Res.
THEOREM CargoIsKept == Spec => []CargoKept
  <1>1. CargoInv => CargoKept
    BY CalmWorlds DEF CargoInv, CargoKept, Hauled, CargoTypes, Cargo
  <1>2. QED  BY <1>1, CargoAtFirst, CargoStays, PTL DEF Spec
-----------------------------------------------------------------------------
\* What a window sees after one write.
LEMMA SeenAfterPut ==
  ASSUME NEW w, NEW T, View(w, T), NEW p, IsLiveSite(w, p), NEW a, a.type \in T
  PROVE  \A q : AtomAt(After(w, Put(w, p, a)), q) =
                  IF MapToTile(w, q) = MapToTile(w, p) THEN a ELSE AtomAt(w, q)
  <1> TAKE q
  <1> DEFINE s == MapToTile(w, p)
             t == MapToTile(w, q)
             x == <<s, a>>
             v == After(w, Put(w, p, a))
  <1>1. Put(w, p, a) = <<x>> /\ x[1] = s /\ x[2] = a  BY DEF Put
  <1> HIDE DEF x
  <1>2. LayAll(w.grid, Put(w, p, a)) = [w.grid EXCEPT ![s] = a] /\ s \in DOMAIN w.grid
    BY <1>1, LayOne DEF Laid, View, Filled, IsLiveSite
  <1>3. Leaves(w, Put(w, p, a), T, {}, One({}, a) - One({}, AtomAt(w, p)))  BY PutLeaves
  <1>4. /\ v.grid = [w.grid EXCEPT ![s] = a]
        /\ MapToTile(v, q) = t /\ (IsLiveSite(v, q) <=> IsLiveSite(w, q))
    BY <1>2, <1>3, ViewAfter, SameSites
  <1>5. AtomAt(v, q) = IF t \in DOMAIN w.grid THEN [w.grid EXCEPT ![s] = a][t] ELSE Empty
    BY <1>4 DEF AtomAt, IsLiveSite
  <1>6. AtomAt(w, q) = IF t \in DOMAIN w.grid THEN w.grid[t] ELSE Empty
    BY DEF AtomAt, IsLiveSite
  <1> HIDE DEF v, s, t
  <1>7. QED  BY <1>2, <1>5, <1>6 DEF v, s, t

\* An atom written in place of one of its own type changes no type that is seen.
LEMMA RewriteLeaves ==
  ASSUME NEW w, NEW T, View(w, T), NEW p, IsLiveSite(w, p), NEW a, a.type = TypeAt(w, p), NEW K
  PROVE  /\ Leaves(w, Put(w, p, a), T, K, 0)
         /\ \A q : TypeAt(After(w, Put(w, p, a)), q) = TypeAt(w, q)
  <1>1. a.type \in T  BY AtomsSeen
  <1>2. Leaves(w, Put(w, p, a), T, K, One(K, a) - One(K, AtomAt(w, p)))  BY <1>1, PutLeaves
  <1>3. One(K, a) - One(K, AtomAt(w, p)) = 0  BY DEF One, TypeAt
  <1>4. \A q : MapToTile(w, q) = MapToTile(w, p) => AtomAt(w, q) = AtomAt(w, p)
    BY DEF AtomAt, IsLiveSite
  <1>5. \A q : TypeAt(After(w, Put(w, p, a)), q) = TypeAt(w, q)
    BY <1>1, <1>4, SeenAfterPut DEF TypeAt
  <1>6. QED  BY <1>2, <1>3, <1>5

\* Atoms of the types of two that are seen, written in each other's place.
LEMMA TradeLeaves ==
  ASSUME NEW w, NEW T, View(w, T), NEW p, NEW q, IsLiveSite(w, p), IsLiveSite(w, q),
         NEW a, a.type = TypeAt(w, p), NEW b, b.type = TypeAt(w, q), NEW K
  PROVE  Leaves(w, Put(w, p, b) \o Put(w, q, a), T, K, 0)
  <1> DEFINE first == Put(w, p, b)
             v == After(w, first)
  <1>1. a.type \in T /\ b.type \in T  BY AtomsSeen
  <1>2. Leaves(w, first, T, K, One(K, b) - One(K, AtomAt(w, p)))  BY <1>1, PutLeaves
  <1>3. View(v, T) /\ IsLiveSite(v, q) /\ Put(v, q, a) = Put(w, q, a)
    BY <1>2, ViewAfter, SameSites
  <1>4. AtomAt(v, q).type = b.type
    BY <1>1, SeenAfterPut DEF TypeAt
  <1> HIDE DEF v, first
  <1>5. Leaves(v, Put(w, q, a), T, K, One(K, a) - One(K, AtomAt(v, q)))
    BY <1>1, <1>3, PutLeaves
  <1>6. One(K, a) = One(K, AtomAt(w, p)) /\ One(K, AtomAt(v, q)) = One(K, b)
    BY <1>4 DEF One, TypeAt
  <1>7. One(K, a) \in Int /\ One(K, b) \in Int  BY DEF One
  <1>8. (One(K, b) - One(K, a)) + (One(K, a) - One(K, b)) = 0  BY <1>7
  <1>9. One(K, b) - One(K, a) \in Int /\ One(K, a) - One(K, b) \in Int  BY <1>7
  <1>10. QED  BY <1>2, <1>5, <1>6, <1>8, <1>9, ConcatLeaves DEF v, first

\* The sorting world.  Growing a stack neither makes nor loses a datum.
SortTypes == {"Empty", "Res", "Wall", "Data", "Sorter", "Emitter", "Consumer"}
LEMMA LookingLeaves ==
  ASSUME NEW w, View(w, SortTypes), Fitting(w), Self(w).type \in StackTypes, NEW down \in BOOLEAN
  PROVE  AllLeave(w, LookAlong(w, down), SortTypes, {"Data"}, 0)
  <1> DEFINE me    == Self(w)
             at    == <<0, IF down THEN Gap(me) ELSE -Gap(me)>>
             other == AtomAt(w, at)
             copy  == [me EXCEPT !.below = IF down THEN 0 ELSE Further(@),
                                 !.above = IF down THEN Further(@) ELSE 0]
             agreed == IF down THEN [me EXCEPT !.below = (other.below + 1) % StackField]
                               ELSE [me EXCEPT !.above = (other.above + 1) % StackField]
             worn  == IF down THEN [me EXCEPT !.below = Less(@)] ELSE [me EXCEPT !.above = Less(@)]
             Become(a) == IF a = me THEN Stay ELSE Put(w, Center, a)
             live == IsLiveSite(w, at)
  <1>1. me \in Stacks  BY SelfFits, FieldsOfOne DEF Stacks
  <1>2. copy.type = me.type /\ agreed.type = me.type /\ worn.type = me.type
    BY <1>1 DEF Stacks
  <1>3. me.type = TypeAt(w, Center)  BY DEF Self, TypeAt
  <1> HIDE DEF copy, agreed, worn, me
  <1>4. \A a : a.type = me.type => Leaves(w, Become(a), SortTypes, {"Data"}, 0)
    BY <1>3, CenterLives, RewriteLeaves, StayLeaves
  <1>5. live /\ other.type = "Empty" => Leaves(w, Put(w, at, copy), SortTypes, {"Data"}, 0)
    <2> SUFFICES ASSUME live, other.type = "Empty"
                 PROVE  Leaves(w, Put(w, at, copy), SortTypes, {"Data"}, 0)
      OBVIOUS
    <2>1. copy.type \in StackTypes  BY <1>2 DEF me
    <2>2. /\ copy.type \in SortTypes
          /\ One({"Data"}, copy) - One({"Data"}, AtomAt(w, at)) = 0
      BY <2>1 DEF One, StackTypes, SortTypes
    <2> HIDE DEF at
    <2>3. Leaves(w, Put(w, at, copy), SortTypes, {"Data"}, One({"Data"}, copy) - One({"Data"}, AtomAt(w, at)))
      BY <2>2, PutLeaves
    <2>4. QED  BY <2>2, <2>3
  <1> HIDE DEF Become, at
  <1>6. LookAlong(w, down) = CASE ~live -> {Stay}
                               [] live /\ other.type = "Empty" -> {Put(w, at, copy)}
                               [] other.type = me.type -> {Become(agreed)}
                               [] OTHER                -> Maybe({Become(worn)})
    BY DEF LookAlong, Become, copy, worn, agreed, at, me
  <1> HIDE DEF live, other
  <1>7. /\ Leaves(w, Become(agreed), SortTypes, {"Data"}, 0)
        /\ Leaves(w, Become(worn), SortTypes, {"Data"}, 0)
        /\ Leaves(w, Stay, SortTypes, {"Data"}, 0)
    BY <1>2, <1>4, StayLeaves
  <1>8. AllLeave(w, Maybe({Become(worn)}), SortTypes, {"Data"}, 0)  BY <1>7 DEF Maybe, AllLeave
  <1>9. QED  BY <1>5, <1>6, <1>7, <1>8 DEF AllLeave

\* An outcome of which the tallies tell all there is to tell.
Net(tallies) == tallies.emitted - tallies.rejected - tallies.consumed
Tells(w, o) == Leaves(w, o.plan, SortTypes, {"Data"}, Net(o.tally))
LEMMA NetsOf ==
  /\ Net(NoTally) = 0
  /\ Net([NoTally EXCEPT !.emitted = 1]) = 1
  /\ Net([NoTally EXCEPT !.emitted = 1, !.rejected = 1]) = 0
  /\ \A n : Net([NoTally EXCEPT !.consumed = 1, !.bucketError = n]) = -1
  BY DEF Net, NoTally

\* A stack grown first, then what it emits or takes.
LEMMA GrownFirst ==
  ASSUME NEW w, View(w, SortTypes), Fitting(w), Self(w).type \in StackTypes,
         NEW grown \in ReproduceVertically(w)
  PROVE  /\ Leaves(w, grown, SortTypes, {"Data"}, 0) /\ View(After(w, grown), SortTypes)
         /\ \A p, d : d \in Int /\ Leaves(After(w, grown), p, SortTypes, {"Data"}, d) =>
                        Leaves(w, grown \o p, SortTypes, {"Data"}, d)
  <1>1. Leaves(w, grown, SortTypes, {"Data"}, 0)
    BY LookingLeaves DEF ReproduceVertically, AllLeave
  <1>2. View(After(w, grown), SortTypes)  BY <1>1, ViewAfter
  <1>3. ASSUME NEW p, NEW d \in Int, Leaves(After(w, grown), p, SortTypes, {"Data"}, d)
        PROVE  Leaves(w, grown \o p, SortTypes, {"Data"}, d)
    <2>1. Leaves(w, grown \o p, SortTypes, {"Data"}, 0 + d)  BY <1>1, <1>3, ConcatLeaves
    <2>2. QED  BY <2>1
  <1>4. QED  BY <1>1, <1>2, <1>3

LEMMA EmitterTells ==
  ASSUME NEW w, View(w, SortTypes), Fitting(w), Self(w).type \in StackTypes, NEW o \in EmitterBehavior(w)
  PROVE  Tells(w, o)
  <1> DEFINE Room(v) == LET near == OfType(v, Ring(1, 1), "Empty")
                        IN  IF near # {} THEN near ELSE OfType(v, Ring(2, 2), "Empty")
             none == [NoTally EXCEPT !.emitted = 1, !.rejected = 1]
             one  == [NoTally EXCEPT !.emitted = 1]
             Placed(v, p, d) == [plan |-> Put(v, p, Data(d)), tally |-> one]
             Emit(v) == IF Room(v) = {} THEN {[plan |-> Stay, tally |-> none]}
                        ELSE {Placed(v, p, d) : p \in Room(v), d \in Datums}
             Whole(grown, e) == [e EXCEPT !.plan = grown \o @]
             ends(v) == Silently({Stay}) \cup Emit(v)
  <1>1. EmitterBehavior(w) =
          UNION {{Whole(grown, e) : e \in ends(After(w, grown))} : grown \in ReproduceVertically(w)}
    BY DEF EmitterBehavior
  <1> HIDE DEF Whole, ends
  <1>2. PICK grown \in ReproduceVertically(w) : \E e \in ends(After(w, grown)) : o = Whole(grown, e)
    BY <1>1
  <1> DEFINE v == After(w, grown)
  <1>3. PICK e \in ends(v) : o = Whole(grown, e)  BY <1>2
  <1>4. View(v, SortTypes)  BY GrownFirst
  <1>5. e = [plan |-> e.plan, tally |-> e.tally] /\ Net(e.tally) \in Int
        /\ Leaves(v, e.plan, SortTypes, {"Data"}, Net(e.tally))
    <2> HIDE DEF v
    <2>1. CASE e \in Silently({Stay})
      <3>1. e = [plan |-> Stay, tally |-> NoTally]  BY <2>1 DEF Silently
      <3>2. e.plan = Stay /\ e.tally = NoTally /\ e = [plan |-> e.plan, tally |-> e.tally]  BY <3>1
      <3>3. Net(e.tally) = 0  BY <3>2, NetsOf
      <3>4. Leaves(v, e.plan, SortTypes, {"Data"}, 0)  BY <1>4, <3>2, StayLeaves
      <3>5. QED  BY <3>2, <3>3, <3>4
    <2>2. CASE e = [plan |-> Stay, tally |-> none]
      <3>1. e.plan = Stay /\ e.tally = none /\ e = [plan |-> e.plan, tally |-> e.tally]  BY <2>2
      <3>2. Net(e.tally) = 0  BY <3>1, NetsOf
      <3>3. Leaves(v, e.plan, SortTypes, {"Data"}, 0)  BY <1>4, <3>1, StayLeaves
      <3>4. QED  BY <3>1, <3>2, <3>3
    <2>3. CASE e \in {Placed(v, p, d) : p \in Room(v), d \in Datums}
      <3>1. \A p \in Room(v) : IsLiveSite(v, p) /\ TypeAt(v, p) = "Empty"  BY DEF OfType
      <3> HIDE DEF Room, Placed
      <3>2. PICK p \in Room(v), d \in Datums : e = Placed(v, p, d)  BY <2>3
      <3>3. Data(d).type = "Data"  BY DEF Data
      <3>4. One({"Data"}, Data(d)) - One({"Data"}, AtomAt(v, p)) = 1
        BY <3>1, <3>3 DEF One, TypeAt
      <3>5. "Data" \in SortTypes  BY DEF SortTypes
      <3>6. Leaves(v, Put(v, p, Data(d)), SortTypes, {"Data"}, 1)
        BY <1>4, <3>1, <3>3, <3>4, <3>5, PutLeaves
      <3>7. e.plan = Put(v, p, Data(d)) /\ e.tally = one /\ e = [plan |-> e.plan, tally |-> e.tally]
        BY <3>2 DEF Placed
      <3>8. Net(e.tally) = 1  BY <3>7, NetsOf
      <3>9. QED  BY <3>6, <3>7, <3>8
    <2> HIDE DEF none
    <2>4. QED  BY <2>1, <2>2, <2>3 DEF ends
  <1>6. o = [plan |-> grown \o e.plan, tally |-> e.tally]  BY <1>3, <1>5 DEF Whole
  <1>7. Leaves(w, grown \o e.plan, SortTypes, {"Data"}, Net(e.tally))  BY <1>5, GrownFirst
  <1>8. QED  BY <1>6, <1>7 DEF Tells

LEMMA ConsumerTells ==
  ASSUME NEW w, View(w, SortTypes), Fitting(w), Self(w).type \in StackTypes, NEW o \in ConsumerBehavior(w)
  PROVE  Tells(w, o)
  <1> DEFINE found(v) == {i \in 1..R - 1 : TypeAt(v, <<i, 0>>) = "Data"}
             at(v)    == <<CHOOSE i \in found(v) : \A j \in found(v) : i <= j, 0>>
             error(v) == Abs(AtomAt(v, at(v)).value - Middle(Self(v).above, Self(v).below))
                           \div Wide(Self(v).above, Self(v).below)
             none     == [plan |-> Stay, tally |-> NoTally]
             fed(v)   == [plan |-> Put(v, at(v), Empty),
                          tally |-> [NoTally EXCEPT !.consumed = 1, !.bucketError = error(v)]]
             Feed(v)  == IF found(v) = {} THEN none ELSE fed(v)
             Whole(grown, e) == [e EXCEPT !.plan = grown \o @]
  <1>1. ConsumerBehavior(w) = {Whole(grown, Feed(After(w, grown))) : grown \in ReproduceVertically(w)}
    BY DEF ConsumerBehavior, Middle, Wide
  <1> HIDE DEF Whole, Feed
  <1>2. PICK grown \in ReproduceVertically(w) : o = Whole(grown, Feed(After(w, grown)))
    BY <1>1
  <1> DEFINE v == After(w, grown)
             e == Feed(v)
  <1>3. View(v, SortTypes)  BY GrownFirst
  <1> HIDE DEF v
  <1>4. e = [plan |-> e.plan, tally |-> e.tally] /\ Net(e.tally) \in Int
        /\ Leaves(v, e.plan, SortTypes, {"Data"}, Net(e.tally))
    <2>1. CASE found(v) = {}
      <3>1. e = none  BY <2>1 DEF Feed
      <3>2. e.plan = Stay /\ e.tally = NoTally /\ e = [plan |-> e.plan, tally |-> e.tally]  BY <3>1
      <3>3. Net(e.tally) = 0  BY <3>2, NetsOf
      <3>4. Leaves(v, e.plan, SortTypes, {"Data"}, 0)  BY <1>3, <3>2, StayLeaves
      <3> HIDE DEF e
      <3>5. QED  BY <3>2, <3>3, <3>4
    <2>2. CASE found(v) # {}
      <3>1. e = fed(v)  BY <2>2 DEF Feed
      <3>2. TypeAt(v, at(v)) = "Data"
        <4>1. \E i \in found(v) : at(v) = <<i, 0>>
          <5>1. R - 1 \in Int /\ found(v) \in SUBSET (1..R - 1)  BY WindowAssumption
          <5> HIDE DEF found
          <5>2. QED  BY <2>2, <5>1, LeastOne
        <4>2. QED  BY <4>1
      <3>3. /\ e.plan = Put(v, at(v), Empty)
            /\ e.tally = [NoTally EXCEPT !.consumed = 1, !.bucketError = error(v)]
            /\ e = [plan |-> e.plan, tally |-> e.tally]
        BY <3>1
      <3> HIDE DEF error, at
      <3>4. IsLiveSite(v, at(v))  BY <3>2 DEF TypeAt, AtomAt, Empty
      <3>5. /\ One({"Data"}, Empty) - One({"Data"}, AtomAt(v, at(v))) = -1
            /\ Empty.type \in SortTypes
        BY <3>2 DEF One, TypeAt, Empty, SortTypes
      <3>6. Leaves(v, Put(v, at(v), Empty), SortTypes, {"Data"}, -1)
        BY <1>3, <3>4, <3>5, PutLeaves
      <3>7. Net(e.tally) = -1
        <4>1. Net([NoTally EXCEPT !.consumed = 1, !.bucketError = error(v)]) = -1  BY NetsOf
        <4>2. QED  BY <3>3, <4>1
      <3> HIDE DEF e
      <3>8. QED  BY <3>3, <3>6, <3>7
    <2>3. QED  BY <2>1, <2>2
  <1> HIDE DEF e
  <1>5. o = [plan |-> grown \o e.plan, tally |-> e.tally]  BY <1>2, <1>4 DEF Whole, e, v
  <1>6. Leaves(w, grown \o e.plan, SortTypes, {"Data"}, Net(e.tally))
    BY <1>4, GrownFirst DEF v
  <1>7. QED  BY <1>5, <1>6 DEF Tells

\* A Sorter makes a like of itself of Res, and swaps a datum with an empty site.
LEMMA SorterLeaves ==
  ASSUME NEW w, View(w, SortTypes), Fitting(w), Self(w).type = "Sorter"
  PROVE  AllLeave(w, SorterBehavior(w), SortTypes, {"Data"}, 0)
  <1> DEFINE Quadrant(x, y) == {<<x, y>>, <<x, 2 * y>>, <<2 * x, y>>, <<2 * x, 2 * y>>}
             Spread == PickOne(OfType(w, VonNeumann, "Res"), LAMBDA p : Put(w, p, Self(w)))
             Move(v, up) ==
               LET y  == IF up THEN 1 ELSE -1
                   from == OfType(v, Quadrant(1, y), "Data")
                   to   == OfType(v, Quadrant(-1, -y), "Empty")
                   Wanted(d) == IF up THEN d < Self(v).threshold ELSE d > Self(v).threshold
                   Carried(src, dst) ==
                     IF Wanted(AtomAt(v, src).value)
                     THEN Put(v, Center, [Self(v) EXCEPT !.threshold = AtomAt(v, src).value])
                            \o Swap(v, src, dst)
                     ELSE Stay
               IN  IF from = {} \/ to = {} THEN {Stay}
                   ELSE {Carried(s, d) : s \in from, d \in to}
             Sort(v) == UNION {(Move(v, up) \ {Stay})
                                 \cup (IF Stay \in Move(v, up) THEN Move(v, ~up) ELSE {})
                               : up \in BOOLEAN}
             sorted == Then(w, Spread, Sort)
  <1>1. SorterBehavior(w) = Then(w, sorted, Diffuse)  BY DEF SorterBehavior, Then
  <1>2. AllLeave(w, Spread, SortTypes, {"Data"}, 0)
    <2>1. \A p \in OfType(w, VonNeumann, "Res") : IsLiveSite(w, p) /\ TypeAt(w, p) = "Res"
      BY DEF OfType
    <2>2. Self(w).type \in SortTypes \ {"Data"}  BY DEF SortTypes
    <2>3. "Res" \notin {"Data"}  OBVIOUS
    <2>4. \A p \in OfType(w, VonNeumann, "Res") :
            Leaves(w, Put(w, p, Self(w)), SortTypes, {"Data"}, 0)
      BY <2>1, <2>2, <2>3, ClonePuts
    <2>5. QED  BY <2>4, StayLeaves DEF PickOne, AllLeave
  <1>3. ArePlans(w, Spread)  BY StayIsPlan, PlainPuts DEF ArePlans, PickOne
  <1>4. ASSUME NEW v, View(v, SortTypes), Fitting(v), NEW src, NEW dst, NEW n,
               IsLiveSite(v, src), IsLiveSite(v, dst)
        PROVE  Leaves(v, Put(v, Center, [Self(v) EXCEPT !.threshold = n]) \o Swap(v, src, dst),
                      SortTypes, {"Data"}, 0)
    <2> DEFINE a == [Self(v) EXCEPT !.threshold = n]
               first == Put(v, Center, a)
               u == After(v, first)
    <2>1. a.type = TypeAt(v, Center)
      <3>1. "type" \in DOMAIN Self(v)  BY <1>4, SelfFits DEF FieldsFit
      <3>2. QED  BY <3>1 DEF TypeAt, Self
    <2> HIDE DEF a
    <2>2. /\ Leaves(v, first, SortTypes, {"Data"}, 0)
          /\ \A q : TypeAt(u, q) = TypeAt(v, q)
      BY <1>4, <2>1, CenterLives, RewriteLeaves
    <2>3. /\ View(u, SortTypes) /\ IsLiveSite(u, src) /\ IsLiveSite(u, dst)
          /\ \A q, b : Put(u, q, b) = Put(v, q, b)
      BY <1>4, <2>2, ViewAfter, SameSites
    <2>4. AtomAt(v, src).type = TypeAt(u, src) /\ AtomAt(v, dst).type = TypeAt(u, dst)
      BY <2>2 DEF TypeAt
    <2> HIDE DEF first, u
    <2>5. Leaves(u, Put(u, src, AtomAt(v, dst)) \o Put(u, dst, AtomAt(v, src)), SortTypes, {"Data"}, 0)
      BY <2>3, <2>4, TradeLeaves
    <2>6. Leaves(u, Swap(v, src, dst), SortTypes, {"Data"}, 0)  BY <2>3, <2>5 DEF Swap
    <2>7. Leaves(v, first \o Swap(v, src, dst), SortTypes, {"Data"}, 0 + 0)
      BY <1>4, <2>2, <2>6, ConcatLeaves DEF u
    <2>8. QED  BY <2>7 DEF first, a
  <1>5. ASSUME NEW v, View(v, SortTypes), Fitting(v), NEW up
        PROVE  AllLeave(v, Move(v, up), SortTypes, {"Data"}, 0)
    <2> DEFINE y  == IF up THEN 1 ELSE -1
               from == OfType(v, Quadrant(1, y), "Data")
               to   == OfType(v, Quadrant(-1, -y), "Empty")
               Wanted(d) == IF up THEN d < Self(v).threshold ELSE d > Self(v).threshold
               Carried(src, dst) ==
                 IF Wanted(AtomAt(v, src).value)
                 THEN Put(v, Center, [Self(v) EXCEPT !.threshold = AtomAt(v, src).value])
                        \o Swap(v, src, dst)
                 ELSE Stay
               moves == IF from = {} \/ to = {} THEN {Stay}
                        ELSE {Carried(s, d) : s \in from, d \in to}
    <2>1. Move(v, up) = moves  OBVIOUS
    <2>2. (\A s \in from : IsLiveSite(v, s)) /\ (\A d \in to : IsLiveSite(v, d))  BY DEF OfType
    <2> HIDE DEF from, to, Wanted, Move
    <2>3. \A s \in from, d \in to : Leaves(v, Carried(s, d), SortTypes, {"Data"}, 0)
      BY <1>4, <1>5, <2>2, StayLeaves
    <2> HIDE DEF Carried
    <2>4. AllLeave(v, moves, SortTypes, {"Data"}, 0)  BY <1>5, <2>3, StayLeaves DEF AllLeave
    <2>5. QED  BY <2>1, <2>4
  <1> HIDE DEF Spread, Move
  <1>6. AllLeave(w, sorted, SortTypes, {"Data"}, 0)
    <2> SUFFICES ASSUME NEW p \in sorted  PROVE Leaves(w, p, SortTypes, {"Data"}, 0)
      BY DEF AllLeave
    <2>1. PICK plan \in Spread : \E more \in Sort(After(w, plan)) : p = plan \o more
      BY DEF Then
    <2>2. PICK more \in Sort(After(w, plan)) : p = plan \o more  BY <2>1
    <2>3. Leaves(w, plan, SortTypes, {"Data"}, 0) /\ IsPlan(w, plan)
      BY <1>2, <1>3 DEF AllLeave, ArePlans
    <2>4. View(After(w, plan), SortTypes) /\ Fitting(After(w, plan))
      BY <2>3, ViewAfter, WindowAfter
    <2>5. Leaves(After(w, plan), more, SortTypes, {"Data"}, 0)
      BY <1>5, <2>2, <2>4 DEF AllLeave
    <2> HIDE DEF Sort, sorted
    <2>6. 0 \in Int /\ 0 + 0 = 0  OBVIOUS
    <2>7. Leaves(w, plan \o more, SortTypes, {"Data"}, 0 + 0)  BY <2>3, <2>5, <2>6, ConcatLeaves
    <2>8. QED  BY <2>2, <2>6, <2>7
  <1> HIDE DEF sorted
  <1>7. QED  BY <1>1, <1>6, ThenLeaves

\* What comes of an event in a sorting world is told.
LEMMA SilentTells ==
  ASSUME NEW w, NEW plans, AllLeave(w, plans, SortTypes, {"Data"}, 0), NEW o \in Silently(plans)
  PROVE  Tells(w, o)
  <1>1. PICK p \in plans : o = [plan |-> p, tally |-> NoTally]  BY DEF Silently
  <1>2. o.plan = p /\ o.tally = NoTally  BY <1>1
  <1>3. Leaves(w, p, SortTypes, {"Data"}, 0)  BY DEF AllLeave
  <1>4. QED  BY <1>2, <1>3, NetsOf DEF Tells

LEMMA DataLeaves ==
  ASSUME NEW w, View(w, SortTypes), Fitting(w), Self(w).type = "Data"
  PROVE  AllLeave(w, DataBehavior(w), SortTypes, {"Data"}, 0)
  <1>1. Self(w).value \in 1..DataMax  BY SelfFits, FieldsOfOne DEF FieldsFit, StackTypes
  <1>2. QED  BY <1>1, DiffuseLeaves DEF DataBehavior

LEMMA SortOutcomes ==
  ASSUME NEW w, View(w, SortTypes), Fitting(w), NEW o \in Outcomes(w)
  PROVE  Tells(w, o)
  <1> DEFINE type == Self(w).type
  <1>1. type \in SortTypes  BY CenterLives, AtomsSeen DEF Self
  <1>2. type = "Emitter" => Tells(w, o)  BY EmitterTells DEF Outcomes, StackTypes
  <1>3. type = "Consumer" => Tells(w, o)  BY ConsumerTells DEF Outcomes, StackTypes
  <1>4. /\ AllLeave(w, {Stay}, SortTypes, {"Data"}, 0)
        /\ AllLeave(w, Diffuse(w), SortTypes, {"Data"}, 0)
        /\ type = "Data" => AllLeave(w, DataBehavior(w), SortTypes, {"Data"}, 0)
        /\ type = "Sorter" => AllLeave(w, SorterBehavior(w), SortTypes, {"Data"}, 0)
    BY NoneLeave, DiffuseLeaves, DataLeaves, SorterLeaves
  <1>5. type \notin StackTypes => AllLeave(w, Behavior(w), SortTypes, {"Data"}, 0)
    <2> HIDE DEF type
    <2>1. /\ type \in {"Empty", "Wall"} => Behavior(w) = {Stay}
          /\ type = "Res" => Behavior(w) = Diffuse(w)
          /\ type = "Data" => Behavior(w) = DataBehavior(w)
          /\ type = "Sorter" => Behavior(w) = SorterBehavior(w)
      BY DEF Behavior, type, CrystalTypes
    <2>2. QED  BY <1>1, <1>4, <2>1 DEF SortTypes, StackTypes
  <1>6. type \notin StackTypes => Outcomes(w) = Silently(Behavior(w))
    BY DEF Outcomes, StackTypes
  <1>7. type \notin StackTypes => Tells(w, o)  BY <1>5, <1>6, SilentTells
  <1>8. QED  BY <1>2, <1>3, <1>7 DEF StackTypes

\* The Data there are, against the tallies.
Told == /\ sym = 0 /\ Filled(tile.grid, SortTypes)
        /\ Number(tile.grid, {"Data"}) = Number(world.grid, {"Data"}) + Net(tally)
DataInv == PhysicsInv /\ (AtomsComeFit /\ Peopled(world, SortTypes) => Told)

LEMMA DataAtFirst == Init => DataInv
  <1> SUFFICES ASSUME Init  PROVE DataInv
    OBVIOUS
  <1>1. PhysicsInv  BY InvAtFirst
  <1>2. ASSUME Peopled(world, SortTypes)  PROVE Told
    <2>1. tile.grid = world.grid /\ Filled(tile.grid, SortTypes) /\ sym = 0  BY <1>2, FirstGrid
    <2>2. Net(tally) = 0  BY NetsOf DEF Init
    <2>3. Number(tile.grid, {"Data"}) \in Nat  BY <2>1, NumbersCount
    <2>4. Number(tile.grid, {"Data"}) = Number(tile.grid, {"Data"}) + 0  BY <2>3
    <2>5. QED  BY <2>1, <2>2, <2>4 DEF Told
  <1>3. QED  BY <1>1, <1>2 DEF DataInv

\* An event adds what it tells to the tallies.
LEMMA NetsAdd ==
  ASSUME PhysicsInv, AtomsComeFit, NEW t \in Tallies, tally' = [k \in DOMAIN tally |-> tally[k] + t[k]]
  PROVE  Net(tally') = Net(tally) + Net(t) /\ Net(tally) \in Int /\ Net(t) \in Int
  <1>1. \A k \in DOMAIN NoTally : tally[k] \in Int /\ t[k] \in Int /\ tally'[k] = tally[k] + t[k]
    BY TallyAssumption DEF PhysicsInv, Windowed, Tallies
  <1>2. {"emitted", "rejected", "consumed"} \subseteq DOMAIN NoTally  BY DEF NoTally
  <1>3. /\ tally.emitted \in Int /\ tally.rejected \in Int /\ tally.consumed \in Int
        /\ t.emitted \in Int /\ t.rejected \in Int /\ t.consumed \in Int
    BY <1>1, <1>2
  <1>4. /\ tally'.emitted = tally.emitted + t.emitted
        /\ tally'.rejected = tally.rejected + t.rejected
        /\ tally'.consumed = tally.consumed + t.consumed
    BY <1>1, <1>2
  <1>5. QED  BY <1>3, <1>4 DEF Net

LEMMA DataStays == DataInv /\ [Next]_vars => DataInv'
  <1> SUFFICES ASSUME DataInv, [Next]_vars  PROVE DataInv'
    OBVIOUS
  <1>1. PhysicsInv' /\ world' = world  BY InvStays, WorldStays DEF DataInv
  <1>2. ASSUME AtomsComeFit, Peopled(world, SortTypes)  PROVE Told'
    <2>1. PhysicsInv /\ Told  BY <1>2 DEF DataInv
    <2>2. CASE tile'.grid = tile.grid /\ sym' = sym /\ tally' = tally
      BY <1>1, <2>1, <2>2 DEF Told
    <2>3. ASSUME NEW s \in Owned, NEW o \in Outcomes(WindowAt(s)), Carry(s, o)  PROVE Told'
      <3>1. sym \in 0..7 /\ Filled(tile.grid, SortTypes)  BY <2>1 DEF Told
      <3>2. Fitting(WindowAt(s))  BY <1>2, <2>1, WindowFits
      <3>3. View(WindowAt(s), SortTypes) =>
              Leaves(WindowAt(s), o.plan, SortTypes, {"Data"}, Net(o.tally))
        BY <2>3, <3>2, SortOutcomes DEF Tells
      <3>4. /\ Filled(tile'.grid, SortTypes)
            /\ Number(tile'.grid, {"Data"}) = Number(tile.grid, {"Data"}) + Net(o.tally)
        BY <2>1, <2>3, <3>1, <3>3, EventLeaves
      <3>5. o.tally \in Tallies  BY <3>2, OutcomesArePlans DEF IsOutcome
      <3>6. Net(tally') = Net(tally) + Net(o.tally) /\ Net(tally) \in Int /\ Net(o.tally) \in Int
        <4>1. tally' = [k \in DOMAIN tally |-> tally[k] + o.tally[k]]  BY <2>3 DEF Carry
        <4>2. QED  BY <1>2, <2>1, <3>5, <4>1, NetsAdd
      <3>7. Number(world.grid, {"Data"}) \in Nat
        <4>1. Filled(world.grid, SortTypes)
          BY <1>2, <2>1, WorldsAssumption DEF PhysicsInv, Peopled, Filled, IsGrid
        <4>2. QED  BY <4>1, NumbersCount
      <3>8. Number(tile'.grid, {"Data"}) = Number(world.grid, {"Data"}) + Net(tally')
        BY <2>1, <3>4, <3>6, <3>7 DEF Told
      <3>9. sym' = 0
        <4>1. tile.grid[s].type \in SortTypes
          <5>1. PICK A : tile \in Tiles(world, A)  BY <2>1 DEF PhysicsInv, Tiled
          <5>2. s \in DOMAIN tile.grid
            BY <2>1, <5>1, WorldsAssumption DEF PhysicsInv, Owned, Tiles
          <5>3. QED  BY <3>1, <5>2 DEF Filled
        <4>2. ~SetsSymmetry(tile.grid[s])
          BY <4>1 DEF SetsSymmetry, SortTypes, BarTypes, TimedBarTypes, CrystalTypes
        <4>3. QED  BY <2>1, <2>3, <4>2 DEF Carry, Told
      <3>10. QED  BY <1>1, <3>4, <3>8, <3>9 DEF Told
    <2>4. QED  BY <1>2, <2>1, <2>2, <2>3, CalmSteps
  <1>3. QED  BY <1>1, <1>2 DEF DataInv

\* In a sorting world that nothing reaches from outside, whose atoms fit to begin with, the
\* tallies of the Emitters and the Consumers are the whole story of the Data: those there
\* are, and those consumed, are those of the start and those emitted and not rejected.
\* Sorters swap Data about, between live sites, and what grows into a stack never takes
\* the place of one.
THEOREM DataIsAccounted == ASSUME AtomsComeFit PROVE Spec => []DataAccounted
  <1>1. DataInv => DataAccounted
    <2> SUFFICES ASSUME DataInv, Peopled(world, SortTypes)
                 PROVE  Number(tile.grid, {"Data"}) + tally.consumed =
                          Number(world.grid, {"Data"}) + tally.emitted - tally.rejected
      BY CalmWorlds DEF DataInv, DataAccounted, SortTypes
    <2>1. Told /\ PhysicsInv  BY DEF DataInv
    <2>2. \A k \in DOMAIN NoTally : tally[k] \in Int
      BY <2>1, TallyAssumption DEF PhysicsInv, Windowed
    <2>3. {"emitted", "rejected", "consumed"} \subseteq DOMAIN NoTally  BY DEF NoTally
    <2>4. Number(world.grid, {"Data"}) \in Nat
      <3>1. Filled(world.grid, SortTypes)
        BY <2>1, WorldsAssumption DEF PhysicsInv, Peopled, Filled, IsGrid
      <3>2. QED  BY <3>1, NumbersCount
    <2>5. QED  BY <2>1, <2>2, <2>3, <2>4 DEF Told, Net
  <1>2. QED  BY <1>1, DataAtFirst, DataStays, PTL DEF Spec
-----------------------------------------------------------------------------
(* Matter *)

\* Matter: Res and what is built of it; and a plan that makes none.
MatterTypes == {"Res"} \cup BarTypes \cup CrystalTypes
MatterWorld == {"Empty", "Wall"} \cup MatterTypes
CrystalWorld == {"Empty", "Wall", "Res"} \cup CrystalTypes
Losing == {d \in Int : d <= 0}
Loses(w, plan, T, K) == \E d \in Losing : Leaves(w, plan, T, K, d)
AllLose(w, plans, T, K) == \A p \in plans : Loses(w, p, T, K)

LEMMA LeavesLoses ==
  ASSUME NEW w, NEW p, NEW T, NEW K, Leaves(w, p, T, K, 0)
  PROVE  Loses(w, p, T, K)
  <1>1. 0 \in Losing  BY DEF Losing
  <1>2. QED  BY <1>1 DEF Loses
LEMMA AllLeaveAllLose ==
  ASSUME NEW w, NEW plans, NEW T, NEW K, AllLeave(w, plans, T, K, 0)
  PROVE  AllLose(w, plans, T, K)
  BY LeavesLoses DEF AllLeave, AllLose
LEMMA ConcatLoses ==
  ASSUME NEW w, NEW T, View(w, T), NEW K, NEW p, NEW q,
         Loses(w, p, T, K), Loses(After(w, p), q, T, K)
  PROVE  Loses(w, p \o q, T, K)
  <1>1. PICK c \in Losing : Leaves(w, p, T, K, c)  BY DEF Loses
  <1>2. PICK d \in Losing : Leaves(After(w, p), q, T, K, d)  BY DEF Loses
  <1>3. c \in Int /\ d \in Int /\ c + d \in Losing  BY DEF Losing
  <1>4. Leaves(w, p \o q, T, K, c + d)  BY <1>1, <1>2, <1>3, ConcatLeaves
  <1>5. QED  BY <1>3, <1>4 DEF Loses
LEMMA AfterBoth ==
  ASSUME NEW w, NEW T, View(w, T), NEW K, NEW c \in Int, NEW d \in Int, NEW p, NEW q,
         Leaves(w, p, T, K, c), Leaves(After(w, p), q, T, K, d)
  PROVE  After(w, p \o q) = After(After(w, p), q)
  <1> DEFINE v == After(w, p)
  <1>1. /\ View(v, T) /\ v.grid = LayAll(w.grid, p) /\ v.center = w.center /\ v.sym = w.sym
    BY ViewAfter
  <1>2. Leaves(w, p \o q, T, K, c + d)  BY ConcatLeaves
  <1>3. /\ View(After(w, p \o q), T) /\ After(w, p \o q).grid = LayAll(w.grid, p \o q)
        /\ After(w, p \o q).center = w.center /\ After(w, p \o q).sym = w.sym
    BY <1>2, ViewAfter
  <1>4. /\ View(After(v, q), T) /\ After(v, q).grid = LayAll(v.grid, q)
        /\ After(v, q).center = v.center /\ After(v, q).sym = v.sym
    BY <1>1, ViewAfter
  <1>5. LayAll(w.grid, p \o q) = LayAll(LayAll(w.grid, p), q)
    <2>1. PICK S : p \in Seq(S)  BY DEF Leaves
    <2>2. PICK U : q \in Seq(U)  BY DEF Leaves
    <2>3. p \in Seq(S \cup U) /\ q \in Seq(S \cup U)  BY <2>1, <2>2, SeqMonotonic
    <2>4. QED  BY <2>3, LayBoth DEF View, Filled
  <1> HIDE DEF v
  <1>6. /\ After(w, p \o q) = [grid |-> After(w, p \o q).grid, center |-> After(w, p \o q).center,
                               sym |-> After(w, p \o q).sym]
        /\ After(v, q) = [grid |-> After(v, q).grid, center |-> After(v, q).center,
                          sym |-> After(v, q).sym]
    BY <1>3, <1>4 DEF View
  <1>7. After(w, p \o q) = After(v, q)  BY <1>1, <1>3, <1>4, <1>5, <1>6
  <1>8. QED  BY <1>7 DEF v

\* A window that is turned sees the same grid.
LEMMA TurnedView ==
  ASSUME NEW w, NEW T, View(w, T), NEW n \in 0..7
  PROVE  /\ View(Turned(w, n), T) /\ Turned(w, n).grid = w.grid
         /\ \A p, K, d : Leaves(Turned(w, n), p, T, K, d) <=> Leaves(w, p, T, K, d)
         /\ Self(Turned(w, n)) = Self(w)
  <1> DEFINE v == [grid |-> w.grid, center |-> w.center, sym |-> n]
  <1>1. Turned(w, n) = v  BY DEF Turned, View
  <1>2. View(v, T) /\ v.grid = w.grid /\ v.center = w.center  BY DEF View
  <1> HIDE DEF v
  <1>3. \A p, K, d : Leaves(v, p, T, K, d) <=> Leaves(w, p, T, K, d)  BY <1>2 DEF Leaves
  <1>4. IsLiveSite(v, Center) /\ IsLiveSite(w, Center)  BY <1>2, CenterLives
  <1>5. MapToTile(v, Center) = v.center /\ MapToTile(w, Center) = w.center
    <2>1. SymmetryMap(Center, w.sym) = <<0, 0>>  BY DEF SymmetryMap, Center, View
    <2>2. SymmetryMap(Center, v.sym) = <<0, 0>>  BY <1>2 DEF SymmetryMap, Center, View
    <2>3. QED  BY <1>2, <2>1, <2>2 DEF MapToTile, Plus, View
  <1>6. Self(v) = Self(w)  BY <1>2, <1>4, <1>5 DEF Self, AtomAt
  <1>7. QED  BY <1>1, <1>2, <1>3, <1>6

\* One atom of matter in place of another, or of none where there is Res to be had for it.
LEMMA MatterPuts ==
  ASSUME NEW w, NEW T, View(w, T), NEW p, IsLiveSite(w, p), NEW a, a.type \in T
  PROVE  /\ a.type \in MatterTypes /\ TypeAt(w, p) \in MatterTypes =>
              Leaves(w, Put(w, p, a), T, MatterTypes, 0)
         /\ a.type \notin MatterTypes => Loses(w, Put(w, p, a), T, MatterTypes)
  <1> DEFINE d == One(MatterTypes, a) - One(MatterTypes, AtomAt(w, p))
  <1>1. Leaves(w, Put(w, p, a), T, MatterTypes, d)  BY PutLeaves
  <1>2. a.type \in MatterTypes /\ TypeAt(w, p) \in MatterTypes => d = 0  BY DEF One, TypeAt
  <1>3. a.type \notin MatterTypes => d \in Losing  BY DEF One, Losing
  <1> HIDE DEF d
  <1>4. QED  BY <1>1, <1>2, <1>3 DEF Loses

\* A cell made at an empty site, or beyond the edge, of a Res eaten elsewhere.  All else
\* that the window sees stays.
Spares(w, plan) ==
  \A c : TypeAt(w, c) \notin {"Empty", "Res"} => TypeAt(After(w, plan), c) = TypeAt(w, c)
LEMMA EatingLoses ==
  ASSUME NEW w, NEW T, View(w, T), {"Empty", "Res"} \subseteq T,
         NEW p, TypeAt(w, p) = "Empty", NEW q, TypeAt(w, q) = "Res",
         NEW a, a.type \in T \cap MatterTypes
  PROVE  /\ Loses(w, Put(w, p, a) \o Put(w, q, Empty), T, MatterTypes)
         /\ Spares(w, Put(w, p, a) \o Put(w, q, Empty))
  <1> DEFINE first == Put(w, p, a)
             v == After(w, first)
             c == IF IsLiveSite(w, p) THEN 1 ELSE 0
  <1>1. "Empty" \notin MatterTypes /\ "Res" \in MatterTypes /\ Empty.type = "Empty"
    BY DEF MatterTypes, BarTypes, TimedBarTypes, CrystalTypes, Empty
  <1>2. IsLiveSite(w, q)  BY <1>1 DEF TypeAt, AtomAt
  <1>3. MapToTile(w, p) # MapToTile(w, q)
    <2>1. MapToTile(w, p) = MapToTile(w, q) => AtomAt(w, p) = AtomAt(w, q)
      BY DEF AtomAt, IsLiveSite
    <2>2. QED  BY <2>1 DEF TypeAt
  <1>4. Leaves(w, first, T, MatterTypes, c)
    <2>1. CASE IsLiveSite(w, p)
      <3>1. Leaves(w, first, T, MatterTypes, One(MatterTypes, a) - One(MatterTypes, AtomAt(w, p)))
        BY <2>1, PutLeaves
      <3>2. One(MatterTypes, a) - One(MatterTypes, AtomAt(w, p)) = 1
        BY <1>1 DEF One, TypeAt
      <3>3. QED  BY <2>1, <3>1, <3>2
    <2>2. CASE ~IsLiveSite(w, p)  BY <2>2, PutElsewhere
    <2>3. QED  BY <2>1, <2>2
  <1>5. c \in Int /\ c <= 1  OBVIOUS
  <1> HIDE DEF c
  <1>6. \A r : MapToTile(w, r) # MapToTile(w, p) => AtomAt(v, r) = AtomAt(w, r)
    <2>1. CASE IsLiveSite(w, p)  BY <2>1, SeenAfterPut
    <2>2. CASE ~IsLiveSite(w, p)
      <3> DEFINE x == <<MapToTile(w, p), a>>
      <3>1. x[1] \notin DOMAIN w.grid /\ first = <<x>>  BY <2>2 DEF Put, IsLiveSite
      <3> HIDE DEF x
      <3>2. LayAll(w.grid, first) = w.grid  BY <3>1, LayOne DEF Laid, View, Filled
      <3>3. v.grid = w.grid /\ \A r : MapToTile(v, r) = MapToTile(w, r)
        BY <1>4, <3>2, ViewAfter, SameSites
      <3>4. QED  BY <3>3 DEF AtomAt, IsLiveSite
    <2>3. QED  BY <2>1, <2>2
  <1>7. /\ View(v, T) /\ IsLiveSite(v, q) /\ Put(v, q, Empty) = Put(w, q, Empty)
        /\ \A r : MapToTile(v, r) = MapToTile(w, r)
    BY <1>2, <1>4, ViewAfter, SameSites
  <1>8. AtomAt(v, q).type = "Res"  BY <1>3, <1>6 DEF TypeAt
  <1> HIDE DEF v, first
  <1>9. Leaves(v, Put(v, q, Empty), T, MatterTypes, -1)
    <2>1. Leaves(v, Put(v, q, Empty), T, MatterTypes,
                 One(MatterTypes, Empty) - One(MatterTypes, AtomAt(v, q)))
      BY <1>1, <1>7, PutLeaves
    <2>2. One(MatterTypes, Empty) - One(MatterTypes, AtomAt(v, q)) = -1  BY <1>1, <1>8 DEF One
    <2>3. QED  BY <2>1, <2>2
  <1>10. /\ Leaves(v, Put(w, q, Empty), T, MatterTypes, -1)
         /\ After(v, Put(w, q, Empty)) = After(v, Put(v, q, Empty))
    BY <1>7, <1>9
  <1>11. Loses(w, first \o Put(w, q, Empty), T, MatterTypes)
    <2>1. c + (-1) \in Losing /\ -1 \in Int  BY <1>5 DEF Losing
    <2>2. Leaves(w, first \o Put(w, q, Empty), T, MatterTypes, c + (-1))
      BY <1>4, <1>5, <1>10, <2>1, ConcatLeaves DEF v
    <2>3. QED  BY <2>1, <2>2 DEF Loses
  <1>12. Spares(w, first \o Put(w, q, Empty))
    <2> SUFFICES ASSUME NEW r, TypeAt(w, r) \notin {"Empty", "Res"}
                 PROVE  TypeAt(After(w, first \o Put(w, q, Empty)), r) = TypeAt(w, r)
      BY DEF Spares
    <2>1. MapToTile(w, r) # MapToTile(w, p) /\ MapToTile(w, r) # MapToTile(w, q)
      <3>1. \A s : MapToTile(w, r) = MapToTile(w, s) => AtomAt(w, r) = AtomAt(w, s)
        BY DEF AtomAt, IsLiveSite
      <3>2. QED  BY <3>1 DEF TypeAt
    <2>2. After(w, first \o Put(w, q, Empty)) = After(v, Put(v, q, Empty))
      <3>1. -1 \in Int  OBVIOUS
      <3>2. QED  BY <1>4, <1>5, <1>10, <3>1, AfterBoth DEF v
    <2>3. AtomAt(After(v, Put(v, q, Empty)), r) = AtomAt(v, r)
      BY <1>1, <1>7, <2>1, SeenAfterPut
    <2>4. AtomAt(v, r) = AtomAt(w, r)  BY <1>6, <2>1 DEF v
    <2>5. QED  BY <2>2, <2>3, <2>4 DEF TypeAt
  <1>13. QED  BY <1>11, <1>12 DEF first

\* What a cell decides to do loses matter when what it would do otherwise does.
Building(w, T) == View(w, T) /\ {"Empty", "Res"} \subseteq T /\ Self(w).type \in T \cap BarTypes
LEMMA BarsAreMatter ==
  /\ BarTypes \subseteq MatterTypes /\ CrystalTypes \subseteq MatterTypes
  /\ "Res" \in MatterTypes /\ "Empty" \notin MatterTypes
  /\ "Empty" \notin BarTypes /\ "Res" \notin BarTypes
  BY DEF MatterTypes, BarTypes, TimedBarTypes, CrystalTypes
LEMMA ScanSees ==
  ASSUME NEW w, Self(w).type \in BarTypes, NEW slanted, NEW beyond
  PROVE  /\ \A p \in Scan(w, slanted, beyond).wrong : TypeAt(w, p) = Self(w).type /\ IsLiveSite(w, p)
         /\ \A m \in Scan(w, slanted, beyond).make : TypeAt(w, m.at) = "Empty"
         /\ \A p \in Scan(w, slanted, beyond).eat : TypeAt(w, p) = "Res"
  <1> DEFINE scan == Scan(w, slanted, beyond)
  <1>1. \A p \in scan.wrong : TypeAt(w, p) = Self(w).type  BY DEF Scan
  <1>2. \A m \in scan.make : TypeAt(w, m.at) = "Empty"
    <2> DEFINE me == Self(w)
               Place(p) == Plus(me.pos, IF slanted THEN <<p[1] + p[2], p[2]>> ELSE p)
               grid == {p \in Ring(1, R) : OnGrid(p) /\ InBar(Place(p), me.max)}
               made(p) == [at |-> p, place |-> Place(p)]
    <2>1. scan.make = {made(p) : p \in {q \in grid : TypeAt(w, q) = "Empty"}}  BY DEF Scan
    <2>2. \A p : made(p).at = p  OBVIOUS
    <2> HIDE DEF made, grid, scan
    <2>3. QED  BY <2>1, <2>2
  <1>3. \A p \in scan.eat : TypeAt(w, p) = "Res"  BY DEF Scan
  <1> HIDE DEF scan
  <1>4. \A p : TypeAt(w, p) # "Empty" => IsLiveSite(w, p)  BY DEF TypeAt, AtomAt, Empty
  <1>5. Self(w).type # "Empty"  BY BarsAreMatter
  <1>6. QED  BY <1>1, <1>2, <1>3, <1>4, <1>5 DEF scan
LEMMA MakingLoses ==
  ASSUME NEW w, NEW T, Building(w, T), NEW p, TypeAt(w, p) = "Empty",
         NEW eat, \A q \in eat : TypeAt(w, q) = "Res", NEW cell, cell.type \in T \cap BarTypes
  PROVE  \A plan \in MakeAndEat(w, p, cell, eat) : Loses(w, plan, T, MatterTypes) /\ Spares(w, plan)
  <1> TAKE plan \in MakeAndEat(w, p, cell, eat)
  <1>1. PICK q \in eat : plan = Put(w, p, cell) \o Put(w, q, Empty)  BY DEF MakeAndEat
  <1>2. cell.type \in T \cap MatterTypes  BY BarsAreMatter
  <1>3. QED  BY <1>1, <1>2, EatingLoses DEF Building
LEMMA DecidingLoses ==
  ASSUME NEW w, NEW T, Building(w, T), NEW slanted, NEW beyond,
         NEW wrong \in SUBSET Scan(w, slanted, beyond).wrong,
         NEW newborn, \A place : SetPos(newborn, place).type \in T \cap BarTypes,
         NEW unsure, AllLose(w, unsure, T, MatterTypes),
         NEW content, AllLose(w, content, T, MatterTypes)
  PROVE  AllLose(w, Decide(w, Scan(w, slanted, beyond), wrong, newborn, unsure, content), T, MatterTypes)
  <1> DEFINE scan == Scan(w, slanted, beyond)
             unmade == {Unmade(w, p) : p \in wrong}
             made == UNION {MakeAndEat(w, m.at, SetPos(newborn, m.place), scan.eat) : m \in scan.make}
             bad == Cardinality(wrong)
             more == bad > 0 /\ scan.good <= 3 * bad /\ bad <= 3 * scan.good
             making == bad = 0 /\ scan.make # {} /\ scan.eat # {}
  <1>1. /\ \A p \in wrong : TypeAt(w, p) = Self(w).type /\ IsLiveSite(w, p)
        /\ \A m \in scan.make : TypeAt(w, m.at) = "Empty"
        /\ \A p \in scan.eat : TypeAt(w, p) = "Res"
    BY ScanSees DEF Building
  <1>2. Decide(w, scan, wrong, newborn, unsure, content) =
          CASE bad > 0 /\ scan.good > 3 * bad -> unmade
            [] bad > 3 * scan.good -> {Put(w, Center, Res)}
            [] more -> unsure
            [] making -> made
            [] OTHER -> content
    BY DEF Decide
  <1> HIDE DEF scan, bad, more, making
  <1>3. Res.type = "Res" /\ Empty.type = "Empty" /\ Res.type \in T /\ Empty.type \in T
    BY DEF Building, Res, Empty
  <1>4. AllLose(w, unmade, T, MatterTypes)
    <2> SUFFICES ASSUME NEW p \in wrong  PROVE Loses(w, Unmade(w, p), T, MatterTypes)
      BY DEF AllLose
    <2>1. TypeAt(w, p) \in MatterTypes /\ IsLiveSite(w, p)  BY <1>1, BarsAreMatter DEF Building
    <2>2. Leaves(w, Put(w, p, Res), T, MatterTypes, 0)
      BY <1>3, <2>1, BarsAreMatter, MatterPuts DEF Building
    <2>3. Loses(w, Put(w, p, Res), T, MatterTypes)  BY <2>2, LeavesLoses
    <2>4. Loses(w, Put(w, p, Empty), T, MatterTypes)
      BY <1>3, <2>1, BarsAreMatter, MatterPuts DEF Building
    <2>5. QED  BY <2>3, <2>4 DEF Unmade
  <1>5. AllLose(w, {Put(w, Center, Res)}, T, MatterTypes)
    <2>1. TypeAt(w, Center) \in MatterTypes /\ IsLiveSite(w, Center)
      BY CenterLives, BarsAreMatter DEF Building, Self, TypeAt
    <2>2. Leaves(w, Put(w, Center, Res), T, MatterTypes, 0)
      BY <1>3, <2>1, BarsAreMatter, MatterPuts DEF Building
    <2>3. QED  BY <2>2, LeavesLoses DEF AllLose
  <1>6. AllLose(w, made, T, MatterTypes)
    <2> SUFFICES ASSUME NEW m \in scan.make,
                        NEW plan \in MakeAndEat(w, m.at, SetPos(newborn, m.place), scan.eat)
                 PROVE  Loses(w, plan, T, MatterTypes)
      BY DEF AllLose
    <2>1. QED  BY <1>1, MakingLoses
  <1> HIDE DEF unmade, made
  <1>7. QED  BY <1>2, <1>4, <1>5, <1>6 DEF scan

\* A cell that starts another bar, and grows older.
LEMMA StartingLoses ==
  ASSUME NEW w, NEW T, Building(w, T), NEW slanted, NEW beyond, NEW corner, corner.type \in T \cap BarTypes
  PROVE  \A p \in StartBar(w, Scan(w, slanted, beyond), corner) :
           Loses(w, p, T, MatterTypes) /\ Spares(w, p)
  <1> DEFINE scan == Scan(w, slanted, beyond)
  <1>1. \A p \in scan.eat : TypeAt(w, p) = "Res"  BY ScanSees DEF Building
  <1> HIDE DEF scan
  <1>2. Loses(w, Stay, T, MatterTypes) /\ Spares(w, Stay)
    <2>1. Leaves(w, Stay, T, MatterTypes, 0)  BY StayLeaves DEF Building
    <2>2. LayAll(w.grid, Stay) = w.grid  BY LayNone DEF Building, View, Filled
    <2>3. After(w, Stay).grid = w.grid /\ \A c : MapToTile(After(w, Stay), c) = MapToTile(w, c)
      BY <2>1, <2>2, ViewAfter, SameSites DEF Building
    <2>4. \A c : TypeAt(After(w, Stay), c) = TypeAt(w, c)  BY <2>3 DEF TypeAt, AtomAt, IsLiveSite
    <2>5. QED  BY <2>1, <2>4, LeavesLoses DEF Spares
  <1>3. TypeAt(w, <<0, 2>>) = "Empty" =>
          \A p \in MakeAndEat(w, <<0, 2>>, corner, scan.eat) : Loses(w, p, T, MatterTypes) /\ Spares(w, p)
    BY <1>1, MakingLoses
  <1>4. StartBar(w, scan, corner) = {Stay} \/
          (TypeAt(w, <<0, 2>>) = "Empty" /\ StartBar(w, scan, corner) = MakeAndEat(w, <<0, 2>>, corner, scan.eat))
    BY DEF StartBar
  <1>5. QED  BY <1>2, <1>3, <1>4 DEF scan
LEMMA GrowthRewrites ==
  ASSUME NEW w, Self(w) \in TimedBars, NEW scan
  PROVE  \A p \in GrowOlder(w, scan) : p = Stay \/ \E a : a.type = Self(w).type /\ p = Put(w, Center, a)
  <1> DEFINE me == Self(w)
             a == [me EXCEPT !.timer = @ + 1]
  <1>1. a.type = me.type  BY DEF TimedBars
  <1>2. GrowOlder(w, scan) \subseteq {Stay, Put(w, Center, a)}  BY DEF GrowOlder, Maybe
  <1> HIDE DEF a
  <1>3. QED  BY <1>1, <1>2
LEMMA BothLose ==
  ASSUME NEW w, NEW T, Building(w, T), NEW plans, NEW more,
         \A p \in plans : Loses(w, p, T, MatterTypes) /\ Spares(w, p),
         \A q \in more : q = Stay \/ \E a : a.type = Self(w).type /\ q = Put(w, Center, a)
  PROVE  AllLose(w, Both(plans, more), T, MatterTypes)
  <1> SUFFICES ASSUME NEW r \in Both(plans, more)  PROVE Loses(w, r, T, MatterTypes)
    BY DEF AllLose
  <1>0. PICK p \in plans, q \in more : r = p \o q  BY DEF Both
  <1>1. Loses(w, p, T, MatterTypes) /\ Spares(w, p)  OBVIOUS
  <1>2. PICK d \in Losing : Leaves(w, p, T, MatterTypes, d)  BY <1>1 DEF Loses
  <1>3. View(w, T)  BY DEF Building
  <1>4. View(After(w, p), T) /\ \A a : Put(After(w, p), Center, a) = Put(w, Center, a)
    BY <1>2, <1>3, ViewAfter, SameSites
  <1>5. TypeAt(After(w, p), Center) = Self(w).type
    <2>1. TypeAt(w, Center) = Self(w).type  BY DEF TypeAt, Self
    <2>2. Self(w).type \notin {"Empty", "Res"}  BY BarsAreMatter DEF Building
    <2>3. QED  BY <1>1, <2>1, <2>2 DEF Spares
  <1>6. Leaves(After(w, p), Stay, T, MatterTypes, 0)  BY <1>4, StayLeaves
  <1>7. ASSUME NEW a, a.type = Self(w).type  PROVE Leaves(After(w, p), Put(w, Center, a), T, MatterTypes, 0)
    BY <1>4, <1>5, <1>7, CenterLives, RewriteLeaves
  <1>8. Leaves(After(w, p), q, T, MatterTypes, 0)  BY <1>6, <1>7
  <1>9. QED  BY <1>0, <1>1, <1>3, <1>8, LeavesLoses, ConcatLoses

\* The five bars.
LEMMA PlacedTypes == \A a, pos : "type" \in DOMAIN a => SetPos(a, pos).type = a.type
  BY DEF SetPos
LEMMA BarTurns ==
  ASSUME NEW window, NEW T, View(window, T), {"Empty", "Res"} \subseteq T, Fitting(window),
         Self(window).type \in T \cap BarTypes, NEW w, w = Turned(window, Self(window).sym)
  PROVE  /\ Building(w, T) /\ Self(w) = Self(window) /\ BarFits(Self(w))
         /\ \A plans : AllLose(w, plans, T, MatterTypes) => AllLose(window, plans, T, MatterTypes)
  <1>1. Self(w) = Self(window) /\ BarFits(Self(w))  BY BarWindow
  <1>2. Self(window).sym \in 0..7  BY <1>1, BarSymmetry
  <1>3. /\ View(w, T)
        /\ \A p, d : Leaves(w, p, T, MatterTypes, d) <=> Leaves(window, p, T, MatterTypes, d)
    BY <1>2, TurnedView
  <1>4. QED  BY <1>1, <1>3 DEF Building, AllLose, Loses
LEMMA MQBarLoses ==
  ASSUME NEW window, NEW T, View(window, T), {"Empty", "Res"} \subseteq T, Fitting(window),
         Self(window).type \in T \cap TimedBarTypes
  PROVE  AllLose(window, MQBarBehavior(window), T, MatterTypes)
  <1> DEFINE w       == Turned(window, Self(window).sym)
             me      == Self(w)
             scan    == Scan(w, FALSE, FALSE)
             wrong   == {p \in scan.wrong : AtomAt(w, p).timer < me.timer}
             newborn == [me EXCEPT !.timer = 0]
             corner  == SetPos([me EXCEPT !.sym = (@ + 1) % 4, !.timer = 0], Center)
  <1>1. /\ Building(w, T) /\ me.type \in T \cap BarTypes /\ me \in TimedBars
        /\ \A plans : AllLose(w, plans, T, MatterTypes) => AllLose(window, plans, T, MatterTypes)
    BY BarTurns, TimedWindow DEF BarTypes
  <1>2. \A place : SetPos(newborn, place).type = me.type  BY <1>1, PlacedTypes DEF TimedBars
  <1>3. corner.type = me.type  BY <1>1, PlacedTypes DEF TimedBars
  <1> HIDE DEF w, newborn, corner
  <1>4. AllLose(w, Both(StartBar(w, scan, corner), GrowOlder(w, scan)), T, MatterTypes)
    <2>1. \A p \in StartBar(w, scan, corner) : Loses(w, p, T, MatterTypes) /\ Spares(w, p)
      BY <1>1, <1>3, StartingLoses
    <2>2. \A q \in GrowOlder(w, scan) : q = Stay \/ \E a : a.type = me.type /\ q = Put(w, Center, a)
      BY <1>1, GrowthRewrites
    <2>3. QED  BY <1>1, <2>1, <2>2, BothLose
  <1>5. AllLose(w, {Stay}, T, MatterTypes)  BY <1>1, NoneLeave, AllLeaveAllLose DEF Building
  <1>6. AllLose(w, Decide(w, scan, wrong, newborn, {Stay},
                          Both(StartBar(w, scan, corner), GrowOlder(w, scan))), T, MatterTypes)
    <2>1. wrong \in SUBSET scan.wrong  OBVIOUS
    <2> HIDE DEF wrong, me
    <2>2. QED  BY <1>1, <1>2, <1>4, <1>5, <2>1, DecidingLoses
  <1>7. QED  BY <1>1, <1>6 DEF MQBarBehavior, w, newborn, corner
LEMMA QBarLoses ==
  ASSUME NEW window, NEW T, View(window, T), {"Empty", "Res"} \subseteq T, Fitting(window),
         Self(window).type \in T \cap TimedBarTypes
  PROVE  AllLose(window, QBarBehavior(window), T, MatterTypes)
  <1> DEFINE w       == Turned(window, Self(window).sym)
             me      == Self(w)
             scan    == Scan(w, FALSE, FALSE)
             timers  == {AtomAt(w, p).timer : p \in scan.agrees}
             least   == {t \in timers : \A u \in timers : t <= u}
             dock    == IF \E t \in least : t < me.timer THEN least ELSE {me.timer - 1}
             younger == {Put(w, Center, [me EXCEPT !.timer = t]) : t \in dock}
             newborn == [me EXCEPT !.timer = 0]
             corner  == SetPos([me EXCEPT !.sym = (@ + 1) % 4], Center)
  <1>1. /\ Building(w, T) /\ me.type \in T \cap BarTypes /\ me \in TimedBars
        /\ \A plans : AllLose(w, plans, T, MatterTypes) => AllLose(window, plans, T, MatterTypes)
    BY BarTurns, TimedWindow DEF BarTypes
  <1>2. \A place : SetPos(newborn, place).type = me.type  BY <1>1, PlacedTypes DEF TimedBars
  <1>3. corner.type = me.type  BY <1>1, PlacedTypes DEF TimedBars
  <1>4. AllLose(w, younger, T, MatterTypes)
    <2>1. \A t : [me EXCEPT !.timer = t].type = me.type  BY <1>1 DEF TimedBars
    <2> HIDE DEF w, dock
    <2>2. View(w, T) /\ IsLiveSite(w, Center) /\ me.type = TypeAt(w, Center)
      BY <1>1, CenterLives DEF Building, TypeAt, Self
    <2> HIDE DEF me
    <2>3. \A t : Leaves(w, Put(w, Center, [me EXCEPT !.timer = t]), T, MatterTypes, 0)
      BY <2>1, <2>2, RewriteLeaves
    <2>4. QED  BY <2>3, LeavesLoses DEF AllLose
  <1> HIDE DEF w, newborn, corner, younger
  <1>5. AllLose(w, Both(StartBar(w, scan, corner), GrowOlder(w, scan)), T, MatterTypes)
    <2>1. \A p \in StartBar(w, scan, corner) : Loses(w, p, T, MatterTypes) /\ Spares(w, p)
      BY <1>1, <1>3, StartingLoses
    <2>2. \A q \in GrowOlder(w, scan) : q = Stay \/ \E a : a.type = me.type /\ q = Put(w, Center, a)
      BY <1>1, GrowthRewrites
    <2>3. QED  BY <1>1, <2>1, <2>2, BothLose
  <1> DEFINE unsure == IF me.timer = 0 THEN {Stay} ELSE younger
  <1>6. AllLose(w, unsure, T, MatterTypes)  BY <1>1, <1>4, NoneLeave, AllLeaveAllLose DEF Building
  <1>7. AllLose(w, Decide(w, scan, scan.wrong, newborn, unsure,
                          Both(StartBar(w, scan, corner), GrowOlder(w, scan))), T, MatterTypes)
    <2> HIDE DEF me, unsure
    <2>1. QED  BY <1>1, <1>2, <1>5, <1>6, DecidingLoses
  <1>8. QED  BY <1>1, <1>7 DEF QBarBehavior, w, newborn, corner, younger, dock, least, timers
LEMMA SlantedLoses ==
  ASSUME NEW window, NEW T, View(window, T), {"Empty", "Res"} \subseteq T, Fitting(window),
         Self(window).type \in T \cap {"SBar", "DBar"}, NEW w, w = Turned(window, Self(window).sym),
         NEW slanted, NEW corner, corner.type \in T \cap BarTypes
  PROVE  AllLose(window, Decide(w, Scan(w, slanted, TRUE), Scan(w, slanted, TRUE).wrong, Self(w), {Stay},
                                StartBar(w, Scan(w, slanted, TRUE), corner)), T, MatterTypes)
  <1> DEFINE scan == Scan(w, slanted, TRUE)
             plans == Decide(w, scan, scan.wrong, Self(w), {Stay}, StartBar(w, scan, corner))
  <1>1. /\ Building(w, T) /\ Self(w).type \in T \cap BarTypes /\ BarFits(Self(w))
        /\ AllLose(w, plans, T, MatterTypes) => AllLose(window, plans, T, MatterTypes)
    <2> HIDE DEF plans
    <2>1. QED  BY BarTurns DEF BarTypes
  <1>2. \A place : SetPos(Self(w), place).type \in T \cap BarTypes
    BY <1>1, PlacedTypes DEF BarFits, TimedBars, OtherBars
  <1>3. AllLose(w, StartBar(w, scan, corner), T, MatterTypes)  BY <1>1, StartingLoses DEF AllLose
  <1>4. AllLose(w, {Stay}, T, MatterTypes)  BY <1>1, NoneLeave, AllLeaveAllLose DEF Building
  <1>5. AllLose(w, plans, T, MatterTypes)  BY <1>1, <1>2, <1>3, <1>4, DecidingLoses
  <1>6. QED  BY <1>1, <1>5
LEMMA SBarLoses ==
  ASSUME NEW window, NEW T, View(window, T), {"Empty", "Res", "DBar"} \subseteq T, Fitting(window),
         Self(window).type \in T \cap {"SBar"}
  PROVE  AllLose(window, SBarBehavior(window), T, MatterTypes)
  <1> DEFINE w == Turned(window, Self(window).sym)
             corner == DBar(Center, Self(w).max, Self(w).sym)
  <1>1. corner.type = "DBar"  BY PlacedTypes DEF DBar, Cell, SetSize, SetPos
  <1>2. corner.type \in T \cap BarTypes  BY <1>1 DEF BarTypes
  <1> HIDE DEF w, corner
  <1>3. AllLose(window, Decide(w, Scan(w, FALSE, TRUE), Scan(w, FALSE, TRUE).wrong, Self(w), {Stay},
                               StartBar(w, Scan(w, FALSE, TRUE), corner)), T, MatterTypes)
    BY <1>2, SlantedLoses DEF w
  <1>4. QED  BY <1>3 DEF SBarBehavior, w, corner
LEMMA DBarLoses ==
  ASSUME NEW window, NEW T, View(window, T), {"Empty", "Res", "SBar"} \subseteq T, Fitting(window),
         Self(window).type \in T \cap {"DBar"}
  PROVE  AllLose(window, DBarBehavior(window), T, MatterTypes)
  <1> DEFINE w == Turned(window, Self(window).sym)
             corner == SBar(Center, Self(w).max, (Self(w).sym + 6) % 8)
  <1>1. corner.type = "SBar"  BY PlacedTypes DEF SBar, Cell, SetSize, SetPos
  <1>2. corner.type \in T \cap BarTypes  BY <1>1 DEF BarTypes
  <1> HIDE DEF w, corner
  <1>3. AllLose(window, Decide(w, Scan(w, TRUE, TRUE), Scan(w, TRUE, TRUE).wrong, Self(w), {Stay},
                               StartBar(w, Scan(w, TRUE, TRUE), corner)), T, MatterTypes)
    BY <1>2, SlantedLoses DEF w
  <1>4. QED  BY <1>3 DEF DBarBehavior, w, corner

\* What is swapped to a site is there.
LEMMA SwapBrings ==
  ASSUME NEW w, NEW T, View(w, T), NEW p, NEW q, IsLiveSite(w, p), IsLiveSite(w, q)
  PROVE  AtomAt(After(w, Swap(w, p, q)), q) = AtomAt(w, p)
  <1> DEFINE a == AtomAt(w, p)
             b == AtomAt(w, q)
             first == Put(w, p, b)
             v == After(w, first)
  <1>1. a.type \in T /\ b.type \in T  BY AtomsSeen
  <1>2. Leaves(w, first, T, {}, One({}, b) - One({}, a))  BY <1>1, PutLeaves
  <1>3. One({}, b) - One({}, a) = 0  BY DEF One
  <1>4. View(v, T) /\ IsLiveSite(v, q) /\ Put(v, q, a) = Put(w, q, a)
    BY <1>2, ViewAfter, SameSites
  <1> HIDE DEF first, v
  <1>5. Leaves(v, Put(v, q, a), T, {}, One({}, a) - One({}, AtomAt(v, q)))  BY <1>1, <1>4, PutLeaves
  <1>6. One({}, a) - One({}, AtomAt(v, q)) = 0  BY DEF One
  <1>7. 0 \in Int  OBVIOUS
  <1>8. After(w, first \o Put(w, q, a)) = After(v, Put(v, q, a))
    BY <1>2, <1>3, <1>4, <1>5, <1>6, <1>7, AfterBoth DEF v
  <1>9. AtomAt(After(v, Put(v, q, a)), q) = a
    <2> HIDE DEF a
    <2>1. QED  BY <1>1, <1>4, SeenAfterPut
  <1>10. QED  BY <1>8, <1>9 DEF Swap, first

\* Crystals trade: what each of their cases writes is of matter where it was.
LEMMA XtalLeaves ==
  ASSUME NEW window, NEW T, View(window, T), {"Empty", "Res"} \subseteq T, CrystalTypes \subseteq T,
         Self(window).type \in CrystalTypes
  PROVE  AllLeave(window, XtalBehavior(window), T, MatterTypes, 0)
  <1> DEFINE w  == Turned(window, CrystalSymmetry(Self(window)))
             me == Self(w)
             live   == {p \in Ring(0, R) : IsLiveSite(w, p)}
             points == live \cap GetSites(me)
             fields == live \ points
             us(S)  == {p \in S : AtomAt(w, p) = me}
             gaps   == OfType(w, points, "Empty")
             strangers == {p \in points \ us(points) : TypeAt(w, p) \in CrystalTypes}
             spare  == OfType(w, points, "Res")
             stock  == OfType(w, fields, "Res")
             brought(f, p) == Swap(w, f, p) \o Put(w, p, me)
             mine  == Cardinality(us(fields)) > Cardinality(us(points))
             amiss == us(fields) # {} /\ gaps # {}
             bare  == spare # {}
             apt   == stock # {} /\ gaps # {}
             odd   == strangers # {} /\ gaps # {}
             yield   == {Put(w, Center, Res)}
             move    == {Swap(w, f, p) : f \in us(fields), p \in gaps}
             turn    == {Put(w, p, me) : p \in spare}
             bring   == {brought(f, p) : f \in stock, p \in gaps}
             resolve == {Put(w, p, Res) : p \in strangers}
             cases == << [when |-> mine, plans |-> yield],
                         [when |-> amiss, plans |-> move],
                         [when |-> bare, plans |-> turn],
                         [when |-> apt, plans |-> bring],
                         [when |-> odd, plans |-> resolve],
                         [when |-> TRUE, plans |-> {Stay}] >>
             Trades(p) == Leaves(w, p, T, MatterTypes, 0)
  <1>1. XtalBehavior(window) = First(cases)  BY DEF XtalBehavior, First
  <1>2. CrystalSymmetry(Self(window)) \in 0..7  BY DEF CrystalSymmetry, FlipY
  <1>3. /\ View(w, T) /\ me.type \in CrystalTypes
        /\ \A p : Leaves(window, p, T, MatterTypes, 0) <=> Trades(p)
    BY <1>2, TurnedView
  <1>4. /\ \A p \in us(fields) : IsLiveSite(w, p)
        /\ \A p \in gaps : IsLiveSite(w, p) /\ TypeAt(w, p) = "Empty"
        /\ \A p \in spare : IsLiveSite(w, p) /\ TypeAt(w, p) = "Res"
        /\ \A p \in stock : IsLiveSite(w, p) /\ TypeAt(w, p) = "Res"
        /\ \A p \in strangers : IsLiveSite(w, p) /\ TypeAt(w, p) \in CrystalTypes
    BY DEF OfType
  <1>5. Res.type = "Res" /\ IsLiveSite(w, Center) /\ TypeAt(w, Center) = me.type
    <2> HIDE DEF w
    <2>1. QED  BY <1>3, CenterLives DEF Res, Self, TypeAt
  <1> HIDE DEF w, me, us, gaps, spare, stock, strangers, live, points, fields
  <1>6. /\ \A p \in yield : Trades(p)
        /\ \A p \in turn : Trades(p)
        /\ \A p \in resolve : Trades(p)
    BY <1>3, <1>4, <1>5, MatterPuts, BarsAreMatter
  <1>7. ASSUME NEW r \in move  PROVE Trades(r)
    <2>1. PICK f \in us(fields), p \in gaps : r = Swap(w, f, p)  OBVIOUS
    <2>2. QED  BY <1>3, <1>4, <2>1, SwapLeaves
  <1>8. ASSUME NEW r \in bring  PROVE Trades(r)
    <2>1. PICK f \in stock, p \in gaps : r = brought(f, p)  OBVIOUS
    <2> DEFINE first == Swap(w, f, p)
               v == After(w, first)
    <2>2. Trades(first)  BY <1>3, <1>4, SwapLeaves
    <2>3. View(v, T) /\ IsLiveSite(v, p) /\ Put(v, p, me) = Put(w, p, me)
      BY <1>3, <1>4, <2>2, ViewAfter, SameSites
    <2>4. TypeAt(v, p) = "Res"  BY <1>3, <1>4, SwapBrings DEF TypeAt
    <2> HIDE DEF v, first
    <2>5. Leaves(v, Put(w, p, me), T, MatterTypes, 0)
      BY <1>3, <2>3, <2>4, MatterPuts, BarsAreMatter
    <2>6. Leaves(w, first \o Put(w, p, me), T, MatterTypes, 0 + 0)
      <3>1. 0 \in Int  OBVIOUS
      <3>2. QED  BY <1>3, <2>2, <2>5, <3>1, ConcatLeaves DEF v
    <2>7. 0 + 0 = 0  OBVIOUS
    <2>8. QED  BY <2>1, <2>6, <2>7 DEF first
  <1>9. Trades(Stay)  BY <1>3, StayLeaves
  <1> DEFINE S == {yield, move, turn, bring, resolve, {Stay}}
  <1> HIDE DEF yield, turn, resolve, move, bring, mine, amiss, bare, apt, odd, Trades
  <1>10. First(cases) \in S  BY FirstCase
  <1>11. \A plans \in S : \A p \in plans : Trades(p)  BY <1>6, <1>7, <1>8, <1>9
  <1> HIDE DEF cases, S
  <1>12. QED  BY <1>1, <1>3, <1>10, <1>11 DEF AllLeave

\* What any atom of a world of matter does.
LEMMA MatterOutcomes ==
  ASSUME NEW w, View(w, MatterWorld), Fitting(w), NEW o \in Outcomes(w)
  PROVE  Loses(w, o.plan, MatterWorld, MatterTypes)
  <1> DEFINE type == Self(w).type
             T == MatterWorld
  <1>1. type \in T  BY CenterLives, AtomsSeen DEF Self
  <1>2. {"Empty", "Res"} \subseteq T /\ BarTypes \subseteq T /\ CrystalTypes \subseteq T
    BY DEF MatterWorld, MatterTypes
  <1>3. {"SBar", "DBar"} \subseteq T /\ TimedBarTypes \subseteq T  BY <1>2 DEF BarTypes
  <1> HIDE DEF T
  <1>4. /\ AllLose(w, {Stay}, T, MatterTypes)
        /\ AllLose(w, Diffuse(w), T, MatterTypes)
        /\ type \in CrystalTypes => AllLose(w, XtalBehavior(w), T, MatterTypes)
    BY <1>2, NoneLeave, DiffuseLeaves, XtalLeaves, AllLeaveAllLose DEF T
  <1>5. /\ type \in TimedBarTypes => AllLose(w, MQBarBehavior(w), T, MatterTypes)
        /\ type \in TimedBarTypes => AllLose(w, QBarBehavior(w), T, MatterTypes)
        /\ type = "SBar" => AllLose(w, SBarBehavior(w), T, MatterTypes)
        /\ type = "DBar" => AllLose(w, DBarBehavior(w), T, MatterTypes)
    BY <1>1, <1>2, <1>3, MQBarLoses, QBarLoses, SBarLoses, DBarLoses DEF T
  <1>6. AllLose(w, Behavior(w), T, MatterTypes)
    <2> HIDE DEF type
    <2>1. /\ type \in {"Empty", "Wall"} => Behavior(w) = {Stay}
          /\ type = "Res" => Behavior(w) = Diffuse(w)
          /\ type = "MQBar" => Behavior(w) = MQBarBehavior(w)
          /\ type = "DemoMQBar" => Behavior(w) = MQBarBehavior(w)
          /\ type = "QBar" => Behavior(w) = QBarBehavior(w)
          /\ type = "SBar" => Behavior(w) = SBarBehavior(w)
          /\ type = "DBar" => Behavior(w) = DBarBehavior(w)
      BY DEF Behavior, type, CrystalTypes, DemoMQBarBehavior
    <2>2. type \in CrystalTypes => Behavior(w) = XtalBehavior(w)
      BY DEF Behavior, type, CrystalTypes
    <2>3. QED
      BY <1>1, <1>4, <1>5, <2>1, <2>2 DEF T, MatterWorld, MatterTypes, BarTypes, TimedBarTypes
  <1>7. Outcomes(w) = Silently(Behavior(w))
    BY <1>1 DEF Outcomes, T, MatterWorld, MatterTypes, BarTypes, TimedBarTypes, CrystalTypes, type
  <1>8. PICK p \in Behavior(w) : o = [plan |-> p, tally |-> NoTally]  BY <1>7 DEF Silently
  <1>9. QED  BY <1>6, <1>8 DEF AllLose, T
LEMMA CrystalOutcomes ==
  ASSUME NEW w, View(w, CrystalWorld), NEW o \in Outcomes(w)
  PROVE  Leaves(w, o.plan, CrystalWorld, MatterTypes, 0)
  <1> DEFINE type == Self(w).type
             T == CrystalWorld
  <1>1. type \in T  BY CenterLives, AtomsSeen DEF Self
  <1>2. {"Empty", "Res"} \subseteq T /\ CrystalTypes \subseteq T  BY DEF CrystalWorld
  <1> HIDE DEF T
  <1>3. /\ AllLeave(w, {Stay}, T, MatterTypes, 0)
        /\ AllLeave(w, Diffuse(w), T, MatterTypes, 0)
        /\ type \in CrystalTypes => AllLeave(w, XtalBehavior(w), T, MatterTypes, 0)
    BY <1>2, NoneLeave, DiffuseLeaves, XtalLeaves DEF T
  <1>4. AllLeave(w, Behavior(w), T, MatterTypes, 0)
    <2> HIDE DEF type
    <2>1. /\ type \in {"Empty", "Wall"} => Behavior(w) = {Stay}
          /\ type = "Res" => Behavior(w) = Diffuse(w)
          /\ type \in CrystalTypes => Behavior(w) = XtalBehavior(w)
      BY DEF Behavior, type, CrystalTypes
    <2>2. QED  BY <1>1, <1>3, <2>1 DEF T, CrystalWorld
  <1>5. Outcomes(w) = Silently(Behavior(w))
    BY <1>1 DEF Outcomes, T, CrystalWorld, CrystalTypes, type
  <1>6. PICK p \in Behavior(w) : o = [plan |-> p, tally |-> NoTally]  BY <1>5 DEF Silently
  <1>7. QED  BY <1>4, <1>6 DEF AllLeave, T

\* The types that are about stay those of the world.
MatterInv == /\ PhysicsInv
             /\ AtomsComeFit /\ Peopled(world, MatterWorld) => Filled(tile.grid, MatterWorld)
             /\ AtomsComeFit /\ Peopled(world, CrystalWorld) => Filled(tile.grid, CrystalWorld)
LEMMA MatterSteps ==
  ASSUME PhysicsInv, AtomsComeFit, [Next]_vars
  PROVE  /\ Peopled(world, MatterWorld) /\ Filled(tile.grid, MatterWorld) =>
              /\ Filled(tile'.grid, MatterWorld)
              /\ Matter(tile'.grid) <= Matter(tile.grid)
         /\ Peopled(world, CrystalWorld) /\ Filled(tile.grid, CrystalWorld) =>
              /\ Filled(tile'.grid, CrystalWorld)
              /\ Matter(tile'.grid) = Matter(tile.grid)
  <1>1. \A g : Matter(g) = Number(g, MatterTypes)  BY DEF Matter, MatterTypes
  <1>2. sym \in 0..7  BY DEF PhysicsInv, Windowed
  <1>3. \A s \in Owned : Fitting(WindowAt(s))  BY WindowFits
  <1>4. ASSUME Peopled(world, MatterWorld), Filled(tile.grid, MatterWorld)
        PROVE  Filled(tile'.grid, MatterWorld) /\ Matter(tile'.grid) <= Matter(tile.grid)
    <2>1. Number(tile.grid, MatterTypes) \in Nat  BY <1>4, NumbersCount
    <2>2. CASE tile'.grid = tile.grid  BY <1>1, <1>4, <2>1, <2>2
    <2>3. ASSUME NEW s \in Owned, NEW o \in Outcomes(WindowAt(s)), Carry(s, o)
          PROVE  Filled(tile'.grid, MatterWorld) /\ Matter(tile'.grid) <= Matter(tile.grid)
      <3>1. View(WindowAt(s), MatterWorld)
        <4>1. PICK A : tile \in Tiles(world, A)  BY DEF PhysicsInv, Tiled
        <4>2. s \in DOMAIN tile.grid /\ s \in Int \X Int
          BY <4>1, WorldsAssumption DEF PhysicsInv, Owned, Tiles
        <4>3. QED  BY <1>2, <1>4, <4>2 DEF View, WindowAt
      <3>2. PICK d \in Losing : Leaves(WindowAt(s), o.plan, MatterWorld, MatterTypes, d)
        BY <1>3, <2>3, <3>1, MatterOutcomes DEF Loses
      <3>3. Filled(tile'.grid, MatterWorld)
            /\ Number(tile'.grid, MatterTypes) = Number(tile.grid, MatterTypes) + d
        BY <1>2, <1>4, <2>3, <3>2, EventLeaves
      <3>4. QED  BY <1>1, <2>1, <3>3 DEF Losing
    <2>4. QED  BY <1>4, <2>2, <2>3, CalmSteps
  <1>5. ASSUME Peopled(world, CrystalWorld), Filled(tile.grid, CrystalWorld)
        PROVE  Filled(tile'.grid, CrystalWorld) /\ Matter(tile'.grid) = Matter(tile.grid)
    <2>1. Number(tile.grid, MatterTypes) \in Nat  BY <1>5, NumbersCount
    <2>2. CASE tile'.grid = tile.grid  BY <1>1, <1>5, <2>1, <2>2
    <2>3. ASSUME NEW s \in Owned, NEW o \in Outcomes(WindowAt(s)), Carry(s, o)
          PROVE  Filled(tile'.grid, CrystalWorld) /\ Matter(tile'.grid) = Matter(tile.grid)
      <3>1. View(WindowAt(s), CrystalWorld) =>
              Leaves(WindowAt(s), o.plan, CrystalWorld, MatterTypes, 0)
        BY <2>3, CrystalOutcomes
      <3>2. Filled(tile'.grid, CrystalWorld)
            /\ Number(tile'.grid, MatterTypes) = Number(tile.grid, MatterTypes) + 0
        BY <1>2, <1>5, <2>3, <3>1, EventLeaves
      <3>3. QED  BY <1>1, <2>1, <3>2
    <2>4. QED  BY <1>5, <2>2, <2>3, CalmSteps
  <1>6. QED  BY <1>4, <1>5

LEMMA MatterAtFirst == Init => MatterInv
  BY InvAtFirst, FirstGrid DEF MatterInv
LEMMA MatterStays == MatterInv /\ [Next]_vars => MatterInv'
  <1> SUFFICES ASSUME MatterInv, [Next]_vars  PROVE MatterInv'
    OBVIOUS
  <1>1. PhysicsInv' /\ world' = world  BY InvStays, WorldStays DEF MatterInv
  <1>2. QED  BY <1>1, MatterSteps DEF MatterInv

\* In a world of Res, bars and crystals that nothing reaches from outside, and whose atoms
\* fit to begin with, no step makes matter out of nothing: a cell that is made is made of
\* a Res that is eaten.  Where there are no bars, a step loses none either.
THEOREM MatterIsKept == ASSUME AtomsComeFit PROVE Spec => MatterKept
  <1> DEFINE kept ==
        (Calm /\ Starting \subseteq {"Empty", "Res", "Wall"} \cup BarTypes \cup CrystalTypes) =>
           /\ Matter(tile'.grid) <= Matter(tile.grid)
           /\ BarTypes \cap Starting = {} => Matter(tile'.grid) = Matter(tile.grid)
  <1>1. MatterInv /\ [Next]_vars => [kept]_vars
    <2> SUFFICES ASSUME MatterInv, [Next]_vars,
                        Calm, Starting \subseteq {"Empty", "Res", "Wall"} \cup BarTypes \cup CrystalTypes
                 PROVE  /\ Matter(tile'.grid) <= Matter(tile.grid)
                        /\ BarTypes \cap Starting = {} => Matter(tile'.grid) = Matter(tile.grid)
      OBVIOUS
    <2>1. PhysicsInv  BY DEF MatterInv
    <2>2. Starting \subseteq MatterWorld  BY DEF MatterWorld, MatterTypes
    <2>3. BarTypes \cap Starting = {} => Starting \subseteq CrystalWorld  BY DEF CrystalWorld
    <2>4. Matter(tile'.grid) <= Matter(tile.grid)
      <3>1. Peopled(world, MatterWorld)  BY <2>1, <2>2, CalmWorlds
      <3>2. QED  BY <2>1, <3>1, MatterSteps DEF MatterInv
    <2>5. ASSUME BarTypes \cap Starting = {}  PROVE Matter(tile'.grid) = Matter(tile.grid)
      <3>1. Peopled(world, CrystalWorld)  BY <2>1, <2>3, <2>5, CalmWorlds
      <3>2. QED  BY <2>1, <3>1, MatterSteps DEF MatterInv
    <2>6. QED  BY <2>4, <2>5
  <1>2. QED  BY <1>1, MatterAtFirst, MatterStays, PTL DEF Spec, MatterKept
-----------------------------------------------------------------------------
(* Wealth and energy *)

\* Two sums over a grid: the wealth of the tribes and the energy of the Sharks.  What one
\* atom adds to each.
SharingTypes(m) == IF m = "wealth" THEN {"Base", "Infantry", "Res"} ELSE {"Shark"}
Value(m, a) == IF m = "wealth" THEN Worth(a) ELSE a.energy
Share(m, a) == IF a.type \in SharingTypes(m) THEN Value(m, a) ELSE 0
Amount(m, g) == IF m = "wealth" THEN Wealth(g) ELSE Energy(g)
Sharing(m, g) == Holding(g, DOMAIN g, SharingTypes(m))
Shares(m, g) == [s \in DOMAIN g |-> Share(m, g[s])]
Priced(m, g) == \A s \in DOMAIN g : Share(m, g[s]) \in Nat

\* The sums are sums of functions.
Totals(m, g, k, S) ==
  k = [s \in SUBSET S |-> IF s = {} THEN 0 ELSE Value(m, g[Pick(s)]) + k[s \ {Pick(s)}]]
LEMMA AmountIsRecursive ==
  ASSUME NEW m \in {"wealth", "energy"}, NEW g
  PROVE  Amount(m, g) = (CHOOSE k : Totals(m, g, k, Sharing(m, g)))[Sharing(m, g)]
  <1>1. CASE m = "wealth"
    BY <1>1 DEF Amount, Wealth, Total, MapThenSumSet, MapThenFoldSet, Pick, Totals, Sharing,
                SharingTypes, Value
  <1>2. CASE m = "energy"
    BY <1>2 DEF Amount, Energy, Total, MapThenSumSet, MapThenFoldSet, Pick, Totals, Sharing,
                SharingTypes, Value
  <1>3. QED  BY <1>1, <1>2
LEMMA AmountIsSum ==
  ASSUME NEW m \in {"wealth", "energy"}, NEW g, IsFiniteSet(DOMAIN g), Priced(m, g)
  PROVE  /\ Amount(m, g) = SumFunctionOnSet(Shares(m, g), Sharing(m, g))
         /\ Shares(m, g) \in [DOMAIN g -> Int] /\ Sharing(m, g) \in SUBSET DOMAIN g
         /\ Amount(m, g) \in Int
  <1> DEFINE S == Sharing(m, g)
             f == Shares(m, g)
             part == [x \in S |-> Share(m, g[x])]
             c == CHOOSE k : Totals(m, g, k, S)
             d == CHOOSE k : SumsUp(part, k, S)
  <1>1. S \in SUBSET DOMAIN g /\ f \in [DOMAIN g -> Int] /\ part \in [S -> Int]
    BY DEF Sharing, Holding, Shares, Priced
  <1>2. IsFiniteSet(S)  BY <1>1, FS_Subset
  <1>3. \A x \in S : part[x] = Value(m, g[x]) /\ part[x] = f[x]
    BY <1>1 DEF Sharing, Holding, Share, Shares
  <1> HIDE DEF S, f, part
  <1>4. ASSUME NEW k  PROVE Totals(m, g, k, S) <=> SumsUp(part, k, S)
    <2>1. \A s \in SUBSET S :
            (IF s = {} THEN 0 ELSE Value(m, g[Pick(s)]) + k[s \ {Pick(s)}]) = NextSum(part, k, s)
      BY <1>3 DEF NextSum, Pick
    <2>2. [s \in SUBSET S |-> IF s = {} THEN 0 ELSE Value(m, g[Pick(s)]) + k[s \ {Pick(s)}]]
            = [s \in SUBSET S |-> NextSum(part, k, s)]
      BY <2>1
    <2>3. QED  BY <2>2 DEF Totals, SumsUp
  <1>5. \E k : SumsUp(part, k, S)  BY <1>1, <1>2, SumsExist
  <1>6. SumsUp(part, c, S) /\ SumsUp(part, d, S)
    <2>1. SumsUp(part, d, S)  BY <1>5
    <2>2. Totals(m, g, c, S)  BY <1>4, <1>5
    <2> HIDE DEF c, d
    <2>3. QED  BY <1>4, <2>1, <2>2
  <1> HIDE DEF c, d
  <1>7. c[S] = d[S]  BY <1>2, <1>6, SumsAgree
  <1>8. SumFunctionOnSet(part, S) = d[S]  BY SumIsRecursive DEF d
  <1>9. SumFunctionOnSet(part, S) = SumFunctionOnSet(f, S)  BY <1>1, <1>2, <1>3, SumDepends
  <1>10. Amount(m, g) = c[S]  BY AmountIsRecursive DEF c, S
  <1>11. SumFunctionOnSet(f, S) \in Int  BY <1>1, SumType
  <1>12. QED  BY <1>1, <1>7, <1>8, <1>9, <1>10, <1>11 DEF S, f

\* What one write makes of a sum.
LEMMA AmountChanges ==
  ASSUME NEW m \in {"wealth", "energy"}, NEW g, IsGrid(g), IsFiniteSet(DOMAIN g), Priced(m, g),
         NEW s \in DOMAIN g, NEW a, Share(m, a) \in Nat
  PROVE  /\ Priced(m, [g EXCEPT ![s] = a])
         /\ Amount(m, [g EXCEPT ![s] = a]) = Amount(m, g) + (Share(m, a) - Share(m, g[s]))
  <1> DEFINE now == [g EXCEPT ![s] = a]
             D == DOMAIN g
             rest == Sharing(m, g) \ {s}
  <1>1. DOMAIN now = D /\ now[s] = a /\ \A t \in D \ {s} : now[t] = g[t]  BY DEF IsGrid
  <1> HIDE DEF now
  <1>2. Priced(m, now)  BY <1>1 DEF Priced
  <1>3. /\ Amount(m, g) = SumFunctionOnSet(Shares(m, g), Sharing(m, g))
        /\ Shares(m, g) \in [D -> Int] /\ Sharing(m, g) \in SUBSET D
    BY AmountIsSum
  <1>4. /\ Amount(m, now) = SumFunctionOnSet(Shares(m, now), Sharing(m, now))
        /\ Shares(m, now) \in [D -> Int] /\ Sharing(m, now) \in SUBSET D
    BY <1>1, <1>2, AmountIsSum
  <1>5. Sharing(m, now) \ {s} = rest  BY <1>1 DEF Sharing, Holding
  <1>6. /\ SumFunctionOnSet(Shares(m, now), rest) = SumFunctionOnSet(Shares(m, g), rest)
        /\ SumFunctionOnSet(Shares(m, g), rest) \in Int
    <2>1. rest \in SUBSET D /\ IsFiniteSet(rest)  BY <1>3, FS_Subset
    <2>2. \A x \in rest : Shares(m, now)[x] = Shares(m, g)[x]
      BY <1>1, <2>1 DEF Shares
    <2> HIDE DEF rest
    <2>3. QED  BY <1>3, <1>4, <2>1, <2>2, SumDepends, SumType
  <1>7. ASSUME NEW h, DOMAIN h = D, Priced(m, h),
               Shares(m, h) \in [D -> Int], Sharing(m, h) \in SUBSET D
        PROVE  SumFunctionOnSet(Shares(m, h), Sharing(m, h))
                 = Share(m, h[s]) + SumFunctionOnSet(Shares(m, h), Sharing(m, h) \ {s})
    <2>1. CASE s \in Sharing(m, h)
      <3>1. TakenFirst(Shares(m, h), Sharing(m, h), s)  BY <1>7, <2>1, SumTakes
      <3>2. Shares(m, h)[s] = Share(m, h[s])  BY <1>7 DEF Shares
      <3>3. QED  BY <3>1, <3>2 DEF TakenFirst
    <2>2. CASE s \notin Sharing(m, h)
      <3>1. Share(m, h[s]) = 0  BY <1>7, <2>2 DEF Share, Sharing, Holding
      <3>2. Sharing(m, h) \ {s} = Sharing(m, h)  BY <2>2
      <3>3. SumFunctionOnSet(Shares(m, h), Sharing(m, h)) \in Int  BY <1>7, SumType
      <3>4. QED  BY <3>1, <3>2, <3>3
    <2>3. QED  BY <2>1, <2>2
  <1>8. Amount(m, g) = Share(m, g[s]) + SumFunctionOnSet(Shares(m, g), rest)  BY <1>3, <1>7
  <1>9. Amount(m, now) = Share(m, a) + SumFunctionOnSet(Shares(m, g), rest)
    BY <1>1, <1>2, <1>4, <1>5, <1>6, <1>7
  <1>10. Share(m, g[s]) \in Nat  BY DEF Priced
  <1> HIDE DEF rest
  <1>11. QED  BY <1>2, <1>6, <1>8, <1>9, <1>10 DEF now


\* A window whose atoms have shares; and a plan that makes the sum d more.
Sums == {"wealth", "energy"}
Fine(w, T, m) == m \in Sums /\ View(w, T) /\ Priced(m, w.grid)
Yields(w, plan, T, m, d) ==
  /\ Leaves(w, plan, T, {}, 0)
  /\ Priced(m, LayAll(w.grid, plan))
  /\ Amount(m, LayAll(w.grid, plan)) = Amount(m, w.grid) + d

LEMMA AmountsAreInt == ASSUME NEW w, NEW T, NEW m, Fine(w, T, m) PROVE Amount(m, w.grid) \in Int
  BY AmountIsSum DEF Fine, View, Filled, Sums
LEMMA SharesSeen ==
  ASSUME NEW w, NEW T, NEW m, Fine(w, T, m), NEW p, IsLiveSite(w, p)
  PROVE  Share(m, AtomAt(w, p)) \in Nat
  BY DEF Fine, Priced, AtomAt, IsLiveSite

\* What a window is once a plan is carried out.
LEMMA FineAfter ==
  ASSUME NEW w, NEW T, NEW m, Fine(w, T, m), NEW p, NEW d, Yields(w, p, T, m, d)
  PROVE  /\ Fine(After(w, p), T, m) /\ After(w, p).grid = LayAll(w.grid, p)
         /\ \A q : MapToTile(After(w, p), q) = MapToTile(w, q)
         /\ \A q, a : Put(After(w, p), q, a) = Put(w, q, a)
         /\ \A q : IsLiveSite(After(w, p), q) <=> IsLiveSite(w, q)
  <1>1. View(w, T) /\ Leaves(w, p, T, {}, 0)  BY DEF Fine, Yields
  <1>2. View(After(w, p), T) /\ After(w, p).grid = LayAll(w.grid, p)  BY <1>1, ViewAfter
  <1>3. /\ \A q : MapToTile(After(w, p), q) = MapToTile(w, q)
        /\ \A q, a : Put(After(w, p), q, a) = Put(w, q, a)
        /\ \A q : IsLiveSite(After(w, p), q) <=> IsLiveSite(w, q)
    BY <1>1, SameSites
  <1>4. QED  BY <1>2, <1>3 DEF Fine, Yields

LEMMA StayYields ==
  ASSUME NEW w, NEW T, NEW m, Fine(w, T, m)
  PROVE  Yields(w, Stay, T, m, 0)
  <1>1. Leaves(w, Stay, T, {}, 0)  BY StayLeaves DEF Fine
  <1>2. LayAll(w.grid, Stay) = w.grid  BY LayNone DEF Fine, View, Filled
  <1>3. Amount(m, w.grid) = Amount(m, w.grid) + 0  BY AmountsAreInt
  <1>4. QED  BY <1>1, <1>2, <1>3 DEF Yields, Fine

\* One write, at a site that is live.
LEMMA PutYields ==
  ASSUME NEW w, NEW T, NEW m, Fine(w, T, m), NEW p, IsLiveSite(w, p),
         NEW a, a.type \in T, Share(m, a) \in Nat
  PROVE  Yields(w, Put(w, p, a), T, m, Share(m, a) - Share(m, AtomAt(w, p)))
  <1> DEFINE x == <<MapToTile(w, p), a>>
             s == MapToTile(w, p)
  <1>1. View(w, T)  BY DEF Fine
  <1>2. Leaves(w, Put(w, p, a), T, {}, 0)
    <2>1. Leaves(w, Put(w, p, a), T, {}, One({}, a) - One({}, AtomAt(w, p)))  BY <1>1, PutLeaves
    <2>2. One({}, a) - One({}, AtomAt(w, p)) = 0  BY DEF One
    <2>3. QED  BY <2>1, <2>2
  <1>3. x[1] = s /\ x[2] = a /\ Put(w, p, a) = <<x>>  BY DEF Put
  <1>4. s \in DOMAIN w.grid /\ AtomAt(w, p) = w.grid[s]  BY DEF IsLiveSite, AtomAt
  <1> HIDE DEF x, s
  <1>5. LayAll(w.grid, Put(w, p, a)) = [w.grid EXCEPT ![s] = a]
    BY <1>1, <1>3, <1>4, LayOne DEF Laid, View, Filled
  <1>6. /\ Priced(m, [w.grid EXCEPT ![s] = a])
        /\ Amount(m, [w.grid EXCEPT ![s] = a])
             = Amount(m, w.grid) + (Share(m, a) - Share(m, w.grid[s]))
    BY <1>1, <1>4, AmountChanges DEF Fine, Sums, View, Filled
  <1>7. QED  BY <1>2, <1>4, <1>5, <1>6 DEF Yields

\* One plan after another.
LEMMA ConcatYields ==
  ASSUME NEW w, NEW T, NEW m, Fine(w, T, m), NEW p, NEW q, NEW c \in Int, NEW d \in Int,
         Yields(w, p, T, m, c), Yields(After(w, p), q, T, m, d)
  PROVE  Yields(w, p \o q, T, m, c + d)
  <1>1. /\ View(w, T) /\ Leaves(w, p, T, {}, 0) /\ Leaves(After(w, p), q, T, {}, 0)
    BY DEF Fine, Yields
  <1>2. Leaves(w, p \o q, T, {}, 0)
    <2>1. Leaves(w, p \o q, T, {}, 0 + 0)  BY <1>1, ConcatLeaves
    <2>2. QED  BY <2>1
  <1>3. After(w, p).grid = LayAll(w.grid, p)  BY <1>1, ViewAfter
  <1>4. LayAll(w.grid, p \o q) = LayAll(LayAll(w.grid, p), q)
    <2>1. PICK S : p \in Seq(S)  BY <1>1 DEF Leaves
    <2>2. PICK U : q \in Seq(U)  BY <1>1 DEF Leaves
    <2>3. p \in Seq(S \cup U) /\ q \in Seq(S \cup U)  BY <2>1, <2>2, SeqMonotonic
    <2>4. QED  BY <1>1, <2>3, LayBoth DEF View, Filled
  <1>5. Amount(m, w.grid) \in Int  BY AmountsAreInt
  <1>6. QED  BY <1>2, <1>3, <1>4, <1>5 DEF Yields
LEMMA AfterTwo ==
  ASSUME NEW w, NEW T, NEW m, Fine(w, T, m), NEW p, NEW q, NEW c, NEW d,
         Yields(w, p, T, m, c), Yields(After(w, p), q, T, m, d)
  PROVE  After(w, p \o q) = After(After(w, p), q)
  <1>1. /\ View(w, T) /\ Leaves(w, p, T, {}, 0) /\ Leaves(After(w, p), q, T, {}, 0) /\ 0 \in Int
    BY DEF Fine, Yields
  <1>2. QED  BY <1>1, AfterBoth

\* Two atoms that trade places are worth what they were; and where they then are.
LEMMA SwapYields ==
  ASSUME NEW w, NEW T, NEW m, Fine(w, T, m), NEW p, NEW q, IsLiveSite(w, p), IsLiveSite(w, q)
  PROVE  /\ Yields(w, Swap(w, p, q), T, m, 0)
         /\ AtomAt(After(w, Swap(w, p, q)), p) = AtomAt(w, q)
  <1> DEFINE a == AtomAt(w, p)
             b == AtomAt(w, q)
             first == Put(w, p, b)
             v == After(w, first)
             c == Share(m, b) - Share(m, a)
  <1>1. View(w, T) /\ a.type \in T /\ b.type \in T  BY AtomsSeen DEF Fine
  <1>2. Share(m, a) \in Nat /\ Share(m, b) \in Nat  BY SharesSeen
  <1>3. Yields(w, first, T, m, c)  BY <1>1, <1>2, PutYields
  <1>4. \A r : AtomAt(v, r) = IF MapToTile(w, r) = MapToTile(w, p) THEN b ELSE AtomAt(w, r)
    BY <1>1, SeenAfterPut
  <1>5. AtomAt(v, q) = b /\ AtomAt(v, p) = b  BY <1>4
  <1>6. MapToTile(w, p) = MapToTile(w, q) => a = b  BY DEF AtomAt, IsLiveSite
  <1>7. /\ Fine(v, T, m) /\ IsLiveSite(v, q) /\ IsLiveSite(v, p)
        /\ Put(v, q, a) = Put(w, q, a) /\ \A r : MapToTile(v, r) = MapToTile(w, r)
    BY <1>3, FineAfter
  <1> HIDE DEF a, b, v, first
  <1>8. Yields(v, Put(w, q, a), T, m, Share(m, a) - Share(m, b))
    BY <1>1, <1>2, <1>5, <1>7, PutYields
  <1>9. c + (Share(m, a) - Share(m, b)) = 0 /\ c \in Int /\ Share(m, a) - Share(m, b) \in Int
    BY <1>2
  <1> HIDE DEF c
  <1>10. Yields(w, first \o Put(w, q, a), T, m, 0)
    <2>1. Yields(w, first \o Put(w, q, a), T, m, c + (Share(m, a) - Share(m, b)))
      BY <1>3, <1>8, <1>9, ConcatYields DEF v
    <2>2. QED  BY <1>9, <2>1
  <1>11. AtomAt(After(v, Put(v, q, a)), p) = b
    <2>1. View(v, T)  BY <1>7 DEF Fine
    <2>2. AtomAt(After(v, Put(v, q, a)), p) = IF MapToTile(v, p) = MapToTile(v, q) THEN a ELSE AtomAt(v, p)
      BY <1>1, <1>7, <2>1, SeenAfterPut
    <2>3. QED  BY <1>5, <1>6, <1>7, <2>2
  <1>12. After(w, first \o Put(w, q, a)) = After(v, Put(w, q, a))
    BY <1>3, <1>8, AfterTwo DEF v
  <1>13. QED  BY <1>7, <1>10, <1>11, <1>12 DEF Swap, first, a, b

LEMMA SwapsNothing == ASSUME NEW w, NEW T, NEW m, Fine(w, T, m)
                      PROVE  \A p \in Diffuse(w) : Yields(w, p, T, m, 0)
  <1> SUFFICES ASSUME NEW p \in Diffuse(w)  PROVE Yields(w, p, T, m, 0)
    OBVIOUS
  <1> DEFINE Heading(d) == IF IsLiveSite(w, d) THEN d ELSE Times(-1, d)
  <1>1. PICK d \in VonNeumann :
          p = IF IsLiveSite(w, Heading(d)) /\ TypeAt(w, Heading(d)) \in Diffusible
              THEN Swap(w, Heading(d), Center) ELSE Stay
    BY DEF Diffuse
  <1> HIDE DEF Heading
  <1>2. IsLiveSite(w, Center)  BY CenterLives DEF Fine
  <1>3. QED  BY <1>1, <1>2, StayYields, SwapYields

\* The shares of atoms that fit; and what fields do not matter to them.
LEMMA SharesFit ==
  ASSUME NEW a, FieldsFit(a), NEW m \in Sums
  PROVE  Share(m, a) \in Nat
  <1>1. a.type = "Base" => a.gold \in Nat  BY FieldsOfOne DEF GoldField
  <1>2. a.type = "Shark" => a.energy \in Nat  BY FieldsOfOne, WatorAssumption
  <1>3. \A n, k \in Nat : n + k \in Nat  OBVIOUS
  <1>4. QED  BY <1>1, <1>2, <1>3, TribalAssumption DEF Share, SharingTypes, Value, Worth, Sums
LEMMA FittingIsFine ==
  ASSUME NEW w, Fitting(w), NEW T, View(w, T), NEW m \in Sums
  PROVE  Fine(w, T, m)
  BY SharesFit DEF Fine, Priced, Fitting
LEMMA FacingShares ==
  ASSUME NEW a, FieldsFit(a), NEW d
  PROVE  /\ [a EXCEPT !.dir = d].type = a.type
         /\ Share("wealth", [a EXCEPT !.dir = d]) = Share("wealth", a)
  <1> DEFINE b == [a EXCEPT !.dir = d]
  <1>1. "type" \in DOMAIN a  BY DEF FieldsFit
  <1>2. b.type = a.type  BY <1>1
  <1>3. b.gold = a.gold
    <2>1. CASE "gold" \in DOMAIN a  BY <2>1
    <2>2. CASE "gold" \notin DOMAIN a  BY <2>2
    <2>3. QED  BY <2>1, <2>2
  <1> HIDE DEF b
  <1>4. QED  BY <1>2, <1>3 DEF b, Share, SharingTypes, Value, Worth

\* An atom that moves to where another is, renewed.
LEMMA MovingYields ==
  ASSUME NEW w, NEW T, NEW m, Fine(w, T, m), NEW p, IsLiveSite(w, p),
         NEW self, self.type \in T, Share(m, self) \in Nat
  PROVE  Yields(w, MoveTo(w, p, self), T, m, Share(m, self) - Share(m, Self(w)))
  <1> DEFINE first == Swap(w, p, Center)
             v == After(w, first)
             c == Share(m, self) - Share(m, Self(w))
  <1>1. IsLiveSite(w, Center)  BY CenterLives DEF Fine
  <1>2. Yields(w, first, T, m, 0) /\ AtomAt(v, p) = Self(w)  BY <1>1, SwapYields DEF Self
  <1>3. Fine(v, T, m) /\ IsLiveSite(v, p) /\ Put(v, p, self) = Put(w, p, self)
    BY <1>2, FineAfter
  <1> HIDE DEF v, first
  <1>4. Yields(v, Put(w, p, self), T, m, c)  BY <1>2, <1>3, PutYields
  <1>5. Share(m, Self(w)) \in Nat  BY <1>1, SharesSeen DEF Self
  <1>6. c \in Int /\ 0 \in Int /\ 0 + c = c  BY <1>5
  <1> HIDE DEF c
  <1>7. Yields(w, first \o Put(w, p, self), T, m, 0 + c)
    BY <1>2, <1>4, <1>6, ConcatYields DEF v
  <1>8. QED  BY <1>6, <1>7 DEF MoveTo, first, c

\* An atom that goes to another site and leaves another behind.
LEMMA LeavingYields ==
  ASSUME NEW w, NEW T, NEW m, Fine(w, T, m), NEW p, IsLiveSite(w, p), TypeAt(w, p) # Self(w).type,
         NEW left, left.type \in T, Share(m, left) \in Nat,
         NEW self, self.type \in T, Share(m, self) \in Nat
  PROVE  /\ Yields(w, MoveLeaving(w, p, left, self), T, m,
                   (Share(m, left) + Share(m, self)) - (Share(m, Self(w)) + Share(m, AtomAt(w, p))))
         /\ \A K : Leaves(w, MoveLeaving(w, p, left, self), T, K,
                          (One(K, left) + One(K, self)) - (One(K, Self(w)) + One(K, AtomAt(w, p))))
  <1> DEFINE first == Put(w, Center, left)
             v == After(w, first)
             a == AtomAt(w, p)
             me == Self(w)
             c == Share(m, left) - Share(m, me)
             d == Share(m, self) - Share(m, a)
  <1>1. IsLiveSite(w, Center) /\ View(w, T) /\ AtomAt(w, Center) = me
    BY CenterLives DEF Fine, Self
  <1>2. MapToTile(w, p) # MapToTile(w, Center)
    <2>1. MapToTile(w, p) = MapToTile(w, Center) => AtomAt(w, p) = AtomAt(w, Center)
      BY DEF AtomAt, IsLiveSite
    <2>2. QED  BY <2>1 DEF TypeAt, Self
  <1>3. Yields(w, first, T, m, c)  BY <1>1, PutYields
  <1>4. AtomAt(v, p) = a  BY <1>1, <1>2, SeenAfterPut
  <1>5. /\ Fine(v, T, m) /\ IsLiveSite(v, p) /\ Put(v, p, self) = Put(w, p, self)
    BY <1>3, FineAfter
  <1>6. Share(m, me) \in Nat /\ Share(m, a) \in Nat  BY <1>1, SharesSeen
  <1>7. Leaves(w, first, T, {}, 0) /\ View(v, T)  BY <1>3, <1>5 DEF Yields, Fine
  <1>8. ASSUME NEW K
        PROVE  Leaves(w, first \o Put(w, p, self), T, K,
                      (One(K, left) + One(K, self)) - (One(K, me) + One(K, a)))
    <2>1. Leaves(w, first, T, K, One(K, left) - One(K, me))  BY <1>1, PutLeaves
    <2>2. Leaves(v, Put(w, p, self), T, K, One(K, self) - One(K, a))
      BY <1>4, <1>5, <1>7, PutLeaves
    <2>3. \A x : One(K, x) \in Int  BY DEF One
    <2> HIDE DEF v, first, me, a
    <2>4. /\ One(K, left) - One(K, me) \in Int /\ One(K, self) - One(K, a) \in Int
          /\ (One(K, left) - One(K, me)) + (One(K, self) - One(K, a))
                = (One(K, left) + One(K, self)) - (One(K, me) + One(K, a))
      BY <2>3
    <2>5. Leaves(w, first \o Put(w, p, self), T, K,
                 (One(K, left) - One(K, me)) + (One(K, self) - One(K, a)))
      BY <1>1, <2>1, <2>2, <2>4, ConcatLeaves DEF v
    <2>6. QED  BY <2>4, <2>5
  <1> HIDE DEF v, first
  <1>9. Yields(v, Put(w, p, self), T, m, d)  BY <1>4, <1>5, PutYields
  <1> HIDE DEF me, a
  <1>10. /\ c \in Int /\ d \in Int
         /\ c + d = (Share(m, left) + Share(m, self)) - (Share(m, me) + Share(m, a))
    BY <1>6
  <1> HIDE DEF c, d
  <1>11. Yields(w, first \o Put(w, p, self), T, m, c + d)
    BY <1>3, <1>9, <1>10, ConcatYields DEF v
  <1>12. QED  BY <1>8, <1>10, <1>11 DEF MoveLeaving, first, me, a

\* Plans that spend, and do not earn.
Spends(w, plan, T, m) == \E d \in Losing : Yields(w, plan, T, m, d)
LEMMA ConcatSpends ==
  ASSUME NEW w, NEW T, NEW m, Fine(w, T, m), NEW p, NEW q,
         Spends(w, p, T, m), Spends(After(w, p), q, T, m)
  PROVE  Spends(w, p \o q, T, m)
  <1>1. PICK c \in Losing : Yields(w, p, T, m, c)  BY DEF Spends
  <1>2. PICK d \in Losing : Yields(After(w, p), q, T, m, d)  BY DEF Spends
  <1>3. c \in Int /\ d \in Int /\ c + d \in Losing  BY DEF Losing
  <1>4. Yields(w, p \o q, T, m, c + d)  BY <1>1, <1>2, <1>3, ConcatYields
  <1>5. QED  BY <1>3, <1>4 DEF Spends
LEMMA YieldsSpends ==
  ASSUME NEW w, NEW T, NEW m, NEW p, Yields(w, p, T, m, 0)
  PROVE  Spends(w, p, T, m)
  <1>1. 0 \in Losing  BY DEF Losing
  <1>2. QED  BY <1>1 DEF Spends
LEMMA PutSpends ==
  ASSUME NEW w, NEW T, NEW m, Fine(w, T, m), NEW p, IsLiveSite(w, p),
         NEW a, a.type \in T, Share(m, a) \in Nat, Share(m, a) <= Share(m, AtomAt(w, p))
  PROVE  Spends(w, Put(w, p, a), T, m)
  <1>1. Share(m, AtomAt(w, p)) \in Nat  BY SharesSeen
  <1>2. Share(m, a) - Share(m, AtomAt(w, p)) \in Losing  BY <1>1 DEF Losing
  <1>3. QED  BY <1>2, PutYields DEF Spends


\* The tribes' world.  Infantry: those it kills are worth nothing any more.
TribalWorld == {"Empty", "Res", "Wall", "Base", "Infantry"}
LEMMA KillsSpend ==
  ASSUME NEW w, NEW T, NEW m, Fine(w, T, m), "Empty" \in T,
         NEW S, IsFiniteSet(S), \A d \in S : IsLiveSite(w, d)
  PROVE  \A p \in Kills(w, S) : Spends(w, p, T, m)
  <1> DEFINE V == SUBSET {p \in Seq(PutsOf(w, Empty, S)) : Spends(w, p, T, m)}
             c == [s \in SUBSET S |-> Pick(s)]
  <1>1. PICK h : FoldsKills(h, w, S)  BY KillsAreFolded
  <1>2. \A s \in SUBSET S : h[s] = IF s = {} THEN {Stay} ELSE Slay(w, Pick(s), h[s \ {Pick(s)}])
    BY <1>1 DEF FoldsKills, Slain
  <1>3. Share(m, Empty) = 0 /\ Empty.type = "Empty"  BY DEF Share, SharingTypes, Empty
  <1>4. Stay \in Seq(PutsOf(w, Empty, S)) /\ Spends(w, Stay, T, m)
    BY StayYields, YieldsSpends DEF Stay
  <1>5. ASSUME NEW d \in S, NEW p \in Seq(PutsOf(w, Empty, S)), Spends(w, p, T, m),
               NEW q \in {Stay, Put(w, d, Empty)}
        PROVE  p \o q \in Seq(PutsOf(w, Empty, S)) /\ Spends(w, p \o q, T, m)
    <2>1. q \in Seq(PutsOf(w, Empty, S))
      <3> DEFINE x == <<MapToTile(w, d), Empty>>
      <3>1. x \in PutsOf(w, Empty, S) /\ Put(w, d, Empty) = <<x>>  BY DEF Put, PutsOf
      <3> HIDE DEF x
      <3>2. <<x>> \in Seq(PutsOf(w, Empty, S))  BY <3>1
      <3>3. QED  BY <1>4, <1>5, <3>1, <3>2
    <2>2. p \o q \in Seq(PutsOf(w, Empty, S))  BY <2>1, ConcatProperties
    <2>3. PICK e \in Losing : Yields(w, p, T, m, e)  BY <1>5 DEF Spends
    <2>4. /\ Fine(After(w, p), T, m) /\ IsLiveSite(After(w, p), d)
          /\ Put(After(w, p), d, Empty) = Put(w, d, Empty)
      BY <2>3, FineAfter
    <2>5. Share(m, AtomAt(After(w, p), d)) \in Nat  BY <2>4, SharesSeen
    <2>6. Spends(After(w, p), Put(w, d, Empty), T, m)  BY <1>3, <2>4, <2>5, PutSpends
    <2>7. Spends(After(w, p), Stay, T, m)  BY <2>4, StayYields, YieldsSpends
    <2>8. QED  BY <1>5, <2>2, <2>6, <2>7, ConcatSpends
  <1>6. ASSUME NEW d \in S, NEW plans \in V  PROVE Slay(w, d, plans) \in V
    <2> SUFFICES ASSUME NEW r \in Slay(w, d, plans)
                 PROVE  r \in Seq(PutsOf(w, Empty, S)) /\ Spends(w, r, T, m)
      OBVIOUS
    <2>1. PICK p \in plans, q \in {Stay, Put(w, d, Empty)} : r = p \o q
      BY DEF Slay, Both, Maybe
    <2>2. p \in Seq(PutsOf(w, Empty, S)) /\ Spends(w, p, T, m)  OBVIOUS
    <2>3. QED  BY <1>5, <2>1, <2>2
  <1>7. {Stay} \in V  BY <1>4
  <1> HIDE DEF V
  <1>8. Chooses(c, S)  BY DEF Chooses, Pick
  <1>9. Keeps(h, c, S, V)
    <2>1. h[{}] \in V  BY <1>2, <1>7
    <2> SUFFICES ASSUME NEW s \in SUBSET S, s # {}, h[s \ {Pick(s)}] \in V
                 PROVE  h[s] \in V
      BY <2>1 DEF Keeps
    <2>2. Pick(s) \in S  BY DEF Pick
    <2>3. QED  BY <1>2, <1>6, <2>2
  <1>10. h[S] \in V
    <2> HIDE DEF c
    <2>1. QED  BY <1>8, <1>9, FoldStays
  <1>11. QED  BY <1>1, <1>10 DEF FoldsKills, V

LEMMA InfantrySpends ==
  ASSUME NEW w, Fitting(w), View(w, TribalWorld)
  PROVE  \A p \in InfantryBehavior(w) : Spends(w, p, TribalWorld, "wealth")
  <1> DEFINE enemies == {d \in VonNeumann : /\ IsLiveSite(w, d)
                                            /\ IsUnit(AtomAt(w, d))
                                            /\ GetTribe(AtomAt(w, d)) # GetTribe(Self(w))}
             March(v) ==
               {LET self == [Self(v) EXCEPT !.dir = d]
                IN  IF CanMove(v, d, self) THEN MoveTo(v, d, self) ELSE Put(v, Center, self)
                : d \in {Self(v).dir} \cup Moore}
             T == TribalWorld
  <1>1. InfantryBehavior(w) = Then(w, Kills(w, enemies), March)
    BY DEF InfantryBehavior, Then
  <1>2. IsFiniteSet(enemies) /\ \A d \in enemies : IsLiveSite(w, d)
    BY WindowAssumption, RingsAreFinite, FS_Subset DEF VonNeumann
  <1> HIDE DEF enemies
  <1>3. Fine(w, T, "wealth") /\ "Empty" \in T  BY FittingIsFine DEF Sums, TribalWorld
  <1> HIDE DEF T
  <1>4. \A p \in Kills(w, enemies) : Spends(w, p, T, "wealth") /\ IsPlan(w, p)
    BY <1>2, <1>3, KillsSpend, KillPlans DEF ArePlans
  <1>5. ASSUME NEW v, Fitting(v), Fine(v, T, "wealth")
        PROVE  \A p \in March(v) : Spends(v, p, T, "wealth")
    <2>1. IsLiveSite(v, Center) /\ FieldsFit(Self(v)) /\ Self(v).type \in T
      BY <1>5, CenterLives, AtomsSeen, AtomsFit DEF Fine, Self
    <2>2. ASSUME NEW d
          PROVE  /\ [Self(v) EXCEPT !.dir = d].type \in T
                 /\ Share("wealth", [Self(v) EXCEPT !.dir = d]) = Share("wealth", Self(v))
      BY <2>1, FacingShares
    <2>3. Share("wealth", Self(v)) \in Nat  BY <1>5, <2>1, SharesSeen DEF Self
    <2>4. ASSUME NEW self, self.type \in T, Share("wealth", self) = Share("wealth", Self(v)), NEW d
          PROVE  Spends(v, IF CanMove(v, d, self) THEN MoveTo(v, d, self) ELSE Put(v, Center, self),
                        T, "wealth")
      <3>1. CanMove(v, d, self) => IsLiveSite(v, d)  BY DEF CanMove
      <3>2. Share("wealth", self) - Share("wealth", Self(v)) = 0  BY <2>3, <2>4
      <3>3. CanMove(v, d, self) => Yields(v, MoveTo(v, d, self), T, "wealth", 0)
        BY <1>5, <2>3, <2>4, <3>1, <3>2, MovingYields
      <3>4. Yields(v, Put(v, Center, self), T, "wealth", 0)
        BY <1>5, <2>1, <2>3, <2>4, <3>2, PutYields DEF Self
      <3>5. QED  BY <3>3, <3>4, YieldsSpends
    <2>5. QED  BY <2>2, <2>4
  <1> HIDE DEF March
  <1>6. ASSUME NEW p \in Then(w, Kills(w, enemies), March)  PROVE Spends(w, p, T, "wealth")
    <2>1. PICK plan \in Kills(w, enemies) : \E more \in March(After(w, plan)) : p = plan \o more
      BY DEF Then
    <2>2. PICK more \in March(After(w, plan)) : p = plan \o more  BY <2>1
    <2>3. Fitting(After(w, plan))  BY <1>4, WindowAfter
    <2>4. Fine(After(w, plan), T, "wealth")  BY <1>3, <1>4, FineAfter DEF Spends
    <2>5. QED  BY <1>3, <1>4, <1>5, <2>2, <2>3, <2>4, ConcatSpends
  <1>7. QED  BY <1>1, <1>6 DEF T


\* Different points of a window are different sites.
LEMMA MapsApart ==
  ASSUME NEW w, NEW T, View(w, T), NEW p \in Int \X Int, NEW q \in Int \X Int,
         MapToTile(w, p) = MapToTile(w, q)
  PROVE  p = q
  <1>1. w.center \in Int \X Int /\ w.sym \in 0..7  BY DEF View
  <1>2. PICK cx \in Int, cy \in Int : w.center = <<cx, cy>>  BY <1>1
  <1>3. PICK px \in Int, py \in Int : p = <<px, py>>  OBVIOUS
  <1>4. PICK qx \in Int, qy \in Int : q = <<qx, qy>>  OBVIOUS
  <1>5. SymmetryMap(p, w.sym) = SymmetryMap(q, w.sym) => p = q
    <2>1. SymmetryMap(p, w.sym) = << <<px, py>>, <<-py, px>>, <<-px, -py>>, <<py, -px>>,
                                      <<px, -py>>, <<py, px>>, <<-px, py>>, <<-py, -px>> >>[w.sym + 1]
      BY <1>3, <1>4 DEF SymmetryMap
    <2>2. SymmetryMap(q, w.sym) = << <<qx, qy>>, <<-qy, qx>>, <<-qx, -qy>>, <<qy, -qx>>,
                                      <<qx, -qy>>, <<qy, qx>>, <<-qx, qy>>, <<-qy, -qx>> >>[w.sym + 1]
      BY <1>3, <1>4 DEF SymmetryMap
    <2>3. \A a, b \in Int : -a = -b => a = b  OBVIOUS
    <2>4. CASE w.sym = 0  BY <1>3, <1>4, <2>1, <2>2, <2>4
    <2>5. CASE w.sym = 1  BY <1>3, <1>4, <2>1, <2>2, <2>3, <2>5
    <2>6. CASE w.sym = 2  BY <1>3, <1>4, <2>1, <2>2, <2>3, <2>6
    <2>7. CASE w.sym = 3  BY <1>3, <1>4, <2>1, <2>2, <2>3, <2>7
    <2>8. CASE w.sym = 4  BY <1>3, <1>4, <2>1, <2>2, <2>3, <2>8
    <2>9. CASE w.sym = 5  BY <1>3, <1>4, <2>1, <2>2, <2>9
    <2>10. CASE w.sym = 6  BY <1>3, <1>4, <2>1, <2>2, <2>3, <2>10
    <2>11. CASE w.sym = 7  BY <1>3, <1>4, <2>1, <2>2, <2>3, <2>11
    <2>12. w.sym \in {0, 1, 2, 3, 4, 5, 6, 7}  BY <1>1
    <2>13. QED  BY <2>4, <2>5, <2>6, <2>7, <2>8, <2>9, <2>10, <2>11, <2>12
  <1>6. SymmetryMap(p, w.sym) \in Int \X Int /\ SymmetryMap(q, w.sym) \in Int \X Int
    BY <1>1 DEF SymmetryMap
  <1>7. ASSUME NEW s \in Int \X Int, NEW t \in Int \X Int, Plus(w.center, s) = Plus(w.center, t)
        PROVE  s = t
    <2>1. \A a, b, c \in Int : a + b = a + c => b = c  OBVIOUS
    <2>2. s = <<s[1], s[2]>> /\ t = <<t[1], t[2]>>  OBVIOUS
    <2>3. cx + s[1] = cx + t[1] /\ cy + s[2] = cy + t[2]  BY <1>2, <1>7 DEF Plus
    <2>4. s[1] = t[1] /\ s[2] = t[2]  BY <2>1, <2>3
    <2>5. QED  BY <2>2, <2>4
  <1>8. SymmetryMap(p, w.sym) = SymmetryMap(q, w.sym)  BY <1>6, <1>7 DEF MapToTile
  <1>9. QED  BY <1>5, <1>8
LEMMA NeighboursArePoints == VonNeumann \subseteq Int \X Int
  <1>1. VonNeumann = MDist[1]
    <2>1. 1..1 = {1}  OBVIOUS
    <2>2. QED  BY <2>1 DEF VonNeumann, Ring
  <1>2. 1 \in 0..R /\ (-R..R) \subseteq Int  BY WindowAssumption
  <1>3. MDist[1] \subseteq (-R..R) \X (-R..R)  BY <1>2 DEF MDist
  <1>4. QED  BY <1>1, <1>2, <1>3

\* A Base eats all the Res around it, each once, and nothing else changes.
Eats(w, s, p) ==
  /\ Yields(w, p, TribalWorld, "wealth", -(GoldPerRes * Cardinality(s)))
  /\ \A q : (\A r \in s : MapToTile(w, r) # MapToTile(w, q)) =>
              AtomAt(After(w, p), q) = AtomAt(w, q)
LEMMA EatenIs ==
  ASSUME NEW w, Fine(w, TribalWorld, "wealth"),
         NEW S, IsFiniteSet(S), S \subseteq OfType(w, VonNeumann, "Res")
  PROVE  Eats(w, S, PutEach(w, S, Empty))
  <1> DEFINE T == TribalWorld
             W == Seq(PutsOf(w, Empty, S))
             V == {x \in (SUBSET S) \X W : Eats(w, x[1], x[2])}
             c == [s \in SUBSET S |-> Pick(s)]
  <1>1. PICK h : FoldsPuts(h, w, Empty, S)  BY PutsAreFolded
  <1> DEFINE g == [s \in SUBSET S |-> <<s, h[s]>>]
  <1>2. \A s \in SUBSET S : h[s] = IF s = {} THEN Stay ELSE h[s \ {Pick(s)}] \o Put(w, Pick(s), Empty)
    BY <1>1 DEF FoldsPuts, PutsAll
  <1>3. Share("wealth", Empty) = 0 /\ Empty.type \in T
    BY DEF Share, SharingTypes, Empty, TribalWorld
  <1>4. View(w, T)  BY DEF Fine
  <1>5. Stay \in W /\ Eats(w, {}, Stay)
    <2>1. Cardinality({}) = 0  BY FS_EmptySet
    <2>2. -(GoldPerRes * Cardinality({})) = 0  BY <2>1, TribalAssumption
    <2>3. Yields(w, Stay, T, "wealth", 0)  BY StayYields
    <2>4. /\ LayAll(w.grid, Stay) = w.grid /\ After(w, Stay).grid = LayAll(w.grid, Stay)
          /\ \A q : MapToTile(After(w, Stay), q) = MapToTile(w, q)
          /\ \A q : IsLiveSite(After(w, Stay), q) <=> IsLiveSite(w, q)
      BY <1>4, <2>3, LayNone, FineAfter DEF View, Filled
    <2>5. \A q : AtomAt(After(w, Stay), q) = AtomAt(w, q)  BY <2>4 DEF AtomAt
    <2>6. QED  BY <2>2, <2>3, <2>5 DEF Eats, Stay
  <1>6. ASSUME NEW s \in SUBSET S, NEW d \in S \ s, NEW p \in W, Eats(w, s, p)
        PROVE  p \o Put(w, d, Empty) \in W /\ Eats(w, s \cup {d}, p \o Put(w, d, Empty))
    <2> DEFINE v == After(w, p)
               n == Cardinality(s)
    <2>1. p \o Put(w, d, Empty) \in W
      <3> DEFINE x == <<MapToTile(w, d), Empty>>
      <3>1. x \in PutsOf(w, Empty, S) /\ Put(w, d, Empty) = <<x>>  BY DEF Put, PutsOf
      <3> HIDE DEF x
      <3>2. <<x>> \in W  BY <3>1
      <3>3. QED  BY <3>1, <3>2, ConcatProperties
    <2>2. \A r \in s : MapToTile(w, r) # MapToTile(w, d)
      <3> TAKE r \in s
      <3>1. r \in Int \X Int /\ d \in Int \X Int /\ r # d
        BY NeighboursArePoints DEF OfType
      <3>2. QED  BY <1>4, <3>1, MapsApart
    <2>3. /\ Yields(w, p, T, "wealth", -(GoldPerRes * n)) /\ AtomAt(v, d) = AtomAt(w, d)
          /\ \A q : (\A r \in s : MapToTile(w, r) # MapToTile(w, q)) => AtomAt(v, q) = AtomAt(w, q)
      BY <1>6, <2>2 DEF Eats
    <2>4. IsLiveSite(w, d) /\ AtomAt(w, d).type = "Res"  BY DEF OfType, TypeAt
    <2>5. /\ Fine(v, T, "wealth") /\ IsLiveSite(v, d) /\ Put(v, d, Empty) = Put(w, d, Empty)
          /\ \A q : MapToTile(v, q) = MapToTile(w, q)
      BY <2>3, <2>4, FineAfter
    <2> HIDE DEF v, n
    <2>6. Share("wealth", AtomAt(v, d)) = GoldPerRes
      BY <2>3, <2>4 DEF Share, SharingTypes, Value, Worth
    <2>7. Yields(v, Put(w, d, Empty), T, "wealth", -GoldPerRes)
      <3>1. 0 - GoldPerRes = -GoldPerRes /\ 0 \in Nat  BY TribalAssumption
      <3>2. QED  BY <1>3, <2>5, <2>6, <3>1, PutYields
    <2>8. IsFiniteSet(s) /\ n \in Nat /\ Cardinality(s \cup {d}) = n + 1
      <3>1. IsFiniteSet(s)  BY FS_Subset
      <3>2. QED  BY <3>1, FS_CardinalityType, FS_AddElement DEF n
    <2>9. /\ -(GoldPerRes * n) \in Int /\ -GoldPerRes \in Int
          /\ -(GoldPerRes * n) + -GoldPerRes = -(GoldPerRes * (n + 1))
      <3>1. \A a, b \in Nat : /\ -(a * b) \in Int /\ -a \in Int
                              /\ -(a * b) + -a = -(a * (b + 1))
        OBVIOUS
      <3>2. QED  BY <2>8, <3>1, TribalAssumption
    <2>10. Yields(w, p \o Put(w, d, Empty), T, "wealth", -(GoldPerRes * (n + 1)))
      <3>1. Yields(w, p \o Put(w, d, Empty), T, "wealth", -(GoldPerRes * n) + -GoldPerRes)
        BY <2>3, <2>7, <2>9, ConcatYields DEF v
      <3>2. QED  BY <2>9, <3>1
    <2>11. ASSUME NEW q, \A r \in s \cup {d} : MapToTile(w, r) # MapToTile(w, q)
           PROVE  AtomAt(After(w, p \o Put(w, d, Empty)), q) = AtomAt(w, q)
      <3>1. After(w, p \o Put(w, d, Empty)) = After(v, Put(v, d, Empty))
        BY <2>3, <2>5, <2>7, AfterTwo DEF v
      <3>2. AtomAt(After(v, Put(v, d, Empty)), q) = AtomAt(v, q)
        <4>1. View(v, T)  BY <2>5 DEF Fine
        <4>2. MapToTile(v, q) # MapToTile(v, d)  BY <2>5, <2>11
        <4>3. QED  BY <1>3, <2>5, <4>1, <4>2, SeenAfterPut
      <3>3. QED  BY <2>3, <2>11, <3>1, <3>2
    <2>12. QED  BY <2>1, <2>8, <2>10, <2>11 DEF Eats
  <1>7. Chooses(c, S)  BY DEF Chooses, Pick
  <1>8. Keeps(g, c, S, V)
    <2>1. g[{}] \in V  BY <1>2, <1>5
    <2> SUFFICES ASSUME NEW s \in SUBSET S, s # {}, g[s \ {Pick(s)}] \in V
                 PROVE  g[s] \in V
      BY <2>1 DEF Keeps
    <2> DEFINE d == Pick(s)
               t == s \ {d}
    <2>2. d \in s  BY DEF Pick
    <2> HIDE DEF d
    <2>3. h[s] = h[t] \o Put(w, d, Empty)  BY <1>2 DEF d
    <2>4. h[t] \in W /\ Eats(w, t, h[t]) /\ t \in SUBSET S
      <3>1. g[t] = <<t, h[t]>> /\ g[t] \in V  BY DEF d
      <3> HIDE DEF g, t, W
      <3>2. QED  BY <3>1
    <2>5. d \in S \ t /\ t \cup {d} = s  BY <2>2
    <2> HIDE DEF t, W
    <2>6. h[s] \in W /\ Eats(w, s, h[s])  BY <1>6, <2>3, <2>4, <2>5
    <2>7. QED  BY <2>6
  <1>9. g[S] \in V
    <2> HIDE DEF c, g, V
    <2>1. QED  BY <1>7, <1>8, FoldStays
  <1>10. Eats(w, S, h[S])  BY <1>9
  <1>11. QED  BY <1>1, <1>10 DEF FoldsPuts


\* What a Base has done so far, and the gold in its hand, is paid for by the gold it had.
Solvent(w, done) ==
  \E d \in Int : /\ Yields(w, done.plan, TribalWorld, "wealth", d)
                 /\ d + done.gold = Self(w).gold
                 /\ done.gold \in Nat
                 /\ AtomAt(After(w, done.plan), Center) = Self(w)
LEMMA BuyingIsSolvent ==
  ASSUME NEW w, Fine(w, TribalWorld, "wealth"), Self(w).type = "Base",
         NEW done, Solvent(w, done), NEW cost \in Nat,
         NEW unit, unit.type \in TribalWorld, Share("wealth", unit) = cost
  PROVE  \A e \in Buy(w, done, cost, unit) : Solvent(w, e)
  <1> DEFINE v == After(w, done.plan)
             T == TribalWorld
             paid(p) == [plan |-> done.plan \o Put(v, p, unit), gold |-> done.gold - cost]
  <1>1. PICK d \in Int : /\ Yields(w, done.plan, T, "wealth", d)
                         /\ d + done.gold = Self(w).gold
                         /\ done.gold \in Nat
                         /\ AtomAt(v, Center) = Self(w)
    BY DEF Solvent
  <1>2. Fine(v, T, "wealth") /\ View(v, T)  BY <1>1, FineAfter DEF Fine
  <1>3. ASSUME NEW p \in FirstEmpty(v), done.gold >= cost  PROVE Solvent(w, paid(p))
    <2>1. IsLiveSite(v, p) /\ AtomAt(v, p).type = "Empty"  BY DEF FirstEmpty, OfType, TypeAt
    <2>2. MapToTile(v, Center) # MapToTile(v, p)
      <3>1. MapToTile(v, Center) = MapToTile(v, p) => AtomAt(v, Center) = AtomAt(v, p)
        BY DEF AtomAt, IsLiveSite
      <3>2. QED  BY <1>1, <2>1, <3>1
    <2> HIDE DEF v
    <2>3. Share("wealth", AtomAt(v, p)) = 0  BY <2>1 DEF Share, SharingTypes
    <2>4. Yields(v, Put(v, p, unit), T, "wealth", cost)
      <3>1. cost - 0 = cost  OBVIOUS
      <3>2. QED  BY <1>2, <2>1, <2>3, <3>1, PutYields
    <2>5. Yields(w, done.plan \o Put(v, p, unit), T, "wealth", d + cost)
      <3>1. cost \in Int  OBVIOUS
      <3>2. QED  BY <1>1, <2>4, <3>1, ConcatYields DEF v
    <2>6. AtomAt(After(w, done.plan \o Put(v, p, unit)), Center) = Self(w)
      <3>1. After(w, done.plan \o Put(v, p, unit)) = After(v, Put(v, p, unit))
        BY <1>1, <2>4, AfterTwo DEF v
      <3>2. AtomAt(After(v, Put(v, p, unit)), Center) = AtomAt(v, Center)
        BY <1>2, <2>1, <2>2, SeenAfterPut
      <3>3. QED  BY <1>1, <3>1, <3>2
    <2>7. /\ d + cost \in Int /\ done.gold - cost \in Nat
          /\ (d + cost) + (done.gold - cost) = d + done.gold
      BY <1>1, <1>3
    <2>8. paid(p).plan = done.plan \o Put(v, p, unit) /\ paid(p).gold = done.gold - cost
      BY DEF v
    <2> HIDE DEF paid
    <2>9. QED  BY <1>1, <2>5, <2>6, <2>7, <2>8 DEF Solvent
  <1>4. Buy(w, done, cost, unit) =
          {done} \cup {paid(p) : p \in IF done.gold >= cost THEN FirstEmpty(v) ELSE {}}
    BY DEF Buy
  <1> HIDE DEF paid, v
  <1>5. QED  BY <1>3, <1>4

LEMMA StoredIsLess == \A k \in Nat : k % GoldField \in Nat /\ k % GoldField <= k
  <1>1. \A k \in Nat : k % 256 \in 0..255  OBVIOUS
  <1>2. \A k \in Nat : k < 256 => k % 256 = k  OBVIOUS
  <1>3. QED  BY <1>1, <1>2 DEF GoldField

\* What is left of the gold is stored, or as much of it as there is room for.
LEMMA BaseSpends ==
  ASSUME NEW w, Fitting(w), View(w, TribalWorld), Self(w).type = "Base"
  PROVE  \A p \in BaseBehavior(w) : Spends(w, p, TribalWorld, "wealth")
  <1> DEFINE T == TribalWorld
             res   == OfType(w, VonNeumann, "Res")
             eaten == [plan |-> PutEach(w, res, Empty),
                       gold |-> Self(w).gold + GoldPerRes * Cardinality(res)]
             tribe == Self(w).tribe
             armed == UNION {Buy(w, based, InfantryCost, Infantry(tribe, East))
                             : based \in Buy(w, eaten, BaseCost, Base(tribe, 0))}
             stored(done) == [Self(w) EXCEPT !.gold = done.gold % GoldField]
             ends(v, self) == {Put(v, Center, self)} \cup
                              {MoveTo(v, d, self) : d \in {d \in VonNeumann : CanMove(v, d, self)}}
             Settle(done) == {done.plan \o more : more \in ends(After(w, done.plan), stored(done))}
  <1>1. BaseBehavior(w) = UNION {Settle(done) : done \in armed}
    BY DEF BaseBehavior, PutEach
  <1>2. Self(w) = Base(tribe, Self(w).gold) /\ Self(w).gold \in Nat
    BY SelfFits, FieldsOfOne DEF GoldField
  <1>3. Fine(w, T, "wealth")  BY FittingIsFine DEF Sums
  <1>4. Solvent(w, eaten)
    <2>1. IsFiniteSet(res)
      BY WindowAssumption, RingsAreFinite, FS_Subset DEF VonNeumann, OfType
    <2>2. Cardinality(res) \in Nat  BY <2>1, FS_CardinalityType
    <2>3. Eats(w, res, PutEach(w, res, Empty))  BY <1>3, <2>1, EatenIs
    <2>4. \A r \in res : MapToTile(w, r) # MapToTile(w, Center)
      <3>1. \A r : MapToTile(w, r) = MapToTile(w, Center) => AtomAt(w, r) = AtomAt(w, Center)
        BY DEF AtomAt, IsLiveSite
      <3>2. QED  BY <3>1 DEF OfType, TypeAt, Self
    <2> HIDE DEF res
    <2>5. AtomAt(After(w, PutEach(w, res, Empty)), Center) = Self(w)
      BY <2>3, <2>4 DEF Eats, Self
    <2>6. \A n, m, k \in Nat : /\ n + m * k \in Nat /\ -(m * k) \in Int
                               /\ -(m * k) + (n + m * k) = n
      OBVIOUS
    <2> DEFINE worth == GoldPerRes * Cardinality(res)
    <2>7. /\ Self(w).gold + worth \in Nat /\ -worth \in Int
          /\ -worth + (Self(w).gold + worth) = Self(w).gold
      BY <1>2, <2>2, <2>6, TribalAssumption
    <2>8. Yields(w, PutEach(w, res, Empty), T, "wealth", -worth)  BY <2>3 DEF Eats
    <2>9. eaten.plan = PutEach(w, res, Empty) /\ eaten.gold = Self(w).gold + worth  OBVIOUS
    <2> HIDE DEF eaten, worth
    <2>10. QED  BY <2>5, <2>7, <2>8, <2>9 DEF Solvent
  <1> HIDE DEF eaten
  <1>5. Base(tribe, 0).type \in T /\ Share("wealth", Base(tribe, 0)) = BaseCost
    <2>1. 0 + BaseCost = BaseCost  BY TribalAssumption
    <2>2. QED  BY <2>1 DEF Base, TribalWorld, Share, SharingTypes, Value, Worth
  <1>6. /\ Infantry(tribe, East).type \in T
        /\ Share("wealth", Infantry(tribe, East)) = InfantryCost
    BY DEF Infantry, TribalWorld, Share, SharingTypes, Value, Worth
  <1> HIDE DEF tribe
  <1>7. \A done \in armed : Solvent(w, done)
    <2>1. \A based \in Buy(w, eaten, BaseCost, Base(tribe, 0)) : Solvent(w, based)
      BY <1>3, <1>4, <1>5, BuyingIsSolvent, TribalAssumption
    <2>2. QED  BY <1>3, <1>6, <2>1, BuyingIsSolvent, TribalAssumption
  <1> HIDE DEF armed
  <1>8. ASSUME NEW done, Solvent(w, done), NEW p \in Settle(done)
        PROVE  Spends(w, p, T, "wealth")
    <2> DEFINE v == After(w, done.plan)
               self == stored(done)
               n == done.gold % GoldField
    <2>1. PICK d \in Int : /\ Yields(w, done.plan, T, "wealth", d)
                           /\ d + done.gold = Self(w).gold
                           /\ done.gold \in Nat
                           /\ AtomAt(v, Center) = Self(w)
      BY <1>8 DEF Solvent
    <2>2. PICK more \in ends(v, self) : p = done.plan \o more  BY <1>8
    <2>3. n \in Nat /\ n <= done.gold  BY <2>1, StoredIsLess
    <2>4. self = Base(tribe, n)  BY <1>2 DEF Base, tribe
    <2>5. Fine(v, T, "wealth") /\ IsLiveSite(v, Center) /\ Self(v) = Self(w)
      BY <2>1, <1>3, FineAfter, CenterLives DEF Self, Fine
    <2> HIDE DEF v, self, n, ends
    <2>6. self.type \in T /\ Share("wealth", self) = n + BaseCost
      BY <2>4 DEF Base, TribalWorld, Share, SharingTypes, Value, Worth
    <2>7. Share("wealth", Self(v)) = Self(w).gold + BaseCost
      BY <2>5 DEF Share, SharingTypes, Value, Worth
    <2>8. /\ n + BaseCost \in Nat
          /\ (n + BaseCost) - (Self(w).gold + BaseCost) = n - Self(w).gold
      <3>1. \A x, y, z \in Nat : x + z \in Nat /\ (x + z) - (y + z) = x - y  OBVIOUS
      <3>2. QED  BY <1>2, <2>3, <3>1, TribalAssumption
    <2>9. Yields(v, Put(v, Center, self), T, "wealth", n - Self(w).gold)
      BY <2>5, <2>6, <2>7, <2>8, PutYields DEF Self
    <2>10. ASSUME NEW e, CanMove(v, e, self)
           PROVE  Yields(v, MoveTo(v, e, self), T, "wealth", n - Self(w).gold)
      BY <2>5, <2>6, <2>7, <2>8, <2>10, MovingYields DEF CanMove
    <2>11. Yields(v, more, T, "wealth", n - Self(w).gold)  BY <2>2, <2>9, <2>10 DEF ends
    <2>12. n - Self(w).gold \in Int /\ d + (n - Self(w).gold) \in Losing
      BY <1>2, <2>1, <2>3 DEF Losing
    <2>13. Yields(w, p, T, "wealth", d + (n - Self(w).gold))
      BY <1>3, <2>1, <2>2, <2>11, <2>12, ConcatYields DEF v
    <2>14. QED  BY <2>12, <2>13 DEF Spends
  <1> HIDE DEF Settle
  <1>9. QED  BY <1>1, <1>7, <1>8

LEMMA TribalOutcomes ==
  ASSUME NEW w, View(w, TribalWorld), Fitting(w), NEW o \in Outcomes(w)
  PROVE  Spends(w, o.plan, TribalWorld, "wealth")
  <1> DEFINE type == Self(w).type
  <1>1. type \in TribalWorld  BY CenterLives, AtomsSeen DEF Self
  <1>2. Fine(w, TribalWorld, "wealth")  BY FittingIsFine DEF Sums
  <1>3. /\ Spends(w, Stay, TribalWorld, "wealth")
        /\ \A p \in Diffuse(w) : Spends(w, p, TribalWorld, "wealth")
    BY <1>2, StayYields, SwapsNothing, YieldsSpends
  <1>4. /\ type \in {"Empty", "Wall"} => Behavior(w) = {Stay}
        /\ type = "Res" => Behavior(w) = Diffuse(w)
        /\ type = "Base" => Behavior(w) = BaseBehavior(w)
        /\ type = "Infantry" => Behavior(w) = InfantryBehavior(w)
    BY DEF Behavior, CrystalTypes
  <1>5. type = "Base" => \A p \in BaseBehavior(w) : Spends(w, p, TribalWorld, "wealth")
    BY BaseSpends
  <1>6. \A p \in Behavior(w) : Spends(w, p, TribalWorld, "wealth")
    <2> HIDE DEF type
    <2>1. QED  BY <1>1, <1>3, <1>4, <1>5, InfantrySpends DEF TribalWorld
  <1>7. Outcomes(w) = Silently(Behavior(w))  BY <1>1 DEF Outcomes, TribalWorld
  <1>8. PICK p \in Behavior(w) : o = [plan |-> p, tally |-> NoTally]  BY <1>7 DEF Silently
  <1>9. QED  BY <1>6, <1>8


\* The world of Fish and Sharks.
SharkWorld == {"Empty", "Fish", "Shark", "Wall"}
LEMMA SharkShares ==
  /\ Share("energy", Empty) = 0 /\ Empty.type = "Empty"
  /\ \A n : Share("energy", Fish(n)) = 0 /\ Fish(n).type = "Fish"
  /\ \A n, k : Share("energy", Shark(n, k)) = k /\ Shark(n, k).type = "Shark"
  /\ \A a : a.type \in {"Empty", "Fish"} => Share("energy", a) = 0
  BY DEF Share, SharingTypes, Value, Empty, Fish, Shark

\* Fish have no energy.
LEMMA FishSpends ==
  ASSUME NEW w, Fine(w, SharkWorld, "energy"), Self(w).type = "Fish"
  PROVE  \A p \in FishBehavior(w) : Spends(w, p, SharkWorld, "energy")
  <1> DEFINE T == SharkWorld
             age   == Self(w).age
             ready == age >= FishBirthAge
             empty == OfType(w, VonNeumann, "Empty")
             older == Fish(age + 1)
             born  == {MoveLeaving(w, p, Fish(0), Fish(0)) : p \in empty}
             moved == {MoveLeaving(w, p, Empty, older) : p \in empty}
  <1>1. IsLiveSite(w, Center) /\ Share("energy", Self(w)) = 0
    BY SharkShares, CenterLives DEF Fine
  <1>2. ASSUME NEW p \in empty, NEW left, left.type \in T, Share("energy", left) = 0,
               NEW self, self.type \in T, Share("energy", self) = 0
        PROVE  Spends(w, MoveLeaving(w, p, left, self), T, "energy")
    <2>1. IsLiveSite(w, p) /\ TypeAt(w, p) # Self(w).type /\ Share("energy", AtomAt(w, p)) = 0
      BY SharkShares DEF OfType, TypeAt
    <2>2. Yields(w, MoveLeaving(w, p, left, self), T, "energy", (0 + 0) - (0 + 0))
      BY <1>1, <1>2, <2>1, LeavingYields
    <2>3. (0 + 0) - (0 + 0) = 0  OBVIOUS
    <2>4. QED  BY <2>2, <2>3, YieldsSpends
  <1>3. /\ \A n : Fish(n).type \in T /\ Share("energy", Fish(n)) = 0
        /\ Empty.type \in T /\ Share("energy", Empty) = 0
    BY SharkShares DEF SharkWorld
  <1>4. Spends(w, Stay, T, "energy")  BY StayYields, YieldsSpends
  <1>5. \A n : Spends(w, Put(w, Center, Fish(n)), T, "energy")
    BY <1>1, <1>3, PutSpends DEF Self
  <1>6. /\ \A p \in born : Spends(w, p, T, "energy")
        /\ \A p \in moved : Spends(w, p, T, "energy")
    BY <1>2, <1>3
  <1> HIDE DEF born, moved
  <1>7. FishBehavior(w) = CASE empty # {} /\ ready  -> born
                            [] empty # {} /\ ~ready -> moved
                            [] empty = {} /\ ~ready -> {Put(w, Center, older)}
                            [] OTHER                -> {Stay}
    BY DEF FishBehavior, born, moved
  <1> HIDE DEF empty, ready
  <1>8. QED  BY <1>4, <1>5, <1>6, <1>7

\* A Shark that does not eat spends; one that eats takes a Fish, and gets less than that
\* is worth.
Pays(w, plan) ==
  \/ Spends(w, plan, SharkWorld, "energy")
  \/ \E d \in Int : /\ d < EnergyPerFish
                    /\ Yields(w, plan, SharkWorld, "energy", d)
                    /\ Leaves(w, plan, SharkWorld, {"Fish"}, -1)
LEMMA EnergyOfTwo ==
  \A e \in Nat : /\ SharedEnergy(e) \in Nat
                 /\ SharedEnergy(e) + SharedEnergy(e) <= e
  BY DEF SharedEnergy
LEMMA SharkPays ==
  ASSUME NEW w, Fitting(w), Fine(w, SharkWorld, "energy"), Self(w).type = "Shark"
  PROVE  \A p \in SharkBehavior(w) : Pays(w, p)
  <1> DEFINE T == SharkWorld
             me     == Self(w)
             ready  == me.age >= SharkBirthAge
             age    == IF ready THEN me.age ELSE me.age + 1
             fish   == OfType(w, VonNeumann, "Fish")
             empty  == OfType(w, VonNeumann, "Empty")
             energy == IF fish = {} THEN me.energy - 1 ELSE FedEnergy(me.energy - 1)
             half   == Shark(0, SharedEnergy(energy))
             Go(p)  == IF ready THEN MoveLeaving(w, p, half, half)
                       ELSE MoveLeaving(w, p, Empty, Shark(age, energy))
             eats   == {Go(p) : p \in fish}
             goes   == {Go(p) : p \in empty}
  <1>1. IsLiveSite(w, Center) /\ Share("energy", me) = me.energy /\ me.energy \in Nat
    <2>1. FieldsFit(me)  BY SelfFits
    <2>2. me.energy \in Nat  BY <2>1, FieldsOfOne, WatorAssumption
    <2>3. QED  BY <2>2, CenterLives DEF Fine, Share, SharingTypes, Value
  <1>2. \A p \in fish : IsLiveSite(w, p) /\ AtomAt(w, p).type = "Fish"  BY DEF OfType, TypeAt
  <1>3. \A p \in empty : IsLiveSite(w, p) /\ AtomAt(w, p).type = "Empty"  BY DEF OfType, TypeAt
  <1>4. Empty.type \in T /\ \A n, k : Shark(n, k).type \in T  BY SharkShares DEF SharkWorld
  <1> HIDE DEF fish, empty, ready, age
  <1>5. ASSUME energy \in Nat, NEW p, IsLiveSite(w, p), AtomAt(w, p).type \in {"Empty", "Fish"}
        PROVE  \E d \in Int : /\ d <= energy - me.energy
                              /\ Yields(w, Go(p), T, "energy", d)
                              /\ AtomAt(w, p).type = "Fish" => Leaves(w, Go(p), T, {"Fish"}, -1)
    <2> HIDE DEF energy, me
    <2>1. TypeAt(w, p) # Self(w).type /\ Share("energy", AtomAt(w, p)) = 0
      BY <1>5, SharkShares DEF TypeAt
    <2>2. ASSUME NEW left, NEW self, left.type \in {"Empty", "Shark"}, self.type = "Shark",
                 NEW x \in Nat, Share("energy", left) = x,
                 NEW y \in Nat, Share("energy", self) = y, x + y <= energy
          PROVE  \E d \in Int : /\ d <= energy - me.energy
                                /\ Yields(w, MoveLeaving(w, p, left, self), T, "energy", d)
                                /\ AtomAt(w, p).type = "Fish" =>
                                     Leaves(w, MoveLeaving(w, p, left, self), T, {"Fish"}, -1)
      <3>1. left.type \in T /\ self.type \in T  BY <2>2 DEF SharkWorld
      <3>2. /\ Yields(w, MoveLeaving(w, p, left, self), T, "energy", (x + y) - (me.energy + 0))
            /\ Leaves(w, MoveLeaving(w, p, left, self), T, {"Fish"},
                      (One({"Fish"}, left) + One({"Fish"}, self))
                        - (One({"Fish"}, me) + One({"Fish"}, AtomAt(w, p))))
        BY <1>1, <1>5, <2>1, <2>2, <3>1, LeavingYields DEF me
      <3>3. AtomAt(w, p).type = "Fish" =>
              (One({"Fish"}, left) + One({"Fish"}, self))
                - (One({"Fish"}, me) + One({"Fish"}, AtomAt(w, p))) = -1
        BY <2>2 DEF One, me
      <3>4. (x + y) - (me.energy + 0) \in Int /\ (x + y) - (me.energy + 0) <= energy - me.energy
        BY <1>1, <1>5, <2>2
      <3>5. QED  BY <3>2, <3>3, <3>4
    <2>3. CASE ready
      <3>1. SharedEnergy(energy) \in Nat /\ SharedEnergy(energy) + SharedEnergy(energy) <= energy
        BY <1>5, EnergyOfTwo
      <3>2. half.type = "Shark" /\ Share("energy", half) = SharedEnergy(energy)  BY SharkShares
      <3>3. Go(p) = MoveLeaving(w, p, half, half)  BY <2>3
      <3> HIDE DEF half, Go
      <3>4. QED  BY <2>2, <3>1, <3>2, <3>3
    <2>4. CASE ~ready
      <3>1. 0 \in Nat /\ 0 + energy <= energy  BY <1>5
      <3>2. /\ Shark(age, energy).type = "Shark" /\ Share("energy", Shark(age, energy)) = energy
            /\ Empty.type = "Empty" /\ Share("energy", Empty) = 0
        BY SharkShares
      <3>3. Go(p) = MoveLeaving(w, p, Empty, Shark(age, energy))  BY <2>4
      <3> HIDE DEF Go
      <3>4. QED  BY <1>5, <2>2, <3>1, <3>2, <3>3
    <2>5. QED  BY <2>3, <2>4
  <1>6. ASSUME me.energy > 0, fish # {}, NEW p \in fish  PROVE Pays(w, Go(p))
    <2>1. energy \in Nat /\ energy <= (me.energy - 1) + EnergyPerFish
      BY <1>1, <1>6, WatorAssumption DEF FedEnergy
    <2>2. IsLiveSite(w, p) /\ AtomAt(w, p).type = "Fish"  BY <1>2, <1>6
    <2>3. PICK d \in Int : /\ d <= energy - me.energy
                           /\ Yields(w, Go(p), T, "energy", d)
                           /\ Leaves(w, Go(p), T, {"Fish"}, -1)
      BY <1>5, <2>1, <2>2
    <2> HIDE DEF energy, me, Go
    <2>4. d < EnergyPerFish  BY <1>1, <2>1, <2>3, WatorAssumption
    <2>5. QED  BY <2>3, <2>4 DEF Pays
  <1>7. ASSUME me.energy > 0, fish = {}, NEW p \in empty  PROVE Pays(w, Go(p))
    <2>1. energy \in Nat /\ energy = me.energy - 1  BY <1>1, <1>7
    <2>2. IsLiveSite(w, p) /\ AtomAt(w, p).type = "Empty"  BY <1>3, <1>7
    <2>3. PICK d \in Int : /\ d <= energy - me.energy
                           /\ Yields(w, Go(p), T, "energy", d)
      BY <1>5, <2>1, <2>2
    <2> HIDE DEF energy, me, Go
    <2>4. d \in Losing  BY <1>1, <2>1, <2>3 DEF Losing
    <2>5. QED  BY <2>3, <2>4 DEF Pays, Spends
  <1>8. ASSUME me.energy > 0, fish = {}  PROVE Pays(w, Put(w, Center, Shark(age, energy)))
    <2>1. energy \in Nat /\ energy <= me.energy  BY <1>1, <1>8
    <2> HIDE DEF energy
    <2>2. Share("energy", Shark(age, energy)) = energy  BY SharkShares
    <2>3. Spends(w, Put(w, Center, Shark(age, energy)), T, "energy")
      BY <1>1, <1>4, <2>1, <2>2, PutSpends DEF Self
    <2>4. QED  BY <2>3 DEF Pays
  <1>9. Pays(w, Put(w, Center, Empty))
    <2>1. Share("energy", Empty) = 0  BY SharkShares
    <2>2. Spends(w, Put(w, Center, Empty), T, "energy")
      BY <1>1, <1>4, <2>1, PutSpends DEF Self
    <2>3. QED  BY <2>2 DEF Pays
  <1>10. me.energy > 0 /\ fish # {} => \A q \in eats : Pays(w, q)  BY <1>6
  <1>11. me.energy > 0 /\ fish = {} => \A q \in goes : Pays(w, q)  BY <1>7
  <1> HIDE DEF eats, goes, energy
  <1>12. SharkBehavior(w) =
           CASE me.energy = 0 -> {Put(w, Center, Empty)}
             [] me.energy > 0 /\ fish # {} -> eats
             [] me.energy > 0 /\ fish = {} /\ empty # {} -> goes
             [] OTHER -> {Put(w, Center, Shark(age, energy))}
    BY DEF SharkBehavior, eats, goes, energy, fish, empty, ready, age
  <1>13. me.energy = 0 \/ me.energy > 0  BY <1>1
  <1>14. me.energy > 0 => me.energy # 0  OBVIOUS
  <1> HIDE DEF me
  <1>15. QED  BY <1>8, <1>9, <1>10, <1>11, <1>12, <1>13, <1>14

LEMMA SharkOutcomes ==
  ASSUME NEW w, View(w, SharkWorld), Fitting(w), NEW o \in Outcomes(w)
  PROVE  Pays(w, o.plan)
  <1> DEFINE type == Self(w).type
  <1>1. type \in SharkWorld  BY CenterLives, AtomsSeen DEF Self
  <1>2. Fine(w, SharkWorld, "energy")  BY FittingIsFine DEF Sums
  <1>3. Pays(w, Stay)  BY <1>2, StayYields, YieldsSpends DEF Pays
  <1>4. /\ type \in {"Empty", "Wall"} => Behavior(w) = {Stay}
        /\ type = "Fish" => Behavior(w) = FishBehavior(w)
        /\ type = "Shark" => Behavior(w) = SharkBehavior(w)
    BY DEF Behavior, CrystalTypes
  <1>5. /\ type = "Fish" => \A p \in FishBehavior(w) : Pays(w, p)
        /\ type = "Shark" => \A p \in SharkBehavior(w) : Pays(w, p)
    BY <1>2, FishSpends, SharkPays DEF Pays
  <1>6. \A p \in Behavior(w) : Pays(w, p)
    <2> HIDE DEF type
    <2>1. QED  BY <1>1, <1>3, <1>4, <1>5 DEF SharkWorld
  <1>7. Outcomes(w) = Silently(Behavior(w))  BY <1>1 DEF Outcomes, SharkWorld
  <1>8. PICK p \in Behavior(w) : o = [plan |-> p, tally |-> NoTally]  BY <1>7 DEF Silently
  <1>9. QED  BY <1>6, <1>8


\* What an event at an owned site makes of a sum.
LEMMA WindowViews ==
  ASSUME PhysicsInv, AtomsComeFit, NEW T, Filled(tile.grid, T), NEW s \in Owned
  PROVE  View(WindowAt(s), T) /\ Fitting(WindowAt(s)) /\ WindowAt(s).grid = tile.grid
  <1>1. PICK A : tile \in Tiles(world, A)  BY DEF PhysicsInv, Tiled
  <1>2. s \in DOMAIN tile.grid /\ s \in Int \X Int
    BY <1>1, WorldsAssumption DEF PhysicsInv, Owned, Tiles
  <1>3. sym \in 0..7  BY DEF PhysicsInv, Windowed
  <1>4. QED  BY <1>2, <1>3, WindowFits DEF View, WindowAt
LEMMA EventYields ==
  ASSUME PhysicsInv, AtomsComeFit, NEW T, Filled(tile.grid, T), NEW s \in Owned,
         NEW o, Carry(s, o), NEW m, NEW d, Yields(WindowAt(s), o.plan, T, m, d)
  PROVE  Filled(tile'.grid, T) /\ Amount(m, tile'.grid) = Amount(m, tile.grid) + d
  <1>1. PICK A : tile \in Tiles(world, A)  BY DEF PhysicsInv, Tiled
  <1>2. WindowAt(s).grid = tile.grid  BY WindowViews
  <1>3. PICK S : o.plan \in Seq(S)  BY DEF Yields, Leaves
  <1>4. Sane(world) /\ Kept(world, tile)  BY WorldsAreSane DEF PhysicsInv
  <1>5. tile'.grid = LayAll(tile.grid, o.plan)  BY <1>1, <1>3, <1>4, PerformLays DEF Carry
  <1>6. QED  BY <1>2, <1>5 DEF Yields, Leaves

LEMMA TileAmounts ==
  ASSUME PhysicsInv, AtomsComeFit, NEW T, Filled(tile.grid, T), NEW m \in Sums
  PROVE  Amount(m, tile.grid) \in Int
  <1>1. PICK A : tile \in Tiles(world, A) /\ \A a \in A : FieldsFit(a)  BY DEF PhysicsInv, Tiled
  <1>2. Priced(m, tile.grid)  BY <1>1, SharesFit DEF Priced, Tiles
  <1>3. QED  BY <1>2, AmountIsSum DEF Filled, Sums

\* The types that are about stay those of the world.
SumsInv == /\ PhysicsInv
           /\ AtomsComeFit /\ Peopled(world, TribalWorld) => Filled(tile.grid, TribalWorld)
           /\ AtomsComeFit /\ Peopled(world, SharkWorld) => Filled(tile.grid, SharkWorld)
LEMMA WealthSteps ==
  ASSUME PhysicsInv, AtomsComeFit, [Next]_vars, Peopled(world, TribalWorld),
         Filled(tile.grid, TribalWorld)
  PROVE  Filled(tile'.grid, TribalWorld) /\ Wealth(tile'.grid) <= Wealth(tile.grid)
  <1>1. Amount("wealth", tile.grid) \in Int  BY TileAmounts DEF Sums
  <1>2. \A g : Wealth(g) = Amount("wealth", g)  BY DEF Amount
  <1>3. ASSUME NEW s \in Owned, NEW o \in Outcomes(WindowAt(s)), Carry(s, o)
        PROVE  Filled(tile'.grid, TribalWorld) /\ Wealth(tile'.grid) <= Wealth(tile.grid)
    <2>1. /\ View(WindowAt(s), TribalWorld) /\ Fitting(WindowAt(s))
          /\ WindowAt(s).grid = tile.grid
      BY <1>3, WindowViews
    <2>2. PICK d \in Losing : Yields(WindowAt(s), o.plan, TribalWorld, "wealth", d)
      BY <1>3, <2>1, TribalOutcomes DEF Spends
    <2>3. /\ Filled(tile'.grid, TribalWorld)
          /\ Amount("wealth", tile'.grid) = Amount("wealth", tile.grid) + d
      BY <1>3, <2>2, EventYields
    <2>4. QED  BY <1>1, <1>2, <2>3 DEF Losing
  <1>4. CASE tile'.grid = tile.grid  BY <1>1, <1>2, <1>4
  <1>5. QED  BY <1>3, <1>4, CalmSteps
EnergyKept ==
  \/ Energy(tile'.grid) <= Energy(tile.grid)
  \/ /\ Number(tile'.grid, {"Fish"}) = Number(tile.grid, {"Fish"}) - 1
     /\ Energy(tile'.grid) < Energy(tile.grid) + EnergyPerFish
LEMMA EnergySteps ==
  ASSUME PhysicsInv, AtomsComeFit, [Next]_vars, Peopled(world, SharkWorld),
         Filled(tile.grid, SharkWorld)
  PROVE  Filled(tile'.grid, SharkWorld) /\ EnergyKept
  <1>1. Amount("energy", tile.grid) \in Int  BY TileAmounts DEF Sums
  <1>2. \A g : Energy(g) = Amount("energy", g)  BY DEF Amount
  <1>3. ASSUME NEW s \in Owned, NEW o \in Outcomes(WindowAt(s)), Carry(s, o)
        PROVE  Filled(tile'.grid, SharkWorld) /\ EnergyKept
    <2>1. /\ View(WindowAt(s), SharkWorld) /\ Fitting(WindowAt(s))
          /\ WindowAt(s).grid = tile.grid
      BY <1>3, WindowViews
    <2>2. Pays(WindowAt(s), o.plan)  BY <1>3, <2>1, SharkOutcomes
    <2>3. CASE Spends(WindowAt(s), o.plan, SharkWorld, "energy")
      <3>1. PICK d \in Losing : Yields(WindowAt(s), o.plan, SharkWorld, "energy", d)
        BY <2>3 DEF Spends
      <3>2. /\ Filled(tile'.grid, SharkWorld)
            /\ Amount("energy", tile'.grid) = Amount("energy", tile.grid) + d
        BY <1>3, <3>1, EventYields
      <3>3. QED  BY <1>1, <1>2, <3>2 DEF Losing, EnergyKept
    <2>4. CASE \E d \in Int : /\ d < EnergyPerFish
                              /\ Yields(WindowAt(s), o.plan, SharkWorld, "energy", d)
                              /\ Leaves(WindowAt(s), o.plan, SharkWorld, {"Fish"}, -1)
      <3>1. PICK d \in Int : /\ d < EnergyPerFish
                             /\ Yields(WindowAt(s), o.plan, SharkWorld, "energy", d)
                             /\ Leaves(WindowAt(s), o.plan, SharkWorld, {"Fish"}, -1)
        BY <2>4
      <3>2. /\ Filled(tile'.grid, SharkWorld)
            /\ Amount("energy", tile'.grid) = Amount("energy", tile.grid) + d
        BY <1>3, <3>1, EventYields
      <3>3. Number(tile'.grid, {"Fish"}) = Number(tile.grid, {"Fish"}) + -1
        <4>1. sym \in 0..7  BY DEF PhysicsInv, Windowed
        <4>2. QED  BY <1>3, <3>1, <4>1, EventLeaves
      <3>4. Number(tile.grid, {"Fish"}) \in Nat  BY NumbersCount
      <3>5. Energy(tile'.grid) < Energy(tile.grid) + EnergyPerFish
        BY <1>1, <1>2, <3>1, <3>2, WatorAssumption
      <3>6. Number(tile'.grid, {"Fish"}) = Number(tile.grid, {"Fish"}) - 1  BY <3>3, <3>4
      <3>7. QED  BY <3>2, <3>5, <3>6 DEF EnergyKept
    <2>5. QED  BY <2>2, <2>3, <2>4 DEF Pays
  <1>4. CASE tile'.grid = tile.grid  BY <1>1, <1>2, <1>4 DEF EnergyKept
  <1>5. QED  BY <1>3, <1>4, CalmSteps

LEMMA SumsAtFirst == Init => SumsInv
  BY InvAtFirst, FirstGrid DEF SumsInv
LEMMA SumsStay == SumsInv /\ [Next]_vars => SumsInv'
  <1> SUFFICES ASSUME SumsInv, [Next]_vars  PROVE SumsInv'
    OBVIOUS
  <1>1. PhysicsInv' /\ world' = world  BY InvStays, WorldStays DEF SumsInv
  <1>2. QED  BY <1>1, WealthSteps, EnergySteps DEF SumsInv

\* In a world of tribes that nothing reaches from outside and where no Mine adds to it, no
\* step makes the tribes and the Res richer: a Base pays for each unit out of gold that it
\* had, each Res is paid for once, and storing the gold in eight bits can only lose some.
THEOREM EconomyIsBalanced == ASSUME AtomsComeFit PROVE Spec => EconomyBalanced
  <1> DEFINE kept ==
        (Calm /\ Starting \subseteq {"Empty", "Res", "Wall", "Base", "Infantry"}) =>
           Wealth(tile'.grid) <= Wealth(tile.grid)
  <1>1. SumsInv /\ [Next]_vars => [kept]_vars
    <2> SUFFICES ASSUME SumsInv, [Next]_vars, Calm, Starting \subseteq TribalWorld
                 PROVE  Wealth(tile'.grid) <= Wealth(tile.grid)
      BY DEF TribalWorld
    <2>1. PhysicsInv  BY DEF SumsInv
    <2>2. Peopled(world, TribalWorld)  BY <2>1, CalmWorlds
    <2>3. QED  BY <2>1, <2>2, WealthSteps DEF SumsInv
  <1>2. QED  BY <1>1, SumsAtFirst, SumsStay, PTL DEF Spec, EconomyBalanced

\* In a world of Fish and Sharks that nothing reaches from outside, a step that gives the
\* Sharks energy takes exactly one Fish, and they get less of it than the Fish is worth:
\* a newborn's energy is its parent's.
THEOREM SharksArePaid == ASSUME AtomsComeFit PROVE Spec => SharksPayForFish
  <1> DEFINE kept ==
        (Calm /\ Starting \subseteq {"Empty", "Fish", "Shark", "Wall"}) =>
           \/ Energy(tile'.grid) <= Energy(tile.grid)
           \/ /\ Number(tile'.grid, {"Fish"}) = Number(tile.grid, {"Fish"}) - 1
              /\ Energy(tile'.grid) < Energy(tile.grid) + EnergyPerFish
  <1>1. SumsInv /\ [Next]_vars => [kept]_vars
    <2> SUFFICES ASSUME SumsInv, [Next]_vars, Calm, Starting \subseteq SharkWorld
                 PROVE  EnergyKept
      BY DEF SharkWorld, EnergyKept
    <2>1. PhysicsInv  BY DEF SumsInv
    <2>2. Peopled(world, SharkWorld)  BY <2>1, CalmWorlds
    <2>3. QED  BY <2>1, <2>2, EnergySteps DEF SumsInv
  <1>2. QED  BY <1>1, SumsAtFirst, SumsStay, PTL DEF Spec, SharksPayForFish
=============================================================================
