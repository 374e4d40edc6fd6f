---------------------------- MODULE EventWindow ----------------------------
(***************************************************************************)
(* The view an element's Behavior has of its surroundings: sites relative  *)
(* to the centre, turned by the window's symmetry, and what it may do to   *)
(* them.  A window is a record [grid, center, sym]; grid maps live sites   *)
(* to atoms.  What a behaviour does is a plan, the sequence of PlaceAtom   *)
(* calls it makes, and an operator of a behaviour gives the set of plans   *)
(* its random choices allow.  Directions have y growing to the south.      *)
(***************************************************************************)
EXTENDS Integers, Sequences, FiniteSets, SequencesExt

CONSTANTS
  R,            \* P::EVENT_WINDOW_RADIUS
  Diffusible    \* types whose Diffusability is complete; all others never move

ASSUME WindowAssumption == R \in Nat \ {0}

Empty == [type |-> "Empty"]
Res   == [type |-> "Res"]
Center == <<0, 0>>

Abs(n) == IF n < 0 THEN -n ELSE n
Manhattan(p) == Abs(p[1]) + Abs(p[2])
Plus(p, q) == <<p[1] + q[1], p[2] + q[2]>>
Minus(p, q) == <<p[1] - q[1], p[2] - q[2]>>
Times(n, p) == <<n * p[1], n * p[2]>>

\* MDist's table of the points at each distance, and those it lists from
\* GetFirstIndex(lo) to GetLastIndex(hi).
MDist == [length \in 0..R |-> {p \in (-R..R) \X (-R..R) : Manhattan(p) = length}]
Ring(lo, hi) == UNION {MDist[length] : length \in lo..hi}
VonNeumann == Ring(1, 1)
Moore == ((-1..1) \X (-1..1)) \ {Center}

\* The eight symmetries in the order of enum PointSymmetry.
SymmetryMap(p, sym) ==
  LET x == p[1]  y == p[2]
  IN  << <<x, y>>, <<-y, x>>, <<-x, -y>>, <<y, -x>>,
         <<x, -y>>, <<y, x>>, <<-x, y>>, <<-y, -x>> >>[sym + 1]

Turned(w, sym) == [w EXCEPT !.sym = sym]
MapToTile(w, p) == Plus(w.center, SymmetryMap(p, w.sym))
IsLiveSite(w, p) == MapToTile(w, p) \in DOMAIN w.grid

\* A cached site beyond the edge of the universe stays as it was cleared.
AtomAt(w, p) == IF IsLiveSite(w, p) THEN w.grid[MapToTile(w, p)] ELSE Empty
TypeAt(w, p) == AtomAt(w, p).type
Self(w) == AtomAt(w, Center)

Put(w, p, a) == << <<MapToTile(w, p), a>> >>
Swap(w, p, q) == Put(w, p, AtomAt(w, q)) \o Put(w, q, AtomAt(w, p))
Stay == <<>>

\* The window once a plan is carried out; what is placed elsewhere is lost.
After(w, plan) ==
  LET Place(grid, write) ==
        IF write[1] \in DOMAIN grid THEN [grid EXCEPT ![write[1]] = write[2]] ELSE grid
  IN  [w EXCEPT !.grid = FoldLeft(Place, @, plan)]

\* One plan after another: the second is made from what the first has left.
Then(w, plans, Next(_)) ==
  UNION {{plan \o more : more \in Next(After(w, plan))} : plan \in plans}

\* One of these and one of those, seen from the same window.
Both(plans, more) == {p \o q : p \in plans, q \in more}

Maybe(plans) == plans \cup {Stay}

\* Reservoir sampling, in WindowScanner and in many a Behavior: any one of the
\* points found may be the one picked, and nothing follows when none is found.
PickOne(found, Plan(_)) == IF found = {} THEN {Stay} ELSE {Plan(p) : p \in found}

OfTypeAnywhere(w, points, type) == {p \in points : TypeAt(w, p) = type}
OfType(w, points, type) == {p \in points : IsLiveSite(w, p) /\ TypeAt(w, p) = type}

\* Element::Diffuse: one random neighbour, or the one opposite where the
\* universe ends, if the atom there does not mind.
DiffuseOverTheEdge(w) ==
  {IF TypeAt(w, d) \in Diffusible THEN Swap(w, d, Center) ELSE Stay : d \in VonNeumann}
Diffuse(w) ==
  LET Heading(d) == IF IsLiveSite(w, d) THEN d ELSE Times(-1, d)
  IN  {IF IsLiveSite(w, Heading(d)) /\ TypeAt(w, Heading(d)) \in Diffusible
       THEN Swap(w, Heading(d), Center) ELSE Stay : d \in VonNeumann}
=============================================================================
