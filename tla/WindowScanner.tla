--------------------------- MODULE WindowScanner ---------------------------
(***************************************************************************)
(* The tables of class MDist, by which all code goes through an event      *)
(* window, and the searches of class WindowScanner, one site of their loop *)
(* a step.  EventWindow says what both promise, with sets: Ring, OfType.   *)
(* random.OneIn(n) is a chance of one in n, so a search carries along how  *)
(* many of its equally likely runs would give each point.                  *)
(***************************************************************************)
EXTENDS EventWindow, FiniteSetsExt

CONSTANTS
  Views,       \* windows [grid, center, sym] to be searched,
  Types,       \* for these types,
  Radii,       \* within these radii
  SubWindows   \* and among these lists of points

\* The lists name no point twice.
Askable ==
  /\ SubWindows \in Seq(Seq(Int \X Int)) /\ SubWindows # <<>>
  /\ \A k \in DOMAIN SubWindows : IsInjective(SubWindows[k])
  /\ Radii \subseteq Nat

VARIABLES
  dist,       \* the MDist: points, first, escapes and horizons
  view,       \* the window searched
  query,      \* the call
  search      \* how far it is: [sites, at, seen, ways, state]

searchVars == <<dist, view, query, search>>

(* -- MDist: indices count from 0 ------------------------------------------ *)

EVENT_WINDOW_SITES(radius) == ((radius * 2 + 1) * (radius * 2 + 1)) \div 2 + 1
EVENT_WINDOW_DIAMETER == R * 2 + 1

\* For every length from small to large the whole window is scanned, by columns.
Columns == [i \in 1..EVENT_WINDOW_DIAMETER * EVENT_WINDOW_DIAMETER |->
              <<((i - 1) \div EVENT_WINDOW_DIAMETER) - R, ((i - 1) % EVENT_WINDOW_DIAMETER) - R>>]
IndexToPoint == FlattenSeq([n \in 1..R + 1 |-> SelectSeq(Columns, LAMBDA p : Manhattan(p) = n - 1)])
FirstIndex(points) ==
  [radius \in 0..R + 1 |-> Cardinality({i \in DOMAIN points : Manhattan(points[i]) < radius})]

FillDir == << <<0, -1>>, <<1, -1>>, <<1, 0>>, <<1, 1>>, <<0, 1>>, <<-1, 1>>, <<-1, 0>>, <<-1, -1>> >>
FromOffset(p) == CHOOSE d \in DOMAIN FillDir : FillDir[d] = p

\* The number of steps that takes a point out, 2 * R + 1 when none does.
Steps(Out(_)) ==
  LET out == {deltas \in 1..2 * R : Out(deltas)}
  IN  IF out = {} THEN 2 * R + 1 ELSE Min(out)
EscapeSteps(p, delta) == Steps(LAMBDA n : Manhattan(Plus(p, Times(n, delta))) > R)
HorizonSteps(p, delta, horizon) ==
  LET along == <<p[1] * Abs(delta[1]), p[2] * Abs(delta[2])>>
  IN  Steps(LAMBDA n : Manhattan(Plus(along, Times(n, delta))) = horizon)

\* Tables by direction: pass after pass, a step more each time, until one has its length.
Indices(points) == [i \in DOMAIN points |-> i - 1]
Filled(points, Passes(_)) ==
  FoldLeft(LAMBDA table, deltas :
             IF Len(table) >= Len(points) THEN table ELSE table \o Passes(deltas),
           <<>>, [n \in 1..2 * R + 1 |-> n])
InitEscapesByDirTable(points) ==
  [d \in DOMAIN FillDir |->
     LET steps == [p \in Range(points) |-> EscapeSteps(p, FillDir[d])]
     IN  Filled(points, LAMBDA n : SelectSeq(Indices(points), LAMBDA i : steps[points[i + 1]] = n))]

\* A diagonal has two horizons, for its points are of two colours.
HorizonsOf(d) == [i \in 1..Manhattan(FillDir[d]) |-> R + Manhattan(FillDir[d]) + 1 - i]
InitHorizonsByDirTable(points) ==
  [d \in DOMAIN FillDir |->
     LET steps == [p \in Range(points), h \in Range(HorizonsOf(d)) |-> HorizonSteps(p, FillDir[d], h)]
         Pass(n) == FlattenSeq([k \in DOMAIN HorizonsOf(d) |->
                      SelectSeq(Indices(points), LAMBDA i : steps[points[i + 1], HorizonsOf(d)[k]] = n)])
     IN  Filled(points, Pass)]

NewMDist ==
  LET points == IndexToPoint
  IN  [points |-> points, first |-> FirstIndex(points),
       escapes |-> InitEscapesByDirTable(points), horizons |-> InitHorizonsByDirTable(points)]

GetPoint(index) == dist.points[index + 1]
GetFirstIndex(radius) == dist.first[radius]
GetLastIndex(radius) == GetFirstIndex(radius + 1) - 1

\* An offset's index if it is no further than maxRadius, else -1.
FromPoint(p, maxRadius) ==
  LET indices == {i \in DOMAIN dist.points : dist.points[i] = p}
  IN  IF indices = {} \/ Min(indices) - 1 >= GetFirstIndex(maxRadius + 1) THEN -1
      ELSE Min(indices) - 1

(* -- WindowScanner ----------------------------------------------------------- *)

MooreNeighborhood == FillDir
VonNeumannNeighborhood == [i \in 1..4 |-> FillDir[2 * i - 1]]

\* A call: what is asked of which types, each looked for in an area of its own: all within
\* a radius, or the points of a list.
Within(radius) == [radius |-> radius, points |-> <<>>]
Among(points) == [radius |-> 0, points |-> points]
Query(ask, types, areas) == [ask |-> ask, types |-> types, areas |-> areas]

CanSeeAtomOfType(type, radius) == Query("CanSee", <<type>>, <<Within(radius)>>)
IsBorderingNeighborhood(type, neighborhood) == Query("CanSee", <<type>>, <<Among(neighborhood)>>)
CountAtomsOfType(type, radius) == Query("Count", <<type>>, <<Within(radius)>>)
CountInNeighborhood(type, neighborhood) == Query("Count", <<type>>, <<Among(neighborhood)>>)
FindRandomLocationOfType(type, radius) == Query("Find", <<type>>, <<Within(radius)>>)
FindRandomInSubWindow(type, subWindow) == Query("Find", <<type>>, <<Among(subWindow)>>)
FindRandomInNeighborhood(type, neighborhood) == Query("Find", <<type>>, <<Among(neighborhood)>>)
FindRandomAtoms(radius, types) == Query("FindAll", types, [j \in DOMAIN types |-> Within(radius)])
FindRandomAtomsInSubWindows(types, subWindows) ==
  Query("FindEach", types, [j \in DOMAIN types |-> Among(subWindows[j])])

\* A search without a radius is a FAIL, but for FindRandomAtoms.
Refused(q) ==
  \E j \in DOMAIN q.areas :
    LET area == q.areas[j]
    IN  area.points = <<>> /\ (area.radius > R \/ (area.radius = 0 /\ q.ask # "FindAll"))

\* The sites visited, in order, each with the types looked for there: FindRandomAtoms
\* goes round once for all its types, FindRandomAtomsInSubWindows once for each.
\* (Variant with a mistake: indices count from 0, and so with the centre.)
PointsOf_FromZero(area) ==
  IF area.points # <<>> THEN area.points
  ELSE [i \in 1..GetLastIndex(area.radius) |-> GetPoint(GetFirstIndex(0) + i - 1)]
PointsOf(area) ==
  IF area.points # <<>> THEN area.points
  ELSE [i \in 1..GetLastIndex(area.radius) |-> GetPoint(GetFirstIndex(1) + i - 1)]
Round(points, requests) == [i \in DOMAIN points |-> [point |-> points[i], requests |-> requests]]
SitesOf(q) ==
  IF q.ask = "FindAll" THEN Round(PointsOf(q.areas[1]), DOMAIN q.types)
  ELSE FlattenSeq([j \in DOMAIN q.types |-> Round(PointsOf(q.areas[j]), {j})])

NoQuery == Query("none", <<>>, <<>>)
WindowInit ==
  /\ dist = NewMDist
  /\ view \in Views
  /\ query = NoQuery
  /\ search = [sites |-> <<>>, at |-> 0, seen |-> <<>>, ways |-> <<>>, state |-> "none"]

Begin(q) ==
  /\ search.state = "none"
  /\ query' = q
  /\ search' = [sites |-> IF Refused(q) THEN <<>> ELSE SitesOf(q), at |-> 0,
                seen |-> [j \in DOMAIN q.types |-> 0], ways |-> [j \in DOMAIN q.types |-> <<>>],
                state |-> IF Refused(q) THEN "FAIL" ELSE "looking"]
  /\ UNCHANGED <<dist, view>>

\* random.OneIn(n) for the n-th found: it replaces the pick in one run of n.
Found(ways, n, p) ==
  [q \in DOMAIN ways \cup {p} |->
     (IF q \in DOMAIN ways THEN ways[q] * (n - 1) ELSE 0)
     + (IF q = p THEN ProductSet(1..n - 1) ELSE 0)]

\* The loops are alike; they hand out the number found, the pick, or both, or end at the
\* first that is found.
Visit ==
  /\ search.state = "looking"
  /\ search.at < Len(search.sites)
  /\ LET site == search.sites[search.at + 1]
         hits == {j \in site.requests : IsLiveSite(view, site.point) /\ TypeAt(view, site.point) = query.types[j]}
         seen == [j \in DOMAIN query.types |-> search.seen[j] + IF j \in hits THEN 1 ELSE 0]
     IN  search' = [search EXCEPT
                    !.at = @ + 1, !.seen = seen,
                    !.ways = [j \in DOMAIN seen |->
                                IF j \in hits THEN Found(@[j], seen[j], site.point) ELSE @[j]],
                    !.state = IF query.ask = "CanSee" /\ hits # {} THEN "done" ELSE "looking"]
  /\ UNCHANGED <<dist, view, query>>
Finish ==
  /\ search.state = "looking" /\ search.at = Len(search.sites)
  /\ search' = [search EXCEPT !.state = "done"]
  /\ UNCHANGED <<dist, view, query>>

WindowNext ==
  \/ Visit \/ Finish
  \/ \E type \in Types, radius \in Radii :
       \/ Begin(CanSeeAtomOfType(type, radius)) \/ Begin(CountAtomsOfType(type, radius))
       \/ Begin(FindRandomLocationOfType(type, radius))
  \/ \E type \in Types, near \in {MooreNeighborhood, VonNeumannNeighborhood} :
       \/ Begin(IsBorderingNeighborhood(type, near)) \/ Begin(CountInNeighborhood(type, near))
       \/ Begin(FindRandomInNeighborhood(type, near))
  \/ \E type \in Types : \E near \in Range(SubWindows) : Begin(FindRandomInSubWindow(type, near))
  \/ \E types \in [DOMAIN SubWindows -> Types] :
       \/ Begin(FindRandomAtomsInSubWindows(types, SubWindows))
       \/ \E radius \in Radii : radius < R /\ Begin(FindRandomAtoms(radius, types))

WindowSpec == WindowInit /\ [][WindowNext]_searchVars

(* -- What the tables and the searches promise ------------------------------- *)

\* The indices are sorted by distance, the centre first, and say which point is where; by
\* direction, every index is listed once and none before the point it moves to, so that
\* what is moved in this order never runs into what has not yet been moved.
TablesRight ==
  /\ DOMAIN dist.points = 1..EVENT_WINDOW_SITES(R) /\ IsInjective(dist.points)
  /\ GetFirstIndex(1) = 1
  /\ \A lo, hi \in 0..R : {GetPoint(i) : i \in GetFirstIndex(lo)..GetLastIndex(hi)} = Ring(lo, hi)
  /\ \A p \in Range(Columns), radius \in 0..R :
       LET index == FromPoint(p, radius)
       IN  IF Manhattan(p) > radius THEN index = -1 ELSE GetPoint(index) = p
  /\ \A d \in DOMAIN FillDir : \A table \in {dist.escapes[d], dist.horizons[d]} :
       /\ Len(table) = Len(dist.points) /\ Range(table) = 0..Len(dist.points) - 1
       /\ \A i, j \in DOMAIN table :
            GetPoint(table[j]) = Plus(GetPoint(table[i]), FillDir[d]) => j < i
  /\ \A d \in DOMAIN FillDir : FromOffset(FillDir[d]) = d

\* A search has seen all there is (or something, if that is the question), and any
\* two of the points found are equally likely to be the pick.
SearchRight ==
  search.state = "done" =>
    \A j \in DOMAIN query.types :
      LET area  == query.areas[j]
          around == IF area.points # <<>> THEN Range(area.points) ELSE Ring(1, area.radius)
          found  == OfType(view, around, query.types[j])
      IN  IF query.ask = "CanSee" THEN (search.seen[j] > 0) = (found # {})
          ELSE /\ search.seen[j] = Cardinality(found)
               /\ DOMAIN search.ways[j] = found
               /\ \A p, q \in found : search.ways[j][p] = search.ways[j][q]

WindowSound == IF search.state = "none" THEN TablesRight ELSE SearchRight
=============================================================================
