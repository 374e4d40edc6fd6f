-------------------------- MODULE CrystalElements --------------------------
(***************************************************************************)
(* Crystals: elements that gather Res to the sites of a regular lattice.   *)
(***************************************************************************)
EXTENDS BarElements

Crystal(type) == [type |-> type]
GeneralCrystal(sites) == [type |-> "XtalGen", sites |-> sites]
CrystalTypes == {"XtalSq1", "XtalL12", "XtalR12", "XtalGen"}

\* The enum PointSymmetry value a crystal's behaviour gives to SetSymmetry.
FlipY == 4
CrystalSymmetry(atom) == IF atom.type = "XtalR12" THEN FlipY ELSE 0

\* The sites of the event window a crystal wants to be occupied by its kind.
GetSites(atom) ==
  CASE atom.type = "XtalSq1" -> {p \in Ring(0, R) : OnGrid(p)}
    [] atom.type \in {"XtalL12", "XtalR12"} ->
         {<<0, 0>>, <<2, -1>>, <<-1, -2>>, <<-2, 1>>, <<1, 2>>,
          <<1, -3>>, <<-3, -1>>, <<-1, 3>>, <<3, 1>>}
    [] OTHER -> atom.sites

XtalBehavior(window) ==
  LET w == Turned(window, CrystalSymmetry(Self(window)))
      me == Self(w)
      live   == {p \in Ring(0, R) : IsLiveSite(w, p)}
      points == live \cap GetSites(me)
      fields == live \ points
      us(S)  == {p \in S : AtomAt(w, p) = me}
      gaps   == OfType(w, points, "Empty")
      strangers == {p \in points \ us(points) : TypeAt(w, p) \in CrystalTypes}
      spare  == OfType(w, points, "Res")
      stock  == OfType(w, fields, "Res")
      \* The cases in their order of priority: the first that applies.
      cases == <<
        [when |-> Cardinality(us(fields)) > Cardinality(us(points)),
         plans |-> {Put(w, Center, Res)}],
        [when |-> us(fields) # {} /\ gaps # {},
         plans |-> {Swap(w, f, p) : f \in us(fields), p \in gaps}],
        [when |-> spare # {},
         plans |-> {Put(w, p, me) : p \in spare}],
        [when |-> stock # {} /\ gaps # {},
         plans |-> {Swap(w, f, p) \o Put(w, p, me) : f \in stock, p \in gaps}],
        [when |-> strangers # {} /\ gaps # {},
         plans |-> {Put(w, p, Res) : p \in strangers}],
        [when |-> TRUE, plans |-> {Stay}] >>
      first == CHOOSE i \in DOMAIN cases : cases[i].when /\ \A j \in 1..i - 1 : ~cases[j].when
  IN  cases[first].plans
=============================================================================
