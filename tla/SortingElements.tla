-------------------------- MODULE SortingElements --------------------------
(***************************************************************************)
(* The Demon Horde Sort: Emitters put Data into the universe, Sorters move *)
(* it by value to the west, Consumers take it out.  Emitter and Consumer   *)
(* also grow into vertical stacks and count the members on either side.    *)
(* They keep tallies in the tile's element data, so an outcome is a record *)
(* [plan, tally].                                                          *)
(***************************************************************************)
EXTENDS EventWindow

CONSTANTS
  DataMax,     \* DATA_MAXVAL; DATA_MINVAL is 1
  Datums       \* the values an Emitter is seen to draw

Data(value) == [type |-> "Data", value |-> value]
StackTypes == {"Emitter", "Consumer"}
Gap(atom) == IF atom.type = "Emitter" THEN 2 ELSE 1
StackField == 512    \* nine bits for each of below and above

\* There are more values of data than a stack may have members.
ASSUME DatumAssumption ==
  DataMax \in Nat /\ 2 * StackField <= DataMax /\ Datums \subseteq 1..DataMax

NoTally == [emitted |-> 0, rejected |-> 0, consumed |-> 0, bucketError |-> 0]
Silently(plans) == {[plan |-> p, tally |-> NoTally] : p \in plans}

Further(n) == IF n = 0 THEN 0 ELSE (n + 1) % StackField
NeverLess(n) == n
Less(n) == IF n = 0 THEN 0 ELSE n - 1

\* What a look up or down the stack leads to; random.OneIn(10) may be against it.
LookAlong(w, down) ==
  LET me    == Self(w)
      at    == <<0, IF down THEN Gap(me) ELSE -Gap(me)>>
      other == AtomAt(w, at)
      copy  == [me EXCEPT !.below = IF down THEN 0 ELSE Further(@),
                          !.above = IF down THEN Further(@) ELSE 0]
      agreed == IF down THEN [me EXCEPT !.below = (other.below + 1) % StackField]
                        ELSE [me EXCEPT !.above = (other.above + 1) % StackField]
      worn  == IF down THEN [me EXCEPT !.below = Less(@)] ELSE [me EXCEPT !.above = Less(@)]
      Become(a) == IF a = me THEN Stay ELSE Put(w, Center, a)
  IN  CASE ~IsLiveSite(w, at) -> {Stay}
        [] IsLiveSite(w, at) /\ other.type = "Empty" -> {Put(w, at, copy)}
        [] other.type = me.type -> {Become(agreed)}
        [] OTHER                -> Maybe({Become(worn)})

ReproduceVertically(w) == UNION {LookAlong(w, down) : down \in BOOLEAN}

\* After growing, the Emitter may try to place a datum in ring 1, then ring 2.
EmitterBehavior(w) ==
  LET Room(v) == LET near == OfType(v, Ring(1, 1), "Empty")
                 IN  IF near # {} THEN near ELSE OfType(v, Ring(2, 2), "Empty")
      Emit(v) ==
        IF Room(v) = {}
        THEN {[plan |-> Stay, tally |-> [NoTally EXCEPT !.emitted = 1, !.rejected = 1]]}
        ELSE {[plan |-> Put(v, p, Data(d)), tally |-> [NoTally EXCEPT !.emitted = 1]]
               : p \in Room(v), d \in Datums}
  IN  UNION {{[e EXCEPT !.plan = grown \o @] : e \in Silently({Stay}) \cup Emit(After(w, grown))}
             : grown \in ReproduceVertically(w)}

\* After growing, the Consumer takes the nearest datum to its east.
ConsumerBehavior(w) ==
  LET Feed(v) ==
        LET found == {i \in 1..R - 1 : TypeAt(v, <<i, 0>>) = "Data"}
            at    == <<CHOOSE i \in found : \A j \in found : i <= j, 0>>
            bucket   == DataMax \div (Self(v).above + Self(v).below + 1)
            midpoint == (bucket * Self(v).above + bucket * (Self(v).above + 1)) \div 2
            error == Abs(AtomAt(v, at).value - midpoint) \div bucket
        IN  IF found = {} THEN [plan |-> Stay, tally |-> NoTally]
            ELSE [plan |-> Put(v, at, Empty),
                  tally |-> [NoTally EXCEPT !.consumed = 1, !.bucketError = error]]
  IN  {[Feed(After(w, grown)) EXCEPT !.plan = grown \o @] : grown \in ReproduceVertically(w)}

\* A Sorter spreads to Res, then moves a small datum up or a large one down, from
\* east to west, trying the other direction where the first has nothing to do.
SorterBehavior(w) ==
  LET Quadrant(x, y) == {<<x, y>>, <<x, 2 * y>>, <<2 * x, y>>, <<2 * x, 2 * y>>}
      Spread == PickOne(OfType(w, VonNeumann, "Res"), LAMBDA p : Put(w, p, Self(w)))
      Move(v, up) ==
        LET y  == IF up THEN 1 ELSE -1
            from == OfType(v, Quadrant(1, y), "Data")
            to   == OfType(v, Quadrant(-1, -y), "Empty")
            Wanted(d) == IF up THEN d < Self(v).threshold ELSE d > Self(v).threshold
            Carry(src, dst) ==
              IF Wanted(AtomAt(v, src).value)
              THEN Put(v, Center, [Self(v) EXCEPT !.threshold = AtomAt(v, src).value])
                     \o Swap(v, src, dst)
              ELSE Stay
        IN  IF from = {} \/ to = {} THEN {Stay} ELSE {Carry(s, d) : s \in from, d \in to}
      Sort(v) == UNION {(Move(v, up) \ {Stay})
                          \cup (IF Stay \in Move(v, up) THEN Move(v, ~up) ELSE {}) : up \in BOOLEAN}
  IN  Then(w, Then(w, Spread, Sort), Diffuse)

\* A Data atom out of bounds fails, and DoEvent erases it.
DataBehavior(w) ==
  IF Self(w).value \in 1..DataMax THEN Diffuse(w) ELSE {Put(w, Center, Empty)}
=============================================================================
