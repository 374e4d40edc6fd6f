---------------------------- MODULE BarElements ----------------------------
(***************************************************************************)
(* Elements that build bars out of Res.  A cell of a bar knows how big the *)
(* bar is, its own place in it and which way it is turned; it judges its   *)
(* neighbours by that, and starts another bar at the end of its own.  QBar, *)
(* SBar and DBar, of the demo driver mfmdha, are the MQBar's ancestors.     *)
(***************************************************************************)
EXTENDS EventWindow

CONSTANT MaxTimer        \* MAX_TIMER_VALUE

ASSUME TimerAssumption == MaxTimer \in Nat

\* A bar's cell keeps its size and its place in it in twelve bits each.
WideField == 32     \* five bits
HighField == 128    \* seven bits
Packed(v) ==
  LET Mag(n, field) == IF n < field THEN n ELSE field - 1
  IN  Mag(v[1], WideField) * HighField + Mag(v[2], HighField)
Unpacked(bits) == <<bits \div HighField, bits % HighField>>
SetPos(cell, pos) == [cell EXCEPT !.pos = Unpacked(Packed(pos))]
SetSize(cell, max) == [cell EXCEPT !.max = Unpacked(Packed(max))]
Cell(cell) == SetPos(SetSize(cell, cell.max), cell.pos)

Bar(pos, max, sym, timer) ==
  Cell([type |-> "MQBar", pos |-> pos, max |-> max, sym |-> sym, timer |-> timer])
QBar(pos, max, sym, timer) ==
  Cell([type |-> "QBar", pos |-> pos, max |-> max, sym |-> sym, timer |-> timer])
SBar(pos, max, sym) == Cell([type |-> "SBar", pos |-> pos, max |-> max, sym |-> sym])
DBar(pos, max, sym) == Cell([type |-> "DBar", pos |-> pos, max |-> max, sym |-> sym])
\* mfmdha's own MQBar.
DemoBar(pos, max, sym, timer) == [Bar(pos, max, sym, timer) EXCEPT !.type = "DemoMQBar"]

TimedBarTypes == {"MQBar", "QBar", "DemoMQBar"}
BarTypes == TimedBarTypes \cup {"SBar", "DBar"}

Sizes == (0..WideField - 1) \X (0..HighField - 1)
OnGrid(p) == p[1] % 2 = 0 /\ p[2] % 2 = 0
InBar(p, max) == p[1] \in 0..max[1] /\ p[2] \in 0..max[2]

\* A cell of the bar is made of a Res eaten elsewhere.
MakeWithoutEating(w, p, cell, eat) == {Put(w, p, cell) : q \in eat}
MakeAndEat(w, p, cell, eat) == {Put(w, p, cell) \o Put(w, q, Empty) : q \in eat}

\* What a cell gathers from its window.  A row of a slanted bar is a site further
\* on than the row above it.  Off the grid, some look beyond their bar's bounds.
Scan(w, slanted, beyond) ==
  LET me == Self(w)
      Place(p) == Plus(me.pos, IF slanted THEN <<p[1] + p[2], p[2]>> ELSE p)
      grid  == {p \in Ring(1, R) : OnGrid(p) /\ InBar(Place(p), me.max)}
      field == {p \in Ring(1, R) : ~OnGrid(p) /\ (beyond \/ InBar(Place(p), me.max))}
      mates(S) == {p \in S : TypeAt(w, p) = me.type}
      agrees == {p \in mates(grid) : AtomAt(w, p).max = me.max /\ AtomAt(w, p).pos = Place(p)}
  IN  [agrees |-> agrees,
       wrong  |-> mates(grid \cup field) \ agrees,
       good   |-> Cardinality(agrees) + Cardinality({p \in field : TypeAt(w, p) \in {"Empty", "Res"}}),
       make   |-> {[at |-> p, place |-> Place(p)] : p \in {q \in grid : TypeAt(w, q) = "Empty"}},
       eat    |-> {p \in field : TypeAt(w, p) = "Res"}]

Unmade(w, p) == Put(w, p, IF OnGrid(p) THEN Res ELSE Empty)

\* The decision: cells that do not agree are unmade, or this one gives itself up,
\* or neither (unsure); else a cell like newborn is made, or nothing is wanting.
Decide(w, scan, wrong, newborn, unsure, content) ==
  LET bad == Cardinality(wrong)
  IN  CASE bad > 0 /\ scan.good > 3 * bad -> {Unmade(w, p) : p \in wrong}
        [] bad > 3 * scan.good -> {Put(w, Center, Res)}
        [] bad > 0 /\ scan.good <= 3 * bad /\ bad <= 3 * scan.good -> unsure
        [] bad = 0 /\ scan.make # {} /\ scan.eat # {} ->
             UNION {MakeAndEat(w, m.at, SetPos(newborn, m.place), scan.eat) : m \in scan.make}
        [] OTHER -> content

\* The cell before the last corner starts another bar off the end.
StartBar(w, scan, corner) ==
  IF /\ Self(w).pos = Minus(Self(w).max, <<1, 1>>)
     /\ TypeAt(w, <<0, 2>>) = "Empty" /\ scan.eat # {}
  THEN MakeAndEat(w, <<0, 2>>, corner, scan.eat) ELSE {Stay}

\* A cell grows older with its neighbours, never by more than one before them.
GrowOlder(w, scan) ==
  LET me == Self(w)
      ripe == \/ me.timer = 0
              \/ /\ scan.agrees # {}
                 /\ \A p \in scan.agrees : AtomAt(w, p).timer + 1 >= me.timer
      older == {Put(w, Center, [me EXCEPT !.timer = @ + 1])}
  IN  CASE me.timer >= MaxTimer \/ ~ripe -> {Stay}
        [] me.timer < MaxTimer /\ me.timer = 0 -> older
        [] OTHER -> Maybe(older)

\* Only its youngers stand corrected by an MQBar.
MQBarBehavior(window) ==
  LET w      == Turned(window, Self(window).sym)
      me     == Self(w)
      scan   == Scan(w, FALSE, FALSE)
      wrong  == {p \in scan.wrong : AtomAt(w, p).timer < me.timer}
      corner == SetPos([me EXCEPT !.sym = (@ + 1) % 4, !.timer = 0], Center)
  IN  Decide(w, scan, wrong, [me EXCEPT !.timer = 0], {Stay},
             Both(StartBar(w, scan, corner), GrowOlder(w, scan)))

\* Word for word, but for the parameters of its default.
DemoMQBarBehavior(window) == MQBarBehavior(window)

\* A QBar that is unsure gets younger; its next bar begins as old as it is.
QBarBehavior(window) ==
  LET w      == Turned(window, Self(window).sym)
      me     == Self(w)
      scan   == Scan(w, FALSE, FALSE)
      timers == {AtomAt(w, p).timer : p \in scan.agrees}
      least  == {t \in timers : \A u \in timers : t <= u}
      dock   == IF \E t \in least : t < me.timer THEN least ELSE {me.timer - 1}
      corner == SetPos([me EXCEPT !.sym = (@ + 1) % 4], Center)
  IN  Decide(w, scan, scan.wrong, [me EXCEPT !.timer = 0],
             IF me.timer = 0 THEN {Stay} ELSE {Put(w, Center, [me EXCEPT !.timer = t]) : t \in dock},
             Both(StartBar(w, scan, corner), GrowOlder(w, scan)))

\* Straight and diagonal bars take turns.
SBarBehavior(window) ==
  LET w    == Turned(window, Self(window).sym)
      me   == Self(w)
      scan == Scan(w, FALSE, TRUE)
  IN  Decide(w, scan, scan.wrong, me, {Stay}, StartBar(w, scan, DBar(Center, me.max, me.sym)))
DBarBehavior(window) ==
  LET w    == Turned(window, Self(window).sym)
      me   == Self(w)
      scan == Scan(w, TRUE, TRUE)
  IN  Decide(w, scan, scan.wrong, me, {Stay},
             StartBar(w, scan, SBar(Center, me.max, (me.sym + 6) % 8)))
=============================================================================
