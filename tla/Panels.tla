------------------------------- MODULE Panels -------------------------------
(***************************************************************************)
(* The tree of panels, how a mouse event is offered to them, and what each *)
(* does with it.  On the grid's panel lie the statistics panel, with the   *)
(* driver's buttons, and the toolbox, with tools, elements and a slider    *)
(* for the primary element's parameter; both can be dragged about.  Panels *)
(* answer with the interface's record u and whether they took the event.   *)
(***************************************************************************)
EXTENDS Configuration, GridPainting

CONSTANT NoPanel

VARIABLE world   \* the screen and what is on it, fixed from the start

NoDrag == [on |-> FALSE]
Movable == {"statistics", "toolbox"}
Placed == Movable \cup {"buttons"}    \* the panels with a place and a size of their own

\* In the order of insertion, which is the order in which Dispatch asks.
Children(u, p) ==
  IF p = "buttons" THEN world.driverButtons
  ELSE world.toolButtons \o (IF u.slider = {} THEN <<>> ELSE <<"slider">>)

Size(u, p) ==
  CASE p = "grid" -> u.screen [] p \in Placed -> u.size[p] [] OTHER -> world.extent[p].size
GetAbsoluteLocation(u, p) ==
  LET Inside(at, parent) == Moved(at, <<0, 0>>, parent)
      buttonPanel == Inside(u.at["buttons"], u.at["statistics"])
  IN  CASE p = "grid" -> <<0, 0>>
        [] p \in Movable -> u.at[p]
        [] p = "buttons" -> buttonPanel
        [] p \in ToSet(world.driverButtons) -> Inside(world.extent[p].at, buttonPanel)
        [] OTHER -> Inside(world.extent[p].at, u.at["toolbox"])
Covers(u, p, pt) ==
  LET corner == GetAbsoluteLocation(u, p)
  IN  \A i \in 1..2 : corner[i] <= pt[i] /\ pt[i] < corner[i] + Size(u, p)[i]
IsVisible(u, p) == p \notin u.hidden

\* The size a panel wishes for; the toolbox grows by a row for the slider.
Wish(u, p) == IF p = "toolbox" /\ u.slider # {}
              THEN Moved(world.extent[p].size, <<0, 0>>, <<0, 1>>) ELSE world.extent[p].size

\* A panel too large is cut to its parent; one that fits is brought inside it, by the
\* size it had, from where it was last put.  A place below zero is, unsigned, far off.
HandleResize(u, p, parent) ==
  LET place(i) == LET room == parent[i] - u.size[p][i]
                  IN  IF Wish(u, p)[i] > parent[i] THEN 0
                      ELSE IF u.desiredLocation[p][i] \in 0..room THEN u.desiredLocation[p][i] ELSE room
      extent(i) == Min({Wish(u, p)[i], parent[i]})
  IN  [u EXCEPT !.at[p] = <<place(1), place(2)>>, !.size[p] = <<extent(1), extent(2)>>]

\* What an anchor wishes for "ought to be big enough".
BigEnough == 1000000
SetAnchor(u, p, anchor) ==
  LET axis == IF anchor \in {"east", "west"} THEN 1 ELSE 2
  IN  [u EXCEPT !.desiredLocation[p][axis] = IF anchor \in {"east", "south"} THEN BigEnough ELSE 0]

SetScreenSize(u, size) ==
  LET v == HandleResize([u EXCEPT !.screen = size], "statistics", size)
  IN  HandleResize(HandleResize(v, "buttons", v.size["statistics"]), "toolbox", size)

OnMouseExit(u, p) ==
  IF p \in DOMAIN u.drag THEN [u EXCEPT !.drag[p] = NoDrag] ELSE u

Takes(u)   == [u |-> u, taken |-> TRUE]
Refuses(u) == [u |-> u, taken |-> FALSE]

\* MovablePanel::Handle.  The toolbox also takes whatever it does not use, and its
\* brush grows and shrinks with the wheel; the statistics panel lets it pass.
\* (Variant with a mistake: the toolbox lets pass what it does not use.)
PostDragHandle_LetsPass(u, p, e) ==
  IF p = "toolbox" /\ e.kind = "down" /\ e.button \in Wheel /\ u.tool \in BrushableTools
  THEN Takes([u EXCEPT !.brush = IF e.button = "wheel up" THEN @ + 1 ELSE Max({@ - 1, 0})])
  ELSE Refuses(u)
PostDragHandle(u, p, e) ==
  CASE p = "statistics" -> Refuses(u)
    [] p = "toolbox" /\ e.kind = "down" /\ e.button \in Wheel /\ u.tool \in BrushableTools ->
         Takes([u EXCEPT !.brush = IF e.button = "wheel up" THEN @ + 1 ELSE Max({@ - 1, 0})])
    [] OTHER -> Takes(u)
HandleMovable(u, p, e) ==
  CASE e.kind = "down" /\ e.ctrl ->
         Takes([u EXCEPT !.drag[p] = [on |-> TRUE, from |-> e.at, before |-> u.at[p]]])
    [] e.kind = "up" /\ u.drag[p].on -> Takes([u EXCEPT !.drag[p] = NoDrag])
    [] e.kind = "motion" /\ u.drag[p].on ->
         LET to == Moved(e.at, u.drag[p].from, u.drag[p].before)
         IN  Takes([u EXCEPT !.at[p] = to, !.desiredLocation[p] = to])
    [] OTHER -> PostDragHandle(u, p, e)

\* A value of the parameter is a point wide, and the first is at the slider's left.
\* Letting the button up is refused on purpose, for what is underneath.
ParameterOf(u) == CHOOSE element \in u.slider : TRUE
Clamp(value) == Max({Min({value, world.parameterMax}), 0})
HandleSlider(u, e) ==
  LET handle == Moved(<<u.param[ParameterOf(u)], 0>>, <<0, 0>>, GetAbsoluteLocation(u, "slider"))
      drag   == u.drag["slider"]
  IN  CASE e.kind = "down" /\ e.button = "left" /\ e.at = handle ->
             Takes([u EXCEPT !.drag["slider"] =
                      [on |-> TRUE, from |-> e.at[1], before |-> u.param[ParameterOf(u)]]])
        [] e.kind = "up" -> Refuses([u EXCEPT !.drag["slider"] = NoDrag])
        [] e.kind = "motion" /\ drag.on ->
             Takes([u EXCEPT !.param[ParameterOf(u)] = Clamp(drag.before + e.at[1] - drag.from)])
        [] OTHER -> Refuses(u)

\* A slider that is reused keeps its drag.
RebuildControllers(u) ==
  LET v == [u EXCEPT !.slider = {u.primary} \cap DOMAIN u.param]
  IN  HandleResize([v EXCEPT !.size["toolbox"] = Wish(v, "toolbox")], "toolbox", u.screen)

\* The toolbox as it opens.  The elements in hand get no slider by this.
ActivateButton(u, tool) == [u EXCEPT !.tool = tool]
AddButtons(u) ==
  ActivateButton([u EXCEPT !.primary = world.held[1], !.secondary = world.held[2],
                           !.size["toolbox"] = Wish(u, "toolbox")], "pencil")

LoadFromConfigurationPath(u) ==
  LET next == (u.currentPath + 1) % Len(world.files)
      r    == Read(world.registry, [u EXCEPT !.currentPath = next], world.files[next + 1])
  IN  IF world.files = <<>> THEN u
      ELSE [r.u EXCEPT !.status = IF r.result = "failed" THEN "failed" ELSE @]

\* A write that meets an element that is not loaded ends the program.
SaveGrid(u) == IF CannotWrite(world.registry) THEN [u EXCEPT !.status = "failed"] ELSE u

Step(u) == [u EXCEPT !.singleStep = TRUE, !.keyboardPaused = FALSE]
TogglePause(u) == [u EXCEPT !.keyboardPaused = ~@]

\* The buttons of the selected tile do nothing where none is selected.
PauseTile(u) == [u EXCEPT !.disabledTiles = SymDiff(@, {u.selectedTile} \cap TilesOf(u.grid))]
ClearTile(u) == IF u.selectedTile \in TilesOf(u.grid) THEN EmptyTile(u, u.selectedTile) ELSE u

ChooseElement(u, element, button) ==
  RebuildControllers(CASE button = "left" -> [u EXCEPT !.primary = element]
                       [] button = "right" -> [u EXCEPT !.secondary = element]
                       [] OTHER -> u)

\* OnClick of the buttons; the one left is the one to quit.  Chance has it what is hit.
OnClick(u, what, e) ==
  CASE what.does = "tool" -> ActivateButton(u, what.tool)
    [] what.does = "element" -> ChooseElement(u, what.element, e.button)
    [] what.does = "step" -> Step(u)
    [] what.does = "pause" -> TogglePause(u)
    [] what.does = "clear grid" -> Clear(u)
    [] what.does = "clear tile" -> ClearTile(u)
    [] what.does = "pause tile" -> PauseTile(u)
    [] what.does = "nuke" -> RandomNuke(u, e.chance)
    [] what.does = "xray" -> XRay(u, e.chance)
    [] what.does = "save" -> SaveGrid(u)
    [] what.does = "reload" -> LoadFromConfigurationPath(u)
    [] OTHER -> [u EXCEPT !.status = "quit"]

\* AbstractButton::Handle works on the way up, and eats the press.
\* (Variant with a mistake: it lets the press through.)
HandleButton_LetsPress(u, p, e) ==
  IF e.kind = "up" /\ e.button \notin Wheel THEN Takes(OnClick(u, world.buttons[p], e)) ELSE Refuses(u)
HandleButton(u, p, e) ==
  CASE e.kind = "motion" \/ e.button \in Wheel -> Refuses(u)
    [] e.kind = "down" -> Takes(u)
    [] OTHER -> Takes(OnClick(u, world.buttons[p], e))

Handle(u, p, e) ==
  CASE p = "grid" /\ e.kind = "motion" -> Refuses(GridDragged(u, e))
    [] p = "grid" /\ e.kind # "motion" -> Takes(GridPressed(u, e))
    [] p \in Movable -> HandleMovable(u, p, e)
    [] p = "buttons" -> Refuses(u)
    [] p = "slider" -> HandleSlider(u, e)
    [] OTHER -> HandleButton(u, p, e)

\* Panel::Dispatch.  The children are asked before their parent, until one takes the
\* event; the focus is the child that took the last one, and one that loses it is told
\* that the mouse left: that does something to what can be dragged only, and only there
\* the focus is kept.
Unasked(u) == [u |-> u, by |-> NoPanel]
Ask(DispatchTo(_, _, _), answer, child, e) ==
  LET r == DispatchTo(answer.u, child, e)
  IN  IF answer.by # NoPanel THEN answer ELSE [u |-> r.u, by |-> IF r.taken THEN child ELSE NoPanel]
Answered(u, p, e, answer) ==
  LET old == IF p \in DOMAIN u.focus THEN u.focus[p] ELSE NoPanel
      told == IF old \in {NoPanel, answer.by} THEN answer.u ELSE OnMouseExit(answer.u, old)
      v == IF p \in DOMAIN u.focus THEN [told EXCEPT !.focus[p] = answer.by] ELSE answer.u
  IN  IF ~IsVisible(u, p) \/ ~Covers(u, p, e.at) THEN Refuses(u)
      ELSE IF answer.by # NoPanel THEN Takes(v) ELSE Handle(v, p, e)

\* Buttons and the slider are leaves; the toolbox and the driver's buttons have leaves only.
DispatchLeaf(u, p, e) == Answered(u, p, e, Unasked(u))
DispatchInner(u, p, e) ==
  Answered(u, p, e,
    FoldLeft(LAMBDA answer, child : Ask(DispatchLeaf, answer, child, e), Unasked(u), Children(u, p)))
DispatchStatistics(u, p, e) ==
  Answered(u, p, e, Ask(DispatchInner, Unasked(u), "buttons", e))
Dispatch(u, e) ==
  LET first == Ask(DispatchStatistics, Unasked(u), "statistics", e)
  IN  Answered(u, "grid", e, Ask(DispatchInner, first, "toolbox", e))
=============================================================================
