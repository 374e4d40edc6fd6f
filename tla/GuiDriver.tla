----------------------------- MODULE GuiDriver -----------------------------
(***************************************************************************)
(* AbstractGUIDriver: the loop that hands SDL's events to the keyboard and *)
(* to the panels, and between them lets the driver run a frame unless it   *)
(* is paused from the keyboard, by a button or by the mouse being down.    *)
(***************************************************************************)
EXTENDS Panels, Driver

CONSTANTS
  MaxBrush,    \* bound on the size of the brush
  MaxEpochs    \* bound on the number of epochs

VARIABLES
  ui,         \* what the event handlers work on, the grid included
  keys,       \* m_keyboard's m_current
  prevKeys,   \* m_prev, the keys that were down at the last frame
  pointer,    \* where the mouse is
  buttons     \* mouseButtonsDown, wheel and all

input == <<keys, prevKeys, pointer, buttons>>
gui == <<world, ui, input, driver>>

Running == ui.status = "running"
Bounded(u) == u.brush <= MaxBrush /\ \A i \in 1..2 : u.windowTL[i] \in -world.maxShift..world.maxShift

\* Keyboard events only note the key; frames look at it.
KeyDown(k) ==
  /\ Running /\ k \in world.keys \ keys
  /\ keys' = keys \cup {k}
  /\ UNCHANGED <<world, ui, prevKeys, pointer, buttons, driver>>
KeyUp(k) ==
  /\ Running /\ k \in keys
  /\ keys' = keys \ {k}
  /\ UNCHANGED <<world, ui, prevKeys, pointer, buttons, driver>>

\* Chance matters to two of the tools only.
Chances(at) ==
  IF ui.tool \in {"xray", "airbrush"}
  THEN SUBSET (Disc(ClickPointToAtom(ui, at), ui.brush) \cap DOMAIN ui.grid) ELSE {{}}
\* What a button's blast or rays hit, at the sites that are looked at.
ClickChances ==
  LET done == {world.buttons[p].does : p \in {b \in ToSet(world.driverButtons) : Covers(ui, b, pointer)}}
  IN  CASE "nuke" \in done -> {BlastSites(center, radius) : center \in DOMAIN ui.grid, radius \in world.radii}
        [] "xray" \in done -> SUBSET world.alive
        [] OTHER -> {{}}
\* Where a drag began is kept only where there is a ctrl key to make it matter.
Kept(u) ==
  IF "ctrl" \in world.keys THEN u ELSE [u EXCEPT !.dragStart = <<0, 0>>, !.gridStart = <<0, 0>>]
Handled(e) ==
  /\ ui' = Kept(Dispatch(ui, e).u)
  /\ Bounded(ui')
  /\ UNCHANGED <<world, keys, prevKeys, driver>>
ButtonEvent(kind, button, chance) ==
  [kind |-> kind, button |-> button, at |-> pointer, ctrl |-> "ctrl" \in keys, chance |-> chance]

MouseMotion(to) ==
  /\ Running /\ to \in world.reach \ {pointer}
  /\ pointer' = to
  /\ \E chance \in Chances(to) :
       Handled([kind |-> "motion", at |-> to, held |-> buttons, ctrl |-> "ctrl" \in keys, chance |-> chance])
  /\ UNCHANGED buttons
MouseButtonDown(b) ==
  /\ Running /\ b \in world.mouse \ buttons
  /\ buttons' = buttons \cup {b}
  /\ \E chance \in Chances(pointer) : Handled(ButtonEvent("down", b, chance))
  /\ UNCHANGED pointer
MouseButtonUp(b) ==
  /\ Running /\ b \in buttons
  /\ buttons' = buttons \ {b}
  /\ \E chance \in ClickChances : Handled(ButtonEvent("up", b, chance))
  /\ UNCHANGED pointer

\* The user draws at the window's corner.
VideoResize(size) ==
  /\ Running /\ size \in world.screens \ {ui.screen}
  /\ ui' = SetScreenSize(ui, size)
  /\ UNCHANGED <<world, input, driver>>

\* KeyboardUpdate: a key does its work at the first frame that finds it down.
SemiAuto(k) == k \in keys \ prevKeys
When(k, Do(_), u) == IF SemiAuto(k) THEN Do(u) ELSE u
ToggleStatsView(u) == [u EXCEPT !.hidden = SymDiff(@, {"statistics"})]
ToggleToolbox(u) ==
  LET hidden == SymDiff(u.hidden, {"toolbox"})
  IN  [u EXCEPT !.hidden = hidden, !.paintingEnabled = "toolbox" \notin hidden]
DeselectAtomAndTile(u) ==
  [u EXCEPT !.selectedTile = Nowhere, !.selectedAtom = Nowhere, !.viewed = {}, !.cloneOrigin = Nowhere]
ToggleTileSeparation(u) == [u EXCEPT !.separated = ~@]
KeyboardUpdate(u) ==
  When("s", Step, When("space", TogglePause,
    MoveCamera(When("t", ToggleToolbox, When("escape", DeselectAtomAndTile,
      When("p", ToggleTileSeparation, When("i", ToggleStatsView, u)))), keys)))

\* The grid's events during a frame: some atom of a tile that executes may change.
GridRuns(grid) ==
  {grid} \cup {[grid EXCEPT ![pt] = GetDefaultAtom(born)] :
     pt \in {at \in world.alive : TileOf(at) \notin ui.disabledTiles}, born \in world.born}

\* A turn of RunHelper without events: KeyboardUpdate, and Update.
Unpaused(u) == IF u.singleStep THEN [u EXCEPT !.keyboardPaused = FALSE] ELSE u
SavedInFrame(u) ==
  IF (EpochDue /\ Autosaves) \/ Halts THEN SaveGrid(u) ELSE u
AfterFrame(u) ==
  LET v == IF u.singleStep THEN [u EXCEPT !.singleStep = FALSE, !.keyboardPaused = TRUE] ELSE u
      saved == SavedInFrame(v)
  IN  IF Halts /\ saved.status = "running" THEN [saved EXCEPT !.status = "halted"] ELSE saved
Frame ==
  LET u == Unpaused(KeyboardUpdate(ui))
      paused == u.keyboardPaused \/ buttons # {}
  IN  /\ Running /\ Bounded(u)
      /\ prevKeys' = keys
      /\ \/ paused /\ ui' = u /\ UNCHANGED driver
         \/ /\ ~paused
            /\ UpdateGrid
            /\ AEPS' <= world.maxAEPS /\ epochCount' <= MaxEpochs
            /\ \E grid \in GridRuns(u.grid) : ui' = AfterFrame([u EXCEPT !.grid = grid])
      /\ UNCHANGED <<world, keys, pointer, buttons>>

\* OnceOnly and PostReinit: the panels are hidden and at the edges they are anchored to.
OnceOnly ==
  LET u == [grid |-> world.grid, disabledTiles |-> {}, param |-> world.param,
            selectedTile |-> Nowhere, currentPath |-> -1, status |-> "running",
            keyboardPaused |-> world.startPaused, singleStep |-> FALSE,
            hidden |-> {"statistics", "toolbox"}, paintingEnabled |-> FALSE,
            screen |-> world.screen, at |-> [p \in Placed |-> <<0, 0>>],
            size |-> [p \in Placed |-> world.extent[p].size],
            desiredLocation |-> [p \in Placed |-> <<0, 0>>], slider |-> {},
            drag |-> [p \in Movable \cup {"slider"} |-> NoDrag],
            focus |-> [p \in {"grid", "toolbox"} |-> NoPanel],
            tool |-> "selector", primary |-> Empty, secondary |-> Empty, brush |-> world.brush,
            cloneOrigin |-> Nowhere, cloneDestination |-> Nowhere,
            atomSize |-> world.atomSize, windowTL |-> <<0, 0>>, separated |-> FALSE,
            dragStart |-> <<0, 0>>, gridStart |-> <<0, 0>>, selectedAtom |-> Nowhere, viewed |-> {}]
      toolbox == SetAnchor(SetAnchor(u, "toolbox", "west"), "toolbox", "north")
      anchored == SetAnchor(SetAnchor(SetAnchor(toolbox, "statistics", "east"),
                                      "buttons", "south"), "buttons", "east")
  IN  AddButtons(SetScreenSize(anchored, world.screen))

\* What the user did before we look: panels dragged and shown, a tool chosen.
StartingUi ==
  LET Shown(u) == [u EXCEPT !.hidden = @ \ world.shown, !.paintingEnabled = "toolbox" \in world.shown]
      Dragged(u) == [u EXCEPT !.at = world.dragged @@ @, !.desiredLocation = world.dragged @@ @]
  IN  ActivateButton(Dragged(Shown(OnceOnly)), world.tool)
GuiInit(Worlds) ==
  /\ world \in Worlds
  /\ ui = LoadFromConfigurationPath(StartingUi)   \* a world's file has been read by then
  /\ keys = {} /\ prevKeys = {} /\ buttons = {}
  /\ pointer = world.pointer
  /\ DriverInit

GuiNext ==
  \/ \E k \in world.keys : KeyDown(k) \/ KeyUp(k)
  \/ \E to \in world.reach : MouseMotion(to)
  \/ \E b \in world.mouse : MouseButtonDown(b) \/ MouseButtonUp(b)
  \/ \E size \in world.screens : VideoResize(size)
  \/ Frame

\* What a simulation starts from: atoms at sites of a grid, registered elements each found
\* once, and parameters of theirs; and sequences where the program has lists.
IsSequence(list) == Len(list) \in Nat /\ list = [k \in 1..Len(list) |-> list[k]]
LegalWorld(w) ==
  /\ IsFiniteSet(DOMAIN w.grid) /\ DOMAIN w.grid \subseteq Int \X Int
  /\ w.grid = [pt \in DOMAIN w.grid |-> [type |-> w.grid[pt].type, bits |-> w.grid[pt].bits]]
  /\ w.param = [e \in DOMAIN w.param |-> w.param[e]]
  /\ DOMAIN w.param \subseteq {w.registry[k].uuid : k \in DOMAIN w.registry}
  /\ \A j, k \in DOMAIN w.registry : w.registry[j].uuid = w.registry[k].uuid => j = k
  /\ IsSequence(w.registry) /\ IsSequence(w.driverButtons) /\ IsSequence(w.toolButtons)
  /\ IsSequence(w.files) /\ \A k \in DOMAIN w.files : IsSequence(w.files[k])

\* A state that is saved can be loaded: where every element of the grid is in the
\* registry and loaded, reading what Write writes puts a fresh simulation into the
\* same state, parameters and halted tiles included (ExternalConfig's Write and Read).
RoundTrip ==
  /\ StatesOf(world.registry, StartingUi, ui)
  /\ Savable(world.registry, ui) =>
       Restores(Read(world.registry, StartingUi, Write(world.registry, ui)), ui)

\* The connected sites of one type around a site.
Region(start) ==
  LET same == {pt \in DOMAIN ui.grid : ui.grid[pt].type = ui.grid[start].type}
      grow(S, n) == S \cup (same \cap UNION {ToSet(AroundInOrder(pt)) : pt \in S})
  IN  FoldLeft(grow, {start}, [n \in 1..Cardinality(same) |-> n])

\* Where the mouse points at, the grid going on for ever.
PointedAt(u, at) ==
  LET d == Moved(at, u.windowTL, <<0, 0>>) IN <<d[1] \div u.atomSize, d[2] \div u.atomSize>>

\* What the tool in hand may change at a pixel, given what did change.
Aimed(changed, at) ==
  CASE ui.tool = "bucket" ->
         \E start \in DrawnAt(ui, at) :
           LET region == Region(start)
           IN  /\ start \in changed /\ changed \subseteq region
               /\ Cardinality(region) <= MAX_BUCKET_FILL_DEPTH + 1 => changed = region
               /\ \A pt \in changed : ui'.grid[pt].type \in {ui.primary, ui.secondary}
    [] ui.tool = "pencil" -> changed = DrawnAt(ui, at)
    [] ui.tool = "clone" /\ ui.brush = 0 -> changed = DrawnAt(ui, at)
    [] OTHER -> changed \subseteq Disc(PointedAt(ui, at), Max({ui.brush, 1}))

MouseStep == <<pointer, buttons>>' # <<pointer, buttons>>
OnButton(p) ==
  /\ p \in ToSet(world.driverButtons) /\ IsVisible(ui, "statistics")
  /\ \A panel \in {"statistics", "buttons", p} : Covers(ui, panel, pointer)
Clicked(p) == buttons' \subseteq buttons /\ OnButton(p)

\* The mouse changes the grid where it is pointed, in whatever order buttons, keys and
\* motions come, however the grid is drawn and wherever a panel has been dragged: an edit
\* is a click on a button that makes one, or one of the tool in hand, at sites it reaches
\* from a pointer that is outside the toolbox and not pressed on a button, and none is made
\* with ctrl down, the toolbox away or the tiles apart (Panel::Dispatch, GridPanel::Handle).
\* The statistics panel does let presses beside its buttons, and motions, through to the
\* grid.  A comment in it says it eats them to keep the grid from taking them, but that is
\* in a HandlePostDrag (AbstractGUIDriver.h:1012) which nothing calls: a MovablePanel calls
\* PostDragHandle.  What the pointer is on stays under it when atoms are drawn larger or
\* smaller (TileRenderer::ChangeAtomSize).
EditAimed ==
  LET changed == {pt \in DOMAIN ui.grid : ui'.grid[pt] # ui.grid[pt]}
      editing == {"clear grid", "clear tile", "nuke", "xray", "reload"}
      pressed == buttons' # buttons
  IN  (MouseStep /\ changed # {}) =>
        \/ \E p \in DOMAIN world.buttons : Clicked(p) /\ world.buttons[p].does \in editing
        \/ /\ "toolbox" \notin ui.hidden /\ ~Covers(ui, "toolbox", pointer') /\ ~ui.separated
           /\ pressed => ~\E p \in DOMAIN world.buttons : OnButton(p)
           /\ "ctrl" \notin keys /\ buttons' \cap {"left", "right"} # {}
           /\ Aimed(changed, pointer')
ZoomsAround ==
  (ui'.atomSize # ui.atomSize /\ DrawnAt(ui, pointer) # {}) =>
    DrawnAt(ui', pointer) = DrawnAt(ui, pointer)
EditsAsAimed == [][EditAimed /\ ZoomsAround]_gui
=============================================================================
