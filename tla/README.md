# Verification of the Movable Feast Machine simulator

The repository simulates a *movable feast machine*: a grid of tiles, each with a
thread of its own, whose sites hold atoms. An *event* picks a site, runs the
behaviour of the atom there on the sites around it (its *event window*), and
changes them. Tiles overlap: a band around each tile (its *cache*) is a copy of
sites that its neighbours own. The code that keeps those copies and the
tiles' events from getting in each other's way is the core of the program and
of this project.

Paths below are relative to `src/src/`.

## Parts of the system

| Part | State | Operations | What makes it correct |
| --- | --- | --- | --- |
| Tile geometry (`core/include/Dirs.h`, `Tile.tcc`) | none | regions, neighbours, coordinates | regions name exactly the connections that an event must lock and its sites must be sent over |
| Tile event protocol (`core/include/Tile.tcc`) | atoms with caches, locks held, directions waited for, generation | `Execute`, `LockRegion`, `SendRelevantAtoms`, `SendEndEventPackets`, `FlushAndWaitOnAllBuffers`, `ReceivePacket`, `UnlockRegion` | events never share a site, copies agree, no assert fails, locks are released |
| Connection (`core/include/Connection.h`) | a mutex, a buffer each way | `Lock`, `Unlock`, `Read`, `Write` | one holder; packets in order |
| Connection buffer (`core/src/ThreadQueue.cpp`) | ring of bytes, read and write heads | `Write`, `Read`, `ReadBlocking`, `PeekRead`, `Flush` | a queue of bytes; never overrun |
| Mutex (`core/include/Mutex.h`) | holder, flag | `Lock`, `TryLock`, `Unlock`, `CondWait` | the recorded holder is the real one where it is read |
| Thread pauser (`core/include/ThreadPauser.h`, `core/src/ThreadPauser.cpp`) | one of six states | requests and answers of the driver and of a tile's thread | every request is answered; a paused grid is at rest |
| Grid (`sim/include/Grid.tcc`) | tiles, neighbour links | `Reinit`, `Clear`, `PlaceAtom`, `Pause`, `Unpause`, `CheckCaches` | edits reach every copy; pausing reaches every tile |
| Event window and scanner (`core/include/EventWindow.tcc`, `WindowScanner.tcc`, `MDist.tcc`) | centre, symmetry | reads, writes and swaps by relative position, searches | writes stay in the window; those to dead sites are dropped |
| Elements (`elements/include/`) | the bits of their atoms | one behaviour each | each family keeps what it says: atoms are moved and not lost, gold is paid, inflammation ends |
| Counters (`Tile.tcc`) | atoms per type | increments, recounts | the counts are the sums they stand for |
| Element table (`core/include/ElementTable.tcc`, `StaticLoader.tcc`) | types given out, hash table by type, data slots | `NextType`, `Insert`, `SlotFor`, `GetDataAndRegister`, `Reinit` | what was registered is found, searches end, data is apart |
| Driver (`sim/include/AbstractDriver.h`) | AEPS, epochs, acceleration | `UpdateGrid`, `CheckEpochProcessing`, `DoEpochEvents` | each epoch is processed once, and when the options say |
| Programs (`drivers/`, `VArguments.cpp`, `AbstractDriver.h`, `ElementRegistry.tcc`, `ElementLibraryLoader`) | what the command line set, the simulation's directories, the elements needed and registered | switches and their handlers, making directories, finding and loading libraries | the switches have the effect they name, no two simulations share a directory, what is loaded is registered |
| Configuration (`sim/include/ExternalConfig.tcc`, `ExternalConfigFunctions.tcc`, `ElementRegistry.tcc`) | the elements a file has named | `Write`, `Read`, element lookup | what is saved can be loaded |
| Interface (`gui/`) | keys, pointer, panels, tool and brush | mouse and keyboard events, frames, buttons, tools | an edit happens where the mouse is pointed, and not through the toolbox or a button |
| Atoms and parameters (`BitVector.tcc`, `BitField.h`, `P3Atom.h`, `Parity2D_4x4.h`, `VD.tcc`, `Parameter.h`, `NeighborSelectPanel.h`) | bits; a parameter's bits and the panels that show it | fields read and written, radiation, checking and correction; set, print, read, click | fields do not disturb each other, wrong bits never pass for another type within the code's reach, what is printed reads back |
| Text (`ByteSink.cpp`, `ByteSource.cpp`, `LineTailByteSink.h`, `OverflowableCharBufferByteSink.h`) | bytes, where a source is, the lines kept | `Printf`, `Scanf`, leximited numbers, `Read`, `Unread` | what is printed scans back, sources keep their place, the last lines are kept |
| Random numbers, platforms | various | various | pure functions or I/O |

A tile's thread and its neighbours' threads interact only through the
connections: a mutex per connection, tried and never waited for, and a buffer
each way. The driver's thread interacts with a tile's only through the pauser,
and touches a tile's atoms only when every thread is stopped.

What is hard here: tiles at a corner lock three connections in an order that
depends on the corner; a tile that waits for its acknowledgments must serve its
neighbours in the same loop; an event at a corner is seen by up to three other
tiles, two of which share no face with each other's; nothing but the order of
locking, sending and acknowledging keeps the copies equal.

## Modules

The event protocol:

- `TileGeometry`: pure definitions. Directions, regions, windows, connections,
  which are locked, where a site is sent. Parameters: radius `R`,
  `TILE_WIDTH`, and the size of the grid.
- `EventBehaviour`: what a behaviour leaves of a window: which sites it has given an atom
  of its own, which one that was elsewhere in the window, and whether it FAILs in the end,
  which erases the centre besides. Any number of writes and swaps in one event comes to that.
- `SharedGrid`: the abstract specification. One grid of sites; events at windows
  that share no site may be in progress at once, each changes its window in one
  step, and the driver clears and edits while none is in progress.
- `TileEvents`: the protocol, one action per operation of a tile's thread and
  of the driver. Extends the first two; `Grid` in it instantiates `SharedGrid`.
- `MCTileEvents`: the sets that the configurations use.
- `TileEventsProofs`: the geometry of windows and locks, the protocol's invariant, the
  copies of a site, the buffers and the refinement of `SharedGrid`.

Pausing:

- `StopTheWorld`: the abstract specification. The world is stopped only while no
  event is in progress, and no event begins while it is.
- `PauseProtocol`: the thread pausers, `Grid::DoTileControl` and `UpdateGrid`'s
  alternation of `Unpause` and `Pause`, with the condition variables. An event
  is here only the connections it holds and the neighbours that owe it an
  acknowledgment. `World` in it instantiates `StopTheWorld`.
- `MCPauseProtocol`, `PauseProtocolProofs`.

Connection buffers:

- `ByteQueue`: the abstract specification. A queue of bytes of bounded length,
  and a reader whose call may be given its bytes in several portions.
- `ThreadQueue`: the ring. `Fifo` in it instantiates `ByteQueue`.
- `ThreadQueueProofs`.

What runs inside an event:

- `EventWindow`: relative positions, the eight symmetries, the rings of `MDist`,
  live sites, `SetRelativeAtom`, `SwapAtoms`, the scanner's searches, `Diffuse`.
- `RegulatorElements`, `SortingElements`, `WatorElements`, `TribalElements`,
  `CrystalElements`: the `Behavior` of each element of `src/elements`, as the set of
  the states it may leave the window in. `BarElements` has those of the demo driver
  `drivers/mfmdha` that compile (its mover and its bars, which pack two coordinates into
  seven and five bits) and of the plug-in `MQBar`.
- `TilePhysics`: a tile that executes them one event at a time, with `PlaceAtom`'s
  counting, background radiation, `XRay`, atoms that arrive in the cache, and
  `RecountAtomsIfNeeded`. `MCTilePhysics` draws the worlds.
- `TilePhysicsProofs`: that in every world the counts are kept, the fields stay in bounds
  and each family of elements keeps what it is meant to.

`TileEvents` is about any behaviour and `TilePhysics` about these: what one calls an
event in progress, atomic by `ImplementsSharedGrid`, is a step of the other.

The services around the grid:

- `ElementTable`: types and the table of them; `LookupProofs`, with the searches of
  `WindowScanner`.
- `GridView`: where the grid is on the screen as it is moved, zoomed and taken apart, and
  what each of the code's ways of asking makes of a pixel. `GridPainting` extends it with
  the editing tools, `BucketFill` included, and `Configuration` with `ExternalConfig`'s
  `Write` and `Read`. `Panels` extends both with the tree of panels, `HandleResize`,
  `Dispatch` and the handlers of the toolbox, slider, buttons and movable panels. All are
  operators on one record of what the interface works on.
- `Driver`: frames and epochs; `DriverProofs`, with what `Configuration` saves and what the
  interface does to it. `FoldProofs` has the lemmas about folds and sums that this,
  `LookupProofs`, `TilePhysicsProofs` and `StartupProofs` rest on.
- `GuiDriver`: extends `Panels` and `Driver`: how the interface opens, and the loop of
  SDL's events and frames.
- `Atoms`: the units and fields of a bit vector, the header with its type and parity, and
  what radiation and correction make of it. `Parameters` extends it: parameters in an
  element's storage, their text, and the toolbox's sliders, check boxes and neighbourhood.
- `ByteStreams`: printing and scanning of numbers, sources, and the sinks that keep the
  last lines or as much as they hold.
- `Startup`: each driver's command line, element list, libraries, registry and
  simulation directory, for programs that start on one machine; `StartupProofs`.
- `WindowScanner`: the tables of `MDist` and the scanner's queries, those with several
  sub-windows included, which no element uses.
- `MCServices`: the screens, files and command lines. A run is of one of these parts, as
  they do not meet.

Of the modules about tiles, `TileEvents` uses those of pausing and of buffers by what they promise. Its buffers are queues of
whole packets, which is `ByteQueue` with reads that are whole (`ReadsAreWhole`) and
writes that fit (`BuffersFit`, below). Its `Stopped`, under which the driver clears
and edits, is "no tile has an event", which is `StopTheWorld`; it is no stronger: a
tile may still be in a last pass over its buffers when `Pause` returns.

### How TileEvents corresponds to the code

| Variable | In the code |
| --- | --- |
| `atoms[t]` | `Tile::m_atoms`, at the sites followed (`Watched`) |
| `generation[t]` | `Tile::m_generation`, eight bits (`GENERATIONS` values) |
| `lock`, `iLocked[t]` | the mutex of each `Connection`, and `Tile::m_iLocked` |
| `queue[t][d]` | the buffer that tile `t` reads from direction `d` |
| `pc`, `center`, `region`, `step`, `outbox`, `owed`, `waitWord`, `scan` | the locals of `Execute`, `DoEvent`, `SendRelevantAtoms` and `FlushAndWaitOnAllBuffers` |

| Action | In `Tile.tcc`, unless said otherwise |
| --- | --- |
| `CreateRandomWindow` | `Execute` in RUNNING: the window, and whether it needs locks |
| `TryLock`, `LockBusy`, `Unwind` | `TryLock` and `TryLockCorner`, one connection at a time |
| `Execute` | `DoEvent` up to `SendRelevantAtoms` |
| `SendAtom`, `SendEndEventPacket` | one packet each |
| `StartFlush`, `ReadPacket`, `ScanNext`, `EndPass` | `FlushAndWaitOnAllBuffers`, one read at a time; also the mop-up of a tile that is idle or about to pause |
| `Unlock` | `UnlockRegion`, one connection at a time |
| `Clear`, `Edit` | `Grid::Clear`, `Grid::PlaceAtom`, while no tile has an event |

Each step touches shared state at most once (one try of a mutex, one write to or
read of a buffer), so every interleaving of the threads that the code can show
is an interleaving of steps. `Window`, `SendDirs` and the locks are
computed for every site of a window; atoms and packets are kept only for the
sites in `Watched`, which the protocol's control never looks at.

### How PauseProtocol corresponds to the code

| Variable | In the code |
| --- | --- |
| `state[t]` | `ThreadPauser::m_threadState` |
| `signalled`, `marked` | which condition waits have been signalled; `Mutex::m_locked` while its thread waits |
| `pc[t]`, `cur[t]` | where `Tile::Execute`'s loop is, and its `curState` |
| `held[t]`, `unserved[t]` | the connections locked by tile `t`'s event; `dirWaitWord` |
| `needRecount[t]` | `Tile::m_needRecount` |
| `control`, `phase`, `next`, `notReady` | the control that `DoTileControl` is carrying out, which of its loops it is in, the tile that loop has come to, and `notReady` |

| Action | In the code |
| --- | --- |
| `BeginControl` | `AbstractDriver::UpdateGrid`: `Unpause`, the sleep, `Pause` |
| `CreateThread`, `MakeRequest` | `Tile::Start`, `RequestPause` (`Grid.h`, `Grid.tcc:263`) |
| `CheckIfReady`, `GiveUp` | the polling loop and its limit (`Grid.tcc:276`) |
| `ExecuteControl` | `Tile::Run`, `Tile::Pause` (`Grid.tcc:326`) |
| `RecountAtomsIfNeeded` | the top of `Tile::Execute`'s loop |
| `GetStateBlockingInner`, `Wake`, `WakeMarked` | `GetAdvanceStateInner(false)` with the two condition waits; `Mutex::CondWait`'s check of `m_locked` |
| `AdvanceStateInner` | `GetAdvanceStateInner(true)` |
| `StartEvent`, `FailToLock`, `FlushInEvent`, `FinishEvent` | `Tile::Execute` in RUNNING, `DoEvent` |
| `FlushBetweenEvents` | `Tile::Execute` in PAUSE_READY, or in RUNNING without own events |

A call of the pauser holds its mutex throughout and is one step; waiting divides
it in two. A thread acts on `cur` after it has released the mutex, so the driver
may move `state` in between.

### How ThreadQueue corresponds to the code

`m_queueData`, `m_writeHead`, `m_readHead` and `m_heldBytes` are the members of those
names. `reader`, `wanted` and `received` are the call that the reading thread is
in; `signalled` is its condition variable. Every call that holds the mutex is one
step (`Write`, `ReadLocked`, `ReadBlocking`, `PeekRead`, `BytesAvailable`, `Flush`); `Read` is
two, because it looks at `m_heldBytes` first without the mutex (`ThreadQueue.cpp:83`), and
`ReadBlocking` goes on in `Wake` after a wait. `m_locked` is the mutex's flag, which a thread
that waits leaves TRUE until somebody else has had the mutex: a wait that returns before that
FAILs in `CondWait` (`WakeUnasked`), and one that returns later, unasked, goes on waiting. The array begins uninitialised in the
code; here it begins with the value `Dead` that a byte is given when it is read, since
neither is a byte that was written. Two facts about the callers are built in: a
connection's direction has one reader, and the reader does not call `Flush` while it
is in `ReadBlocking`. `Write` never waits: `ThreadQueue.h:138` says that it
does, but `ThreadQueue.cpp:26` FAILs when there is no room (`WriteOverload`), and
`BuffersFit` is why that never happens.

### How the services correspond to the code

| Variable | In the code |
| --- | --- |
| `typeOf`, `counter` | the types in `StaticLoader`'s registry, and its `m_counter` |
| `hash`, `inUse`, `start`, `length`, `nextFree` | the members of `ElementTable` of like names |
| `options` | what the command line sets: `m_AEPSPerEpoch`, `m_accelerateAfterEpochs`, `m_surgeAfterEpochs`, `m_autosavePerEpochs`, `m_haltAfterAEPS` |
| `AEPS`, `nextEpochAEPS`, `epochCount`, `AEPSPerEpoch`, `acceleration` | the members of `AbstractDriver` of those names |
| `ui.grid`, `ui.disabledTiles`, `ui.param` | the grid's atoms, its execute-only tiles, the elements' parameters |
| `ui.screen`, `ui.at`, `ui.size`, `ui.desiredLocation`, `ui.drag`, `ui.focus`, `ui.hidden` | the window's size; of the panels: `m_rect`, `m_desiredLocation`, `m_dragging` with where it began, `m_focusedChild`, `m_visible` |
| `ui.atomSize`, `ui.windowTL`, `ui.separated`, `ui.dragStart`, `ui.gridStart` | `TileRenderer`'s and `GridRenderer`'s atom size, origin and `m_separateTiles`; `GridPanel`'s `m_leftButtonDragStart` and `m_leftButtonGridStart` |
| `ui.selectedTile`, `ui.selectedAtom`, `ui.viewed` | `GridRenderer`'s two; whether the atom panel has an atom to show |
| `ui.tool`, `ui.primary`, `ui.secondary`, `ui.brush`, `ui.cloneOrigin` ... | the members of `ToolboxPanel` and `GridPanel` |
| `keys`, `prevKeys`, `buttons` | `Keyboard`'s two arrays; `mouseButtonsDown` of `RunHelper` |
| `world` | what does not change in a run: what panels wish for, the files, the registry, and which keys, buttons and pixels are tried |
| `m_bits`, `type`, `held`, `hit` | an atom's bits, and what was stored in it, type and fields, with the bits that radiation flipped since |
| `parms`, `m_storage`, `controllers`, `m_bitField`, `stale` | an `ElementParameters`, the bits its values are in, the toolbox's controllers, `NeighborSelectPanel`'s copy and whether it is behind |
| `printed`; `source`; `tail`, `written` | a number's text; a `ByteSource` with what was read; a `LineTailByteSink` with all that went into it |
| `programs`, `simulations`, `now` | each program's members as its switches set them, the directories made, the second in which it is |
| `dist`, `view`, `query`, `search` | `MDist`'s tables; a window on a grid; a scanner's query and its answer |

| Action | In the code |
| --- | --- |
| `Needed`, `GetDataAndRegister`, `Reinit` | `Grid::Needed`; an event that asks for its element's data; `Tile::Reinit` |
| `KeyDown`, `KeyUp`, `MouseMotion`, `MouseButtonDown`, `MouseButtonUp` | one SDL event in `AbstractGUIDriver::RunHelper`, with all of `Panel::Dispatch` |
| `VideoResize` | the event of that name, with `SetScreenSize` and all of `HandleResize` |
| `Frame` | the rest of the loop: `KeyboardUpdate`, `Update`, epochs, halting |

An event is a step because the loop handles one after another on one thread, and the
grid is paused whenever it does. All handlers are operators from the interface's
record to itself, as the order in which `Dispatch` asks panels is what matters. Its
first state is made by `OnceOnly` (with `--nohelp`: the help panel, open otherwise, is left
out), which leaves the panels hidden at the edges they are anchored to; most worlds
then let the user have shown and dragged them, so that the grid is in reach. Where a
drag of the grid began is kept only in worlds that have a ctrl key (`Kept`), since nothing
else looks at it, and the grid may be moved by `world.maxShift` pixels at most.

## Runs

With `R = 1` and `TILE_WIDTH = 7` a tile owns 5 x 5 sites, one of them hidden:
the smallest tile with every region. The real sizes are `R = 4` and
`TILE_WIDTH = 40`; the theorems are for all sizes.

- `row`: three tiles in a row, all of them executing, clears and edits between
  events. The middle tile may be serving one neighbour while it waits for the
  other. All the safety properties and the refinement of `SharedGrid`.
  `WindowUndisturbed` follows a window from its choice to the last lock given up: the
  tile's copy changes by its own behaviour only, and from the last lock taken to the last
  acknowledgment no other tile changes its copy of a site there but to the window's atom.
  `BuffersFit` says that a buffer holds at most one packet per site of a window
  and one more. With `R = 4` a window has 41 sites, and 42 packets of about
  20 bytes fit in the 2048 bytes of a buffer: this answers the question
  in the comment at `ThreadQueue.h:34` ("How big does this actually need to be?").
- `row_live`: the same tiles under `FairSpec`; every lock taken is released.
- `corner`: four tiles round a point, three of them executing at the corner that all
  four hold a copy of, two of which share no face and only the corner's connection. An
  event tries three connections, and gives back those it got when one is busy: here, not
  in `row`, locks are unwound. The copies agree, events are apart, and `SharedGrid` is
  implemented.
- `pause`: three tiles, all of them neighbours, in the worst setting: the driver's
  sleep may be shorter than a wakeup, waits may return spuriously, and polling may
  come to its limit at any time. Asserts hold, a tile is PAUSED only in a quiet
  grid, and `StopTheWorld` is implemented, until a FAIL ends the program.
- `pause_live`: three tiles in a row, sleeps that outlast wakeups, no spurious
  wakeups, polling without a limit. Nothing FAILs, no wakeup is lost, and every
  `Pause` and `Unpause` returns.
- `queue`: a ring of three bytes, two values of a byte, every call with every length
  from one to three. The heads go round, the ring is full and empty in turn, and
  a blocked reader is given its bytes in up to three portions and may wake unasked. More
  bytes add no case: the theorems hold for any size.

- `physics`: little worlds of up to nine sites, each with the elements that act upon
  each other. What each family keeps: sums of data, matter of crystals, wealth of the
  tribes (gold, bases and infantry at their prices), sharks' energy, what movers carry
  and, under fairness, the end of an inflammation and of made-up counts in a stack; and
  that `m_atomCount` is right whenever no recount is pending, under radiation and
  atoms from other tiles. Bounds: `MaxTally`, `MaxExhaust` and `MaxDrift` cut off
  counters of the elements, one write of an event is irradiated at most, and the
  elements' own parameters are small. A behaviour sees only its window, and each world
  holds all the kinds of atoms that the behaviour tells apart; that includes a Mine with an
  exhaustion of zero, which asks for odds of one in none and so FAILs and is erased.
- `services`: nine parts, each on its own.
  The element table at the program's own size (253 slots, 16-bit types) up to
  the last element it takes, in the order elements are first needed, with a `Reinit` on the
  way, after which those that have types come back in any order. Besides the invariant that
  is proved (`TableInv`), `LookupsSound` says that the probes of every type reach an empty
  slot: triangular probes modulo 253 reach only 72 of the slots, so this depends on the types
  that `NextType` happens to make. It also says of the window scanner that each site is found
  at its distance and by its direction, and that any site that fits is as likely.
  Epochs under 144 command lines, with lengths from -2 on and words of four bits, so that
  they wrap. Worlds of the interface over a grid of two tiles of four sites: pausing and stepping, each tool, the wheel and the toolbox toggled,
  tools and elements chosen, the toolbox dragged, the slider, the grid dragged, moved by
  keys, zoomed and taken apart, the panels as they open and as the screen is made smaller,
  a nuke and rays, loading of files
  that are good, malformed, of unknown or older elements or off the grid, and saving.
  `EpochSchedule` compares the running sums of
  `CheckEpochProcessing` with the schedule in closed form; `RoundTrip` writes each state
  and reads it back; `EditsAsAimed` is about every order of presses, motions, keys and
  drags: an edit happens at the sites drawn under the pointer, never from the toolbox and never
  by a press on a button, and zooming keeps what is there. It does not forbid edits through
  the rest of the statistics panel, which the code makes (below). Bounds: `MaxBrush`, `MaxEpochs`, and per world the AEPS it runs for. The bucket's
  depth is 4 rather than 10000, so that regions larger than it occur.
  Atoms of 36 bits in units of 12, with fields of every kind across the units' edges and up
  to two bits hit by radiation, and parameters of every kind, set, clicked, printed
  and read back with 13 texts good and bad (`BitsKept`); numbers of 16 bits in every
  format and with widths they fit in and do not, scanned one by one and by `Vscanf` where its
  directives can, sources of four texts, three lines of four bytes (`TextKept`); programs
  started under 225 command lines, with libraries that cannot be loaded, elements no driver
  needs and paths of every length that matters: their options are what their switches say
  (`TextKept` again), their elements and first atoms are in order (`ElementsKept`), and of
  nine pairs on one machine, in the same or in different seconds, no two share a directory
  (`OwnDirectories`).

Four runs find what the code says of itself violated.

- `pause_short_sleep`: `ThreadPauser.h` says that after `Run` the tile's thread is
  awake. The thread waits for `state == RUNNING`. If it has not had the mutex
  again by the time the driver asks for a pause, the state is PAUSE_REQUESTED, the
  predicate is false, and the thread waits for ever; `DoTileControl` polls 25000
  times and FAILs. What prevents it is the sleep in `UpdateGrid`
  (`AbstractDriver.h:251`, at least 1000 microseconds), which is the assumption
  `SleepsEnough` of `pause_live`.
- `queue_peek`: `PeekRead` takes its position round the ring after each byte, but not
  before the first. When the index lies past the end of the array, the first
  byte is read from beyond it. `ReportIfBuffersAreNonEmpty` is its only caller.
- `queue_short_read`: `ThreadQueue.h:168` says that `Read` "reads as many bytes as possible
  from the underlying queue, up to the specified limit, before returning". With fewer bytes
  held than it is asked for it reads none (`ThreadQueue.cpp:83`). The code's own comment there
  ("Bail if there aren't enough bytes to read") and its callers, which FAIL on a part of a
  packet, want it so: that is `ReadsAreWhole`, which holds.
- `physics_turned`: the symmetry that a bar or a crystal sets for its event stays in
  the tile's window, so that the next event of a Dmover, which says that it moves
  southern atoms north, moves them sideways.

Read while modelling, and not made a run:

- Threads. `CondWait` FAILs on a spurious wakeup because
  `m_locked` is still TRUE (`Mutex.h:68`), although `WaitForCondition` loops as if
  one were harmless; that is `WakeMarked` and `WakeUnasked`, and why `pause_live` assumes that there are
  none. `DoEvent` counts lock types in `m_regionEvents` (`Tile.tcc:991`). A thread in
  PAUSE_READY goes round `Execute`'s loop once more after `Pause` has returned, and
  `RecountAtomsIfNeeded` is at its top, while the driver may already be editing.
- Mouse and screen. The statistics panel's handler that is to "eat the event to keep the
  grid from taking it" is named `HandlePostDrag` (`AbstractGUIDriver.h:1012`) and so is never
  called, since a `MovablePanel` calls `PostDragHandle`: tools paint under that panel wherever
  none of its buttons is. `EditsAsAimed` therefore says nothing of it. `SelectTile` takes a tile's first line of pixels for
  the tile before it (`GridRenderer.tcc:147`), so that the selectors are off by that line,
  and painting is not. Clicks left of the grid miss its first column only because
  `ClickPointToAtom` divides unsigned numbers. A drag of the grid with ctrl goes on from
  where the left button last went down on the grid, and it jumps when that press was on
  a panel; what is zoomed during a drag is undone by the next motion. A panel that was cut
  to a small screen is brought back by the size it had (`Panel.cpp:277`), and may then stand
  out over the edge. `--startwithoutgrid` shows the statistics panel before `OnceOnly`
  hides it.
- Parameters. An unsigned parameter FAILs when it is saved (`Parameter.h:575` prints with
  "%u", which `Vprintf` has not), and when its element is chosen in the toolbox
  (`RebuildControllers`). A checked box stores -1, which `SetBitsAsS32` clamps to the least
  value: Fish's "evo" can never be checked. A neighbourhood's panel does not notice that a
  file was loaded under it.
- Text. `Vscanf` takes a directive's width for the most characters to read, sign and spaces
  included, where `Printf` pads to it: a longer number printed and scanned by one format comes
  back as its first characters. Leximited numbers are printed and have no directive to scan:
  a FAIL (`ByteSource.cpp:376`).
- Files and starting. Saving goes through every entry of the registry and FAILs on one
  that is not loaded (`ExternalConfig.tcc:104`). A file that stops being readable halfway
  leaves the grid as far as it got (`AbstractDriver.h:786`). Directories' paths are let
  pass up to 900 bytes and put into a buffer of 500. Two programs started within a second
  with one data directory choose the same name, and the second ends. `-e` and `-a` look
  whether an unsigned number is below zero, so that a negative epoch length is accepted; with
  `--accelerate` or `--surge` epochs then begin, the next one due at a time that has wrapped
  round to about 2^32. An empty argument is a FAIL. A filter accepts
  any end of a spelling; arguments that no filter accepts are ignored. `LegalFilename` accepts
  what follows ".so". `mfmdha` takes its demo from `argv[0]`.
- Elements. `mfmdha`'s mover does not ask whether a site is live, so that it may swap its atom
  over the universe's edge and lose it. `WindowScanner::FillIfEmpty` calls a function that
  does not exist.

Bounds: two atoms (Empty and one more), two generations in `row` (so that they
wrap), one or two sites followed. Three executing tiles in `corner`;
the fourth serves them. Nothing else is bounded: every buffer of `TileEvents` is
as long as it gets, and `PauseProtocol` has no counter (the 25000 passes are
`GivesUp`, a choice).

### Fairness

`FairSpec` of `TileEvents` has weak fairness of each tile's thread: the scheduler runs
every thread. It also has strong fairness of `ScanNext` and of choosing a window that
needs no lock. The second is a property of random choices: every site of a tile
is equally likely. The first is an assumption worth knowing: the inner
`while(Read)` loop of `FlushAndWaitOnAllBuffers` (`Tile.tcc:885`) ends only when
the buffer it empties is seen empty, and a neighbour that finishes one event and
reports another between any two reads could keep it there for ever. With weak
fairness alone TLC finds that behaviour. It needs a reader that is
always slower than a whole event of its neighbour.

`Spec` of `TilePhysics` has strong fairness of `CalmDown`, that an inflamed AntiFork
is picked and happens to spread its level or lose it, and weak fairness of
`LookAlongStack`, that each member of a stack has events: both say of random choices that
what stays possible happens, as the window of every event is chosen at random.

`FairSpec` of `PauseProtocol` has weak fairness of the driver's thread within a
control and of each tile's thread. Beginning the next control is not fair: the
driver may stay away for good.

## Proofs

No theorem has a bound: each holds for every value of the constants that
meets the modules' assumptions (`GeometryAssumption`: the visible bands of a tile do
not overlap; `TilesAssumption`, `BehaviourAssumption`, `PauseAssumption`,
`QueueAssumption`; `WindowAssumption`: the radius is positive; `BombAssumption`: a bomb
reaches no further than the window, as `AbstractElement_ForkBomb` makes sure;
`WorldsAssumption`: a grid has finitely many sites, which are points, those a tile owns are
live, and a table of elements is finite; `DatumAssumption`: there are more values of data than a stack can have members;
`WatorAssumption`, `TribalAssumption`, `TimerAssumption`, `TallyAssumption`: ages, energies,
costs and bounds are natural numbers; `DriverAssumption`: the numbers of the command line are any, negative lengths included, those
kept as u32 are natural numbers, and time only goes on).

`TileEventsProofs` proves first, for every radius and tile width, the two facts about
regions on which everything rests: two windows that share a site lie at a
connection that both regions lock (`OverlapIsLocked`), and every neighbour that a
window's sites are sent to is across a locked connection (`SendsAreLocked`).

It then proves `Spec => []IInv`, for every grid, set of atoms,
behaviours and sites. `IInv` is the conjunction of

- `TypeOK`;
- `EventInv`: per tile, which of the locals each phase uses and how many
  connections it has got to;
- `HeldInv`: `m_iLocked` is what the phase says is held;
- `OwnerInv`: a connection's mutex is held by the tile that has it in `m_iLocked`;
- `Handshake`: on each connection, the packets are those of its holder's
  half-finished exchange;
- `NoStrays`: no packet where there is no connection.

`EventsExclusive` is not inductive: it follows from the locks, which follow from
the phases. From `IInv` follow `EventsExclusive`, `Handshake`,
`AssertsHold` and `StoppedIsClean`.

Its second half adds to `IInv` the invariant `CopyInv`, which says what the packets are
about. `CachesAgree` and `WindowUndisturbed` are not inductive: between an event and its
acknowledgments the copies do differ, and it takes all of these to say by what:

- `GenerationsAgree`: the tiles count the clears alike, so no packet is dropped as one from
  before a clear;
- `OutboxTrue`: what a tile has yet to send is of its window, to tiles it has locked out;
- `TransitTrue`: what has been sent and not read is what the sender's site still holds;
- `Delivered`: a copy whose site is in the window differs from it only while the packet for
  it is still to be sent or to be read;
- `CachesAgree`: any other copy does not differ.

That nobody else writes to a window is `OverlapIsLocked`, used at each step that writes or
takes in a packet. `NoBufferOverflows` counts: `Room` says that what waits on a connection
and what is still to be sent there, sites and completion, are no more than the window has
sites and one, since each site is sent once. `TilesImplementGrid` maps each
step to one of `SharedGrid` or to a stutter: opening a window to `Begin`, the behaviour to
`Happen`, the last acknowledgment to `End`, and the driver's to `Clear` and `Edit`; every
packet is a stutter. It needs `CentersChosen`, that an event is at one of the sites
`CreateRandomWindow` may choose, and that two windows of one grid which share a site share
one that their tiles both see.

`PauseProtocolProofs` proves `Spec => []PInv`, for any number of tiles however they
are connected, and whichever of the three hostile settings apply. `PausedIsQuiet`
alone is not inductive. `PInv` adds `StatesInStep`: in each loop of
`DoTileControl` the tiles before `next` are one state further than those from it
on; and `ThreadsInStep`: what a thread was last told bounds what its state may be
now, and only a tile in RUNNING or PAUSE_REQUESTED has an event. When the last
tile has been found PAUSE_READY every tile is, so none has an event. From `PInv`
follow `AssertsHold`, `PausedIsQuiet` and each step of the refinement of
`StopTheWorld` (`PauseStopsTheWorld`). `WakeupsArrive` proves `NoLostWakeup` where
sleeps are long enough; its own invariant ties what a waiting thread waits for
to whether it has been signalled. `NothingFails` proves `NeverFails` where no wait returns
unsignalled and polling ends: a signal comes from a thread that has locked and unlocked
the waiting thread's mutex, which clears the `m_locked` it left behind, and it is used up
when the thread blocks again.

`ThreadQueueProofs` proves `Spec => []QInv` for rings of any size: the heads are as
far apart as there are bytes held, and every byte held is one that was written and not
yet read. Its arithmetic is in the lemmas about `Slot` and `Place`, which say that
counting forward from a head and counting back are inverse to each other round the
ring. `RingIsQueue` proves the refinement of `ByteQueue`: a write appends
to `Contents`, a read takes from its front.

`LookupProofs` proves `TableSpec => []TableInv` for tables of any size and types of
any width. That every element is found (`RegisteredFound`) is not inductive without
`TypesInv`: were two elements of one type, the second would stop at the first's slot. An
insertion fills the slot at which its own search stopped. The others' searches passed only
slots in use, so none of them passed that slot, and each stops where it did
(`SearchStays`). `DataApart` follows from blocks being given out from the front. That
searches for a type nobody has come to an end depends on the sizes and is left to TLC.

Its second half is about the searches of an event window. `SearchesAreRight` states
`WindowSound` for windows of any radius and kind, turned in any way, and for any types, radii
and lists of points that name none twice (`Askable`). The tables of `MDist` come out of loops
whose results for every radius would take induction over data, so that they are right when
the program starts (`TablesRight`) is an assumption here, and TLC checks it for the radius the
program is compiled with. `WindowInv` follows a search site by site. `Once` says of its list of
sites that the points looked at for a type are those of its area, each one time, which holds
of lists laid end to end since no two are for the same type (`RoundsOnce`). `Evenly` says that
of the n points found so far each is the pick in (n - 1)! of the n! equally likely runs: the
n-th replaces the pick in one run of n, so it is the pick in as many as there were before, and
the others keep theirs n - 1 times as often (`FoundEvenly`). Without it, that all are equally
likely in the end would not be inductive, as it says nothing of how likely.

`FoldProofs` is about the folds of the community modules, whose recursion chooses an order.
Induction is by the least counterexample: a set of naturals without a least member is empty
(`LeastNatural`), so one that has 0 and each successor is `Nat` (`Induction`). With it,
`FoldExists` builds the function a fold's recursion describes, without which nothing can be
said of it; `FoldStays` says that a fold keeps to what each of its steps keeps to; and for
sums, that the order does not matter (`SumsCommute`), that an index adds its value
(`SumTakes`), and that the numbers of each kind add up (`KindsAddUp`). `FoldCommutes` says of
other folds whose steps commute that any step may come last. Folds over sequences take the
members in order whatever their step is (`FoldTakesAll`), and keep what each step keeps
(`FoldKeeps`): the step and what is kept are constant operators of the module, so that a
module that uses these lemmas instantiates it, once for each fold, and cites the instance's.

`DriverProofs` proves `EpochsKeepSchedule`, `DriverSpec => []EpochSchedule`. Every action of
`GuiDriver` but `UpdateGrid` leaves the variables of `Driver` as they are, so `DriverSpec` is
what it does to them. `DriverInv` adds what the schedule itself does not mention: that the
acceleration in hand is the one of the epoch to come. The schedule is in closed form over the
integers; the code keeps the next epoch's time in a u32 and its length in an s32, and that
low bits of a sum are those of the sum of low bits is `SumOfWords`, for words of any size
(`U32`, 2^32 in the code and 16 in the run). The epoch count and the acceleration are u32 too,
and are not cut off: they would have to pass 2^32.

It also proves `SavedStateIsRestored`: for grids, registries and parameters of any size, what
`Write` writes of a state, `Read` restores in a fresh program. `StatesOf` says of which states:
no library was found twice, an atom is a type and bits, and the fresh program has the same
grid and has halted no other tiles. `Savable` says that every element of the grid is
registered and loaded and that the registry fits in a file. An Empty atom is not written,
and comes back with its default bits (`Saved`). Both `Write`'s `FlattenSeq` and `Read`'s
`FoldLeft` are recursions, so the proof first shows that reading goes call by call
(`ReadsAll`) and that files may be read one after the other (`ReadsOn`). `Holds` then says
how far it has come: the first k elements are registered under their numbers (`Registers`)
and their parameters set (`ParametersAreSet`), then the first i atoms are put
(`AtomsArePut`), then tiles are halted (`TilesAreHalted`). An element's number names it in
the file because it was registered at that place (`NamesAreUsed`), and `Rows` leaves no site
out because no two sites have the same number before them (`RankIsPlace`).

`InterfaceStatesAreRestored` proves `[]RoundTrip` of the interface as a whole, from any set
of worlds that a simulation can start from (`LegalWorld`, which TLC evaluates for the worlds
of `MCServices`), of any size and with any files, panels, buttons and keys. What has to hold
of a state to be saved, `GuiInv`, is that the grid has the sites it began with and an atom at
each, the parameters are those of the same elements, and only tiles of the grid are halted.
Most of what the interface does leaves those fields alone (`Same`), and that composes.
`GoodUi` is kept by the rest: by painting along a line and by a brush (`TouchedGood`), by the
bucket, by the slider, by reading a file, up to wherever it is malformed (`ParseGood`), and by
the grid's own events. `DispatchGood` takes it through the tree of panels, whichever of them
takes the event and whichever loses the focus by it.

`TilePhysicsProofs` proves `CountsKept`, `Spec => []CountsAgree`, for every world, with any
elements in it, and `FieldsStayInBounds`, `Spec => []PhysicsTypeOK`, where the atoms that a
world starts with, receives or has left by radiation are as their elements make them
(`AtomsComeFit`, which TLC evaluates for the worlds of `MCTilePhysics`). Whatever an element
does in an event is a plan, finitely many writes, of atoms that fit as long as those in the
window do: `OutcomesArePlans`, by one lemma for each behaviour. Several depend on more than
a glance at the assignment: a bar's cell that is put where `Scan` found its place wanting is
inside the bar, so that packing the place into twelve bits loses nothing (`MakingInBar`,
`PackingKeeps`); what a Shark has left is a natural number because one with none starves
first (`SharkPlans`); a Base spends gold that it has in hand and stores it only at the end
(`Bought`); and a Consumer still is one after it has written to its own stack, which makes
the width of its buckets positive (`GrownPlans`, `BucketsHold`). A later step of an event is
made in the window the earlier ones leave, which is as fitting (`WindowAfter`).

A tile performs a plan as a fold (`Performing`), and one write keeps the counts (`Placing`):
`IncrMoves` says that a count which would go below zero asks for a recount and any other
moves the balance by one, and `HoldingChanges` what the number of each type becomes. Where
there is radiation the counts need not be right, but they balance; without it each is right,
and so none goes below zero. `PhysicsInv` joins the two: it is needed whole, as the next
event sees the atoms that this one leaves and the symmetry that it sets.

The same module proves what the families of elements keep, each in the worlds of its own
elements that nothing reaches from outside (`Calm`), of any size and with any sites owned:

- `CargoIsKept`: `CargoKept`; no assumption on the fields is needed, as movers have none;
- `DataIsAccounted`: `DataAccounted`, by the tallies of the Emitters and the Consumers;
- `MatterIsKept`: `MatterKept`, of bars and crystals;
- `EconomyIsBalanced`: `EconomyBalanced`, and `SharksArePaid`: `SharksPayForFish`.

Numbers come first. `Leaves(w, p, T, K, d)` says of a plan that it leaves only types of `T`
and changes the number of the atoms of `K` by `d`, whatever the window; `EventLeaves` takes
that to the tile's grid, where a plan is a fold of writes that fall away beyond the live
sites. A plan composes of plans (`LayBoth`), and a swap leaves nothing more or less only
because both of its sites are live, which each behaviour has to have looked at. For `Data`
what an event does to the number has to be what it adds to the tallies; for matter, a cell
is made where a Res was eaten (`EatingLoses`), and a bar may lose but not gain. That an
element stays in its family is part of the invariants (`MatterInv`, `SumsInv`), as the
elements of an event are those the earlier ones have left.

Wealth and energy are sums. `AmountChanges` says what one write makes of a sum: it adds what
the new atom is worth and takes what the old one was. `Yields` is the counterpart of
`Leaves`. The two hard cases are the ones with a local variable. A Base counts what it
spends and stores the rest in eight bits, modulo 256: `EatenIs` says that the Res and Mines
it takes are distinct sites, whichever map of the neighbours found them (`MapsApart`), and
`BuyingIsSolvent` that what it has left is never negative, so that the modulus can only
lose some (`BaseSpends`). A Shark's three paths, with a fish, without one, and with a birth
either way, each have a yield below zero or take one Fish and yield less than it is worth
(`SharkPays`).

`StartupProofs` is about programs that are started on one machine, whatever their command
lines, the directories they search, the libraries in those, and the order and the seconds of
their steps; `LegalMachines`, which TLC evaluates for the machines of `MCServices`, says only
that the drivers are ones there are and that words and files come in lists.
`DirectoriesAreApart` proves `[]OwnDirectories`. It follows from a program that writes having
its directory among those that were made, and no other step after that touching what names
it. `ElementsAreRegistered` proves `[]ElementsKept`. Nothing is known of a registry when the
program runs but what was kept through four folds, one of them in another: the handlers of an
argument change the elements' directories only as `--elementpath` does (`TryKeeps`); after k
files of the i-th directory the registry has each uuid once that was in a library so far, with
the last directory it was in (`Found`, kept by `FileKeeps`), and a directory done is the next
one begun (`DirKeeps`); then it has the elements needed so far as well, loaded where no library
was found (`Grown`, kept by `UseKeeps`). Once a step has failed only that is known, and that it
stays so. The first atoms of the drivers are apart by where their rows, walls and single atoms
lie (`MfmsimApart`, `BigtileApart`).

Model-checked only: liveness (`LocksReleased`, `ControlReturns`, `InflammationSubsides`,
`StackCountsSettle`), which the prover cannot express under fairness; of `LookupsSound`, that
searches of the table end (`LookupsEnd`) and that the tables of `MDist` are right
(`TablesRight`), which depend on the sizes; `EditsAsAimed`; `BitsKept` and what `TextKept`
says of streams, whose modules use recursive operators and arithmetic on bits; and what
`TextKept` says of switches, which are found by comparing strings letter by letter, of which
the provers know nothing.

## Not modelled

The event counters by region and lock, which only the heatmap and reports show; drawing;
the pauser's option to ignore threading problems (off by default) and its debug records;
the thread id that a mutex records; `FillIf`, which does not compile when it is used. Of the
interface: how atoms look, the log and help panels, the check boxes that only change what is
drawn, screenshots. Of the driver: images, time-based data and the tribes' counts, and the
pacing of sleeps, which is about durations. The random number generator: random choices are
choices. `mfmdha`'s bar, pair and boids, which do not compile against the core. The text of
configuration files is taken word by word where `Parameters` reads it, and otherwise as a
sequence of calls.

A flush that has not ended after 100000000 passes FAILs (`Tile.tcc:911`); `EndPass` has no
such limit, and `LocksReleased` is about a thread that goes on. `Grid::PlaceAtom`, which
writes an owner's site and then up to three copies, is one step (`Edit`), as no thread has
an event then.

## Plan

1. The log's and the help panel's place among the panels, and the check boxes.
