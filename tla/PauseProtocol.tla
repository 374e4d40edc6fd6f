---------------------------- MODULE PauseProtocol ----------------------------
(***************************************************************************)
(* Pausing and running a grid.  The driver's thread (Outer) goes over the  *)
(* tiles three times: it makes a request of each, polls until all are      *)
(* ready, and then executes the request on each (Grid::DoTileControl).     *)
(* The thread of a tile (Inner) asks its ThreadPauser for the state once   *)
(* every time round Tile::Execute's loop, which may block it on a          *)
(* condition variable.                                                     *)
(*                                                                         *)
(* An event is here no more than the connections it holds and the          *)
(* neighbours that have still to serve it; TileEvents has the rest.  The   *)
(* option to ignore threading problems is taken to be off, its default.    *)
(***************************************************************************)
EXTENDS Naturals

CONSTANTS
  N,                \* the number of tiles, in the order of DoTileControl's loops
  Links,            \* the pairs of tiles that are connected
  SleepsEnough,     \* whether UpdateGrid's sleep outlasts every wakeup
  SpuriousWakeups,  \* whether pthread_cond_wait may return without a signal
  GivesUp           \* whether polling may come to its 25000th pass

Tiles == 1 .. N

ASSUME PauseAssumption ==
  /\ N \in Nat \ {0}
  /\ Links \subseteq SUBSET Tiles
  /\ {SleepsEnough, SpuriousWakeups, GivesUp} \subseteq BOOLEAN

VARIABLES
  state,        \* m_threadState of each tile's ThreadPauser
  signalled,    \* the tiles whose wait has been signalled and not yet returned
  marked,       \* the tiles waiting with m_locked of their Mutex left TRUE
  pc,           \* what the thread of each tile is doing
  cur,          \* its curState
  held,         \* the neighbours to which its event holds the connection
  unserved,     \* those of them that have still to acknowledge the event
  needRecount,  \* m_needRecount
  control,      \* the TileControl begun last: "Run" or "Pause"
  phase,        \* where DoTileControl is; "rest" when it has returned
  next,         \* the tile it comes to next
  notReady      \* whether this pass has met a tile that is not ready

pauserVars  == <<state, signalled, marked>>
innerVars   == <<pc, cur>>
eventVars   == <<held, unserved, needRecount>>
controlVars == <<control, phase, next, notReady>>
vars == <<pauserVars, innerVars, eventVars, controlVars>>

ThreadState == {"PAUSED", "RUN_REQUESTED", "RUN_READY",
                "RUNNING", "PAUSE_REQUESTED", "PAUSE_READY"}

Neighbors(t) == {u \in Tiles \ {t} : {t, u} \in Links}

Init ==
  /\ state = [t \in Tiles |-> "PAUSED"]
  /\ signalled = {}
  /\ marked = {}
  /\ pc = [t \in Tiles |-> "off"]
  /\ cur = [t \in Tiles |-> "PAUSED"]
  /\ held = [t \in Tiles |-> {}]
  /\ unserved = [t \in Tiles |-> {}]
  /\ needRecount = [t \in Tiles |-> FALSE]
  /\ control = "Pause"
  /\ phase = "rest"
  /\ next = 1
  /\ notReady = FALSE

Goto(t, l) == pc' = [pc EXCEPT ![t] = l]
-----------------------------------------------------------------------------
(* The driver's thread *)

\* The state in which a control finds a tile, the one in which the tile is
\* ready for it, and the one in which it leaves the tile.
Before == IF control = "Run" THEN "PAUSED" ELSE "RUNNING"
Ready  == IF control = "Run" THEN "RUN_READY" ELSE "PAUSE_READY"
After  == IF control = "Run" THEN "RUNNING" ELSE "PAUSED"

\* Mutex::Unlock of tile t's pauser, after a Lock by either thread.
\* (Variant with a mistake: leaves m_locked as it was.)
Unlock_KeepsMark(t) == UNCHANGED marked

Unlock(t) == marked' = marked \ {t}

\* AdvanceStateOuter's switch; the two states left out are an assert(false).
OuterMoves ==
  {<<"PAUSED", "RUN_REQUESTED">>, <<"RUN_READY", "RUNNING">>,
   <<"RUNNING", "PAUSE_REQUESTED">>, <<"PAUSE_READY", "PAUSED">>}

\* Where a thread blocks on a condition variable, and what the predicate that
\* belongs to it compares the state with.
Waits == {"waitRunRequested", "waitRunning"}

Awaited(l) == IF l = "waitRunning" THEN "RUNNING" ELSE "RUN_REQUESTED"

\* (Variant with a mistake: Run does not signal.)
AdvanceStateOuter_OneSignal(t) ==
  \E s \in ThreadState :
    /\ <<state[t], s>> \in OuterMoves
    /\ state' = [state EXCEPT ![t] = s]
    /\ signalled' = signalled \cup
         {u \in {t} : pc[t] = "waitRunRequested" /\ s = "RUN_REQUESTED"}
    /\ Unlock(t)

\* The state advances, and whoever waits for the new one is signalled.
AdvanceStateOuter(t) ==
  \E s \in ThreadState :
    /\ <<state[t], s>> \in OuterMoves
    /\ state' = [state EXCEPT ![t] = s]
    /\ signalled' = signalled \cup
         {u \in {t} : pc[t] \in Waits /\ s = Awaited(pc[t])}
    /\ Unlock(t)

\* Unpause or Pause is called: UpdateGrid calls them in turn, and sleeps in
\* between.  All wakeups are over by then if the sleep is long enough.
BeginControl ==
  /\ phase = "rest"
  /\ control = "Run" /\ SleepsEnough => \A t \in Tiles : pc[t] # "waitRunning"
  /\ control' = IF control = "Run" THEN "Pause" ELSE "Run"
  /\ phase' = "request"
  /\ next' = 1
  /\ UNCHANGED <<notReady, pauserVars, innerVars, eventVars>>

\* DoTileControl's loops come to the next tile, or, after the last, to phase p.
StepTo(p) ==
  /\ next' = IF next = N THEN 1 ELSE next + 1
  /\ phase' = IF next = N THEN p ELSE phase

\* Tile::Start, the first time: the thread is created.
CreateThread ==
  /\ phase = "request" /\ control = "Run"
  /\ pc[next] = "off"
  /\ Goto(next, "recount")
  /\ UNCHANGED <<cur, pauserVars, eventVars, controlVars>>

\* MakeRequest: RequestRun at the end of Tile::Start, or RequestPause.
MakeRequest ==
  /\ phase = "request"
  /\ pc[next] # "off"
  /\ AdvanceStateOuter(next)
  /\ StepTo("check")
  /\ UNCHANGED <<control, notReady, innerVars, eventVars>>

\* (Variant with a mistake: counts only the last tile of a pass.)
CheckIfReady_LastTile ==
  /\ phase = "check"
  /\ Unlock(next)
  /\ IF state[next] = Ready
     THEN StepTo("execute")
     ELSE phase' = phase /\ next' = IF next = N THEN 1 ELSE next + 1
  /\ UNCHANGED <<control, notReady, state, signalled, innerVars, eventVars>>

\* CheckIfReady of the next tile (IsRunReady, IsPauseReady); after the last
\* tile the pass is repeated unless all were ready.
CheckIfReady ==
  LET waiting == notReady \/ state[next] # Ready
  IN  /\ phase = "check"
      /\ Unlock(next)
      /\ StepTo(IF waiting THEN "check" ELSE "execute")
      /\ notReady' = (waiting /\ next # N)
      /\ UNCHANGED <<control, state, signalled, innerVars, eventVars>>

\* The 25000th pass is not begun: DoTileControl FAILs.
GiveUp ==
  /\ GivesUp
  /\ phase = "check" /\ next = N
  /\ notReady \/ state[N] # Ready
  /\ phase' = "failed"
  /\ UNCHANGED <<control, next, notReady, pauserVars, innerVars, eventVars>>

\* Execute: Tile::Run or Tile::Pause.
ExecuteControl ==
  /\ phase = "execute"
  /\ AdvanceStateOuter(next)
  /\ StepTo("rest")
  /\ UNCHANGED <<control, notReady, innerVars, eventVars>>
-----------------------------------------------------------------------------
(* The thread of tile t *)

\* The top of Execute's loop: RecountAtomsIfNeeded.
RecountAtomsIfNeeded(t) ==
  /\ pc[t] = "recount"
  /\ needRecount' = [needRecount EXCEPT ![t] = FALSE]
  /\ Goto(t, "ask")
  /\ UNCHANGED <<cur, pauserVars, held, unserved, controlVars>>

\* The thread has the pauser's state, and releases its mutex.
Return(t) ==
  /\ cur' = [cur EXCEPT ![t] = state[t]]
  /\ Goto(t, "act")
  /\ Unlock(t)

\* It blocks in CondWait, which leaves m_locked as Lock set it.
Block(t, l) ==
  /\ Goto(t, l)
  /\ marked' = marked \cup {t}
  /\ UNCHANGED cur

\* (Variant with a mistake: does not wait in PAUSED.)
GetStateBlockingInner_NoWait(t) ==
  /\ pc[t] = "ask"
  /\ IF state[t] = "RUN_READY" THEN Block(t, "waitRunning") ELSE Return(t)
  /\ UNCHANGED <<state, signalled, eventVars, controlVars>>

\* GetStateBlockingInner.
GetStateBlockingInner(t) ==
  /\ pc[t] = "ask"
  /\ CASE state[t] = "PAUSED"    -> Block(t, "waitRunRequested")
       [] state[t] = "RUN_READY" -> Block(t, "waitRunning")
       [] OTHER                  -> Return(t)
  /\ UNCHANGED <<state, signalled, eventVars, controlVars>>

\* pthread_cond_wait may return: signalled, or for no reason.
MayWake(t) ==
  /\ pc[t] \in Waits
  /\ t \in signalled \/ SpuriousWakeups

\* It returns in CondWait; WaitForCondition's loop looks at the predicate.
Wake(t) ==
  /\ MayWake(t)
  /\ t \notin marked
  /\ signalled' = signalled \ {t}
  /\ IF state[t] = Awaited(pc[t]) THEN Return(t) ELSE Block(t, pc[t])
  /\ UNCHANGED <<state, eventVars, controlVars>>

\* It returns, and CondWait FAILs because m_locked is TRUE.
WakeMarked(t) ==
  /\ MayWake(t)
  /\ t \in marked
  /\ phase' = "failed"
  /\ UNCHANGED <<control, next, notReady, pauserVars, innerVars, eventVars>>

\* GetAdvanceStateInner(true)'s switch; the other states are assertions.
InnerMoves ==
  {<<"RUN_REQUESTED", "RUN_READY">>, <<"PAUSE_REQUESTED", "PAUSE_READY">>}

\* Execute in RUN_REQUESTED or PAUSE_REQUESTED.
AdvanceStateInner(t) ==
  /\ pc[t] = "act"
  /\ cur[t] \in {"RUN_REQUESTED", "PAUSE_REQUESTED"}
  /\ \E s \in ThreadState :
       <<state[t], s>> \in InnerMoves /\ state' = [state EXCEPT ![t] = s]
  /\ Unlock(t)
  /\ Goto(t, "recount")
  /\ UNCHANGED <<cur, signalled, eventVars, controlVars>>

\* (Variant with a mistake: the case PAUSE_READY falls through to RUNNING.)
StartEvent_AlsoReady(t) ==
  /\ pc[t] = "act"
  /\ cur[t] \in {"RUNNING", "PAUSE_READY"}
  /\ \E ns \in SUBSET {u \in Neighbors(t) : t \notin held[u]} :
       /\ held' = [held EXCEPT ![t] = ns]
       /\ unserved' = [unserved EXCEPT ![t] = ns]
  /\ Goto(t, "event")
  /\ UNCHANGED <<cur, needRecount, pauserVars, controlVars>>

\* Execute in RUNNING: an event, after locking the connections it needs.
StartEvent(t) ==
  /\ pc[t] = "act"
  /\ cur[t] = "RUNNING"
  /\ \E ns \in SUBSET {u \in Neighbors(t) : t \notin held[u]} :
       /\ held' = [held EXCEPT ![t] = ns]
       /\ unserved' = [unserved EXCEPT ![t] = ns]
  /\ Goto(t, "event")
  /\ UNCHANGED <<cur, needRecount, pauserVars, controlVars>>

\* Execute in RUNNING: a connection was taken, so there is no event.
FailToLock(t) ==
  /\ pc[t] = "act"
  /\ cur[t] = "RUNNING"
  /\ \E u \in Neighbors(t) : t \in held[u]
  /\ Goto(t, "recount")
  /\ UNCHANGED <<cur, pauserVars, eventVars, controlVars>>

\* One pass of FlushAndWaitOnAllBuffers acknowledges the events of all
\* neighbours; their atoms may show that the atom counts are wrong.
Serve(t) ==
  /\ unserved' = [u \in Tiles |-> unserved[u] \ {t}]
  /\ \E lost \in {FALSE, \E u \in Tiles : t \in unserved[u]} :
       needRecount' = [needRecount EXCEPT ![t] = @ \/ lost]

\* (Variant with a mistake: a tile that is ready does not serve.)
FlushBetweenEvents_NoMopUp(t) ==
  /\ pc[t] = "act"
  /\ cur[t] \in {"RUNNING", "PAUSE_READY"}
  /\ IF cur[t] = "RUNNING" THEN Serve(t) ELSE UNCHANGED <<unserved, needRecount>>
  /\ Goto(t, "recount")
  /\ UNCHANGED <<cur, held, pauserVars, controlVars>>

\* Execute in PAUSE_READY, or in RUNNING without events of its own.
FlushBetweenEvents(t) ==
  /\ pc[t] = "act"
  /\ cur[t] \in {"RUNNING", "PAUSE_READY"}
  /\ Serve(t)
  /\ Goto(t, "recount")
  /\ UNCHANGED <<cur, held, pauserVars, controlVars>>

\* A pass during an event whose acknowledgments are not all in.
FlushInEvent(t) ==
  /\ pc[t] = "event"
  /\ unserved[t] # {}
  /\ Serve(t)
  /\ UNCHANGED <<held, pauserVars, innerVars, controlVars>>

\* (Variant with a mistake: leaves the region locked.)
FinishEvent_NoUnlock(t) ==
  /\ pc[t] = "event"
  /\ unserved[t] = {}
  /\ Goto(t, "recount")
  /\ UNCHANGED <<cur, pauserVars, eventVars, controlVars>>

\* They are in: DoEvent unlocks its region and returns.
FinishEvent(t) ==
  /\ pc[t] = "event"
  /\ unserved[t] = {}
  /\ held' = [held EXCEPT ![t] = {}]
  /\ \E lost \in BOOLEAN : needRecount' = [needRecount EXCEPT ![t] = @ \/ lost]
  /\ Goto(t, "recount")
  /\ UNCHANGED <<cur, unserved, pauserVars, controlVars>>
-----------------------------------------------------------------------------
Control ==
  \/ CreateThread \/ MakeRequest \/ CheckIfReady \/ GiveUp \/ ExecuteControl

Execute(t) ==
  \/ RecountAtomsIfNeeded(t) \/ GetStateBlockingInner(t)
  \/ Wake(t) \/ WakeMarked(t) \/ AdvanceStateInner(t)
  \/ StartEvent(t) \/ FailToLock(t) \/ FlushBetweenEvents(t)
  \/ FlushInEvent(t) \/ FinishEvent(t)

\* After a FAIL the program has ended.
Next ==
  /\ phase # "failed"
  /\ BeginControl \/ Control \/ \E t \in Tiles : Execute(t)

Spec == Init /\ [][Next]_vars

\* Every thread gets to run; the driver need not begin another frame.
Fairness ==
  /\ WF_vars(Control)
  /\ \A t \in Tiles : WF_vars(Execute(t))

FairSpec == Spec /\ Fairness
-----------------------------------------------------------------------------
(* Properties *)

\* Every variable keeps to its type, and only a waiting thread is signalled
\* or leaves its mutex marked.
TypeOK ==
  /\ state \in [Tiles -> ThreadState]
  /\ pc \in [Tiles -> {"off", "recount", "ask", "waitRunRequested",
                       "waitRunning", "act", "event"}]
  /\ signalled \subseteq {t \in Tiles : pc[t] \in Waits}
  /\ marked \subseteq {t \in Tiles : pc[t] \in Waits}
  /\ cur \in [Tiles -> ThreadState]
  /\ held \in [Tiles -> SUBSET Tiles]
  /\ unserved \in [Tiles -> SUBSET Tiles]
  /\ needRecount \in [Tiles -> BOOLEAN]
  /\ control \in {"Run", "Pause"}
  /\ phase \in {"rest", "request", "check", "execute", "failed"}
  /\ next \in Tiles
  /\ notReady \in BOOLEAN

\* The asserts of AdvanceStateOuter, of GetAdvanceStateInner and of Execute
\* hold: each side finds the pauser in the state it expects although the
\* other has moved it in the meantime.
AssertsHold ==
  /\ phase = "request" => state[next] = Before
  /\ phase = "execute" => state[next] = Ready
  /\ \A t \in Tiles : pc[t] = "act" =>
       /\ cur[t] \notin {"PAUSED", "RUN_READY"}
       /\ cur[t] \in {"RUN_REQUESTED", "PAUSE_REQUESTED"} => state[t] = cur[t]

\* While any tile is PAUSED no connection is locked and no event waits to be
\* served, in the whole grid: the precondition ThreadPauser.h gives of PAUSED.
PausedIsQuiet ==
  (\E t \in Tiles : state[t] = "PAUSED") =>
    \A u \in Tiles : held[u] = {} /\ unserved[u] = {}

\* DoTileControl moves the states of the tiles in step, whatever their threads
\* do in the meantime.
StatesInStep ==
  LET asked == IF control = "Run" THEN {"RUN_REQUESTED", "RUN_READY"}
                                  ELSE {"PAUSE_REQUESTED", "PAUSE_READY"}
  IN  \A t \in Tiles :
        /\ phase = "rest" => state[t] = After
        /\ phase = "request" /\ t < next => state[t] \in asked
        /\ phase = "request" /\ t >= next => state[t] = Before
        /\ phase = "check" => state[t] \in asked
        /\ phase = "check" /\ t < next /\ ~notReady => state[t] = Ready
        /\ phase = "execute" /\ t < next => state[t] = After
        /\ phase = "execute" /\ t >= next => state[t] = Ready

\* What a thread last heard of the state bounds what the state may be now.
ThreadsInStep ==
  \A t \in Tiles :
    /\ pc[t] = "off" => state[t] = "PAUSED"
    /\ pc[t] = "act" =>
         \/ cur[t] \in {"RUN_REQUESTED", "PAUSE_REQUESTED"} /\ state[t] = cur[t]
         \/ cur[t] = "RUNNING" /\ state[t] \in {"RUNNING", "PAUSE_REQUESTED"}
         \/ cur[t] = "PAUSE_READY" /\
              state[t] \in {"PAUSE_READY", "PAUSED", "RUN_REQUESTED"}
    /\ pc[t] = "event" => state[t] \in {"RUNNING", "PAUSE_REQUESTED"}
    /\ pc[t] # "event" => held[t] = {} /\ unserved[t] = {}

\* The inductive invariant.
PInv == TypeOK /\ StatesInStep /\ ThreadsInStep /\ PausedIsQuiet

\* No wakeup is lost: a thread that waits although the state has moved on has
\* been signalled, and will find its predicate true.
NoLostWakeup ==
  \A t \in Tiles :
    /\ pc[t] = "waitRunning" =>
         state[t] = "RUN_READY" \/ (state[t] = "RUNNING" /\ t \in signalled)
    /\ pc[t] = "waitRunRequested" =>
         state[t] = "PAUSED" \/ (state[t] = "RUN_REQUESTED" /\ t \in signalled)

\* Neither DoTileControl nor a condition wait FAILs.
NeverFails == phase # "failed"

\* Every Pause and every Unpause returns.
ControlReturns ==
  \A c \in {"Run", "Pause"} :
    (phase = "request" /\ control = c) ~> (phase = "rest" /\ control = c)

\* The driver has the grid to itself as soon as Pause returns, and until the
\* first tile is released: this implements StopTheWorld.
World == INSTANCE StopTheWorld WITH
  stopped <- \A t \in Tiles : state[t] \in {"PAUSED", "RUN_REQUESTED", "RUN_READY"},
  active  <- {t \in Tiles : pc[t] = "event"}

ImplementsStopTheWorld == World!Spec

\* "Outer calls Run() and signals condition var m_run.  Postcondition: State is
\* THREADSTATE_RUNNING and Inner is awake" (ThreadPauser.h): a thread that Run
\* finds waiting wakes up.
RunWakesInner ==
  \A t \in Tiles : (state[t] = "RUNNING") ~> (pc[t] # "waitRunning")
=============================================================================
