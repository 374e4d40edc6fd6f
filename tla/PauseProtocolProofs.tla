------------------------ MODULE PauseProtocolProofs ------------------------
(***************************************************************************)
(* Theorems about PauseProtocol, for any number of tiles however they are  *)
(* connected.                                                              *)
(***************************************************************************)
EXTENDS PauseProtocol, TLAPS

\* The tiles are the numbers from 1 to N, and StepTo goes round them.
LEMMA TilesFacts ==
  /\ N \in Tiles /\ 1 \in Tiles
  /\ \A t \in Tiles : t \in Nat /\ 1 <= t /\ t <= N /\ (t # N => t + 1 \in Tiles)
BY PauseAssumption DEF Tiles

\* The initial states satisfy the invariant.
LEMMA InitPInv == Init => PInv
<1> SUFFICES ASSUME Init PROVE PInv
  OBVIOUS
<1>1. TypeOK
  <2>1. next \in Tiles
    BY TilesFacts DEF Init
  <2>2. /\ state \in [Tiles -> ThreadState] /\ cur \in [Tiles -> ThreadState]
        /\ held \in [Tiles -> SUBSET Tiles] /\ unserved \in [Tiles -> SUBSET Tiles]
        /\ needRecount \in [Tiles -> BOOLEAN]
    BY DEF Init, ThreadState
  <2> QED BY <2>1, <2>2 DEF Init, TypeOK
<1>2. StatesInStep
  BY DEF Init, StatesInStep, After
<1>3. ThreadsInStep /\ PausedIsQuiet
  BY DEF Init, ThreadsInStep, PausedIsQuiet
<1> QED BY <1>1, <1>2, <1>3 DEF PInv

\* While DoTileControl has a tile PAUSED no tile is in an event, because the
\* states of all tiles are in step.
LEMMA InStepIsQuiet ==
  TypeOK /\ StatesInStep /\ ThreadsInStep /\ phase # "failed" => PausedIsQuiet
<1> SUFFICES ASSUME TypeOK, StatesInStep, ThreadsInStep, phase # "failed",
                    NEW t \in Tiles, state[t] = "PAUSED", NEW u \in Tiles
             PROVE  held[u] = {} /\ unserved[u] = {}
    BY DEF PausedIsQuiet
<1>1. state[u] \notin {"RUNNING", "PAUSE_REQUESTED"}
  BY PauseAssumption DEF TypeOK, StatesInStep, After, Before, Ready, Tiles
<1> QED BY <1>1 DEF ThreadsInStep

\* A FAIL changes nothing but the phase.
LEMMA FailedKeeps ==
  ASSUME PInv, phase' = "failed",
         UNCHANGED <<control, next, notReady, pauserVars, innerVars, eventVars>>
  PROVE  PInv'
BY DEF PInv, TypeOK, StatesInStep, ThreadsInStep, PausedIsQuiet,
       pauserVars, innerVars, eventVars, Waits

\* Beginning a Pause or an Unpause.
LEMMA BeginStep ==
  ASSUME PInv, phase # "failed", BeginControl
  PROVE  TypeOK' /\ StatesInStep' /\ ThreadsInStep' /\ phase' # "failed"
<1> USE PauseAssumption DEF PInv, BeginControl, pauserVars, innerVars, eventVars
<1>1. TypeOK'
  BY DEF TypeOK, Tiles, Waits
<1>2. StatesInStep'
  BY DEF TypeOK, StatesInStep, After, Before, Ready, Tiles
<1>3. ThreadsInStep'
  BY DEF ThreadsInStep
<1> QED BY <1>1, <1>2, <1>3

LEMMA CreateStep ==
  ASSUME PInv, phase # "failed", CreateThread
  PROVE  TypeOK' /\ StatesInStep' /\ ThreadsInStep' /\ phase' # "failed"
<1> USE PauseAssumption DEF PInv, CreateThread, Goto, pauserVars, eventVars, controlVars
<1>1. TypeOK'
  BY DEF TypeOK, Tiles, Waits
<1>2. StatesInStep'
  BY DEF TypeOK, StatesInStep, After, Before, Ready, Tiles
<1>3. ThreadsInStep'
  BY DEF TypeOK, ThreadsInStep
<1> QED BY <1>1, <1>2, <1>3

LEMMA RequestStep ==
  ASSUME PInv, phase # "failed", MakeRequest
  PROVE  TypeOK' /\ StatesInStep' /\ ThreadsInStep' /\ phase' # "failed"
<1> USE PauseAssumption DEF PInv, MakeRequest, AdvanceStateOuter, Unlock, StepTo,
        innerVars, eventVars
<1>1. TypeOK'
  <2>1. next' \in Tiles
    BY TilesFacts DEF TypeOK
  <2>2. state' \in [Tiles -> ThreadState]
    BY DEF TypeOK
  <2>3. /\ signalled' \subseteq {t \in Tiles : pc'[t] \in Waits}
        /\ marked' \subseteq {t \in Tiles : pc'[t] \in Waits}
    BY DEF TypeOK
  <2> QED BY <2>1, <2>2, <2>3 DEF TypeOK
<1>2. StatesInStep'
  <2>1. /\ state'[next] \in IF control = "Run" THEN {"RUN_REQUESTED"} ELSE {"PAUSE_REQUESTED"}
        /\ \A t \in Tiles : t # next => state'[t] = state[t]
    BY DEF TypeOK, StatesInStep, Before, OuterMoves, Tiles
  <2>2. CASE next = N
    BY <2>1, <2>2 DEF TypeOK, StatesInStep, Tiles
  <2>3. CASE next # N
    BY <2>1, <2>3 DEF TypeOK, StatesInStep, Before, Tiles
  <2> QED BY <2>2, <2>3
<1>3. ThreadsInStep'
  BY DEF TypeOK, StatesInStep, Before, ThreadsInStep, Tiles, OuterMoves
<1> QED BY <1>1, <1>2, <1>3 DEF TypeOK

LEMMA CheckStep ==
  ASSUME PInv, phase # "failed", CheckIfReady
  PROVE  TypeOK' /\ StatesInStep' /\ ThreadsInStep' /\ phase' # "failed"
<1> USE PauseAssumption DEF PInv, CheckIfReady, Unlock, StepTo, innerVars, eventVars
<1>1. TypeOK'
  <2>1. next' \in Tiles
    BY TilesFacts DEF TypeOK
  <2>2. marked' \subseteq {t \in Tiles : pc'[t] \in Waits}
    BY DEF TypeOK
  <2> QED BY <2>1, <2>2 DEF TypeOK
<1>2. StatesInStep'
  <2>1. UNCHANGED <<state, control>>
    OBVIOUS
  <2>2. CASE next # N
    <3>1. /\ phase = "check" /\ phase' = "check" /\ next' = next + 1
          /\ ~notReady' => ~notReady /\ state[next] = Ready
      BY <2>2 DEF TypeOK
    <3> QED BY <2>1, <3>1 DEF TypeOK, StatesInStep, Ready, Tiles
  <2>3. CASE next = N /\ (notReady \/ state[next] # Ready)
    <3>1. phase = "check" /\ phase' = "check" /\ next' = 1
      BY <2>3
    <3> QED BY <2>1, <3>1 DEF TypeOK, StatesInStep, Ready, Tiles
  <2>4. CASE next = N /\ ~notReady /\ state[next] = Ready
    <3>1. phase = "check" /\ phase' = "execute" /\ next' = 1
      BY <2>4
    <3> QED BY <2>1, <2>4, <3>1 DEF TypeOK, StatesInStep, Ready, Tiles
  <2> QED BY <2>2, <2>3, <2>4
<1>3. ThreadsInStep'
  BY DEF TypeOK, ThreadsInStep
<1> QED BY <1>1, <1>2, <1>3 DEF TypeOK

LEMMA ExecuteControlStep ==
  ASSUME PInv, phase # "failed", ExecuteControl
  PROVE  TypeOK' /\ StatesInStep' /\ ThreadsInStep' /\ phase' # "failed"
<1> USE PauseAssumption DEF PInv, ExecuteControl, AdvanceStateOuter, Unlock, StepTo,
        innerVars, eventVars
<1>1. TypeOK'
  <2>1. next' \in Tiles
    BY TilesFacts DEF TypeOK
  <2>2. state' \in [Tiles -> ThreadState]
    BY DEF TypeOK
  <2>3. /\ signalled' \subseteq {t \in Tiles : pc'[t] \in Waits}
        /\ marked' \subseteq {t \in Tiles : pc'[t] \in Waits}
    BY DEF TypeOK
  <2> QED BY <2>1, <2>2, <2>3 DEF TypeOK
<1>2. StatesInStep'
  BY DEF TypeOK, StatesInStep, After, Before, Ready, Tiles, OuterMoves
<1>3. ThreadsInStep'
  BY DEF TypeOK, StatesInStep, Ready, ThreadsInStep, Tiles, OuterMoves
<1> QED BY <1>1, <1>2, <1>3 DEF TypeOK


\* The driver's steps keep the invariant.
LEMMA ControlStep ==
  ASSUME PInv, phase # "failed", BeginControl \/ Control
  PROVE  PInv'
<1>1. ASSUME ~GiveUp
      PROVE  TypeOK' /\ StatesInStep' /\ ThreadsInStep' /\ phase' # "failed"
  BY <1>1, BeginStep, CreateStep, RequestStep, CheckStep, ExecuteControlStep DEF Control
<1>2. CASE GiveUp
  BY <1>2, FailedKeeps DEF GiveUp
<1>3. (TypeOK /\ StatesInStep /\ ThreadsInStep /\ phase # "failed" => PausedIsQuiet)'
  BY InStepIsQuiet, PTL
<1> QED BY <1>1, <1>2, <1>3 DEF PInv

\* A step of a tile's thread that leaves DoTileControl and the states of all
\* pausers alone keeps the states in step.
LEMMA SameStates ==
  ASSUME PInv, UNCHANGED <<state, controlVars>>
  PROVE  StatesInStep'
BY DEF PInv, StatesInStep, controlVars, After, Before, Ready

\* The thread of a tile recounts, asks for the state, blocks, or wakes up.
LEMMA AskStep ==
  ASSUME PInv, phase # "failed", NEW t \in Tiles,
         RecountAtomsIfNeeded(t) \/ GetStateBlockingInner(t) \/ Wake(t)
  PROVE  TypeOK' /\ ThreadsInStep'
<1> USE DEF PInv, eventVars, controlVars, Goto
<1>1. CASE RecountAtomsIfNeeded(t)
  BY <1>1 DEF RecountAtomsIfNeeded, TypeOK, ThreadsInStep, pauserVars, Waits
<1>2. CASE GetStateBlockingInner(t)
  <2> USE <1>2 DEF GetStateBlockingInner
  <2>1. CASE state[t] = "PAUSED"
    BY <2>1 DEF Block, TypeOK, ThreadsInStep, Waits
  <2>2. CASE state[t] = "RUN_READY"
    BY <2>2 DEF Block, TypeOK, ThreadsInStep, Waits
  <2>3. CASE state[t] \notin {"PAUSED", "RUN_READY"}
    BY <2>3 DEF Return, Unlock, TypeOK, ThreadsInStep, Waits, ThreadState
  <2> QED BY <2>1, <2>2, <2>3
<1>3. CASE Wake(t)
  <2> USE <1>3 DEF Wake, MayWake, Waits
  <2>1. CASE state[t] = Awaited(pc[t])
    BY <2>1 DEF Return, Unlock, Awaited, TypeOK, ThreadsInStep, ThreadState
  <2>2. CASE state[t] # Awaited(pc[t])
    BY <2>2 DEF Block, TypeOK, ThreadsInStep
  <2> QED BY <2>1, <2>2
<1> QED BY <1>1, <1>2, <1>3

\* It answers a request: an answer keeps to what the driver is polling for.
LEMMA AnswerStep ==
  ASSUME PInv, phase # "failed", NEW t \in Tiles, AdvanceStateInner(t)
  PROVE  TypeOK' /\ StatesInStep' /\ ThreadsInStep'
<1> USE DEF PInv, AdvanceStateInner, InnerMoves, eventVars, controlVars, Goto, Unlock
<1>1. TypeOK'
  BY DEF TypeOK, Waits
<1>2. ThreadsInStep'
  BY DEF TypeOK, ThreadsInStep
<1>3. StatesInStep'
  BY DEF TypeOK, StatesInStep, After, Before, Ready
<1> QED BY <1>1, <1>2, <1>3

\* It begins an event, carries it on, or ends it.
LEMMA EventStep ==
  ASSUME PInv, phase # "failed", NEW t \in Tiles,
         \/ StartEvent(t) \/ FailToLock(t) \/ FlushBetweenEvents(t)
         \/ FlushInEvent(t) \/ FinishEvent(t)
  PROVE  TypeOK' /\ ThreadsInStep' /\ UNCHANGED <<state, controlVars>>
<1> USE DEF PInv, pauserVars, controlVars, Goto
<1>1. CASE StartEvent(t)
  <2>1. PICK ns \in SUBSET Tiles :
          /\ held' = [held EXCEPT ![t] = ns]
          /\ unserved' = [unserved EXCEPT ![t] = ns]
    BY <1>1 DEF StartEvent, Neighbors
  <2>2. TypeOK'
    BY <1>1, <2>1 DEF StartEvent, TypeOK, Waits
  <2>3. ThreadsInStep'
    BY <1>1, <2>1 DEF StartEvent, TypeOK, ThreadsInStep
  <2> QED BY <1>1, <2>2, <2>3 DEF StartEvent
<1>2. CASE FailToLock(t)
  BY <1>2 DEF FailToLock, TypeOK, ThreadsInStep, Waits, eventVars
<1>3. CASE FlushBetweenEvents(t)
  BY <1>3 DEF FlushBetweenEvents, Serve, TypeOK, ThreadsInStep, Waits
<1>4. CASE FlushInEvent(t)
  BY <1>4 DEF FlushInEvent, Serve, TypeOK, ThreadsInStep, Waits, innerVars
<1>5. CASE FinishEvent(t)
  BY <1>5 DEF FinishEvent, TypeOK, ThreadsInStep, Waits
<1> QED BY <1>1, <1>2, <1>3, <1>4, <1>5

LEMMA ExecuteStep ==
  ASSUME PInv, phase # "failed", NEW t \in Tiles, Execute(t)
  PROVE  PInv'
<1>1. CASE WakeMarked(t)
  BY <1>1, FailedKeeps DEF WakeMarked
<1>2. ASSUME ~WakeMarked(t)
      PROVE  TypeOK' /\ StatesInStep' /\ ThreadsInStep' /\ phase' # "failed"
  <2>1. AdvanceStateInner(t) => phase' # "failed"
    BY DEF AdvanceStateInner, controlVars
  <2>2. RecountAtomsIfNeeded(t) => UNCHANGED <<state, controlVars>>
    BY DEF RecountAtomsIfNeeded, pauserVars
  <2>3. GetStateBlockingInner(t) \/ Wake(t) => UNCHANGED <<state, controlVars>>
    BY DEF GetStateBlockingInner, Wake
  <2>4. UNCHANGED <<state, controlVars>> => phase' # "failed"
    BY DEF controlVars
  <2> QED BY <1>2, <2>1, <2>2, <2>3, <2>4, SameStates, AskStep, AnswerStep, EventStep
             DEF Execute
<1>3. (TypeOK /\ StatesInStep /\ ThreadsInStep /\ phase # "failed" => PausedIsQuiet)'
  BY InStepIsQuiet, PTL
<1> QED BY <1>1, <1>2, <1>3 DEF PInv
-----------------------------------------------------------------------------
(* The theorems *)

\* The states, the threads and the driver stay in step, whatever the order in
\* which they are scheduled.
THEOREM PauseInductive == Spec => []PInv
<1>1. PInv /\ [Next]_vars => PInv'
  <2> SUFFICES ASSUME PInv, [Next]_vars PROVE PInv'
    OBVIOUS
  <2>1. CASE Next
    BY <2>1, ControlStep, ExecuteStep DEF Next
  <2>2. CASE UNCHANGED vars
    BY <2>2 DEF PInv, TypeOK, StatesInStep, ThreadsInStep, PausedIsQuiet, vars, pauserVars,
       innerVars, eventVars, controlVars, Waits, After, Before, Ready
  <2> QED BY <2>1, <2>2
<1> QED BY InitPInv, <1>1, PTL DEF Spec

\* Every variable keeps to its type, and only a thread that waits for a pauser
\* is signalled or leaves the pauser's mutex marked.
THEOREM PauserTypes == Spec => []TypeOK
<1>1. PInv => TypeOK
  BY DEF PInv
<1> QED BY <1>1, PauseInductive, PTL

\* The asserts of the driver and of the threads hold.
THEOREM PauserAssertsHold == Spec => []AssertsHold
<1>1. PInv => AssertsHold
  BY DEF PInv, TypeOK, StatesInStep, ThreadsInStep, AssertsHold, Tiles
<1> QED BY <1>1, PauseInductive, PTL

\* A tile is PAUSED only while no connection of the grid is locked and no
\* event of it waits for an acknowledgment.
THEOREM PauseIsQuiet == Spec => []PausedIsQuiet
<1>1. PInv => PausedIsQuiet
  BY DEF PInv
<1> QED BY <1>1, PauseInductive, PTL
-----------------------------------------------------------------------------
(* Implementation of StopTheWorld *)

\* A step of a thread that leaves the states alone and neither begins nor ends
\* an event is none of the grid's business.
LEMMA WorldStutters ==
  ASSUME UNCHANGED state, \A t \in Tiles : pc[t] = "event" <=> pc'[t] = "event"
  PROVE  UNCHANGED World!vars
<1>1. {t \in Tiles : pc[t] = "event"}' = {t \in Tiles : pc[t] = "event"}
  OBVIOUS
<1> QED BY <1>1 DEF World!vars

\* A step of a thread begins an event, ends one, or stutters.
LEMMA WorldExecute ==
  ASSUME PInv, NEW t \in Tiles, Execute(t)
  PROVE  World!Next \/ UNCHANGED World!vars
<1> USE DEF PInv, TypeOK
<1>1. CASE StartEvent(t)
  <2>1. pc[t] = "act" /\ pc' = [pc EXCEPT ![t] = "event"] /\ UNCHANGED state
    BY <1>1 DEF StartEvent, Goto, pauserVars
  <2>2. state[t] \in {"RUNNING", "PAUSE_REQUESTED"}
    BY <1>1 DEF StartEvent, ThreadsInStep
  <2>3. {u \in Tiles : pc[u] = "event"}' = {u \in Tiles : pc[u] = "event"} \cup {t}
    BY <2>1
  <2>4. t \notin {u \in Tiles : pc[u] = "event"}
    BY <2>1
  <2>5. World!BeginEvent
    BY <2>1, <2>2, <2>3, <2>4 DEF World!BeginEvent
  <2> QED BY <2>5 DEF World!Next
<1>2. CASE FinishEvent(t)
  <2>1. pc[t] = "event" /\ pc' = [pc EXCEPT ![t] = "recount"] /\ UNCHANGED state
    BY <1>2 DEF FinishEvent, Goto, pauserVars
  <2>2. {u \in Tiles : pc[u] = "event"}' = {u \in Tiles : pc[u] = "event"} \ {t}
    BY <2>1
  <2>3. World!EndEvent
    BY <2>1, <2>2 DEF World!EndEvent
  <2> QED BY <2>3 DEF World!Next
<1>3. CASE AdvanceStateInner(t)
  <2>1. \A u \in Tiles : pc[u] = "event" <=> pc'[u] = "event"
    BY <1>3 DEF AdvanceStateInner, Goto
  <2>2. {u \in Tiles : pc[u] = "event"}' = {u \in Tiles : pc[u] = "event"}
    BY <2>1
  <2>3. \A u \in Tiles : state[u] \in {"PAUSED", "RUN_REQUESTED", "RUN_READY"}
                     <=> state'[u] \in {"PAUSED", "RUN_REQUESTED", "RUN_READY"}
    BY <1>3 DEF AdvanceStateInner, InnerMoves
  <2> QED BY <2>2, <2>3 DEF World!vars
<1>4. CASE RecountAtomsIfNeeded(t) \/ FailToLock(t) \/ FlushBetweenEvents(t) \/ FlushInEvent(t)
  BY <1>4, WorldStutters DEF RecountAtomsIfNeeded, FailToLock, FlushBetweenEvents,
     FlushInEvent, Goto, pauserVars, innerVars
<1>5. CASE GetStateBlockingInner(t)
  BY <1>5, WorldStutters DEF GetStateBlockingInner, Goto, Block, Return
<1>6. CASE Wake(t) \/ WakeMarked(t)
  BY <1>6, WorldStutters DEF Wake, WakeMarked, MayWake, Waits, Goto, Block, Return,
     pauserVars, innerVars
<1> QED BY <1>1, <1>2, <1>3, <1>4, <1>5, <1>6 DEF Execute

\* Run released the first tile, Pause stopped the last, or DoTileControl is on
\* its way between the two.
LEMMA WorldControl ==
  ASSUME PInv, phase # "failed", BeginControl \/ Control
  PROVE  World!Next \/ UNCHANGED World!vars
<1> USE DEF PInv, TypeOK
<1> DEFINE Still == {"PAUSED", "RUN_REQUESTED", "RUN_READY"}
           Active == {t \in Tiles : pc[t] = "event"}
<1>1. CASE BeginControl \/ CheckIfReady \/ GiveUp
  BY <1>1, WorldStutters DEF BeginControl, CheckIfReady, GiveUp, pauserVars, innerVars
<1>2. CASE CreateThread
  BY <1>2, WorldStutters DEF CreateThread, Goto, pauserVars
<1>3. CASE MakeRequest
  <2>1. \A t \in Tiles : state[t] \in Still <=> state'[t] \in Still
    BY <1>3 DEF MakeRequest, AdvanceStateOuter, OuterMoves, StatesInStep, Before, Tiles
  <2>2. UNCHANGED pc
    BY <1>3 DEF MakeRequest, innerVars
  <2> QED BY <2>1, <2>2 DEF World!vars
<1>4. CASE ExecuteControl /\ control = "Run"
  <2>1. /\ UNCHANGED pc
        /\ state[next] = "RUN_READY" /\ state'[next] = "RUNNING"
        /\ \A t \in Tiles : t < next => state[t] = "RUNNING"
        /\ \A t \in Tiles : t >= next => state[t] = "RUN_READY"
        /\ \A t \in Tiles : t # next => state'[t] = state[t]
    BY <1>4 DEF ExecuteControl, AdvanceStateOuter, OuterMoves, StatesInStep, After, Ready,
       innerVars, Tiles
  <2>2. ~\A t \in Tiles : state'[t] \in Still
    BY <2>1
  <2>3. CASE next = 1
    <3>1. \A t \in Tiles : state[t] \in Still
      BY <2>1, <2>3 DEF Tiles
    <3>2. World!Resume
      BY <2>1, <2>2, <3>1 DEF World!Resume
    <3> QED BY <3>2 DEF World!Next
  <2>4. CASE next # 1
    <3>1. 1 \in Tiles /\ 1 < next
      BY <2>4, PauseAssumption DEF Tiles
    <3>2. ~\A t \in Tiles : state[t] \in Still
      BY <2>1, <3>1
    <3> QED BY <2>1, <2>2, <3>2 DEF World!vars
  <2> QED BY <2>3, <2>4
<1>5. CASE ExecuteControl /\ control # "Run"
  <2>1. /\ UNCHANGED pc
        /\ state[next] = "PAUSE_READY" /\ state'[next] = "PAUSED"
        /\ \A t \in Tiles : t < next => state[t] = "PAUSED"
        /\ \A t \in Tiles : t >= next => state[t] = "PAUSE_READY"
        /\ \A t \in Tiles : t # next => state'[t] = state[t]
    BY <1>5 DEF ExecuteControl, AdvanceStateOuter, OuterMoves, StatesInStep, After, Ready,
       innerVars, Tiles
  <2>2. ~\A t \in Tiles : state[t] \in Still
    BY <2>1
  <2>3. CASE next = N
    <3>1. \A t \in Tiles : state'[t] \in Still
      <4> SUFFICES ASSUME NEW t \in Tiles PROVE state'[t] = "PAUSED"
        OBVIOUS
      <4>1. t < next \/ t = next
        BY <2>3, TilesFacts
      <4> QED BY <2>1, <4>1
    <3>2. Active = {}
      BY <2>1 DEF ThreadsInStep, Tiles
    <3>3. World!Stop
      BY <2>1, <2>2, <3>1, <3>2 DEF World!Stop
    <3> QED BY <3>3 DEF World!Next
  <2>4. CASE next # N
    <3>1. N \in Tiles /\ N >= next /\ N # next
      BY <2>4, PauseAssumption DEF Tiles
    <3>2. state'[N] = "PAUSE_READY"
      BY <2>1, <3>1
    <3>3. ~\A t \in Tiles : state'[t] \in Still
      BY <3>1, <3>2
    <3> QED BY <2>1, <2>2, <3>3 DEF World!vars
  <2> QED BY <2>3, <2>4
<1> QED BY <1>1, <1>2, <1>3, <1>4, <1>5 DEF Control

\* The pausers and DoTileControl together do stop the world: no event is in
\* progress from Pause's return to the next Unpause.
THEOREM PauseStopsTheWorld == Spec => ImplementsStopTheWorld
<1>1. Init => World!Init
  BY DEF Init, World!Init
<1>2. PInv /\ [Next]_vars => [World!Next]_World!vars
  <2> SUFFICES ASSUME PInv, [Next]_vars PROVE World!Next \/ UNCHANGED World!vars
    OBVIOUS
  <2>1. CASE Next
    BY <2>1, WorldControl, WorldExecute DEF Next
  <2>2. CASE UNCHANGED vars
    BY <2>2, WorldStutters DEF vars, pauserVars, innerVars
  <2> QED BY <2>1, <2>2
<1> QED BY <1>1, <1>2, PauseInductive, PTL DEF Spec, ImplementsStopTheWorld, World!Spec
-----------------------------------------------------------------------------
(* Wakeups *)

\* With a sleep that outlasts wakeups, Pause begins with every thread awake.
AwakeForPause == control = "Pause" => \A t \in Tiles : pc[t] # "waitRunning"

WakeInv == NoLostWakeup /\ AwakeForPause

\* The driver signals whoever waits for the state it moves to.
LEMMA WakeControl ==
  ASSUME SleepsEnough, PInv, WakeInv, phase # "failed", BeginControl \/ Control
  PROVE  WakeInv'
<1> USE DEF PInv, TypeOK, WakeInv, NoLostWakeup, AwakeForPause
<1>1. CASE BeginControl \/ CheckIfReady \/ GiveUp
  BY <1>1 DEF BeginControl, CheckIfReady, GiveUp, pauserVars, innerVars
<1>2. CASE CreateThread
  BY <1>2 DEF CreateThread, Goto, pauserVars, controlVars
<1>3. CASE MakeRequest
  BY <1>3 DEF MakeRequest, AdvanceStateOuter, OuterMoves, StatesInStep, Before, Tiles,
     innerVars, Waits, Awaited
<1>4. CASE ExecuteControl
  BY <1>4 DEF ExecuteControl, AdvanceStateOuter, OuterMoves, StatesInStep, After, Ready,
     innerVars, Tiles, Waits, Awaited
<1> QED BY <1>1, <1>2, <1>3, <1>4 DEF Control

\* A thread blocks only while the state it waits for is still to come.
LEMMA WakeExecute ==
  ASSUME PInv, WakeInv, phase # "failed", NEW t \in Tiles, Execute(t)
  PROVE  WakeInv'
<1> USE DEF PInv, TypeOK, WakeInv, NoLostWakeup, AwakeForPause, pauserVars, controlVars, Goto
<1>1. CASE RecountAtomsIfNeeded(t) \/ StartEvent(t) \/ FailToLock(t) \/ FlushBetweenEvents(t)
           \/ FlushInEvent(t) \/ FinishEvent(t)
  BY <1>1 DEF RecountAtomsIfNeeded, StartEvent, FailToLock, FlushBetweenEvents, FlushInEvent,
     FinishEvent, innerVars
<1>2. CASE AdvanceStateInner(t)
  BY <1>2 DEF AdvanceStateInner
<1>3. CASE WakeMarked(t)
  BY <1>3 DEF WakeMarked, innerVars
<1>4. CASE GetStateBlockingInner(t)
  <2>1. state[t] = "RUN_READY" => control = "Run"
    BY <1>4 DEF GetStateBlockingInner, StatesInStep, After, Before, Ready, Tiles
  <2> USE <1>4, <2>1 DEF GetStateBlockingInner
  <2>2. CASE state[t] = "PAUSED"
    BY <2>2 DEF Block
  <2>3. CASE state[t] = "RUN_READY"
    BY <2>3 DEF Block
  <2>4. CASE state[t] \notin {"PAUSED", "RUN_READY"}
    BY <2>4 DEF Return
  <2> QED BY <2>2, <2>3, <2>4
<1>5. CASE Wake(t)
  BY <1>5 DEF Wake, MayWake, Waits, Awaited, Block, Return
<1> QED BY <1>1, <1>2, <1>3, <1>4, <1>5 DEF Execute

\* If the sleep between Unpause and Pause outlasts every wakeup, no wakeup is
\* lost: no thread goes on waiting for a state that has passed.
THEOREM WakeupsArrive == SleepsEnough => (Spec => []NoLostWakeup)
<1> SUFFICES ASSUME SleepsEnough PROVE Spec => []NoLostWakeup
  OBVIOUS
<1>1. Init => WakeInv
  BY DEF Init, WakeInv, NoLostWakeup, AwakeForPause
<1>2. PInv /\ WakeInv /\ [Next]_vars => WakeInv'
  <2> SUFFICES ASSUME PInv, WakeInv, [Next]_vars PROVE WakeInv'
    OBVIOUS
  <2>1. CASE Next
    BY <2>1, WakeControl, WakeExecute DEF Next
  <2>2. CASE UNCHANGED vars
    BY <2>2 DEF WakeInv, NoLostWakeup, AwakeForPause, vars, pauserVars, innerVars, controlVars
  <2> QED BY <2>1, <2>2
<1>3. WakeInv => NoLostWakeup
  BY DEF WakeInv
<1> QED BY <1>1, <1>2, <1>3, PauseInductive, PTL DEF Spec
-----------------------------------------------------------------------------
(* Failures *)

\* Whoever signals a thread holds the mutex, and clears the mark the thread
\* left on it; a thread that blocks again has used its signal up.
SignalInv == NeverFails /\ signalled \cap marked = {}

\* The driver's steps keep it.
LEMMA SignalControl ==
  ASSUME ~GivesUp, PInv, SignalInv, BeginControl \/ Control
  PROVE  SignalInv'
<1> USE DEF SignalInv, NeverFails
<1>1. CASE BeginControl \/ CreateThread
  BY <1>1 DEF BeginControl, CreateThread, pauserVars, controlVars
<1>2. CASE CheckIfReady
  BY <1>2 DEF CheckIfReady, Unlock, StepTo
<1>3. CASE MakeRequest \/ ExecuteControl
  BY <1>3 DEF MakeRequest, ExecuteControl, AdvanceStateOuter, Unlock, StepTo
<1> QED BY <1>1, <1>2, <1>3 DEF Control, GiveUp

\* A thread that blocks is not signalled, one that wakes up is not marked.
LEMMA SignalExecute ==
  ASSUME ~SpuriousWakeups, PInv, SignalInv, NEW t \in Tiles, Execute(t)
  PROVE  SignalInv'
<1> USE DEF SignalInv, NeverFails, pauserVars, controlVars
<1>1. CASE RecountAtomsIfNeeded(t) \/ StartEvent(t) \/ FailToLock(t) \/ FlushBetweenEvents(t)
           \/ FlushInEvent(t) \/ FinishEvent(t)
  BY <1>1 DEF RecountAtomsIfNeeded, StartEvent, FailToLock, FlushBetweenEvents, FlushInEvent,
     FinishEvent
<1>2. CASE AdvanceStateInner(t)
  BY <1>2 DEF AdvanceStateInner, Unlock
<1>3. CASE GetStateBlockingInner(t)
  <2>1. t \notin signalled
    BY <1>3 DEF GetStateBlockingInner, PInv, TypeOK, Waits
  <2>2. marked' \subseteq marked \cup {t}
    BY <1>3 DEF GetStateBlockingInner, Block, Return, Unlock
  <2> QED BY <1>3, <2>1, <2>2 DEF GetStateBlockingInner
<1>4. CASE Wake(t)
  <2>1. marked' \subseteq marked \cup {t}
    BY <1>4 DEF Wake, Block, Return, Unlock
  <2> QED BY <1>4, <2>1 DEF Wake
<1>5. ~WakeMarked(t)
  BY DEF WakeMarked, MayWake
<1> QED BY <1>1, <1>2, <1>3, <1>4, <1>5 DEF Execute

\* If no wait returns unsignalled and polling comes to an end, neither
\* DoTileControl nor CondWait FAILs: a thread always finds the m_locked of its
\* mutex cleared when it returns from a wait.
THEOREM NothingFails == ~SpuriousWakeups /\ ~GivesUp => (Spec => []NeverFails)
<1> SUFFICES ASSUME ~SpuriousWakeups, ~GivesUp PROVE Spec => []NeverFails
  OBVIOUS
<1>1. Init => SignalInv
  BY DEF Init, SignalInv, NeverFails
<1>2. PInv /\ SignalInv /\ [Next]_vars => SignalInv'
  <2> SUFFICES ASSUME PInv, SignalInv, [Next]_vars PROVE SignalInv'
    OBVIOUS
  <2>1. CASE Next
    BY <2>1, SignalControl, SignalExecute DEF Next
  <2>2. CASE UNCHANGED vars
    BY <2>2 DEF SignalInv, NeverFails, vars, pauserVars, controlVars
  <2> QED BY <2>1, <2>2
<1>3. SignalInv => NeverFails
  BY DEF SignalInv
<1> QED BY <1>1, <1>2, <1>3, PauseInductive, PTL DEF Spec
=============================================================================
