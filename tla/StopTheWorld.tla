---------------------------- MODULE StopTheWorld ----------------------------
(***************************************************************************)
(* What pausing a grid promises its driver: events are begun only while    *)
(* the grid runs, and it has stopped only when none is in progress.        *)
(***************************************************************************)
CONSTANT Tiles

VARIABLES
  stopped,  \* whether the driver has the grid to itself
  active    \* the tiles with an event in progress

vars == <<stopped, active>>

Init == stopped = TRUE /\ active = {}

Resume == stopped /\ stopped' = FALSE /\ UNCHANGED active

BeginEvent ==
  /\ ~stopped
  /\ \E t \in Tiles \ active : active' = active \cup {t}
  /\ UNCHANGED stopped

EndEvent == \E t \in active : active' = active \ {t} /\ UNCHANGED stopped

Stop == ~stopped /\ active = {} /\ stopped' = TRUE /\ UNCHANGED active

Next == Resume \/ BeginEvent \/ EndEvent \/ Stop

Spec == Init /\ [][Next]_vars
=============================================================================
