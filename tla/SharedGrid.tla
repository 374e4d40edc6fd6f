----------------------------- MODULE SharedGrid -----------------------------
(***************************************************************************)
(* What the grid promises: one array of sites, as if no tile had caches.   *)
(* Events at windows that share no site may be in progress at once; each   *)
(* changes its window in one step, starting from the latest atoms.  The    *)
(* driver clears and edits while no event is in progress.                  *)
(***************************************************************************)
EXTENDS EventBehaviour

CONSTANTS
  R,         \* EVENT_WINDOW_RADIUS
  Sites,     \* the sites followed, in grid coordinates
  Centers    \* the sites at which an event may happen

VARIABLES
  shared,  \* the atoms of the sites
  begun,   \* the centres of the events whose behaviour has not run
  done     \* and of those whose behaviour has

vars == <<shared, begun, done>>

Magnitude(i) == IF i < 0 THEN -i ELSE i

\* No site is in the windows of both.
Apart(c, e) == Magnitude(c[1] - e[1]) + Magnitude(c[2] - e[2]) > 2 * R

Init ==
  /\ shared \in [Sites -> Atoms]
  /\ begun = {}
  /\ done = {}

Begin ==
  /\ \E c \in Centers :
       /\ \A e \in begun \cup done : Apart(c, e)
       /\ begun' = begun \cup {c}
  /\ UNCHANGED <<shared, done>>

Happen ==
  \E c \in begun, b \in Behaviours :
    /\ Applies(shared, c, b)
    /\ shared' = Result(shared, c, b)
    /\ begun' = begun \ {c}
    /\ done' = done \cup {c}

End ==
  /\ \E c \in done : done' = done \ {c}
  /\ UNCHANGED <<shared, begun>>

Edit ==
  /\ begun = {} /\ done = {}
  /\ \E g \in Sites, a \in Atoms : shared' = [shared EXCEPT ![g] = a]
  /\ UNCHANGED <<begun, done>>

Clear ==
  /\ begun = {} /\ done = {}
  /\ shared' = [g \in Sites |-> Empty]
  /\ UNCHANGED <<begun, done>>

Next == Begin \/ Happen \/ End \/ Edit \/ Clear

Spec == Init /\ [][Next]_vars
=============================================================================
