--------------------------- MODULE EventBehaviour ---------------------------
(***************************************************************************)
(* What one event may do to the atoms of its window, over any coordinate   *)
(* system.  However many times a Behavior sets and swaps sites through its *)
(* EventWindow, what it leaves at each site is an atom of its own or one   *)
(* that was somewhere in the window before: a behaviour is a record of     *)
(* which.  When it FAILs the centre is erased besides.                     *)
(***************************************************************************)
EXTENDS Integers

CONSTANTS
  Atoms,       \* atom contents told apart
  Empty,       \* the default atom of Element_Empty
  Behaviours   \* the behaviours an element may show
               \*   set: the sites given an atom, relative to the centre
               \*   moved: the sites given what was at another
               \*   fails: whether the behaviour FAILs in the end

ASSUME BehaviourAssumption ==
  /\ Empty \in Atoms
  /\ \A b \in Behaviours :
       /\ DOMAIN b.set \subseteq Int \X Int
       /\ DOMAIN b.moved \subseteq Int \X Int
       /\ \A rel \in DOMAIN b.set : b.set[rel] \in Atoms
       /\ \A rel \in DOMAIN b.moved : b.moved[rel] \in Int \X Int
       /\ b.fails \in BOOLEAN

Displace(c, rel) == <<c[1] + rel[1], c[2] + rel[2]>>
Offset(c, p)     == <<p[1] - c[1], p[2] - c[2]>>

Changes(b) == DOMAIN b.set \cup DOMAIN b.moved

\* ElementTable::Execute shows no behaviour at an empty centre.  An atom is
\* followed only from a site that is.
Applies(f, c, b) ==
  /\ c \in DOMAIN f /\ f[c] = Empty => Changes(b) = {} /\ ~b.fails
  /\ \A rel \in DOMAIN b.moved :
       Displace(c, rel) \in DOMAIN f => Displace(c, b.moved[rel]) \in DOMAIN f

Behave(f, c, b, p) ==
  LET rel == Offset(c, p)
  IN  CASE rel \in DOMAIN b.set -> b.set[rel]
        [] rel \in DOMAIN b.moved \ DOMAIN b.set -> f[Displace(c, b.moved[rel])]
        [] OTHER -> f[p]

\* ElementTable::Execute inside DoEvent's unwind_protect: a FAIL keeps what
\* the behaviour already did and empties the centre.
Result(f, c, b) ==
  [p \in DOMAIN f |-> IF b.fails /\ p = c THEN Empty ELSE Behave(f, c, b, p)]
=============================================================================
