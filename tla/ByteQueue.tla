----------------------------- MODULE ByteQueue -----------------------------
(***************************************************************************)
(* What a connection's buffer promises: bytes are read in the order they   *)
(* were written, each once, and never more of them are held than fit.      *)
(***************************************************************************)
EXTENDS Sequences, Naturals

CONSTANTS
  Byte,     \* the values of a byte
  Capacity  \* how many are held at most

VARIABLES
  contents,  \* the bytes held, oldest first
  received,  \* the bytes the reader has been given by its latest call
  pending    \* whether that call has still to return

vars == <<contents, received, pending>>

Init == contents = <<>> /\ received = <<>> /\ pending = FALSE

\* All the bytes of a Write are added at once.
Put ==
  /\ \E n \in 1 .. Capacity - Len(contents) : \E new \in [1 .. n -> Byte] :
       contents' = contents \o new
  /\ UNCHANGED <<received, pending>>

\* A call begins, or goes on: it gives some of the oldest bytes, after those
\* it has given already.
Take ==
  /\ \E n \in 0 .. Len(contents) :
       /\ received' = (IF pending THEN received ELSE <<>>) \o SubSeq(contents, 1, n)
       /\ contents' = SubSeq(contents, n + 1, Len(contents))
  /\ pending' \in BOOLEAN

Flush ==
  /\ ~pending
  /\ contents' = <<>>
  /\ UNCHANGED <<received, pending>>

Next == Put \/ Take \/ Flush

Spec == Init /\ [][Next]_vars
=============================================================================
