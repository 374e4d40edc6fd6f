---------------------------- MODULE ThreadQueue ----------------------------
(***************************************************************************)
(* The buffer of a connection in one direction: a ring of bytes with a     *)
(* mutex (ThreadQueue.cpp).  One thread reads it, the neighbour that the   *)
(* direction comes from; any may write it, and the driver looks into it.   *)
(* A call with the mutex held is one step; what a thread does without it   *)
(* are steps of its own.                                                   *)
(***************************************************************************)
EXTENDS Naturals, Sequences

CONSTANTS
  THREADQUEUE_MAX_BYTES,  \* the size of the ring
  Byte,                   \* the values of a byte
  Dead,                   \* the value a byte is given when it is read (0xdb)
  Outside                 \* what is found beyond the end of the array

ASSUME QueueAssumption ==
  /\ THREADQUEUE_MAX_BYTES \in Nat \ {0}
  /\ Dead \notin Byte
  /\ Outside \notin Byte \cup {Dead}

VARIABLES
  m_queueData,   \* the ring
  m_writeHead,   \* where the next byte is written
  m_readHead,    \* where the next byte is read
  m_heldBytes,   \* how many bytes are held
  reader,        \* what the reader is doing
  wanted,        \* the length it has asked for
  received,      \* the bytes its latest call has given it
  signalled,     \* whether its wait for more input has been signalled
  m_locked,      \* whether a wait has left the mutex marked as locked
  peeked,        \* what the driver asked to see last, and what it was shown
  failed         \* whether a call has FAILed

ring   == <<m_queueData, m_writeHead, m_readHead, m_heldBytes>>
client == <<reader, wanted, received, signalled>>
vars   == <<ring, client, m_locked, peeked, failed>>

Slots   == 0 .. THREADQUEUE_MAX_BYTES - 1
Lengths == 1 .. THREADQUEUE_MAX_BYTES

\* The slot i places after slot h.
Slot(h, i) == (h + i) % THREADQUEUE_MAX_BYTES

\* How many places after slot h slot k is.
Place(h, k) == (k + THREADQUEUE_MAX_BYTES - h) % THREADQUEUE_MAX_BYTES

NothingPeeked == [index |-> 0, expected |-> <<>>, shown |-> <<>>]

Init ==
  /\ m_queueData = [k \in Slots |-> Dead]
  /\ m_writeHead = 0
  /\ m_readHead = 0
  /\ m_heldBytes = 0
  /\ reader = "idle"
  /\ wanted = 0
  /\ received = <<>>
  /\ signalled = FALSE
  /\ m_locked = FALSE
  /\ peeked = NothingPeeked
  /\ failed = FALSE

\* The bytes held, oldest first.
Contents == [i \in 1 .. m_heldBytes |-> m_queueData[Slot(m_readHead, i - 1)]]
-----------------------------------------------------------------------------
\* (Variant with a mistake: signals only when the reader can have all it wants.)
Write_SignalIfEnough(bytes) ==
  /\ Len(bytes) + m_heldBytes <= THREADQUEUE_MAX_BYTES
  /\ m_queueData' = [k \in Slots |->
       IF Place(m_writeHead, k) < Len(bytes)
       THEN bytes[Place(m_writeHead, k) + 1] ELSE m_queueData[k]]
  /\ m_writeHead' = Slot(m_writeHead, Len(bytes))
  /\ m_heldBytes' = m_heldBytes + Len(bytes)
  /\ signalled' = (signalled \/ (reader = "waiting"
                                 /\ Len(received) + m_heldBytes' >= wanted))
  /\ m_locked' = FALSE
  /\ UNCHANGED <<m_readHead, reader, wanted, received, peeked, failed>>

\* (Variant with a mistake: writes over bytes held when there is no room.)
Write_NoRoomCheck(bytes) ==
  /\ m_heldBytes < THREADQUEUE_MAX_BYTES
  /\ m_queueData' = [k \in Slots |->
       IF Place(m_writeHead, k) < Len(bytes)
       THEN bytes[Place(m_writeHead, k) + 1] ELSE m_queueData[k]]
  /\ m_writeHead' = Slot(m_writeHead, Len(bytes))
  /\ m_heldBytes' = IF m_heldBytes + Len(bytes) > THREADQUEUE_MAX_BYTES
                    THEN THREADQUEUE_MAX_BYTES ELSE m_heldBytes + Len(bytes)
  /\ signalled' = (signalled \/ reader = "waiting")
  /\ m_locked' = FALSE
  /\ UNCHANGED <<m_readHead, reader, wanted, received, peeked, failed>>

\* Write, when there is room.
Write(bytes) ==
  /\ Len(bytes) + m_heldBytes <= THREADQUEUE_MAX_BYTES
  /\ m_queueData' = [k \in Slots |->
       IF Place(m_writeHead, k) < Len(bytes)
       THEN bytes[Place(m_writeHead, k) + 1] ELSE m_queueData[k]]
  /\ m_writeHead' = Slot(m_writeHead, Len(bytes))
  /\ m_heldBytes' = m_heldBytes + Len(bytes)
  /\ signalled' = (signalled \/ reader = "waiting")
  /\ m_locked' = FALSE
  /\ UNCHANGED <<m_readHead, reader, wanted, received, peeked, failed>>

\* Write, when there is not: FAIL(OUT_OF_RESOURCES).
WriteOverload(length) ==
  /\ length + m_heldBytes > THREADQUEUE_MAX_BYTES
  /\ failed' = TRUE
  /\ UNCHANGED <<ring, client, m_locked, peeked>>

\* UnsafeRead: as many of the oldest bytes as are wanted and held, after those
\* the call has been given before.
UnsafeRead(before, length) ==
  LET n == IF length < m_heldBytes THEN length ELSE m_heldBytes
  IN  /\ received' = before \o SubSeq(Contents, 1, n)
      /\ m_queueData' = [k \in Slots |->
           IF Place(m_readHead, k) < n THEN Dead ELSE m_queueData[k]]
      /\ m_readHead' = Slot(m_readHead, n)
      /\ m_heldBytes' = m_heldBytes - n
      /\ UNCHANGED m_writeHead

\* (Variant with a mistake: asks only whether anything is held.)
Read_AnyBytes(length) ==
  /\ reader = "idle"
  /\ wanted' = length
  /\ received' = <<>>
  /\ reader' = IF m_heldBytes > 0 THEN "reading" ELSE "idle"
  /\ UNCHANGED <<ring, signalled, m_locked, peeked, failed>>

\* Read looks at m_heldBytes without the mutex, and gives up if that is short.
Read(length) ==
  /\ reader = "idle"
  /\ wanted' = length
  /\ received' = <<>>
  /\ reader' = IF m_heldBytes >= length THEN "reading" ELSE "idle"
  /\ UNCHANGED <<ring, signalled, m_locked, peeked, failed>>

\* Then it takes the mutex.
ReadLocked ==
  /\ reader = "reading"
  /\ UnsafeRead(<<>>, wanted)
  /\ reader' = "idle"
  /\ UNCHANGED <<wanted, signalled, m_locked, peeked, failed>>

\* The loop of ReadBlocking once it has the mutex, with the bytes it was given
\* before: it takes what there is, and waits if that is not all it wants.  The
\* wait lets go of the mutex but leaves it marked as locked.
ReadMore(before) ==
  /\ UnsafeRead(before, wanted' - Len(before))
  /\ reader' = IF Len(received') < wanted' THEN "waiting" ELSE "idle"
  /\ m_locked' = (reader' = "waiting")
  /\ signalled' = FALSE
  /\ UNCHANGED <<peeked, failed>>

ReadBlocking(length) ==
  /\ reader = "idle"
  /\ wanted' = length
  /\ ReadMore(<<>>)

\* (Variant with a mistake: starts over, losing what it was given.)
Wake_StartsOver ==
  /\ reader = "waiting" /\ signalled /\ ~m_locked
  /\ UNCHANGED wanted
  /\ ReadMore(<<>>)

\* The wait for more input returns.
Wake ==
  /\ reader = "waiting" /\ signalled /\ ~m_locked
  /\ UNCHANGED wanted
  /\ ReadMore(received)

\* It returns though nothing has signalled it.  There being no input it waits
\* again; but if nobody has had the mutex since it began to wait, the mark is
\* still there and CondWait FAILs, as it would for a signalled one.
WakeUnasked ==
  /\ reader = "waiting" /\ (m_locked \/ ~signalled)
  /\ m_locked' = TRUE
  /\ failed' = m_locked
  /\ UNCHANGED <<ring, client, peeked>>

\* The slots PeekRead looks at: the head is taken round only after a byte has
\* been read, so the first may lie outside the array.
PeekSlot(index, i) ==
  IF i = 0 THEN index + m_readHead ELSE Slot(index + m_readHead, i)

PeekRead(index, length) ==
  /\ index + length <= m_heldBytes
  /\ peeked' = [index    |-> index,
                expected |-> SubSeq(Contents, index + 1, index + length),
                shown    |-> [i \in 1 .. length |->
                  LET k == PeekSlot(index, i - 1)
                  IN  IF k \in Slots THEN m_queueData[k] ELSE Outside]]
  /\ m_locked' = FALSE
  /\ UNCHANGED <<ring, client, failed>>

\* PeekRead beyond what is held: FAIL(ARRAY_INDEX_OUT_OF_BOUNDS).
PeekBeyond(index, length) ==
  /\ index + length > m_heldBytes
  /\ failed' = TRUE
  /\ UNCHANGED <<ring, client, m_locked, peeked>>

\* BytesAvailable has the mutex for a moment.
BytesAvailable ==
  /\ m_locked' = FALSE
  /\ UNCHANGED <<ring, client, peeked, failed>>

\* Flush, by the reader: never while it is in ReadBlocking.
Flush ==
  /\ reader = "idle"
  /\ m_readHead' = 0 /\ m_writeHead' = 0 /\ m_heldBytes' = 0
  /\ UNCHANGED <<m_queueData, client, m_locked, peeked, failed>>
-----------------------------------------------------------------------------
\* After a FAIL the program has ended.
Next ==
  /\ ~failed
  /\ \/ \E n \in Lengths : \E bytes \in [1 .. n -> Byte] : Write(bytes)
     \/ \E n \in Lengths : WriteOverload(n) \/ Read(n) \/ ReadBlocking(n)
     \/ ReadLocked \/ Wake \/ WakeUnasked \/ BytesAvailable \/ Flush
     \/ \E i \in Slots, n \in Lengths : PeekRead(i, n) \/ PeekBeyond(i, n)

Spec == Init /\ [][Next]_vars
-----------------------------------------------------------------------------
(* Properties *)

\* The heads stay in the ring, as far apart as there are bytes held, and a
\* reader waits only for bytes it has not been given.
TypeOK ==
  /\ m_queueData \in [Slots -> Byte \cup {Dead}]
  /\ m_writeHead \in Slots
  /\ m_readHead \in Slots
  /\ m_heldBytes \in 0 .. THREADQUEUE_MAX_BYTES
  /\ m_writeHead = Slot(m_readHead, m_heldBytes)
  /\ reader \in {"idle", "reading", "waiting"}
  /\ wanted \in 0 .. THREADQUEUE_MAX_BYTES
  /\ reader = "waiting" => Len(received) < wanted
  /\ signalled \in BOOLEAN
  /\ m_locked \in BOOLEAN
  /\ failed \in BOOLEAN

\* What the unlocked look at m_heldBytes promised is still there when the
\* mutex has been taken: Read gives all of the bytes asked for or none
\* (ThreadQueue.cpp:78, "Bail if there aren't enough bytes to read").  Tile reads
\* packets that way and FAILs on a part of one.  ThreadQueue.h:166 promises
\* something else, for which see ReadsWhatIsHeld.
ReadsAreWhole ==
  /\ reader = "reading" => m_heldBytes >= wanted
  /\ reader = "idle" => Len(received) \in {0, wanted}

\* A reader that waits has been signalled as soon as there is input, and may go
\* on when it is: the mutex is not marked as locked then, which CondWait takes
\* for a FAIL.
NoLostWakeup ==
  reader = "waiting" =>
    /\ m_heldBytes > 0 => signalled
    /\ signalled => ~m_locked

\* The bytes held, and those given to the reader, are all bytes that were
\* written: none is one that has been read before.
OnlyLiveBytes ==
  /\ \A i \in 0 .. m_heldBytes - 1 : m_queueData[Slot(m_readHead, i)] \in Byte
  /\ received \in Seq(Byte)

\* The inductive invariant.
QInv == TypeOK /\ OnlyLiveBytes /\ ReadsAreWhole /\ NoLostWakeup

\* The ring implements a queue of bytes.
Fifo == INSTANCE ByteQueue WITH
  Capacity <- THREADQUEUE_MAX_BYTES,
  contents <- Contents,
  pending  <- reader = "waiting"

ImplementsByteQueue == Fifo!Spec

\* Read "reads as many bytes as possible from the underlying queue, up to the
\* specified limit, before returning" (ThreadQueue.h:168): it returns with none
\* only where none are held.
ReadsWhatIsHeld ==
  [][\A n \in Lengths : Read(n) /\ reader' = "idle" => m_heldBytes = 0]_vars

\* PeekRead "writes a series of held bytes to a specified buffer"
\* (ThreadQueue.h).
PeekShowsHeldBytes == peeked.shown = peeked.expected
=============================================================================
