------------------------- MODULE ThreadQueueProofs -------------------------
(***************************************************************************)
(* Theorems about ThreadQueue, for rings of any size.                      *)
(***************************************************************************)
EXTENDS ThreadQueue, SequenceTheorems, TLAPS

Size == THREADQUEUE_MAX_BYTES

\* A head taken round the ring once is the sum, or the sum less the size.
LEMMA WrapOnce ==
  ASSUME NEW n \in Nat \ {0}, NEW a \in Nat, a < 2 * n
  PROVE  a % n = IF a < n THEN a ELSE a - n
  BY SMT

\* The slot i places on, for i up to the size of the ring.
LEMMA SlotIs ==
  ASSUME NEW h \in Slots, NEW i \in 0 .. Size
  PROVE  /\ Slot(h, i) = IF h + i < Size THEN h + i ELSE h + i - Size
         /\ Slot(h, i) \in Slots
<1> DEFINE a == h + i
<1>1. a \in Nat /\ a < 2 * Size /\ Size \in Nat \ {0}
  BY QueueAssumption DEF Slots, Size
<1>2. a % Size = IF a < Size THEN a ELSE a - Size
  <2> HIDE DEF a
  <2> QED BY <1>1, WrapOnce
<1> QED BY <1>1, <1>2 DEF Slot, Slots, Size

\* Going on by i places and then by j is going on by i + j.
LEMMA SlotAdds ==
  ASSUME NEW h \in Slots, NEW i \in Nat, NEW j \in Nat, i + j <= Size
  PROVE  Slot(Slot(h, i), j) = Slot(h, i + j)
<1>1. i \in 0 .. Size /\ j \in 0 .. Size /\ i + j \in 0 .. Size /\ Size \in Nat
  BY QueueAssumption DEF Size
<1>2. Slot(h, i) = IF h + i < Size THEN h + i ELSE h + i - Size
  BY <1>1, SlotIs
<1>3. Slot(h, i + j) = IF h + (i + j) < Size THEN h + (i + j) ELSE h + (i + j) - Size
  BY <1>1, SlotIs
<1>4. Slot(h, i) \in Slots
  BY <1>1, SlotIs
<1>5. Slot(Slot(h, i), j) = IF Slot(h, i) + j < Size THEN Slot(h, i) + j ELSE Slot(h, i) + j - Size
  BY <1>1, <1>4, SlotIs
<1> QED BY <1>1, <1>2, <1>3, <1>5 DEF Slots, Size

\* How far the slot i places after h is from the one m places after it.
LEMMA PlaceIs ==
  ASSUME NEW h \in Slots, NEW m \in 0 .. Size, NEW i \in 0 .. Size - 1
  PROVE  Place(Slot(h, m), Slot(h, i)) = IF i >= m THEN i - m ELSE i + Size - m
<1>1. i \in 0 .. Size /\ Size \in Nat \ {0} /\ h \in 0 .. Size - 1
  BY QueueAssumption DEF Size, Slots
<1>2. Slot(h, i) = IF h + i < Size THEN h + i ELSE h + i - Size
  BY <1>1, SlotIs
<1>3. Slot(h, m) = IF h + m < Size THEN h + m ELSE h + m - Size
  BY SlotIs
<1>4. Slot(h, i) \in 0 .. Size - 1 /\ Slot(h, m) \in 0 .. Size - 1
  BY <1>1, SlotIs DEF Slots, Size
<1> DEFINE a == Slot(h, i) + Size - Slot(h, m)
<1>5. a \in Nat /\ a < 2 * Size
  BY <1>1, <1>4
<1>6. a % Size = IF a < Size THEN a ELSE a - Size
  <2> HIDE DEF a
  <2> QED BY <1>1, <1>5, WrapOnce
<1>7. Place(Slot(h, m), Slot(h, i)) = a % Size
  BY DEF Place, Size
<1> QED BY <1>1, <1>2, <1>3, <1>6, <1>7

\* Every slot is some number of places after any other.
LEMMA PlaceZero ==
  ASSUME NEW h \in Slots, NEW i \in 0 .. Size - 1
  PROVE  Place(h, Slot(h, i)) = i
<1>1. Slot(h, 0) = h /\ 0 \in 0 .. Size
  BY QueueAssumption, SlotIs DEF Slots, Size
<1> QED BY <1>1, PlaceIs, QueueAssumption DEF Size
-----------------------------------------------------------------------------
(* The invariant *)

\* What the steps need to know of the types.
LEMMA Typing ==
  ASSUME QInv
  PROVE  /\ Size \in Nat \ {0}
         /\ m_heldBytes \in 0 .. Size /\ m_readHead \in Slots /\ m_writeHead \in Slots
         /\ m_writeHead = Slot(m_readHead, m_heldBytes)
         /\ m_queueData \in [Slots -> Byte \cup {Dead}]
BY QueueAssumption DEF QInv, TypeOK, Size

\* The oldest bytes held are bytes that were written.
LEMMA ContentsAre ==
  ASSUME QInv
  PROVE  /\ Contents \in Seq(Byte)
         /\ Len(Contents) = m_heldBytes
         /\ \A i \in 1 .. m_heldBytes :
              Contents[i] = m_queueData[Slot(m_readHead, i - 1)]
<1>1. m_heldBytes \in Nat
  BY Typing DEF Size
<1>2. \A i \in 1 .. m_heldBytes : m_queueData[Slot(m_readHead, i - 1)] \in Byte
  BY <1>1 DEF QInv, OnlyLiveBytes
<1>3. Contents \in [1 .. m_heldBytes -> Byte]
  BY <1>2 DEF Contents
<1> QED BY <1>1, <1>3 DEF Contents

\* A write that fits leaves the bytes held where they are, and puts the new
\* ones behind them.
LEMMA WriteBytes ==
  ASSUME QInv, NEW n \in Lengths, NEW bytes \in [1 .. n -> Byte], Write(bytes)
  PROVE  /\ n + m_heldBytes <= Size /\ m_heldBytes' = m_heldBytes + n
         /\ m_readHead' = m_readHead
         /\ m_writeHead' = Slot(m_readHead', m_heldBytes')
         /\ m_queueData' \in [Slots -> Byte \cup {Dead}]
         /\ \A i \in 0 .. m_heldBytes' - 1 :
              m_queueData'[Slot(m_readHead', i)] =
                IF i < m_heldBytes THEN m_queueData[Slot(m_readHead, i)]
                                   ELSE bytes[i - m_heldBytes + 1]
<1>1. Len(bytes) = n /\ n \in 1 .. Size
  BY QueueAssumption DEF Lengths, Size
<1>2. /\ n + m_heldBytes <= Size /\ m_heldBytes' = m_heldBytes + n
      /\ m_readHead' = m_readHead
      /\ m_writeHead' = Slot(m_writeHead, n)
      /\ m_queueData' = [k \in Slots |->
           IF Place(m_writeHead, k) < n THEN bytes[Place(m_writeHead, k) + 1]
                                        ELSE m_queueData[k]]
  BY <1>1 DEF Write, Size
<1>3. m_writeHead' = Slot(m_readHead', m_heldBytes')
  BY <1>1, <1>2, Typing, SlotAdds
<1>4. ASSUME NEW k \in Slots
      PROVE  Place(m_writeHead, k) \in Nat
  BY <1>4, Typing DEF Place, Slots, Size
<1>5. m_queueData' \in [Slots -> Byte \cup {Dead}]
  BY <1>1, <1>2, <1>4, Typing
<1>6. ASSUME NEW i \in 0 .. m_heldBytes' - 1
      PROVE  m_queueData'[Slot(m_readHead', i)] =
                IF i < m_heldBytes THEN m_queueData[Slot(m_readHead, i)]
                                   ELSE bytes[i - m_heldBytes + 1]
  <2>1. i \in 0 .. Size - 1 /\ i \in 0 .. Size
    BY <1>1, <1>2, <1>6, Typing
  <2>2. Slot(m_readHead, i) \in Slots
    BY <2>1, SlotIs, Typing
  <2>3. Place(m_writeHead, Slot(m_readHead, i)) =
          IF i >= m_heldBytes THEN i - m_heldBytes ELSE i + Size - m_heldBytes
    BY <2>1, PlaceIs, Typing
  <2>4. i < m_heldBytes => ~(i + Size - m_heldBytes < n)
    BY <1>1, <1>2, <2>1, Typing
  <2>5. i >= m_heldBytes => i - m_heldBytes < n
    BY <1>1, <1>2, <1>6, Typing
  <2> QED BY <1>2, <2>1, <2>2, <2>3, <2>4, <2>5, Typing
<1> QED BY <1>2, <1>3, <1>5, <1>6

\* A read takes the oldest bytes, marks them dead, and leaves the others.
LEMMA ReadBytes ==
  ASSUME QInv, NEW before \in Seq(Byte), NEW length \in 0 .. Size, UnsafeRead(before, length)
  PROVE  \E n \in 0 .. m_heldBytes :
           /\ n = (IF length < m_heldBytes THEN length ELSE m_heldBytes)
           /\ received' = before \o SubSeq(Contents, 1, n)
           /\ received' \in Seq(Byte) /\ Len(received') = Len(before) + n
           /\ m_heldBytes' = m_heldBytes - n
           /\ m_readHead' \in Slots
           /\ m_writeHead' = m_writeHead
           /\ m_writeHead' = Slot(m_readHead', m_heldBytes')
           /\ m_queueData' \in [Slots -> Byte \cup {Dead}]
           /\ \A i \in 0 .. m_heldBytes' - 1 :
                m_queueData'[Slot(m_readHead', i)] = m_queueData[Slot(m_readHead, n + i)]
<1> DEFINE n == IF length < m_heldBytes THEN length ELSE m_heldBytes
<1>1. n \in 0 .. m_heldBytes /\ n \in 0 .. Size
  BY Typing
<1>2. /\ received' = before \o SubSeq(Contents, 1, n)
      /\ m_queueData' = [k \in Slots |-> IF Place(m_readHead, k) < n THEN Dead ELSE m_queueData[k]]
      /\ m_readHead' = Slot(m_readHead, n)
      /\ m_heldBytes' = m_heldBytes - n
      /\ m_writeHead' = m_writeHead
  BY DEF UnsafeRead
<1> HIDE DEF n
<1>3. received' \in Seq(Byte) /\ Len(received') = Len(before) + n
  <2>1. SubSeq(Contents, 1, n) \in Seq(Byte) /\ Len(SubSeq(Contents, 1, n)) = n
    BY <1>1, ContentsAre, Typing
  <2> QED BY <1>2, <2>1
<1>4. m_readHead' \in Slots
  BY <1>1, <1>2, SlotIs, Typing
<1>5. m_writeHead' = Slot(m_readHead', m_heldBytes')
  <2>1. n \in Nat /\ m_heldBytes - n \in Nat /\ n + (m_heldBytes - n) <= Size
        /\ n + (m_heldBytes - n) = m_heldBytes
    BY <1>1, Typing
  <2>2. Slot(Slot(m_readHead, n), m_heldBytes - n) = Slot(m_readHead, n + (m_heldBytes - n))
    BY <2>1, SlotAdds, Typing
  <2> QED BY <1>2, <2>1, <2>2, Typing
<1>6. m_queueData' \in [Slots -> Byte \cup {Dead}]
  BY <1>2, Typing
<1>7. ASSUME NEW i \in 0 .. m_heldBytes' - 1
      PROVE  m_queueData'[Slot(m_readHead', i)] = m_queueData[Slot(m_readHead, n + i)]
  <2>1. i \in Nat /\ n \in Nat /\ n + i <= Size /\ n + i \in 0 .. Size - 1 /\ n + i \in 0 .. Size
    BY <1>1, <1>2, <1>7, Typing
  <2>2. Slot(m_readHead', i) = Slot(m_readHead, n + i)
    BY <1>2, <2>1, SlotAdds, Typing
  <2>3. Slot(m_readHead, n + i) \in Slots
    BY <2>1, SlotIs, Typing
  <2>4. Place(m_readHead, Slot(m_readHead, n + i)) = n + i
    BY <2>1, PlaceZero, Typing
  <2>5. ~(n + i < n)
    BY <2>1
  <2> QED BY <1>2, <2>2, <2>3, <2>4, <2>5
<1>8. n = (IF length < m_heldBytes THEN length ELSE m_heldBytes)
  BY DEF n
<1> QED BY <1>1, <1>2, <1>3, <1>4, <1>5, <1>6, <1>7, <1>8

LEMMA InitQInv == Init => QInv
<1> SUFFICES ASSUME Init PROVE QInv
  OBVIOUS
<1>1. 0 \in Slots /\ Slot(0, 0) = 0 /\ Size \in Nat
  <2>1. 0 \in Slots /\ 0 \in 0 .. Size /\ Size \in Nat \ {0}
    BY QueueAssumption DEF Slots, Size
  <2>2. Slot(0, 0) = IF 0 + 0 < Size THEN 0 + 0 ELSE 0 + 0 - Size
    BY <2>1, SlotIs
  <2> QED BY <2>1, <2>2
<1>2. TypeOK
  BY <1>1 DEF Init, TypeOK, Size
<1>3. OnlyLiveBytes /\ ReadsAreWhole /\ NoLostWakeup
  BY DEF Init, OnlyLiveBytes, ReadsAreWhole, NoLostWakeup
<1> QED BY <1>2, <1>3 DEF QInv

\* A write keeps the invariant: it wakes whoever waits.
LEMMA WriteStep ==
  ASSUME QInv, NEW n \in Lengths, NEW bytes \in [1 .. n -> Byte], Write(bytes)
  PROVE  QInv'
<1>1. /\ m_heldBytes' \in 0 .. Size /\ m_heldBytes' >= m_heldBytes
      /\ m_readHead' \in Slots /\ m_writeHead' \in Slots
      /\ m_writeHead' = Slot(m_readHead', m_heldBytes')
      /\ m_queueData' \in [Slots -> Byte \cup {Dead}]
  <2>1. m_heldBytes' \in 0 .. Size /\ m_heldBytes' >= m_heldBytes
    BY WriteBytes, Typing DEF Lengths, Size
  <2> QED BY <2>1, WriteBytes, Typing, SlotIs
<1>2. UNCHANGED <<reader, wanted, received, failed>>
      /\ signalled' = (signalled \/ reader = "waiting") /\ m_locked' = FALSE
  BY DEF Write
<1>3. TypeOK'
  BY <1>1, <1>2 DEF QInv, TypeOK, Size
<1>4. ASSUME NEW i \in 0 .. m_heldBytes' - 1
      PROVE  m_queueData'[Slot(m_readHead', i)] \in Byte
  <2>1. i < m_heldBytes => i \in 0 .. m_heldBytes - 1
    BY <1>1, <1>4, Typing
  <2>2. i >= m_heldBytes => i - m_heldBytes + 1 \in 1 .. n
    BY <1>4, WriteBytes, Typing DEF Lengths, Size
  <2>3. m_queueData'[Slot(m_readHead', i)] =
          IF i < m_heldBytes THEN m_queueData[Slot(m_readHead, i)]
                             ELSE bytes[i - m_heldBytes + 1]
    BY <1>4, WriteBytes
  <2>4. CASE i < m_heldBytes
    BY <2>1, <2>3, <2>4 DEF QInv, OnlyLiveBytes
  <2>5. CASE i >= m_heldBytes
    BY <1>4, <2>2, <2>3, <2>5, Typing
  <2> QED BY <1>1, <1>4, <2>4, <2>5, Typing
<1>5. ReadsAreWhole' /\ NoLostWakeup'
  <2>1. wanted \in Nat /\ m_heldBytes \in Nat /\ m_heldBytes' \in Nat
    BY <1>1, Typing DEF QInv, TypeOK
  <2>2. ReadsAreWhole'
    BY <1>1, <1>2, <2>1 DEF QInv, ReadsAreWhole
  <2>3. (reader' = "waiting" => signalled') /\ ~m_locked'
    BY <1>2
  <2> QED BY <2>2, <2>3 DEF NoLostWakeup
<1> QED BY <1>2, <1>3, <1>4, <1>5 DEF QInv, OnlyLiveBytes

\* So does taking bytes out, as far as the ring is concerned.
LEMMA ReadKeepsRing ==
  ASSUME QInv, NEW before \in Seq(Byte), NEW length \in 0 .. Size, UnsafeRead(before, length)
  PROVE  /\ m_heldBytes' \in 0 .. Size
         /\ m_readHead' \in Slots /\ m_writeHead' \in Slots
         /\ m_writeHead' = Slot(m_readHead', m_heldBytes')
         /\ m_queueData' \in [Slots -> Byte \cup {Dead}]
         /\ OnlyLiveBytes'
         /\ length <= m_heldBytes => Len(received') = Len(before) + length
         /\ Len(received') < Len(before) + length => m_heldBytes' = 0
         /\ Len(received') <= Len(before) + length
<1>1. PICK n \in 0 .. m_heldBytes :
           /\ n = (IF length < m_heldBytes THEN length ELSE m_heldBytes)
           /\ received' \in Seq(Byte) /\ Len(received') = Len(before) + n
           /\ m_heldBytes' = m_heldBytes - n
           /\ m_readHead' \in Slots
           /\ m_writeHead' = m_writeHead
           /\ m_writeHead' = Slot(m_readHead', m_heldBytes')
           /\ m_queueData' \in [Slots -> Byte \cup {Dead}]
           /\ \A i \in 0 .. m_heldBytes' - 1 :
                m_queueData'[Slot(m_readHead', i)] = m_queueData[Slot(m_readHead, n + i)]
  BY ReadBytes
<1>2. ASSUME NEW i \in 0 .. m_heldBytes' - 1
      PROVE  m_queueData'[Slot(m_readHead', i)] \in Byte
  <2>1. n + i \in 0 .. m_heldBytes - 1
    BY <1>1, <1>2, Typing
  <2> QED BY <1>1, <1>2, <2>1 DEF QInv, OnlyLiveBytes
<1>3. OnlyLiveBytes'
  BY <1>1, <1>2 DEF OnlyLiveBytes
<1>4. Len(before) \in Nat
  OBVIOUS
<1>5. \A l, k, h \in Nat : LET m == IF k < h THEN k ELSE h
                          IN  /\ k <= h => l + m = l + k
                              /\ l + m < l + k => h - m = 0
                              /\ l + m <= l + k
  OBVIOUS
<1>6. length \in Nat /\ m_heldBytes \in Nat
  BY Typing
<1>7. /\ length <= m_heldBytes => Len(received') = Len(before) + length
      /\ Len(received') < Len(before) + length => m_heldBytes' = 0
      /\ Len(received') <= Len(before) + length
  BY <1>1, <1>4, <1>5, <1>6
<1>8. m_heldBytes' \in 0 .. Size
  BY <1>1, Typing
<1> QED BY <1>1, <1>3, <1>7, <1>8, Typing

\* The reader's calls keep it: nobody else takes bytes between Read's look
\* and its lock.
LEMMA ReadStep ==
  ASSUME QInv,
         \/ \E n \in Lengths : Read(n) \/ ReadBlocking(n)
         \/ ReadLocked \/ Wake \/ Flush
  PROVE  QInv'
<1> USE Typing DEF Lengths
<1>1. ASSUME NEW n \in Lengths, Read(n)
      PROVE  QInv'
  <2>1. TypeOK'
    BY <1>1 DEF Read, ring, QInv, TypeOK, Size
  <2>2. OnlyLiveBytes' /\ ReadsAreWhole' /\ NoLostWakeup'
    BY <1>1 DEF Read, ring, QInv, OnlyLiveBytes, ReadsAreWhole, NoLostWakeup, Size
  <2> QED BY <2>1, <2>2 DEF QInv
<1>2. CASE ReadLocked
  <2>1. /\ reader = "reading" /\ wanted <= m_heldBytes /\ wanted \in 0 .. Size
        /\ <<>> \in Seq(Byte) /\ UnsafeRead(<<>>, wanted)
        /\ reader' = "idle" /\ UNCHANGED <<wanted, signalled, m_locked, failed>>
    BY <1>2 DEF ReadLocked, QInv, ReadsAreWhole, TypeOK, Size
  <2>2. /\ m_heldBytes' \in 0 .. Size
        /\ m_readHead' \in Slots /\ m_writeHead' \in Slots
        /\ m_writeHead' = Slot(m_readHead', m_heldBytes')
        /\ m_queueData' \in [Slots -> Byte \cup {Dead}]
        /\ OnlyLiveBytes'
        /\ Len(received') = wanted
    <3>1. Len(received') = Len(<<>>) + wanted
      BY <2>1, ReadKeepsRing
    <3>2. Len(<<>>) + wanted = wanted
      BY <2>1
    <3> QED BY <2>1, <3>1, <3>2, ReadKeepsRing
  <2> QED BY <2>1, <2>2 DEF QInv, TypeOK, ReadsAreWhole, NoLostWakeup, Size
<1>3. ASSUME NEW before \in Seq(Byte), NEW n \in 0 .. Size, ReadMore(before),
             wanted' = n, Len(before) < n
      PROVE  QInv'
  <2>1. /\ n - Len(before) \in 0 .. Size /\ Len(before) \in Nat
        /\ UnsafeRead(before, n - Len(before)) /\ signalled' = FALSE /\ failed' = failed
        /\ reader' = IF Len(received') < n THEN "waiting" ELSE "idle"
        /\ m_locked' \in BOOLEAN
    BY <1>3 DEF ReadMore
  <2>2. /\ m_heldBytes' \in 0 .. Size
        /\ m_readHead' \in Slots /\ m_writeHead' \in Slots
        /\ m_writeHead' = Slot(m_readHead', m_heldBytes')
        /\ m_queueData' \in [Slots -> Byte \cup {Dead}]
        /\ OnlyLiveBytes'
        /\ Len(received') < n => m_heldBytes' = 0
        /\ Len(received') <= n /\ Len(received') \in Nat
    <3>1. /\ Len(received') < Len(before) + (n - Len(before)) => m_heldBytes' = 0
          /\ Len(received') <= Len(before) + (n - Len(before))
          /\ OnlyLiveBytes'
      BY <2>1, ReadKeepsRing
    <3>2. Len(received') \in Nat
      BY <3>1 DEF OnlyLiveBytes
    <3>3. Len(before) + (n - Len(before)) = n
      BY <2>1
    <3> QED BY <2>1, <3>1, <3>2, <3>3, ReadKeepsRing
  <2>3. TypeOK'
    BY <1>3, <2>1, <2>2 DEF QInv, TypeOK, Size
  <2>4. reader' # "reading" /\ (reader' = "idle" => Len(received') = wanted')
    BY <1>3, <2>1, <2>2
  <2>5. ReadsAreWhole'
    BY <2>4 DEF ReadsAreWhole
  <2>6. NoLostWakeup'
    BY <2>1, <2>2 DEF NoLostWakeup
  <2> QED BY <2>2, <2>3, <2>5, <2>6 DEF QInv
<1>4. ASSUME NEW n \in Lengths, ReadBlocking(n)
      PROVE  QInv'
  <2>1. n \in 0 .. Size /\ wanted' = n /\ ReadMore(<<>>) /\ <<>> \in Seq(Byte) /\ Len(<<>>) < n
    BY <1>4 DEF ReadBlocking, Size
  <2> QED BY <1>3, <2>1
<1>5. CASE Wake
  <2>1. /\ wanted \in 0 .. Size /\ wanted' = wanted /\ ReadMore(received)
        /\ received \in Seq(Byte) /\ Len(received) < wanted
    BY <1>5 DEF Wake, QInv, TypeOK, OnlyLiveBytes, Size
  <2> QED BY <1>3, <2>1
<1>6. CASE Flush
  <2>1. 0 \in Slots /\ 0 \in 0 .. Size /\ Slot(0, 0) = 0
    <3>1. 0 \in Slots /\ 0 \in 0 .. Size
      BY DEF Slots, Size
    <3> QED BY <3>1, SlotIs
  <2> QED BY <1>6, <2>1 DEF Flush, client, QInv, TypeOK, OnlyLiveBytes, ReadsAreWhole,
             NoLostWakeup, Size
<1> QED BY <1>1, <1>2, <1>4, <1>5, <1>6

\* A step that changes neither the ring nor the reader keeps it, if it marks
\* the mutex as locked under a signalled reader only where it was before.
LEMMA OtherStep ==
  ASSUME QInv, UNCHANGED <<ring, client>>, failed' \in BOOLEAN, m_locked' \in BOOLEAN,
         m_locked' => m_locked \/ ~signalled
  PROVE  QInv'
BY DEF QInv, TypeOK, OnlyLiveBytes, ReadsAreWhole, NoLostWakeup, ring, client
-----------------------------------------------------------------------------
(* The theorems *)

\* The heads, the count and the bytes agree with each other, for rings of any
\* size and whatever is written.
THEOREM QueueInductive == Spec => []QInv
<1>1. QInv /\ [Next]_vars => QInv'
  <2> SUFFICES ASSUME QInv, [Next]_vars PROVE QInv'
    OBVIOUS
  <2>1. failed \in BOOLEAN /\ m_locked \in BOOLEAN
    BY DEF QInv, TypeOK
  <2>2. CASE \E n \in Lengths : \E bytes \in [1 .. n -> Byte] : Write(bytes)
    BY <2>2, WriteStep
  <2>3. CASE \E n \in Lengths : WriteOverload(n)
    BY <2>1, <2>3, OtherStep DEF WriteOverload
  <2>4. CASE \E i \in Slots, n \in Lengths : PeekRead(i, n) \/ PeekBeyond(i, n)
    <3>1. CASE \E i \in Slots, n \in Lengths : PeekRead(i, n)
      BY <2>1, <3>1, OtherStep DEF PeekRead
    <3>2. CASE \E i \in Slots, n \in Lengths : PeekBeyond(i, n)
      BY <2>1, <3>2, OtherStep DEF PeekBeyond
    <3> QED BY <2>4, <3>1, <3>2
  <2>5. CASE \/ \E n \in Lengths : Read(n) \/ ReadBlocking(n)
             \/ ReadLocked \/ Wake \/ Flush
    BY <2>5, ReadStep
  <2>6. CASE WakeUnasked \/ BytesAvailable
    BY <2>1, <2>6, OtherStep DEF WakeUnasked, BytesAvailable
  <2>7. CASE UNCHANGED vars
    BY <2>1, <2>7, OtherStep DEF vars
  <2> QED BY <2>2, <2>3, <2>4, <2>5, <2>6, <2>7 DEF Next
<1> QED BY InitQInv, <1>1, PTL DEF Spec

\* A Read gives all that was asked for or nothing, although it looks at the
\* count without the mutex.
THEOREM ReadsStayWhole == Spec => []ReadsAreWhole
<1>1. QInv => ReadsAreWhole
  BY DEF QInv
<1> QED BY <1>1, QueueInductive, PTL

\* No reader waits, unsignalled, for bytes that are there.
THEOREM InputWakes == Spec => []NoLostWakeup
<1>1. QInv => NoLostWakeup
  BY DEF QInv
<1> QED BY <1>1, QueueInductive, PTL
-----------------------------------------------------------------------------
(* Implementation of ByteQueue *)

\* The bytes held, as a sequence.
ContentsAreSeq ==
  /\ Contents \in Seq(Byte)
  /\ Len(Contents) = m_heldBytes
  /\ \A i \in 1 .. m_heldBytes : Contents[i] = m_queueData[Slot(m_readHead, i - 1)]

\* They are one before a step, and after it.
LEMMA BothContents == (QInv => ContentsAreSeq) /\ (QInv' => ContentsAreSeq')
<1>1. QInv => ContentsAreSeq
  BY ContentsAre DEF ContentsAreSeq
<1> QED BY <1>1, PTL

\* What is left of a sequence when its first n members are taken.
LEMMA Remaining ==
  ASSUME NEW s \in Seq(Byte), NEW n \in 0 .. Len(s)
  PROVE  /\ SubSeq(s, n + 1, Len(s)) \in Seq(Byte)
         /\ Len(SubSeq(s, n + 1, Len(s))) = Len(s) - n
         /\ \A i \in 1 .. Len(s) - n : SubSeq(s, n + 1, Len(s))[i] = s[n + i]
<1>1. /\ SubSeq(s, n + 1, Len(s)) \in Seq(Byte)
      /\ Len(SubSeq(s, n + 1, Len(s))) = Len(s) - n
  OBVIOUS
<1>2. \A i \in 1 .. Len(s) - n : SubSeq(s, n + 1, Len(s))[i] = s[n + i]
  OBVIOUS
<1> QED BY <1>1, <1>2

\* A write puts its bytes at the end.
LEMMA FifoWrite ==
  ASSUME QInv, QInv', NEW n \in Lengths, NEW bytes \in [1 .. n -> Byte], Write(bytes)
  PROVE  Fifo!Put
<1>1. /\ ContentsAreSeq /\ ContentsAreSeq'
      /\ Size \in Nat \ {0} /\ m_heldBytes \in Nat /\ n \in 1 .. Size
  BY BothContents, Typing DEF Lengths, Size
<1>2. /\ n + m_heldBytes <= Size /\ m_heldBytes' = m_heldBytes + n
      /\ \A i \in 0 .. m_heldBytes' - 1 :
              m_queueData'[Slot(m_readHead', i)] =
                IF i < m_heldBytes THEN m_queueData[Slot(m_readHead, i)]
                                   ELSE bytes[i - m_heldBytes + 1]
  BY WriteBytes
<1>3. bytes \in Seq(Byte) /\ Len(bytes) = n
  BY <1>1
<1>4. /\ Contents \o bytes \in Seq(Byte)
      /\ Len(Contents \o bytes) = m_heldBytes + n
      /\ \A i \in 1 .. m_heldBytes + n :
           (Contents \o bytes)[i] = IF i <= m_heldBytes THEN Contents[i] ELSE bytes[i - m_heldBytes]
  <2>1. /\ Contents \in Seq(Byte) /\ Len(Contents) = m_heldBytes
        /\ m_heldBytes \in Nat /\ n \in Nat
    BY <1>1 DEF ContentsAreSeq
  <2> DEFINE c == Contents
  <2>2. c \in Seq(Byte) /\ Len(c) = m_heldBytes
    BY <2>1
  <2> HIDE DEF c
  <2>3. /\ c \o bytes \in Seq(Byte)
        /\ Len(c \o bytes) = m_heldBytes + n
        /\ \A i \in 1 .. m_heldBytes + n :
             (c \o bytes)[i] = IF i <= m_heldBytes THEN c[i] ELSE bytes[i - m_heldBytes]
    <3>1. /\ c \o bytes \in Seq(Byte)
          /\ Len(c \o bytes) = Len(c) + Len(bytes)
          /\ \A i \in 1 .. Len(c) + Len(bytes) :
               (c \o bytes)[i] = IF i <= Len(c) THEN c[i] ELSE bytes[i - Len(c)]
      BY ONLY <2>2, <1>3, ConcatProperties, Zenon
    <3> QED BY ONLY <3>1, <2>2, <1>3, Zenon
  <2> QED BY <2>3 DEF c
<1>5. ASSUME NEW i \in 1 .. m_heldBytes + n
      PROVE  Contents'[i] = (Contents \o bytes)[i]
  <2>1. /\ i - 1 \in 0 .. m_heldBytes' - 1 /\ i \in 1 .. m_heldBytes'
        /\ (i - 1 < m_heldBytes <=> i <= m_heldBytes)
        /\ (i - 1) - m_heldBytes + 1 = i - m_heldBytes
        /\ i <= m_heldBytes => i \in 1 .. m_heldBytes
    BY <1>1, <1>2, <1>5
  <2>2. Contents'[i] = m_queueData'[Slot(m_readHead', i - 1)]
    BY <1>1, <2>1 DEF ContentsAreSeq
  <2>3. Contents'[i] = IF i <= m_heldBytes THEN m_queueData[Slot(m_readHead, i - 1)]
                                           ELSE bytes[i - m_heldBytes]
    BY <1>2, <2>1, <2>2
  <2>4. i <= m_heldBytes => Contents[i] = m_queueData[Slot(m_readHead, i - 1)]
    BY <1>1, <2>1 DEF ContentsAreSeq
  <2> QED BY <1>4, <1>5, <2>3, <2>4
<1>6. Contents' = Contents \o bytes
  BY <1>1, <1>2, <1>4, <1>5, SeqEqual DEF ContentsAreSeq
<1>7. n \in 1 .. THREADQUEUE_MAX_BYTES - Len(Contents)
  BY <1>1, <1>2 DEF ContentsAreSeq, Size
<1>8. UNCHANGED <<received, reader>>
  BY DEF Write
<1> QED BY <1>6, <1>7, <1>8 DEF Fifo!Put

\* A locked read takes its bytes from the front.
LEMMA FifoTake ==
  ASSUME QInv, QInv', NEW before \in Seq(Byte), NEW length \in 0 .. Size,
         UnsafeRead(before, length),
         before = IF reader = "waiting" THEN received ELSE <<>>
  PROVE  Fifo!Take
<1>1. /\ ContentsAreSeq /\ ContentsAreSeq'
      /\ Size \in Nat \ {0} /\ m_heldBytes \in Nat /\ m_heldBytes' \in Nat
  BY BothContents, Typing DEF QInv, TypeOK, Size
<1>2. PICK n \in 0 .. m_heldBytes :
           /\ received' = before \o SubSeq(Contents, 1, n)
           /\ m_heldBytes' = m_heldBytes - n
           /\ \A i \in 0 .. m_heldBytes' - 1 :
                m_queueData'[Slot(m_readHead', i)] = m_queueData[Slot(m_readHead, n + i)]
  BY ReadBytes
<1> DEFINE rest == SubSeq(Contents, n + 1, Len(Contents))
<1>3. /\ rest \in Seq(Byte) /\ Len(rest) = m_heldBytes - n
      /\ \A i \in 1 .. m_heldBytes - n : rest[i] = Contents[n + i]
  <2> DEFINE c == Contents
  <2>1. c \in Seq(Byte) /\ Len(c) = m_heldBytes
    BY <1>1 DEF ContentsAreSeq
  <2> HIDE DEF c
  <2>2. /\ SubSeq(c, n + 1, m_heldBytes) \in Seq(Byte)
        /\ Len(SubSeq(c, n + 1, m_heldBytes)) = m_heldBytes - n
        /\ \A i \in 1 .. m_heldBytes - n :
             SubSeq(c, n + 1, m_heldBytes)[i] = c[n + i]
    <3>1. /\ SubSeq(c, n + 1, Len(c)) \in Seq(Byte)
          /\ Len(SubSeq(c, n + 1, Len(c))) = Len(c) - n
          /\ \A i \in 1 .. Len(c) - n : SubSeq(c, n + 1, Len(c))[i] = c[n + i]
      BY <2>1, Remaining
    <3> QED BY ONLY <3>1, <2>1, Zenon
  <2>3. rest = SubSeq(c, n + 1, m_heldBytes)
    BY <2>1 DEF c
  <2> QED BY <2>2, <2>3 DEF c
<1>4. ASSUME NEW i \in 1 .. m_heldBytes - n
      PROVE  Contents'[i] = rest[i]
  <2>1. /\ i \in 1 .. m_heldBytes' /\ i - 1 \in 0 .. m_heldBytes' - 1
        /\ n + i \in 1 .. m_heldBytes /\ n + (i - 1) = (n + i) - 1
    BY <1>1, <1>2, <1>4
  <2>2. Contents'[i] = m_queueData'[Slot(m_readHead', i - 1)]
    BY <1>1, <2>1 DEF ContentsAreSeq
  <2>3. Contents[n + i] = m_queueData[Slot(m_readHead, (n + i) - 1)]
    BY <1>1, <2>1 DEF ContentsAreSeq
  <2> QED BY <1>2, <1>3, <1>4, <2>1, <2>2, <2>3
<1>5. Contents' = rest
  <2> HIDE DEF rest
  <2> QED BY <1>1, <1>2, <1>3, <1>4, SeqEqual DEF ContentsAreSeq
<1>6. n \in 0 .. Len(Contents)
  BY <1>1 DEF ContentsAreSeq
<1> QED BY <1>2, <1>5, <1>6 DEF Fifo!Take

\* Every other step takes nothing, empties the queue, or stutters.
LEMMA FifoOther ==
  ASSUME QInv, QInv'
  PROVE  /\ \A n \in Lengths : Read(n) => Fifo!Take
         /\ Flush => Fifo!Flush
         /\ UNCHANGED <<ring, client>> => UNCHANGED Fifo!vars
<1>1. ContentsAreSeq /\ ContentsAreSeq' /\ m_heldBytes \in Nat
  BY BothContents, Typing
<1>2. UNCHANGED ring => UNCHANGED Contents
  BY DEF ring, Contents
<1>3. ASSUME NEW n \in Lengths, Read(n)
      PROVE  Fifo!Take
  <2>1. /\ reader = "idle" /\ reader' # "waiting" /\ received' = <<>> /\ UNCHANGED Contents
    BY <1>2, <1>3 DEF Read
  <2>2. SubSeq(Contents, 1, 0) = <<>> /\ SubSeq(Contents, 0 + 1, Len(Contents)) = Contents
    BY <1>1 DEF ContentsAreSeq
  <2>3. 0 \in 0 .. Len(Contents) /\ <<>> \o <<>> = <<>>
    BY <1>1 DEF ContentsAreSeq
  <2> QED BY <2>1, <2>2, <2>3 DEF Fifo!Take
<1>4. ASSUME Flush
      PROVE  Fifo!Flush
  <2>1. reader = "idle" /\ m_heldBytes' = 0 /\ UNCHANGED <<reader, received>>
    BY <1>4 DEF Flush, client
  <2>2. Contents' = <<>>
    BY <1>1, <2>1 DEF ContentsAreSeq
  <2> QED BY <2>1, <2>2 DEF Fifo!Flush
<1>5. UNCHANGED <<ring, client>> => UNCHANGED Fifo!vars
  BY <1>2 DEF Fifo!vars, client
<1> QED BY <1>3, <1>4, <1>5

\* The indices stay within the ring, and the count within its size.
THEOREM QueueTypes == Spec => []TypeOK
<1>1. QInv => TypeOK
  BY DEF QInv
<1> QED BY <1>1, QueueInductive, PTL

\* The ring is a queue: bytes are read in the order they were written, each
\* once, and never more are held than fit.
THEOREM RingIsQueue == Spec => ImplementsByteQueue
<1>1. Init => Fifo!Init
  <2> SUFFICES ASSUME Init PROVE Fifo!Init
    OBVIOUS
  <2>1. QInv /\ ContentsAreSeq
    BY InitQInv, BothContents
  <2>2. Contents = <<>>
    BY <2>1 DEF Init, ContentsAreSeq
  <2> QED BY <2>2 DEF Init, Fifo!Init
<1>2. QInv /\ QInv' /\ [Next]_vars => [Fifo!Next]_Fifo!vars
  <2> SUFFICES ASSUME QInv, QInv', [Next]_vars PROVE Fifo!Next \/ UNCHANGED Fifo!vars
    OBVIOUS
  <2>0. /\ wanted \in 0 .. Size /\ <<>> \in Seq(Byte) /\ received \in Seq(Byte)
        /\ Size \in Nat /\ \A n \in Lengths : n - Len(<<>>) \in 0 .. Size
    BY QueueAssumption DEF QInv, TypeOK, OnlyLiveBytes, Lengths, Size
  <2>1. CASE \E n \in Lengths : \E bytes \in [1 .. n -> Byte] : Write(bytes)
    BY <2>1, FifoWrite DEF Fifo!Next
  <2>2. CASE \/ \E n \in Lengths : WriteOverload(n)
             \/ \E i \in Slots, n \in Lengths : PeekRead(i, n) \/ PeekBeyond(i, n)
             \/ WakeUnasked \/ BytesAvailable \/ UNCHANGED vars
    BY <2>2, FifoOther DEF WriteOverload, PeekRead, PeekBeyond, WakeUnasked, BytesAvailable, vars
  <2>3. CASE (\E n \in Lengths : Read(n)) \/ Flush
    BY <2>3, FifoOther DEF Fifo!Next
  <2>4. CASE ReadLocked
    <3>1. UnsafeRead(<<>>, wanted) /\ reader = "reading"
      BY <2>4 DEF ReadLocked
    <3> QED BY <2>0, <3>1, FifoTake DEF Fifo!Next
  <2>5. ASSUME NEW n \in Lengths, ReadBlocking(n)
        PROVE  Fifo!Next
    <3>1. UnsafeRead(<<>>, n - Len(<<>>)) /\ reader = "idle"
      BY <2>5 DEF ReadBlocking, ReadMore
    <3> QED BY <2>0, <3>1, FifoTake DEF Fifo!Next
  <2>6. CASE Wake
    <3>1. UnsafeRead(received, wanted - Len(received)) /\ reader = "waiting"
      BY <2>6 DEF Wake, ReadMore
    <3>2. wanted - Len(received) \in 0 .. Size
      BY <2>0, <3>1 DEF QInv, TypeOK
    <3> QED BY <2>0, <3>1, <3>2, FifoTake DEF Fifo!Next
  <2> QED BY <2>1, <2>2, <2>3, <2>4, <2>5, <2>6 DEF Next
<1> QED BY <1>1, <1>2, QueueInductive, PTL DEF Spec, ImplementsByteQueue, Fifo!Spec
=============================================================================
