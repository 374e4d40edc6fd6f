---------------------------- MODULE ElementTable ----------------------------
(***************************************************************************)
(* Types of elements, and a tile's table of them.  StaticLoader gives each *)
(* element that is needed a type of its own, its bits spread so that a     *)
(* flipped bit seldom makes another type; ElementTable is an open hash     *)
(* over types, probed at triangular distances, whose entries also own      *)
(* blocks of a small array of element data.  All tiles' tables are filled  *)
(* alike, so one stands for all.                                           *)
(***************************************************************************)
EXTENDS Integers, FiniteSetsExt

CONSTANTS
  Elements,            \* those there are in the element libraries
  EmptyElement,        \* Element_Empty, which every table starts with
  NoElement,
  BITS,                \* of a type
  ELEMENT_TABLE_BITS,
  ELEMENT_DATA_SLOTS,
  DataSlots            \* the number of data slots of the elements that keep data

VARIABLES
  typeOf,      \* the types of the elements that have one
  counter,     \* m_counter
  hash,        \* the element of each slot of m_hash, or NoElement
  inUse,       \* m_hashSlotsInUse
  start,       \* m_elementDataStart of each slot
  length,      \* m_elementDataLength of each slot
  nextFree,    \* m_nextFreeElementDataIndex
  status       \* "running", or how the program came to an end

types == <<typeOf, counter>>
data  == <<start, length, nextFree>>
table == <<types, hash, inUse, data, status>>

SIZE == 2 ^ ELEMENT_TABLE_BITS - 3
SLOTS == 2 ^ BITS
HashSlots == 0..SIZE - 1

Bit(n, i) == (n \div 2 ^ i) % 2

\* The type a count stands for: its bits below the highest, each spread over as
\* many bits of the type as there is room for.
HighestBit(c) == CHOOSE i \in 0..BITS : c \div 2 ^ i = 1
Expand(c) ==
  LET high == HighestBit(c)
      bitsPerBit == BITS \div high
      bits == 2 ^ bitsPerBit - 1
  IN  MapThenSumSet(LAMBDA i : Bit(c, i) * bits * 2 ^ (i * bitsPerBit), 0..high - 1)

ASSUME SizesAssumption ==
  /\ BITS \in Nat \ {0} /\ ELEMENT_TABLE_BITS \in Nat \ {0, 1} /\ SIZE \in Nat \ {0}
  /\ SLOTS \in Nat \ {0, 1} /\ ELEMENT_DATA_SLOTS \in Nat
  /\ EmptyElement \in Elements /\ NoElement \notin Elements
  /\ DataSlots \in [DOMAIN DataSlots -> Nat \ {0}]
ASSUME TypesAssumption == \A c \in 2..2 * SLOTS - 1 : Expand(c) \in 0..SLOTS - 1

Assigned == {typeOf[e] : e \in DOMAIN typeOf}

\* NextType counts on until it meets a type that nobody has.
NextCount ==
  CHOOSE c \in counter + 1..2 * SLOTS - 1 :
    /\ Expand(c) \notin Assigned
    /\ \A b \in counter + 1..c - 1 : Expand(b) \in Assigned

\* Probes go round after 2 * SIZE of them.
Tries == 0..2 * SIZE - 1
Probe(type, collide) == (type + (collide * (collide + 1)) \div 2) % SIZE
Stops(type, collide) ==
  LET there == hash[Probe(type, collide)]
  IN  there # NoElement => typeOf[there] = type
\* SlotFor returns the slot of the first probe that stops.
FirstStop(type, collide) ==
  /\ Stops(type, collide)
  /\ \A earlier \in 0..collide - 1 : ~Stops(type, earlier)
SlotFor(type, slot) == \E c \in Tries : FirstStop(type, c) /\ slot = Probe(type, c)
GoesRound(type) == \A c \in Tries : ~Stops(type, c)

Fail == status' = "failed"

AllocateType(e) ==
  \/ e \in DOMAIN typeOf /\ UNCHANGED types
  \/ /\ e \notin DOMAIN typeOf
     /\ Expand(NextCount) \in (0..SLOTS - 1) \ Assigned
     /\ counter' = NextCount
     /\ typeOf' = [f \in DOMAIN typeOf \cup {e} |-> IF f = e THEN Expand(NextCount) ELSE typeOf[f]]

Insert(e, slot) ==
  /\ inUse' = IF hash[slot] = NoElement THEN inUse + 1 ELSE inUse
  /\ IF hash[slot] \notin {NoElement, e} \/ inUse' > SIZE \div 2
     THEN Fail /\ UNCHANGED hash
     ELSE hash' = [hash EXCEPT ![slot] = e] /\ UNCHANGED status

\* Grid::Needed, and the ways it ends the program: no type left, no room in the
\* table, or a search for a slot that never stops.
Needed(e) ==
  /\ status = "running"
  /\ UNCHANGED data
  /\ IF e \notin DOMAIN typeOf /\ Cardinality(DOMAIN typeOf) = SLOTS
     THEN Fail /\ UNCHANGED <<types, hash, inUse>>
     ELSE /\ AllocateType(e)
          /\ \/ \E c \in Tries :
                  FirstStop(typeOf'[e], c) /\ Insert(e, Probe(typeOf'[e], c))
             \/ GoesRound(typeOf'[e]) /\ status' = "hung" /\ UNCHANGED <<hash, inUse>>

\* An event of an element asks for its data; where there is no room left the
\* event fails, and nothing else does.
GetDataAndRegister(e) ==
  /\ status = "running"
  /\ \E slot \in HashSlots :
       /\ hash[slot] = e
       /\ SlotFor(typeOf[e], slot)
       /\ length[slot] = 0
       /\ nextFree + DataSlots[e] <= ELEMENT_DATA_SLOTS
       /\ length' = [length EXCEPT ![slot] = DataSlots[e]]
       /\ start' = [start EXCEPT ![slot] = nextFree]
  /\ nextFree' = nextFree + DataSlots[e]
  /\ UNCHANGED <<types, hash, inUse, status>>

\* Tile::Reinit empties the table but for Element_Empty.  Elements keep their types.
OnlyEmpty(type) == [slot \in HashSlots |-> IF slot = Probe(type, 0) THEN EmptyElement ELSE NoElement]
\* (Variant with a mistake: leaves the elements their data slots.)
Reinit_KeepsData ==
  /\ status = "running"
  /\ hash' = OnlyEmpty(typeOf[EmptyElement])
  /\ inUse' = 1
  /\ nextFree' = 0
  /\ UNCHANGED <<types, start, length, status>>
Reinit ==
  /\ status = "running"
  /\ hash' = OnlyEmpty(typeOf[EmptyElement])
  /\ inUse' = 1
  /\ start' = [slot \in HashSlots |-> 0]
  /\ length' = [slot \in HashSlots |-> 0]
  /\ nextFree' = 0
  /\ UNCHANGED <<types, status>>

\* m_counter starts from 2, and the first tile's Reinit takes the type of 3.
TableInit ==
  /\ counter = 3
  /\ typeOf = [e \in {EmptyElement} |-> Expand(3)]
  /\ hash = OnlyEmpty(Expand(3))
  /\ inUse = 1
  /\ start = [slot \in HashSlots |-> 0]
  /\ length = [slot \in HashSlots |-> 0]
  /\ nextFree = 0
  /\ status = "running"

TableNext ==
  \/ \E e \in Elements : Needed(e)
  \/ \E e \in DOMAIN DataSlots : GetDataAndRegister(e)
  \/ Reinit

TableSpec == TableInit /\ [][TableNext]_table

\* Every element in the table is found under its type, whatever was inserted
\* before it or after (SlotFor's probes and the types NextType gives).
RegisteredFound ==
  \A slot \in HashSlots : hash[slot] # NoElement => SlotFor(typeOf[hash[slot]], slot)

\* The blocks of data of two elements do not overlap and lie within m_elementData.
DataApart ==
  \A s \in HashSlots : length[s] # 0 =>
    /\ start[s] + length[s] <= ELEMENT_DATA_SLOTS
    /\ \A t \in HashSlots \ {s} :
         length[t] = 0 \/ start[s] + length[s] <= start[t] \/ start[t] + length[t] <= start[s]

\* What the two rest on: no two elements have the same type, every element in the
\* table has one, and blocks are given out from the front.
TypesInv ==
  /\ typeOf \in [DOMAIN typeOf -> 0..SLOTS - 1]
  /\ EmptyElement \in DOMAIN typeOf /\ DOMAIN typeOf \subseteq Elements
  /\ \A e, f \in DOMAIN typeOf : typeOf[e] = typeOf[f] => e = f
HashInv ==
  /\ hash \in [HashSlots -> DOMAIN typeOf \cup {NoElement}]
  /\ RegisteredFound
DataInv ==
  /\ start \in [HashSlots -> Nat] /\ length \in [HashSlots -> Nat]
  /\ nextFree \in 0..ELEMENT_DATA_SLOTS
  /\ \A s \in HashSlots : length[s] # 0 => start[s] + length[s] <= nextFree
  /\ DataApart

\* What Insert, GetDataAndRegister and Reinit together keep, with the types that
\* NextType makes: elements are found and their data is apart.
TableInv == TypesInv /\ HashInv /\ DataInv

\* Every search comes to an end: whatever a type's first slot, its probes reach
\* an empty one, so that an atom of an unknown type is noticed (Execute) and does
\* not send the tile's thread round for ever.
LookupsEnd == \A home \in HashSlots : \E c \in Tries : hash[Probe(home, c)] = NoElement

TableSound == TableInv /\ LookupsEnd
=============================================================================
