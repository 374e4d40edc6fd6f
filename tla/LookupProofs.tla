----------------------------- MODULE LookupProofs ---------------------------
(***************************************************************************)
(* That what is looked for is found.  In tables of any size, whatever      *)
(* types NextType gives and in whatever order elements are inserted, get   *)
(* their data and the table starts over: every element in the table, and   *)
(* no two share data.  In windows of any radius and grids of any kind:     *)
(* every atom a search is for, and each is as likely to be its pick.       *)
(***************************************************************************)
EXTENDS ElementTable, WindowScanner, FoldProofs, SequenceTheorems

\* A probe of SlotFor is a slot.
LEMMA ProbeIsSlot == ASSUME NEW type \in Int, NEW c \in Nat PROVE Probe(type, c) \in HashSlots
<1>1. (type + (c * (c + 1)) \div 2) \in Int
  <2>1. c * (c + 1) \in Int  OBVIOUS
  <2> QED  BY <2>1
<1> DEFINE n == type + (c * (c + 1)) \div 2
<1> HIDE DEF n
<1>2. SIZE \in Nat \ {0} => n % SIZE \in 0..SIZE - 1
  <2> DEFINE size == SIZE
  <2> HIDE DEF size
  <2>1. n \in Int  BY <1>1 DEF n
  <2>2. size \in Nat \ {0} => n % size \in 0..size - 1  BY <2>1
  <2> QED  BY <2>2 DEF size
<1> QED  BY <1>1, <1>2, SizesAssumption DEF Probe, HashSlots, n

\* A table that holds Element_Empty alone finds it at its first probe.
LEMMA OnlyEmptyIsFound ==
  ASSUME NEW types_, NEW hash_,
         types_ \in 0..SLOTS - 1, hash_ = OnlyEmpty(types_)
  PROVE  /\ hash_ \in [HashSlots -> {EmptyElement, NoElement}]
         /\ \A slot \in HashSlots : hash_[slot] # NoElement =>
              hash_[slot] = EmptyElement /\ slot = Probe(types_, 0)
BY SizesAssumption DEF OnlyEmpty

LEMMA TriesStart == 0 \in Tries /\ Tries \subseteq Nat
<1> DEFINE size == SIZE
<1> HIDE DEF size
<1>1. size \in Nat \ {0} => 0 \in 0..2 * size - 1 /\ 0..2 * size - 1 \subseteq Nat  OBVIOUS
<1> QED  BY <1>1, SizesAssumption DEF Tries, size

LEMMA TypesAreIntegers == 0..SLOTS - 1 \subseteq Int
OBVIOUS

\* The initial table holds Element_Empty under the type of the count of three.
LEMMA InitTable == TableInit => TableInv
<1> SUFFICES ASSUME TableInit PROVE TableInv  OBVIOUS
<1>1. Expand(3) \in 0..SLOTS - 1
  <2> DEFINE slots == SLOTS
  <2>1. 3 \in 2..2 * slots - 1
    <3> HIDE DEF slots
    <3>1. slots \in Nat \ {0, 1} => 3 \in 2..2 * slots - 1  OBVIOUS
    <3> QED  BY <3>1, SizesAssumption DEF slots
  <2> QED  BY <2>1, TypesAssumption
<1>2. TypesInv  BY <1>1, SizesAssumption DEF TableInit, TypesInv
<1>3. HashInv
  <2>1. /\ hash \in [HashSlots -> {EmptyElement, NoElement}]
        /\ \A slot \in HashSlots : hash[slot] # NoElement =>
             hash[slot] = EmptyElement /\ slot = Probe(Expand(3), 0)
    BY <1>1, OnlyEmptyIsFound DEF TableInit
  <2>2. ASSUME NEW slot \in HashSlots, hash[slot] # NoElement
        PROVE  SlotFor(typeOf[hash[slot]], slot)
    <3>1. typeOf[hash[slot]] = Expand(3) /\ slot = Probe(Expand(3), 0)
      BY <2>1, <2>2 DEF TableInit
    <3>2. FirstStop(Expand(3), 0)  BY <3>1 DEF FirstStop, Stops
    <3> QED  BY <3>1, <3>2, TriesStart DEF SlotFor
  <2> QED  BY <1>2, <2>1, <2>2 DEF HashInv, RegisteredFound, TypesInv
<1>4. DataInv  BY SizesAssumption DEF TableInit, DataInv, DataApart
<1> QED  BY <1>2, <1>3, <1>4 DEF TableInv

\* Giving an element a type that nobody has leaves all types different, and those
\* that there are.
LEMMA AllocationKeepsTypes ==
  ASSUME TypesInv, NEW e \in Elements, AllocateType(e)
  PROVE  /\ TypesInv' /\ e \in DOMAIN typeOf'
         /\ DOMAIN typeOf \subseteq DOMAIN typeOf'
         /\ \A f \in DOMAIN typeOf : typeOf'[f] = typeOf[f]
         /\ \A f \in DOMAIN typeOf : f # e => typeOf[f] # typeOf'[e]
<1>1. CASE e \in DOMAIN typeOf /\ UNCHANGED types
  BY <1>1 DEF TypesInv, types
<1>2. CASE /\ e \notin DOMAIN typeOf
           /\ Expand(NextCount) \in (0..SLOTS - 1) \ Assigned
           /\ typeOf' = [f \in DOMAIN typeOf \cup {e} |-> IF f = e THEN Expand(NextCount) ELSE typeOf[f]]
  <2> DEFINE new == Expand(NextCount)
  <2> HIDE DEF new
  <2>1. /\ new \in 0..SLOTS - 1 /\ \A f \in DOMAIN typeOf : typeOf[f] # new
        /\ typeOf' = [f \in DOMAIN typeOf \cup {e} |-> IF f = e THEN new ELSE typeOf[f]]
    BY <1>2 DEF Assigned, new
  <2> QED  BY <1>2, <2>1 DEF TypesInv
<1> QED  BY <1>1, <1>2 DEF AllocateType

\* A search that stopped at a slot in use stops there still, when slots that were
\* in use and types that were given are left alone.
LEMMA SearchStays ==
  ASSUME TypesInv, HashInv,
         \A s \in HashSlots : hash[s] # NoElement => hash'[s] = hash[s],
         \A f \in DOMAIN typeOf : typeOf'[f] = typeOf[f],
         NEW type \in Int, NEW c \in Tries,
         FirstStop(type, c), hash[Probe(type, c)] # NoElement
  PROVE  FirstStop(type, c)'
<1>1. c \in Nat /\ \A d \in 0..c - 1 : d \in Nat  BY TriesStart
<1>2. \A d \in Nat : /\ Probe(type, d) \in HashSlots
                     /\ hash[Probe(type, d)] \in DOMAIN typeOf \cup {NoElement}
  BY ProbeIsSlot DEF HashInv
<1>3. \A d \in Nat : hash[Probe(type, d)] # NoElement =>
        /\ hash'[Probe(type, d)] = hash[Probe(type, d)]
        /\ typeOf'[hash[Probe(type, d)]] = typeOf[hash[Probe(type, d)]]
  BY <1>2
<1>4. \A d \in Nat : Probe(type, d)' = Probe(type, d)  BY DEF Probe
<1>5. \A d \in Nat : hash[Probe(type, d)] # NoElement => (Stops(type, d)' <=> Stops(type, d))
  BY <1>3 DEF Stops, Probe
<1>6. \A d \in 0..c - 1 : hash[Probe(type, d)] # NoElement /\ ~Stops(type, d)
  BY DEF FirstStop, Stops
<1>7. \A d \in 0..c - 1 : ~Stops(type, d)'  BY <1>1, <1>5, <1>6
<1>8. Stops(type, c)'  BY <1>1, <1>5 DEF FirstStop
<1> QED  BY <1>7, <1>8 DEF FirstStop

\* So what was found is found, and what is new is found where it was put.
LEMMA FoundStays ==
  ASSUME TypesInv, HashInv,
         \A s \in HashSlots : hash[s] # NoElement => hash'[s] = hash[s],
         \A f \in DOMAIN typeOf : typeOf'[f] = typeOf[f],
         NEW s \in HashSlots, hash[s] # NoElement
  PROVE  SlotFor(typeOf[hash[s]], s)'
<1>1. hash[s] \in DOMAIN typeOf /\ hash'[s] = hash[s]  BY DEF HashInv
<1>2. PICK type \in Int : type = typeOf[hash[s]]  BY <1>1, TypesAreIntegers DEF TypesInv
<1>3. type = (typeOf[hash[s]])'  BY <1>1, <1>2
<1>4. SlotFor(type, s)  BY <1>2 DEF HashInv, RegisteredFound
<1>5. PICK c \in Tries : FirstStop(type, c) /\ s = Probe(type, c)  BY <1>4 DEF SlotFor
<1>6. FirstStop(type, c)'  BY <1>5, SearchStays
<1>7. SlotFor(type, s)'  BY <1>5, <1>6 DEF SlotFor, Probe
<1> QED  BY <1>3, <1>7 DEF SlotFor, FirstStop, Stops, Probe

\* Insert fills the slot its search stopped at, which no other element's search has
\* passed: the searches of those there find what they found.
LEMMA InsertKeepsFound ==
  ASSUME TypesInv, HashInv, NEW e \in Elements, AllocateType(e),
         NEW c \in Tries, FirstStop(typeOf'[e], c), Insert(e, Probe(typeOf'[e], c))
  PROVE  HashInv'
<1> DEFINE slot == Probe(typeOf'[e], c)
<1>1. /\ TypesInv' /\ e \in DOMAIN typeOf'
      /\ DOMAIN typeOf \subseteq DOMAIN typeOf'
      /\ \A f \in DOMAIN typeOf : typeOf'[f] = typeOf[f]
      /\ \A f \in DOMAIN typeOf : f # e => typeOf[f] # typeOf'[e]
  BY AllocationKeepsTypes
<1>2. /\ hash \in [HashSlots -> DOMAIN typeOf \cup {NoElement}]
      /\ NoElement \notin DOMAIN typeOf /\ NoElement \notin DOMAIN typeOf'
  BY <1>1, SizesAssumption DEF HashInv, TypesInv
<1>3. CASE UNCHANGED hash
  <2>1. hash' \in [HashSlots -> DOMAIN typeOf' \cup {NoElement}]  BY <1>1, <1>2, <1>3
  <2>2. \A s \in HashSlots : hash[s] # NoElement => SlotFor(typeOf[hash[s]], s)'
    BY <1>1, <1>3, FoundStays
  <2>3. RegisteredFound'  BY <1>3, <2>2 DEF RegisteredFound, HashSlots, SIZE
  <2> QED  BY <2>1, <2>3 DEF HashInv, HashSlots, SIZE
<1>4. CASE hash[slot] \in {NoElement, e} /\ hash' = [hash EXCEPT ![slot] = e]
  <2>1. PICK type \in Int : type = typeOf'[e]  BY <1>1, TypesAreIntegers DEF TypesInv, SLOTS
  <2>2. slot = Probe(type, c) /\ slot \in HashSlots  BY <2>1, ProbeIsSlot, TriesStart
  <2>3. hash' \in [HashSlots -> DOMAIN typeOf' \cup {NoElement}]
    BY <1>1, <1>2, <1>4, <2>2
  <2>4. \A s \in HashSlots : hash[s] # NoElement => hash'[s] = hash[s]
    BY <1>2, <1>4, <2>2
  <2>5. ASSUME NEW s \in HashSlots, hash[s] # NoElement
        PROVE  SlotFor(typeOf[hash[s]], s)'
    BY <1>1, <2>4, <2>5, FoundStays
  <2>6. hash'[slot] = e  BY <1>2, <1>4, <2>2
  <2>7. ASSUME hash[slot] = NoElement
        PROVE  FirstStop(type, c)'
    <3>1. FirstStop(type, c)  BY <2>1
    <3>2. \A d \in 0..c - 1 :
            /\ Probe(type, d) \in HashSlots /\ ~Stops(type, d)
            /\ hash[Probe(type, d)] # NoElement /\ typeOf[hash[Probe(type, d)]] # type
      BY <3>1, ProbeIsSlot, TriesStart DEF FirstStop, Stops
    <3>3. \A d \in 0..c - 1 :
            /\ hash'[Probe(type, d)] = hash[Probe(type, d)]
            /\ typeOf'[hash[Probe(type, d)]] = typeOf[hash[Probe(type, d)]]
      BY <1>1, <1>2, <2>4, <3>2
    <3>4. \A d \in 0..c - 1 : ~Stops(type, d)'
      BY <1>2, <3>2, <3>3 DEF Stops, Probe
    <3>5. Stops(type, c)'  BY <2>1, <2>2, <2>6 DEF Stops, Probe
    <3> QED  BY <3>4, <3>5 DEF FirstStop
  <2>8. RegisteredFound'
    <3>1. ASSUME NEW s \in HashSlots, hash'[s] # NoElement
          PROVE  SlotFor(typeOf[hash[s]], s)'
      <4>1. CASE hash[s] # NoElement  BY <2>5, <4>1
      <4>2. CASE hash[s] = NoElement
        <5>1. s = slot  BY <1>2, <1>4, <2>2, <3>1, <4>2
        <5>2. FirstStop(type, c)'  BY <2>7, <4>2, <5>1
        <5>3. SlotFor(type, s)'  BY <2>2, <5>1, <5>2 DEF SlotFor, Probe
        <5>4. type = (typeOf[hash[s]])'  BY <2>1, <2>6, <5>1
        <5> QED  BY <5>3, <5>4 DEF SlotFor, FirstStop, Stops, Probe
      <4> QED  BY <4>1, <4>2
    <3> QED  BY <3>1 DEF RegisteredFound, HashSlots, SIZE
  <2> QED  BY <2>3, <2>8 DEF HashInv, HashSlots, SIZE
<1> QED  BY <1>3, <1>4 DEF Insert, Fail

\* An element that is needed, with its type and its slot, or the program's end.
LEMMA NeededKeepsInv == ASSUME TableInv, NEW e \in Elements, Needed(e) PROVE TableInv'
<1>1. DataInv'
  BY DEF TableInv, DataInv, DataApart, Needed, data, HashSlots, SIZE
<1>2. TypesInv' /\ HashInv'
  <2>1. CASE UNCHANGED <<types, hash, inUse>>
    BY <2>1 DEF TableInv, TypesInv, HashInv, RegisteredFound, SlotFor, FirstStop, Stops, types
  <2>2. ASSUME AllocateType(e), NEW c \in Tries,
               FirstStop(typeOf'[e], c), Insert(e, Probe(typeOf'[e], c))
        PROVE  TypesInv' /\ HashInv'
    BY <2>2, AllocationKeepsTypes, InsertKeepsFound DEF TableInv
  <2>3. ASSUME AllocateType(e), UNCHANGED hash
        PROVE  TypesInv' /\ HashInv'
    <3>1. /\ TypesInv' /\ DOMAIN typeOf \subseteq DOMAIN typeOf'
          /\ \A f \in DOMAIN typeOf : typeOf'[f] = typeOf[f]
      BY <2>3, AllocationKeepsTypes DEF TableInv
    <3>2. \A s \in HashSlots : hash[s] # NoElement => SlotFor(typeOf[hash[s]], s)'
      BY <2>3, <3>1, FoundStays DEF TableInv
    <3> QED  BY <2>3, <3>1, <3>2 DEF TableInv, HashInv, RegisteredFound, HashSlots, SIZE
  <2> QED  BY <2>1, <2>2, <2>3 DEF Needed
<1> QED  BY <1>1, <1>2 DEF TableInv

\* A block of data is taken from beyond those given.
LEMMA DataKeepsInv ==
  ASSUME TableInv, NEW e \in DOMAIN DataSlots, GetDataAndRegister(e)
  PROVE  TableInv'
<1>1. TypesInv' /\ HashInv'
  BY DEF TableInv, TypesInv, HashInv, RegisteredFound, SlotFor, FirstStop, Stops,
         GetDataAndRegister, types
<1>2. DataInv'
  <2>1. PICK slot \in HashSlots :
          /\ length[slot] = 0 /\ nextFree + DataSlots[e] <= ELEMENT_DATA_SLOTS
          /\ length' = [length EXCEPT ![slot] = DataSlots[e]]
          /\ start' = [start EXCEPT ![slot] = nextFree]
    BY DEF GetDataAndRegister
  <2>2. PICK n \in Nat \ {0} : n = DataSlots[e]  BY SizesAssumption
  <2>3. nextFree' = nextFree + n  BY <2>2 DEF GetDataAndRegister
  <2>4. /\ start \in [HashSlots -> Nat] /\ length \in [HashSlots -> Nat]
        /\ nextFree \in Nat /\ ELEMENT_DATA_SLOTS \in Nat
        /\ \A s \in HashSlots : length[s] # 0 => start[s] + length[s] <= nextFree
    BY SizesAssumption DEF TableInv, DataInv
  <2>5. /\ start' \in [HashSlots -> Nat] /\ length' \in [HashSlots -> Nat]
        /\ nextFree' \in 0..ELEMENT_DATA_SLOTS
    BY <2>1, <2>2, <2>3, <2>4
  <2>6. /\ start'[slot] = nextFree /\ length'[slot] = n
        /\ \A s \in HashSlots \ {slot} : start'[s] = start[s] /\ length'[s] = length[s]
    BY <2>1, <2>2, <2>4
  <2>7. \A s \in HashSlots : length'[s] # 0 => start'[s] + length'[s] <= nextFree'
    BY <2>2, <2>3, <2>4, <2>6
  <2>8. DataApart'
    <3>1. \A s \in HashSlots : length'[s] # 0 => start'[s] + length'[s] <= ELEMENT_DATA_SLOTS
      BY <2>4, <2>5, <2>7
    <3>2. \A s \in HashSlots, t \in HashSlots : s # t /\ length'[s] # 0 =>
            \/ length'[t] = 0
            \/ start'[s] + length'[s] <= start'[t]
            \/ start'[t] + length'[t] <= start'[s]
      <4>1. ASSUME NEW s \in HashSlots \ {slot}, NEW t \in HashSlots \ {slot}, s # t, length[s] # 0
            PROVE  \/ length[t] = 0
                   \/ start[s] + length[s] <= start[t]
                   \/ start[t] + length[t] <= start[s]
        BY <4>1 DEF TableInv, DataInv, DataApart
      <4> QED  BY <2>4, <2>6, <4>1
    <3> QED  BY <3>1, <3>2 DEF DataApart, HashSlots, SIZE
  <2> QED  BY <2>5, <2>7, <2>8 DEF DataInv, HashSlots, SIZE
<1> QED  BY <1>1, <1>2 DEF TableInv

LEMMA ReinitKeepsInv == ASSUME TableInv, Reinit PROVE TableInv'
<1>1. PICK type \in 0..SLOTS - 1 : type = typeOf[EmptyElement]  BY DEF TableInv, TypesInv
<1>2. typeOf' = typeOf /\ hash' = OnlyEmpty(type)  BY <1>1 DEF Reinit, types
<1>3. TypesInv'  BY <1>2 DEF TableInv, TypesInv
<1>4. HashInv'
  <2>1. /\ hash' \in [HashSlots -> {EmptyElement, NoElement}]
        /\ \A s \in HashSlots : hash'[s] # NoElement => hash'[s] = EmptyElement /\ s = Probe(type, 0)
    BY <1>2, OnlyEmptyIsFound
  <2>2. ASSUME NEW s \in HashSlots, hash'[s] # NoElement
        PROVE  SlotFor(typeOf[hash[s]], s)'
    <3>1. type = (typeOf[hash[s]])' /\ s = Probe(type, 0)  BY <1>1, <1>2, <2>1, <2>2
    <3>2. FirstStop(type, 0)'
      <4>1. typeOf'[hash'[Probe(type, 0)]] = type  BY <3>1
      <4>2. Stops(type, 0)'  BY <4>1 DEF Stops
      <4>3. 0..0 - 1 = {}  OBVIOUS
      <4> QED  BY <4>2, <4>3 DEF FirstStop
    <3>3. SlotFor(type, s)'  BY <3>1, <3>2, TriesStart DEF SlotFor, Probe
    <3> QED  BY <3>1, <3>3 DEF SlotFor, FirstStop, Stops, Probe
  <2>3. hash' \in [HashSlots -> DOMAIN typeOf' \cup {NoElement}]
    BY <1>2, <2>1 DEF TableInv, TypesInv
  <2> QED  BY <2>2, <2>3 DEF HashInv, RegisteredFound, HashSlots, SIZE
<1>5. DataInv'  BY SizesAssumption DEF Reinit, DataInv, DataApart
<1> QED  BY <1>3, <1>4, <1>5 DEF TableInv

\* In a table of any size the invariant of types, slots and blocks holds, whatever
\* elements are needed, in whatever order, however often the table starts over.
THEOREM TableInductive == TableSpec => []TableInv
<1>1. TableInv /\ [TableNext]_table => TableInv'
  <2> SUFFICES ASSUME TableInv, [TableNext]_table PROVE TableInv'  OBVIOUS
  <2>1. CASE UNCHANGED table
    BY <2>1 DEF table, types, data, TableInv, TypesInv, HashInv, DataInv, DataApart,
                RegisteredFound, SlotFor, FirstStop, Stops
  <2> QED  BY <2>1, NeededKeepsInv, DataKeepsInv, ReinitKeepsInv DEF TableNext
<1> QED  BY InitTable, <1>1, PTL DEF TableSpec

\* Every element in the table is found under its type (SlotFor), and no two have
\* data in common (GetDataAndRegister).
THEOREM ElementsAreFound == TableSpec => [](RegisteredFound /\ DataApart)
<1>1. TableInv => RegisteredFound /\ DataApart  BY DEF TableInv, HashInv, DataInv
<1> QED  BY <1>1, TableInductive, PTL
-----------------------------------------------------------------------------
\* Products: the next factor comes last.
Multiplies(g, S) ==
  g = [s \in SUBSET S |-> IF s = {} THEN 1 ELSE Pick(s) * g[s \ {Pick(s)}]]
LEMMA ProductIsRecursive ==
  ASSUME NEW S
  PROVE  ProductSet(S) = (CHOOSE g : Multiplies(g, S))[S]
  BY DEF ProductSet, FoldSet, MapThenFoldSet, Multiplies, Pick
LEMMA ProductFolds ==
  ASSUME NEW U \in SUBSET Nat, IsFiniteSet(U)
  PROVE  \E h \in [SUBSET U -> Nat] :
           /\ \A s \in SUBSET U : ProductSet(s) = h[s]
           /\ \A s \in SUBSET U : \A x \in s : h[s] = x * h[s \ {x}]
           /\ h[{}] = 1
  <1> DEFINE F == [x \in U |-> [v \in Nat |-> x * v]]
             c == [s \in SUBSET U |-> Pick(s)]
  <1>1. Acts(F, U, Nat)
    <2>1. \A x, v \in Nat : x * v \in Nat  OBVIOUS
    <2>2. QED  BY <2>1 DEF Acts
  <1>2. Chooses(c, U)  BY DEF Pick, Chooses
  <1>3. \A x \in U, v \in Nat : F[x][v] = x * v  OBVIOUS
  <1>4. \A s \in SUBSET U : c[s] = Pick(s)  OBVIOUS
  <1>5. Commutes(F, U, Nat)
    <2>1. \A x, y, v \in Nat : x * (y * v) = y * (x * v) /\ y * v \in Nat  OBVIOUS
    <2>2. QED  BY <1>3, <2>1 DEF Commutes
  <1> HIDE DEF F, c
  <1>6. PICK h \in [SUBSET U -> Nat] : FoldOf(h, 1, F, c, U)
    <2>1. HasFold(1, F, c, U, Nat)  BY <1>1, <1>2, FoldExists
    <2>2. QED  BY <2>1 DEF HasFold
  <1>7. AnyLast(h, F, U)  BY <1>1, <1>2, <1>5, <1>6, FoldCommutes
  <1>8. \A s \in SUBSET U : \A x \in s : h[s] = x * h[s \ {x}]
    <2> TAKE s \in SUBSET U
    <2> TAKE x \in s
    <2>1. x \in U /\ h[s \ {x}] \in Nat  BY <1>6
    <2>2. QED  BY <1>3, <1>7, <2>1 DEF AnyLast
  <1>9. h[{}] = 1  BY <1>6 DEF FoldOf
  <1>10. ASSUME NEW S \in SUBSET U  PROVE ProductSet(S) = h[S]
    <2> DEFINE k == CHOOSE g : Multiplies(g, S)
               i == [s \in SUBSET S |-> h[s]]
    <2>1. Multiplies(i, S)
      <3>1. ASSUME NEW s \in SUBSET S
            PROVE  i[s] = IF s = {} THEN 1 ELSE Pick(s) * i[s \ {Pick(s)}]
        <4>1. CASE s = {}  BY <1>9, <4>1
        <4>2. CASE s # {}
          <5>1. Pick(s) \in s  BY <4>2 DEF Pick
          <5>2. h[s] = Pick(s) * h[s \ {Pick(s)}]  BY <1>8, <5>1
          <5>3. QED  BY <4>2, <5>2
        <4>3. QED  BY <4>1, <4>2
      <3>2. i = [s \in SUBSET S |-> i[s]]  OBVIOUS
      <3> HIDE DEF i
      <3>3. QED  BY <3>1, <3>2 DEF Multiplies
    <2>2. Multiplies(k, S)  BY <2>1
    <2> HIDE DEF k
    <2>3. \A s \in SUBSET S : k[s] = IF s = {} THEN 1 ELSE Pick(s) * k[s \ {Pick(s)}]
      BY <2>2 DEF Multiplies
    <2> DEFINE T == {n \in Nat : \A s \in SUBSET S : Cardinality(s) <= n => k[s] = h[s]}
    <2>4. IsFiniteSet(S)  BY FS_Subset
    <2>5. \A s \in SUBSET S :
            /\ Cardinality(s) \in Nat
            /\ Cardinality(s) = 0 <=> s = {}
            /\ s # {} => /\ Pick(s) \in s
                         /\ s \ {Pick(s)} \in SUBSET S
                         /\ Cardinality(s \ {Pick(s)}) = Cardinality(s) - 1
      BY <2>4, SubsetsShrink
    <2>6. k[{}] = h[{}]  BY <1>9, <2>3
    <2>7. 0 \in T
      <3> SUFFICES ASSUME NEW s \in SUBSET S, Cardinality(s) <= 0
                   PROVE  s = {}
        BY <2>6
      <3> SUFFICES ASSUME NEW j \in Nat, j = Cardinality(s), j = 0 => s = {}
                   PROVE  s = {}
        BY <2>5
      <3>1. QED  OBVIOUS
    <2>8. ASSUME NEW n \in T  PROVE n + 1 \in T
      <3> SUFFICES ASSUME NEW s \in SUBSET S, Cardinality(s) <= n + 1
                   PROVE  k[s] = h[s]
        OBVIOUS
      <3> SUFFICES ASSUME s # {}  PROVE k[s] = h[s]
        BY <2>6
      <3>1. Pick(s) \in s /\ s \ {Pick(s)} \in SUBSET S  BY <2>5
      <3>2. Cardinality(s \ {Pick(s)}) <= n  BY <2>5
      <3>3. k[s \ {Pick(s)}] = h[s \ {Pick(s)}]  BY <3>1, <3>2
      <3>4. k[s] = Pick(s) * k[s \ {Pick(s)}]  BY <2>3
      <3>5. h[s] = Pick(s) * h[s \ {Pick(s)}]  BY <1>8, <3>1
      <3>6. QED  BY <3>3, <3>4, <3>5
    <2>9. T = Nat
      <3>1. T \in SUBSET Nat  OBVIOUS
      <3> HIDE DEF T
      <3>2. QED  BY <2>7, <2>8, <3>1, Induction
    <2>10. Cardinality(S) \in T  BY <2>5, <2>9
    <2>11. k[S] = h[S]  BY <2>5, <2>10
    <2>12. QED  BY <2>11, ProductIsRecursive DEF k
  <1>11. QED  BY <1>6, <1>8, <1>9, <1>10
LEMMA ProductGrows ==
  ASSUME NEW n \in Nat
  PROVE  /\ ProductSet(1..n) \in Nat
         /\ ProductSet(1..n + 1) = (n + 1) * ProductSet(1..n)
         /\ ProductSet({}) = 1
  <1> DEFINE U == 1..n + 1
  <1>1. U \in SUBSET Nat /\ IsFiniteSet(U)  BY FS_Interval
  <1>2. 1..n \in SUBSET U /\ U \in SUBSET U /\ {} \in SUBSET U /\ U \ {n + 1} = 1..n /\ n + 1 \in U
    OBVIOUS
  <1> HIDE DEF U
  <1>3. PICK h \in [SUBSET U -> Nat] :
           /\ \A s \in SUBSET U : ProductSet(s) = h[s]
           /\ \A s \in SUBSET U : \A x \in s : h[s] = x * h[s \ {x}]
           /\ h[{}] = 1
    BY <1>1, ProductFolds
  <1>4. h[U] = (n + 1) * h[1..n] /\ h[1..n] \in Nat  BY <1>2, <1>3
  <1>5. QED  BY <1>2, <1>3, <1>4 DEF U
-----------------------------------------------------------------------------
(* The sites of a search *)

\* In a list of sites, those with points to be looked at for the j-th type have the
\* points P, each once.
Visits(sites, j) == {i \in DOMAIN sites : j \in sites[i].requests}
Once(sites, j, P) ==
  /\ {sites[i].point : i \in Visits(sites, j)} = P
  /\ \A i, k \in Visits(sites, j) : sites[i].point = sites[k].point => i = k

LEMMA ListsAreSeqs ==
  ASSUME NEW n \in Nat, NEW S, NEW f \in [1..n -> S]
  PROVE  f \in Seq(S) /\ Len(f) = n
  OBVIOUS
LEMMA RoundOnce ==
  ASSUME NEW S, NEW points \in Seq(S), IsInjective(points), NEW requests, NEW j
  PROVE  /\ Round(points, requests) \in Seq([point : S, requests : {requests}])
         /\ Once(Round(points, requests), j, IF j \in requests THEN Range(points) ELSE {})
  <1> DEFINE sites == Round(points, requests)
  <1>1. /\ DOMAIN sites = DOMAIN points
        /\ \A i \in DOMAIN points : sites[i].point = points[i] /\ sites[i].requests = requests
    BY DEF Round
  <1>2. sites \in Seq([point : S, requests : {requests}])
    <2>1. points \in [1..Len(points) -> S] /\ Len(points) \in Nat  BY LenProperties
    <2>2. sites \in [1..Len(points) -> [point : S, requests : {requests}]]  BY <2>1 DEF Round
    <2> HIDE DEF sites
    <2>3. QED  BY <2>1, <2>2, ListsAreSeqs
  <1> HIDE DEF sites
  <1>3. CASE j \in requests
    <2>1. Visits(sites, j) = DOMAIN points  BY <1>1, <1>3 DEF Visits
    <2>2. {sites[i].point : i \in Visits(sites, j)} = Range(points)  BY <1>1, <2>1 DEF Range
    <2>3. \A i, k \in Visits(sites, j) : sites[i].point = sites[k].point => i = k
      BY <1>1, <2>1 DEF IsInjective
    <2>4. QED  BY <1>2, <1>3, <2>2, <2>3 DEF Once, sites
  <1>4. CASE j \notin requests
    <2>1. Visits(sites, j) = {}  BY <1>1, <1>4 DEF Visits
    <2>2. QED  BY <1>2, <1>4, <2>1 DEF Once, sites
  <1>5. QED  BY <1>3, <1>4

LEMMA ConcatOnce ==
  ASSUME NEW T, NEW p \in Seq(T), NEW q \in Seq(T), NEW j, NEW A, NEW B,
         Once(p, j, A), Once(q, j, B), A = {} \/ B = {}
  PROVE  p \o q \in Seq(T) /\ Once(p \o q, j, A \cup B)
  <1> DEFINE m == Len(p)
             n == Len(q)
             r == p \o q
  <1>1. /\ m \in Nat /\ n \in Nat /\ DOMAIN p = 1..m /\ DOMAIN q = 1..n
        /\ r \in Seq(T) /\ DOMAIN r = 1..(m + n)
        /\ \A i \in 1..m : r[i] = p[i]
        /\ \A i \in 1..n : r[m + i] = q[i]
    <2>1. m \in Nat /\ n \in Nat /\ DOMAIN p = 1..m /\ DOMAIN q = 1..n  BY LenProperties
    <2>2. r \in Seq(T) /\ Len(r) = m + n /\ DOMAIN r = 1..Len(r)
      BY ConcatProperties, LenProperties
    <2>3. \A i \in 1..(m + n) : r[i] = IF i <= m THEN p[i] ELSE q[i - m]
      BY ConcatProperties
    <2> HIDE DEF m, n, r
    <2>4. \A i \in 1..m : i \in 1..(m + n) /\ i <= m  BY <2>1
    <2>5. \A i \in 1..m : r[i] = p[i]  BY <2>3, <2>4
    <2>6. \A i \in 1..n : r[m + i] = q[i]
      <3> TAKE i \in 1..n
      <3> DEFINE k == m + i
      <3>1. k \in 1..(m + n) /\ ~ (k <= m) /\ k - m = i  BY <2>1
      <3> HIDE DEF k
      <3>2. r[k] = q[k - m]  BY <2>3, <3>1
      <3>3. QED  BY <3>1, <3>2 DEF k
    <2>7. QED  BY <2>1, <2>2, <2>5, <2>6
  <1> HIDE DEF m, n, r
  <1>2. CASE B = {}
    <2>1. Visits(q, j) = {}  BY <1>2 DEF Once
    <2>2. \A i \in 1..(m + n) : i \in 1..m \/ (i - m \in 1..n /\ r[i] = q[i - m])
      <3> TAKE i \in 1..(m + n)
      <3>1. i \in 1..m \/ (i - m \in 1..n /\ m + (i - m) = i)  BY <1>1
      <3>2. QED  BY <1>1, <3>1
    <2>3. 1..m \subseteq 1..(m + n)  BY <1>1
    <2>4. Visits(r, j) = Visits(p, j)  BY <1>1, <2>1, <2>2, <2>3 DEF Visits
    <2>5. \A i \in Visits(p, j) : r[i] = p[i]  BY <1>1 DEF Visits
    <2>6. {r[i].point : i \in Visits(r, j)} = A  BY <2>4, <2>5 DEF Once
    <2>7. \A i, k \in Visits(r, j) : r[i].point = r[k].point => i = k
      BY <2>4, <2>5 DEF Once
    <2>8. QED  BY <1>1, <1>2, <2>6, <2>7 DEF Once, r
  <1>3. CASE A = {}
    <2>1. Visits(p, j) = {}  BY <1>3 DEF Once
    <2>2. ASSUME NEW i \in Visits(r, j)
          PROVE  i - m \in Visits(q, j) /\ r[i] = q[i - m] /\ i \in Int
      <3>1. i \in 1..(m + n) /\ j \in r[i].requests  BY <1>1 DEF Visits
      <3>2. i \notin 1..m  BY <1>1, <2>1, <3>1 DEF Visits
      <3>3. i - m \in 1..n /\ m + (i - m) = i /\ i \in Int  BY <1>1, <3>1, <3>2
      <3>4. r[i] = q[i - m]  BY <1>1, <3>3
      <3>5. QED  BY <1>1, <3>1, <3>3, <3>4 DEF Visits
    <2>3. ASSUME NEW i \in Visits(q, j)
          PROVE  m + i \in Visits(r, j) /\ r[m + i] = q[i]
      <3>1. i \in 1..n /\ j \in q[i].requests  BY <1>1 DEF Visits
      <3>2. m + i \in 1..(m + n)  BY <1>1, <3>1
      <3>3. QED  BY <1>1, <3>1, <3>2 DEF Visits
    <2>4. {r[i].point : i \in Visits(r, j)} = B
      <3>1. \A i \in Visits(r, j) : r[i].point \in B  BY <2>2 DEF Once
      <3>2. \A b \in B : \E i \in Visits(r, j) : r[i].point = b
        <4> TAKE b \in B
        <4>1. PICK i \in Visits(q, j) : q[i].point = b  BY DEF Once
        <4>2. QED  BY <2>3, <4>1
      <3>3. QED  BY <3>1, <3>2
    <2>5. ASSUME NEW i \in Visits(r, j), NEW k \in Visits(r, j), r[i].point = r[k].point
          PROVE  i = k
      <3>1. i - m = k - m  BY <2>2, <2>5 DEF Once
      <3>2. QED  BY <1>1, <2>2, <3>1
    <2>6. QED  BY <1>1, <1>3, <2>4, <2>5 DEF Once, r
  <1>4. QED  BY <1>2, <1>3

\* Rounds of several lists, each for a type of its own.
LEMMA RoundsOnce ==
  ASSUME NEW N \in Nat \ {0}, NEW S, NEW lists \in [1..N -> Seq(S)],
         \A j \in 1..N : IsInjective(lists[j])
  PROVE  LET sites == FlattenSeq([j \in 1..N |-> Round(lists[j], {j})])
         IN  /\ sites \in Seq([point : S, requests : SUBSET (1..N)])
             /\ \A j \in 1..N : Once(sites, j, Range(lists[j]))
  <1> DEFINE seqs == [j \in 1..N |-> Round(lists[j], {j})]
             T == [point : S, requests : SUBSET (1..N)]
             Listed(m, j) == IF j \in 1..m THEN Range(lists[j]) ELSE {}
  <1>1. ASSUME NEW k \in 1..N
        PROVE  seqs[k] \in Seq(T) /\ \A j : Once(seqs[k], j, IF j = k THEN Range(lists[k]) ELSE {})
    <2>1. seqs[k] \in Seq([point : S, requests : {{k}}])  BY RoundOnce
    <2>2. \A j : Once(seqs[k], j, IF j \in {k} THEN Range(lists[k]) ELSE {})  BY RoundOnce
    <2>3. seqs[k] \in Seq(T)
      <3>1. [point : S, requests : {{k}}] \subseteq T  OBVIOUS
      <3> DEFINE P == [point : S, requests : {{k}}]
      <3> HIDE DEF seqs, T, P
      <3>2. QED  BY <2>1, <3>1, SeqMonotonic DEF P
    <2>4. QED  BY <2>2, <2>3
  <1>2. Len(seqs) = N
    <2>1. seqs \in [1..N -> {seqs[j] : j \in 1..N}]  OBVIOUS
    <2> HIDE DEF seqs
    <2>2. QED  BY <2>1, ListsAreSeqs
  <1> HIDE DEF seqs, T
  <1>3. PICK f : Flattens(f, seqs, N) /\ FlattenSeq(seqs) = f[N]  BY <1>2, FlattenIs
  <1> DEFINE M == {m \in Nat : m \in 1..N => /\ f[m] \in Seq(T)
                                             /\ \A j \in 1..N : Once(f[m], j, Listed(m, j))}
  <1>4. 0 \in M  OBVIOUS
  <1>5. ASSUME NEW m \in M  PROVE m + 1 \in M
    <2> SUFFICES ASSUME m + 1 \in 1..N
                 PROVE  /\ f[m + 1] \in Seq(T)
                        /\ \A j \in 1..N : Once(f[m + 1], j, Listed(m + 1, j))
      OBVIOUS
    <2>1. CASE m = 0
      <3>1. f[1] = seqs[1] /\ 1 \in 1..N  BY <1>3 DEF Flattens
      <3>2. \A j : (IF j = 1 THEN Range(lists[1]) ELSE {}) = Listed(1, j)  OBVIOUS
      <3>3. f[1] \in Seq(T) /\ \A j : Once(f[1], j, Listed(1, j))  BY <1>1, <3>1, <3>2
      <3> HIDE DEF Listed
      <3>4. QED  BY <2>1, <3>3
    <2>2. CASE m # 0
      <3>1. m \in 1..N /\ m + 1 # 1 /\ m + 1 - 1 = m  BY <2>2
      <3>2. f[m + 1] = f[m] \o seqs[m + 1]
        <4> DEFINE i == m + 1
        <4>1. i \in 1..N /\ i # 1 /\ i - 1 = m  BY <3>1
        <4> HIDE DEF i, M
        <4>2. f[i] = f[i - 1] \o seqs[i]  BY <1>3, <4>1 DEF Flattens
        <4>3. QED  BY <4>1, <4>2 DEF i
      <3>3. f[m] \in Seq(T) /\ \A j \in 1..N : Once(f[m], j, Listed(m, j))  BY <3>1
      <3>4. ASSUME NEW j \in 1..N
            PROVE  f[m] \o seqs[m + 1] \in Seq(T) /\ Once(f[m] \o seqs[m + 1], j, Listed(m + 1, j))
        <4> DEFINE A == Listed(m, j)
                   B == IF j = m + 1 THEN Range(lists[m + 1]) ELSE {}
        <4>1. Once(f[m], j, A) /\ Once(seqs[m + 1], j, B) /\ seqs[m + 1] \in Seq(T)
          BY <1>1, <3>3
        <4>2. (A = {} \/ B = {}) /\ A \cup B = Listed(m + 1, j)  BY <3>1
        <4> HIDE DEF A, B, Listed
        <4>3. f[m] \o seqs[m + 1] \in Seq(T) /\ Once(f[m] \o seqs[m + 1], j, A \cup B)
          BY <3>3, <4>1, <4>2, ConcatOnce
        <4>4. QED  BY <4>2, <4>3
      <3> HIDE DEF Listed
      <3>5. 1 \in 1..N  OBVIOUS
      <3>6. QED  BY <3>2, <3>4, <3>5
    <2>3. QED  BY <2>1, <2>2
  <1>6. M = Nat
    <2>1. M \in SUBSET Nat  OBVIOUS
    <2> HIDE DEF M
    <2>2. QED  BY <1>4, <1>5, <2>1, Induction
  <1>7. f[N] \in Seq(T) /\ \A j \in 1..N : Once(f[N], j, Listed(N, j))
    <2>1. N \in M  BY <1>6
    <2>2. QED  BY <2>1
  <1>8. QED  BY <1>3, <1>7 DEF seqs, T
-----------------------------------------------------------------------------
(* The lists and the tables a search goes by *)

\* The tables of the class MDist, which no search changes.
Tables == TablesRight /\ dist.first = FirstIndex(dist.points)

\* Where an area's points are: those of its list, or of the distances up to its radius.
Around(area) == IF area.points # <<>> THEN Range(area.points) ELSE Ring(1, area.radius)
Places == (Int \X Int) \cup Range(dist.points)
Fit(area) ==
  area.points \in Seq(Int \X Int) /\ IsInjective(area.points) /\ area.radius \in Nat

LEMMA FirstIndices ==
  ASSUME Tables, NEW radius \in 0..R
  PROVE  GetLastIndex(radius) \in Int /\ GetLastIndex(radius) + 1 <= EVENT_WINDOW_SITES(R)
         /\ EVENT_WINDOW_SITES(R) \in Int
  <1> DEFINE n == EVENT_WINDOW_SITES(R)
             near == {i \in DOMAIN dist.points : Manhattan(dist.points[i]) < radius + 1}
  <1>1. n \in Int
    <2>1. R \in Int  BY WindowAssumption
    <2>2. \A a \in Int : a \div 2 + 1 \in Int  OBVIOUS
    <2>3. (R * 2 + 1) * (R * 2 + 1) \in Int  BY <2>1
    <2>4. QED  BY <2>2, <2>3 DEF EVENT_WINDOW_SITES
  <1>2. n \in Nat
    <2>1. R * 2 + 1 \in Nat  BY WindowAssumption
    <2>2. \A a \in Nat : a * a \in Nat  OBVIOUS
    <2>3. \A a \in Nat : a \div 2 + 1 \in Nat  OBVIOUS
    <2>4. QED  BY <2>1, <2>2, <2>3 DEF EVENT_WINDOW_SITES
  <1> HIDE DEF n
  <1>3. DOMAIN dist.points = 1..n  BY DEF Tables, TablesRight, n
  <1>4. IsFiniteSet(1..n) /\ Cardinality(1..n) = n  BY <1>2, FS_Interval
  <1>5. near \in SUBSET (1..n)  BY <1>3
  <1>6. Cardinality(near) \in Nat /\ Cardinality(near) <= n
    BY <1>4, <1>5, FS_Subset, FS_CardinalityType
  <1>7. dist.first[radius + 1] = Cardinality(near)
    <2>1. radius + 1 \in 0..R + 1  BY WindowAssumption
    <2>2. QED  BY <2>1 DEF Tables, FirstIndex
  <1> HIDE DEF near
  <1>8. QED  BY <1>1, <1>6, <1>7 DEF GetLastIndex, GetFirstIndex, n

LEMMA PointsOnce ==
  ASSUME Tables, NEW area, Fit(area), area.points = <<>> => area.radius <= R
  PROVE  /\ PointsOf(area) \in Seq(Places) /\ IsInjective(PointsOf(area))
         /\ Range(PointsOf(area)) = Around(area)
  <1>1. CASE area.points # <<>>
    <2>1. PointsOf(area) = area.points /\ Around(area) = Range(area.points)
      BY <1>1 DEF PointsOf, Around
    <2>2. area.points \in Seq(Places)
      <3>1. Int \X Int \subseteq Places  BY DEF Places
      <3>2. QED  BY <3>1, SeqMonotonic DEF Fit
    <2>3. QED  BY <2>1, <2>2 DEF Fit
  <1>2. CASE area.points = <<>>
    <2> DEFINE r == area.radius
               last == GetLastIndex(r)
               n == EVENT_WINDOW_SITES(R)
               points == [i \in 1..last |-> dist.points[i + 1]]
    <2>1. r \in 0..R  BY <1>2 DEF Fit
    <2>2. last \in Int /\ last + 1 <= n /\ n \in Int  BY <2>1, FirstIndices
    <2>3. GetFirstIndex(1) = 1 /\ DOMAIN dist.points = 1..n /\ IsInjective(dist.points)
      BY DEF Tables, TablesRight
    <2>4. PointsOf(area) = points
      <3>1. PointsOf(area) = [i \in 1..last |-> GetPoint(GetFirstIndex(1) + i - 1)]
        BY <1>2 DEF PointsOf
      <3>2. \A i \in 1..last : GetPoint(GetFirstIndex(1) + i - 1) = dist.points[i + 1]
        <4>1. \A i \in 1..last : 1 + i - 1 + 1 = i + 1  BY <2>2
        <4>2. QED  BY <2>3, <4>1 DEF GetPoint
      <3>3. QED  BY <3>1, <3>2
    <2> HIDE DEF last, n, r
    <2>5. \A i \in 1..last : i + 1 \in DOMAIN dist.points  BY <2>2, <2>3
    <2>6. DOMAIN points = 1..last /\ \A i \in 1..last : points[i] = dist.points[i + 1]
      OBVIOUS
    <2>7. points \in Seq(Places)
      <3>1. \A i \in 1..last : dist.points[i + 1] \in Places  BY <2>5 DEF Places, Range
      <3>2. CASE last \in Nat
        <4>1. points \in [1..last -> Places]  BY <3>1
        <4> HIDE DEF points
        <4>2. QED  BY <3>2, <4>1, ListsAreSeqs
      <3>3. CASE last \notin Nat
        <4>1. 1..last = 1..0  BY <2>2, <3>3
        <4>2. points \in [1..0 -> Places]  BY <4>1
        <4> HIDE DEF points
        <4>3. QED  BY <4>2, ListsAreSeqs
      <3>4. QED  BY <3>2, <3>3
    <2> HIDE DEF points
    <2>8. IsInjective(points)
      <3>1. ASSUME NEW i \in 1..last, NEW k \in 1..last, points[i] = points[k]
            PROVE  i = k
        <4>1. i + 1 = k + 1  BY <2>3, <2>5, <2>6, <3>1 DEF IsInjective
        <4>2. QED  BY <2>2, <4>1
      <3>2. QED  BY <2>6, <3>1 DEF IsInjective
    <2>9. Range(points) = Ring(1, r)
      <3>1. CASE r >= 1
        <4>1. {GetPoint(i) : i \in GetFirstIndex(1)..GetLastIndex(r)} = Ring(1, r)
          <5>1. 1 \in 0..R  BY WindowAssumption
          <5>2. QED  BY <2>1, <5>1 DEF Tables, TablesRight
        <4>2. Range(points) = {dist.points[i + 1] : i \in 1..last}  BY <2>6 DEF Range
        <4>3. QED  BY <2>3, <4>1, <4>2 DEF GetPoint, last
      <3>2. CASE r = 0
        <4>1. last = 0
          <5>1. last = GetFirstIndex(0 + 1) - 1  BY <3>2 DEF last, GetLastIndex
          <5>2. 0 + 1 = 1 /\ 1 - 1 = 0  OBVIOUS
          <5>3. QED  BY <2>3, <5>1, <5>2
        <4>2. Range(points) = {}
          <5>1. 1..0 = {}  OBVIOUS
          <5>2. QED  BY <2>6, <4>1, <5>1 DEF Range
        <4>3. Ring(1, r) = {}
          <5>1. 1..0 = {}  OBVIOUS
          <5>2. QED  BY <3>2, <5>1 DEF Ring
        <4>4. QED  BY <4>2, <4>3
      <3>3. QED  BY <2>1, <3>1, <3>2
    <2>10. Around(area) = Ring(1, r)  BY <1>2 DEF Around, r
    <2>11. QED  BY <2>4, <2>7, <2>8, <2>9, <2>10
  <1>3. QED  BY <1>1, <1>2

\* A call for N types; and a list of sites that covers its areas.
Asks(q, N) ==
  /\ N \in Nat \ {0}
  /\ DOMAIN q.types = 1..N /\ DOMAIN q.areas = 1..N
  /\ \A j \in 1..N : Fit(q.areas[j])
  /\ q.ask = "FindAll" => \A j \in 1..N : q.areas[j] = q.areas[1]
  /\ q.ask = "CanSee" => N = 1
Covers(sites, q) ==
  /\ \E S : sites \in Seq([point : S, requests : SUBSET DOMAIN q.types])
  /\ \A j \in DOMAIN q.types : Once(sites, j, Around(q.areas[j]))

LEMMA SitesCover ==
  ASSUME Tables, NEW q, NEW N, Asks(q, N), ~Refused(q)
  PROVE  Covers(SitesOf(q), q)
  <1> DEFINE lists == [j \in 1..N |-> PointsOf(q.areas[j])]
  <1>1. N \in Nat \ {0} /\ DOMAIN q.types = 1..N /\ 1 \in 1..N  BY DEF Asks
  <1>2. ASSUME NEW j \in 1..N
        PROVE  /\ PointsOf(q.areas[j]) \in Seq(Places) /\ IsInjective(PointsOf(q.areas[j]))
               /\ Range(PointsOf(q.areas[j])) = Around(q.areas[j])
    <2>1. Fit(q.areas[j]) /\ j \in DOMAIN q.areas  BY DEF Asks
    <2>2. q.areas[j].points = <<>> => ~(q.areas[j].radius > R)  BY <2>1 DEF Refused
    <2>3. q.areas[j].points = <<>> => q.areas[j].radius <= R
      BY <2>1, <2>2, WindowAssumption DEF Fit
    <2>4. QED  BY <2>1, <2>3, PointsOnce
  <1>3. CASE q.ask = "FindAll"
    <2> DEFINE points == PointsOf(q.areas[1])
               all == 1..N
    <2>1. SitesOf(q) = Round(points, all)  BY <1>1, <1>3 DEF SitesOf
    <2>2. /\ points \in Seq(Places) /\ IsInjective(points)
          /\ Range(points) = Around(q.areas[1])
      BY <1>1, <1>2
    <2> HIDE DEF points, all
    <2>3. /\ Round(points, all) \in Seq([point : Places, requests : {all}])
          /\ \A j : Once(Round(points, all), j, IF j \in all THEN Range(points) ELSE {})
      BY <2>2, RoundOnce
    <2>4. \A j \in all : Once(SitesOf(q), j, Around(q.areas[1]))  BY <2>1, <2>2, <2>3
    <2>5. \A j \in 1..N : q.areas[j] = q.areas[1]  BY <1>3 DEF Asks
    <2>6. SitesOf(q) \in Seq([point : Places, requests : SUBSET all])
      <3> DEFINE A == [point : Places, requests : {all}]
                 B == [point : Places, requests : SUBSET all]
      <3>1. A \subseteq B  OBVIOUS
      <3> HIDE DEF A, B
      <3>2. SitesOf(q) \in Seq(A)  BY <2>1, <2>3 DEF A
      <3>3. SitesOf(q) \in Seq(B)  BY <3>1, <3>2, SeqMonotonic
      <3>4. QED  BY <3>3 DEF B
    <2>7. QED  BY <1>1, <2>4, <2>5, <2>6 DEF Covers, all
  <1>4. CASE q.ask # "FindAll"
    <2>1. lists \in [1..N -> Seq(Places)] /\ \A j \in 1..N : IsInjective(lists[j])
      BY <1>2
    <2>2. SitesOf(q) = FlattenSeq([j \in 1..N |-> Round(lists[j], {j})])
      <3>1. [j \in 1..N |-> Round(PointsOf(q.areas[j]), {j})]
              = [j \in 1..N |-> Round(lists[j], {j})]
        OBVIOUS
      <3>2. QED  BY <1>1, <1>4, <3>1 DEF SitesOf
    <2>3. \A j \in 1..N : Range(lists[j]) = Around(q.areas[j])  BY <1>2
    <2> HIDE DEF lists
    <2>4. /\ SitesOf(q) \in Seq([point : Places, requests : SUBSET (1..N)])
          /\ \A j \in 1..N : Once(SitesOf(q), j, Range(lists[j]))
      BY <1>1, <2>1, <2>2, RoundsOnce
    <2>5. QED  BY <1>1, <2>3, <2>4 DEF Covers
  <1>5. QED  BY <1>3, <1>4
-----------------------------------------------------------------------------
(* A search, site by site *)

\* The points seen so far that hold the j-th type, each the pick in as many runs.
Holds(j, p) == IsLiveSite(view, p) /\ TypeAt(view, p) = query.types[j]
Hits(j, n) ==
  {search.sites[i].point :
     i \in {k \in Visits(search.sites, j) : k <= n /\ Holds(j, search.sites[k].point)}}
Evenly(ways, n, D) ==
  /\ IsFiniteSet(D) /\ n = Cardinality(D)
  /\ DOMAIN ways = D /\ \A p \in D : ways[p] = ProductSet(1..n - 1)

\* The n-th is the pick in one run of n, and those before share the others.
LEMMA FoundEvenly ==
  ASSUME NEW ways, NEW n, NEW D, Evenly(ways, n, D), NEW p, p \notin D
  PROVE  Evenly(Found(ways, n + 1, p), n + 1, D \cup {p})
  <1>1. /\ IsFiniteSet(D) /\ n = Cardinality(D) /\ n \in Nat
        /\ DOMAIN ways = D /\ \A q \in D : ways[q] = ProductSet(1..n - 1)
    BY FS_CardinalityType DEF Evenly
  <1>2. IsFiniteSet(D \cup {p}) /\ Cardinality(D \cup {p}) = n + 1  BY <1>1, FS_AddElement
  <1> DEFINE all == ProductSet(1..n)
             now == Found(ways, n + 1, p)
  <1>3. (n + 1) - 1 = n /\ all \in Nat
    <2>1. all \in Nat  BY <1>1, ProductGrows
    <2> HIDE DEF all
    <2>2. QED  BY <1>1, <2>1
  <1>4. DOMAIN now = D \cup {p}  BY <1>1 DEF Found
  <1>5. ASSUME NEW q \in D  PROVE now[q] = all
    <2> DEFINE before == ProductSet(1..n - 1)
    <2>1. n - 1 \in Nat /\ n - 1 + 1 = n
      <3>1. n # 0  BY <1>1, FS_EmptySet
      <3>2. QED  BY <1>1, <3>1
    <2>2. all = n * before /\ before \in Nat  BY <2>1, ProductGrows
    <2>3. now[q] = ways[q] * ((n + 1) - 1) + 0  BY <1>1 DEF Found
    <2>4. ways[q] = before  BY <1>1
    <2> HIDE DEF before, all, now
    <2>5. before * n + 0 = n * before  BY <1>1, <2>2
    <2>6. QED  BY <1>3, <2>2, <2>3, <2>4, <2>5
  <1>6. now[p] = all
    <2>1. now[p] = 0 + ProductSet(1..(n + 1) - 1)  BY <1>1 DEF Found
    <2>2. now[p] = 0 + all  BY <1>3, <2>1
    <2> HIDE DEF all, now
    <2>3. QED  BY <1>3, <2>2
  <1>7. all = ProductSet(1..(n + 1) - 1)  BY <1>3
  <1> HIDE DEF all, now
  <1>8. \A q \in D \cup {p} : now[q] = ProductSet(1..(n + 1) - 1)
    <2>1. \A q \in D \cup {p} : now[q] = all  BY <1>5, <1>6
    <2>2. QED  BY <1>7, <2>1
  <1>9. Evenly(now, n + 1, D \cup {p})
    <2> DEFINE m == n + 1
               E == D \cup {p}
    <2>1. IsFiniteSet(E) /\ m = Cardinality(E) /\ DOMAIN now = E  BY <1>2, <1>4
    <2>2. \A q \in E : now[q] = ProductSet(1..m - 1)  BY <1>8
    <2> HIDE DEF m, E
    <2>3. Evenly(now, m, E)  BY <2>1, <2>2 DEF Evenly
    <2>4. QED  BY <2>3 DEF m, E
  <1>10. QED  BY <1>9 DEF now

Searching(N) ==
  /\ Asks(query, N) /\ Covers(search.sites, query)
  /\ search.at \in 0..Len(search.sites)
  /\ DOMAIN search.seen = 1..N /\ DOMAIN search.ways = 1..N
  /\ \A j \in 1..N : Evenly(search.ways[j], search.seen[j], Hits(j, search.at))
  /\ search.state = "looking" /\ query.ask = "CanSee" => search.seen[1] = 0
  /\ search.state = "done" =>
       search.at = Len(search.sites) \/ (query.ask = "CanSee" /\ search.seen[1] > 0)
WindowInv ==
  /\ Tables
  /\ search = [sites |-> search.sites, at |-> search.at, seen |-> search.seen,
               ways |-> search.ways, state |-> search.state]
  /\ search.state \in {"looking", "done"} => \E N : Searching(N)

\* What has been found once all sites have been seen is all there is.
LEMMA AllAreSeen ==
  ASSUME NEW N, Searching(N), NEW j \in 1..N
  PROVE  /\ Hits(j, search.at) \subseteq OfType(view, Around(query.areas[j]), query.types[j])
         /\ search.at = Len(search.sites) =>
              Hits(j, search.at) = OfType(view, Around(query.areas[j]), query.types[j])
  <1>1. Once(search.sites, j, Around(query.areas[j]))  BY DEF Searching, Covers, Asks
  <1>2. Hits(j, search.at) \subseteq OfType(view, Around(query.areas[j]), query.types[j])
    BY <1>1 DEF Hits, Once, Holds, OfType
  <1>3. ASSUME search.at = Len(search.sites),
               NEW p \in OfType(view, Around(query.areas[j]), query.types[j])
        PROVE  p \in Hits(j, search.at)
    <2>1. p \in Around(query.areas[j]) /\ Holds(j, p)  BY DEF OfType, Holds
    <2>2. PICK i \in Visits(search.sites, j) : search.sites[i].point = p  BY <1>1, <2>1 DEF Once
    <2>3. i <= search.at
      <3>1. PICK S : search.sites \in Seq([point : S, requests : SUBSET DOMAIN query.types])
        BY DEF Searching, Covers
      <3>2. DOMAIN search.sites = 1..Len(search.sites) /\ Len(search.sites) \in Nat
        BY <3>1, LenProperties
      <3>3. QED  BY <1>3, <3>2 DEF Visits
    <2>4. QED  BY <2>1, <2>2, <2>3 DEF Hits
  <1>4. QED  BY <1>2, <1>3

LEMMA SearchedRight == WindowInv => WindowSound
  <1> SUFFICES ASSUME WindowInv  PROVE WindowSound
    OBVIOUS
  <1>1. TablesRight  BY DEF WindowInv, Tables
  <1>2. ASSUME search.state = "done", NEW j \in DOMAIN query.types
        PROVE  LET area  == query.areas[j]
                   around == IF area.points # <<>> THEN Range(area.points) ELSE Ring(1, area.radius)
                   found  == OfType(view, around, query.types[j])
               IN  IF query.ask = "CanSee" THEN (search.seen[j] > 0) = (found # {})
                   ELSE /\ search.seen[j] = Cardinality(found)
                        /\ DOMAIN search.ways[j] = found
                        /\ \A p, q \in found : search.ways[j][p] = search.ways[j][q]
    <2> DEFINE found == OfType(view, Around(query.areas[j]), query.types[j])
               hits == Hits(j, search.at)
    <2>1. PICK N : Searching(N)  BY <1>2 DEF WindowInv
    <2>2. j \in 1..N  BY <2>1 DEF Searching, Asks
    <2>3. hits \subseteq found /\ (search.at = Len(search.sites) => hits = found)
      BY <2>1, <2>2, AllAreSeen
    <2>4. /\ IsFiniteSet(hits) /\ search.seen[j] = Cardinality(hits)
          /\ DOMAIN search.ways[j] = hits
          /\ \A p, q \in hits : search.ways[j][p] = search.ways[j][q]
      BY <2>1, <2>2 DEF Searching, Evenly
    <2>5. search.seen[j] \in Nat /\ (search.seen[j] = 0 <=> hits = {})
      BY <2>4, FS_CardinalityType, FS_EmptySet
    <2>6. search.at = Len(search.sites) \/ (query.ask = "CanSee" /\ search.seen[1] > 0)
      BY <1>2, <2>1 DEF Searching
    <2>7. query.ask = "CanSee" => j = 1  BY <2>1, <2>2 DEF Searching, Asks
    <2> HIDE DEF hits, found
    <2>8. CASE query.ask = "CanSee"
      <3>1. (search.seen[j] > 0) = (found # {})
        BY <2>3, <2>5, <2>6, <2>7, <2>8
      <3>2. QED  BY <2>8, <3>1 DEF found, Around
    <2>9. CASE query.ask # "CanSee"
      <3>1. hits = found  BY <2>3, <2>6, <2>9
      <3>2. QED  BY <2>4, <2>9, <3>1 DEF found, Around
    <2>10. QED  BY <2>8, <2>9
  <1>3. QED  BY <1>1, <1>2 DEF WindowSound, SearchRight
-----------------------------------------------------------------------------
(* The steps of a search *)

LEMMA TablesKept == ASSUME Tables, UNCHANGED dist PROVE Tables'
  <1>1. /\ DOMAIN dist'.points = 1..EVENT_WINDOW_SITES(R) /\ IsInjective(dist'.points)
        /\ GetFirstIndex(1)' = 1
    BY DEF Tables, TablesRight, GetFirstIndex
  <1>2. \A lo, hi \in 0..R :
          {GetPoint(i) : i \in GetFirstIndex(lo)..GetLastIndex(hi)}' = Ring(lo, hi)
    BY DEF Tables, TablesRight, GetFirstIndex, GetLastIndex, GetPoint
  <1>3. \A p \in Range(Columns), radius \in 0..R :
          IF Manhattan(p) > radius THEN FromPoint(p, radius)' = -1
          ELSE GetPoint(FromPoint(p, radius))' = p
    <2>1. \A p, radius : FromPoint(p, radius)' = FromPoint(p, radius)
      BY DEF FromPoint, GetFirstIndex
    <2>2. \A i : GetPoint(i)' = GetPoint(i)  BY DEF GetPoint
    <2>3. QED  BY <2>1, <2>2 DEF Tables, TablesRight
  <1>4. \A d \in DOMAIN FillDir : \A listed \in {dist'.escapes[d], dist'.horizons[d]} :
          /\ Len(listed) = Len(dist'.points) /\ Range(listed) = 0..Len(dist'.points) - 1
          /\ \A i, j \in DOMAIN listed :
               GetPoint(listed[j])' = Plus(GetPoint(listed[i])', FillDir[d]) => j < i
    BY DEF Tables, TablesRight, GetPoint
  <1>5. TablesRight'  BY <1>1, <1>2, <1>3, <1>4 DEF Tables, TablesRight
  <1>6. QED  BY <1>5 DEF Tables, FirstIndex
LEMMA BeginSearches ==
  ASSUME Tables, NEW q, NEW N, Asks(q, N), Begin(q)
  PROVE  WindowInv'
  <1>1. Tables'  BY TablesKept DEF Begin
  <1>2. CASE Refused(q)
    <2>1. search'.state = "FAIL" /\ query' = q  BY <1>2 DEF Begin
    <2>2. search' = [sites |-> search'.sites, at |-> search'.at, seen |-> search'.seen,
                     ways |-> search'.ways, state |-> search'.state]
      BY DEF Begin
    <2>3. QED  BY <1>1, <2>1, <2>2 DEF WindowInv
  <1>3. CASE ~Refused(q)
    <2>1. /\ query' = q /\ view' = view
          /\ search' = [sites |-> SitesOf(q), at |-> 0, seen |-> [j \in DOMAIN q.types |-> 0],
                        ways |-> [j \in DOMAIN q.types |-> <<>>], state |-> "looking"]
      BY <1>3 DEF Begin
    <2>2. Covers(SitesOf(q), q)  BY <1>3, SitesCover
    <2>3. search'.at \in 0..Len(search'.sites)
      <3>1. PICK S : SitesOf(q) \in Seq([point : S, requests : SUBSET DOMAIN q.types])
        BY <2>2 DEF Covers
      <3>2. Len(SitesOf(q)) \in Nat  BY <3>1, LenProperties
      <3>3. QED  BY <2>1, <3>2
    <2>4. DOMAIN search'.seen = 1..N /\ DOMAIN search'.ways = 1..N  BY <2>1 DEF Asks
    <2>5. ASSUME NEW j \in 1..N
          PROVE  Evenly(search'.ways[j], search'.seen[j], Hits(j, search.at)')
      <3>1. Hits(j, search.at)' = {}
        <4>1. PICK S : SitesOf(q) \in Seq([point : S, requests : SUBSET DOMAIN q.types])
          BY <2>2 DEF Covers
        <4>2. DOMAIN SitesOf(q) = 1..Len(SitesOf(q)) /\ Len(SitesOf(q)) \in Nat
          BY <4>1, LenProperties
        <4>3. \A i \in DOMAIN SitesOf(q) : ~ (i <= 0)  BY <4>2
        <4>4. QED  BY <2>1, <4>3 DEF Hits, Visits
      <3>2. search'.ways[j] = <<>> /\ search'.seen[j] = 0  BY <2>1 DEF Asks
      <3>3. IsFiniteSet({}) /\ Cardinality({}) = 0  BY FS_EmptySet
      <3>4. DOMAIN <<>> = {}  OBVIOUS
      <3>5. QED  BY <3>1, <3>2, <3>3, <3>4 DEF Evenly
    <2>6. search'.state = "looking" /\ search'.sites = SitesOf(q)  BY <2>1
    <2>7. search'.seen[1] = 0
      <3>1. 1 \in DOMAIN q.types  BY DEF Asks
      <3>2. QED  BY <2>1, <3>1
    <2>8. Asks(query, N)'  BY <2>1 DEF Asks, Fit
    <2>9. Covers(search.sites, query)'
      <3>1. Covers(search'.sites, query')  BY <2>1, <2>2
      <3>2. QED  BY <3>1 DEF Covers, Once, Visits, Around, Ring
    <2>10. Searching(N)'  BY <2>3, <2>4, <2>5, <2>6, <2>7, <2>8, <2>9 DEF Searching
    <2>11. search' = [sites |-> search'.sites, at |-> search'.at, seen |-> search'.seen,
                      ways |-> search'.ways, state |-> search'.state]
      BY <2>1
    <2>12. QED  BY <1>1, <2>10, <2>11 DEF WindowInv
  <1>4. QED  BY <1>2, <1>3

LEMMA WithinFits == ASSUME NEW r \in Nat PROVE Fit(Within(r))
  <1>1. <<>> \in Seq(Int \X Int) /\ IsInjective(<<>>)  BY DEF IsInjective
  <1>2. QED  BY <1>1 DEF Fit, Within
LEMMA AmongFits ==
  ASSUME NEW points \in Seq(Int \X Int), IsInjective(points)
  PROVE  Fit(Among(points))
  BY DEF Fit, Among
LEMMA NeighborhoodsFit == Fit(Among(MooreNeighborhood)) /\ Fit(Among(VonNeumannNeighborhood))
  <1>1. FillDir \in Seq(Int \X Int) /\ IsInjective(FillDir)  BY DEF FillDir, IsInjective
  <1>2. VonNeumannNeighborhood \in Seq(Int \X Int) /\ IsInjective(VonNeumannNeighborhood)
    <2>1. /\ VonNeumannNeighborhood \in [1..4 -> Int \X Int]
          /\ VonNeumannNeighborhood[1] = <<0, -1>> /\ VonNeumannNeighborhood[2] = <<1, 0>>
          /\ VonNeumannNeighborhood[3] = <<0, 1>> /\ VonNeumannNeighborhood[4] = <<-1, 0>>
      BY DEF VonNeumannNeighborhood, FillDir
    <2>2. VonNeumannNeighborhood \in Seq(Int \X Int)  BY <2>1, ListsAreSeqs
    <2>3. QED  BY <2>1, <2>2 DEF IsInjective
  <1>3. QED  BY <1>1, <1>2, AmongFits DEF MooreNeighborhood

\* A call with one type and one area.
LEMMA OneAsked ==
  ASSUME NEW ask \in {"CanSee", "Count", "Find"}, NEW type, NEW area, Fit(area)
  PROVE  Asks(Query(ask, <<type>>, <<area>>), 1)
  <1>1. \A t : DOMAIN <<t>> = 1..1 /\ <<t>>[1] = t  OBVIOUS
  <1>2. QED  BY <1>1 DEF Asks, Query
LEMMA ManyAsked ==
  ASSUME Askable, NEW kinds \in [DOMAIN SubWindows -> Types], NEW N, N = Len(SubWindows)
  PROVE  /\ Asks(FindRandomAtomsInSubWindows(kinds, SubWindows), N)
         /\ \A radius \in Radii : Asks(FindRandomAtoms(radius, kinds), N)
  <1>1. N \in Nat \ {0} /\ DOMAIN SubWindows = 1..N
    BY LenProperties, EmptySeq DEF Askable
  <1>2. DOMAIN kinds = 1..N  BY <1>1
  <1>3. \A j \in 1..N : Fit(Among(SubWindows[j]))
    <2>1. \A j \in 1..N : SubWindows[j] \in Seq(Int \X Int) /\ IsInjective(SubWindows[j])
      BY <1>1, ElementOfSeq DEF Askable
    <2>2. QED  BY <2>1, AmongFits
  <1>4. Asks(FindRandomAtomsInSubWindows(kinds, SubWindows), N)
    BY <1>1, <1>2, <1>3 DEF FindRandomAtomsInSubWindows, Query, Asks
  <1>5. ASSUME NEW radius \in Radii  PROVE Asks(FindRandomAtoms(radius, kinds), N)
    <2>1. Fit(Within(radius))  BY WithinFits DEF Askable
    <2>2. 1 \in 1..N  BY <1>1
    <2>3. QED  BY <1>1, <1>2, <2>1, <2>2 DEF FindRandomAtoms, Query, Asks
  <1>6. QED  BY <1>4, <1>5

\* Whatever is asked, it is asked of as many types as areas.
LEMMA AllAsked ==
  ASSUME Askable, WindowNext
  PROVE  Visit \/ Finish \/ \E q, N : Asks(q, N) /\ Begin(q)
  <1>1. ASSUME NEW type \in Types, NEW radius \in Radii
        PROVE  /\ Asks(CanSeeAtomOfType(type, radius), 1)
               /\ Asks(CountAtomsOfType(type, radius), 1)
               /\ Asks(FindRandomLocationOfType(type, radius), 1)
    <2>1. Fit(Within(radius))  BY WithinFits DEF Askable
    <2>2. QED  BY <2>1, OneAsked DEF CanSeeAtomOfType, CountAtomsOfType, FindRandomLocationOfType
  <1>2. ASSUME NEW type \in Types, NEW near \in {MooreNeighborhood, VonNeumannNeighborhood}
        PROVE  /\ Asks(IsBorderingNeighborhood(type, near), 1)
               /\ Asks(CountInNeighborhood(type, near), 1)
               /\ Asks(FindRandomInNeighborhood(type, near), 1)
    <2>1. Fit(Among(near))  BY NeighborhoodsFit
    <2>2. QED
      BY <2>1, OneAsked DEF IsBorderingNeighborhood, CountInNeighborhood, FindRandomInNeighborhood
  <1>3. ASSUME NEW type \in Types, NEW near \in Range(SubWindows)
        PROVE  Asks(FindRandomInSubWindow(type, near), 1)
    <2>1. near \in Seq(Int \X Int) /\ IsInjective(near)
      <3>1. PICK k \in DOMAIN SubWindows : near = SubWindows[k]  BY DEF Range
      <3>2. k \in 1..Len(SubWindows)  BY <3>1, LenProperties DEF Askable
      <3>3. QED  BY <3>1, <3>2, ElementOfSeq DEF Askable
    <2>2. QED  BY <2>1, AmongFits, OneAsked DEF FindRandomInSubWindow
  <1>4. ASSUME NEW kinds \in [DOMAIN SubWindows -> Types]
        PROVE  /\ Asks(FindRandomAtomsInSubWindows(kinds, SubWindows), Len(SubWindows))
               /\ \A radius \in Radii : Asks(FindRandomAtoms(radius, kinds), Len(SubWindows))
    BY ManyAsked
  <1>5. QED  BY <1>1, <1>2, <1>3, <1>4 DEF WindowNext

LEMMA VisitSearches ==
  ASSUME WindowInv, Visit
  PROVE  WindowInv'
  <1> DEFINE at == search.at
             site == search.sites[at + 1]
             p == site.point
             hits == {j \in site.requests : Holds(j, p)}
  <1>1. PICK N : Searching(N)  BY DEF WindowInv, Visit
  <1>2. /\ Asks(query, N) /\ N \in Nat \ {0} /\ DOMAIN query.types = 1..N
        /\ search.state = "looking" /\ at < Len(search.sites)
    BY <1>1 DEF Searching, Asks, Visit
  <1>3. /\ DOMAIN search.sites = 1..Len(search.sites) /\ Len(search.sites) \in Nat
        /\ at \in 0..Len(search.sites)
    <2>1. PICK S : search.sites \in Seq([point : S, requests : SUBSET DOMAIN query.types])
      BY <1>1 DEF Searching, Covers
    <2>2. QED  BY <1>1, <2>1, LenProperties DEF Searching
  <1>4. /\ at \in Nat /\ at + 1 \in DOMAIN search.sites /\ at + 1 \in 0..Len(search.sites)
        /\ \A k \in DOMAIN search.sites : k <= at + 1 <=> k <= at \/ k = at + 1
    BY <1>2, <1>3
  <1>5. hits \subseteq 1..N
    <2>1. PICK S : search.sites \in Seq([point : S, requests : SUBSET DOMAIN query.types])
      BY <1>1 DEF Searching, Covers
    <2>2. site \in [point : S, requests : SUBSET DOMAIN query.types]
      BY <1>3, <1>4, <2>1, ElementOfSeq
    <2>3. QED  BY <1>2, <2>2
  <1> DEFINE seen == [j \in 1..N |-> search.seen[j] + IF j \in hits THEN 1 ELSE 0]
             ways == [j \in 1..N |-> IF j \in hits
                        THEN Found(search.ways[j], seen[j], p) ELSE search.ways[j]]
             state == IF query.ask = "CanSee" /\ hits # {} THEN "done" ELSE "looking"
  <1>6. /\ dist' = dist /\ view' = view /\ query' = query
        /\ search' = [sites |-> search.sites, at |-> at + 1, seen |-> seen, ways |-> ways,
                      state |-> state]
    <2> DEFINE s == search.sites
               n == search.seen
               w == search.ways
               t == search.state
    <2>1. search = [sites |-> s, at |-> at, seen |-> n, ways |-> w, state |-> t]
      BY DEF WindowInv
    <2>2. search' = [search EXCEPT !.at = at + 1, !.seen = seen, !.ways = ways, !.state = state]
      BY <1>2 DEF Visit, Holds
    <2> HIDE DEF s, n, w, t, at, seen, ways, state
    <2>3. search' = [sites |-> s, at |-> at + 1, seen |-> seen, ways |-> ways, state |-> state]
      BY <2>1, <2>2
    <2>4. QED  BY <2>3 DEF Visit, s
  <1> HIDE DEF hits
  <1>7. ASSUME NEW j \in 1..N
        PROVE  /\ Evenly(search'.ways[j], search'.seen[j], Hits(j, search.at)')
               /\ search.seen[j] \in Nat
               /\ search'.seen[j] = IF j \in hits THEN search.seen[j] + 1 ELSE search.seen[j]
    <2> DEFINE D == Hits(j, at)
    <2>1. Evenly(search.ways[j], search.seen[j], D)  BY <1>1 DEF Searching
    <2>2. search.seen[j] \in Nat  BY <2>1, FS_CardinalityType DEF Evenly
    <2>3. Hits(j, search.at)' =
            {search.sites[i].point :
               i \in {k \in Visits(search.sites, j) : k <= at + 1 /\ Holds(j, search.sites[k].point)}}
      BY <1>6 DEF Hits, Holds, Visits
    <2>4. CASE j \in hits
      <3>1. at + 1 \in Visits(search.sites, j) /\ Holds(j, p)  BY <1>4, <2>4 DEF Visits, hits
      <3>2. Hits(j, search.at)' = D \cup {p}  BY <1>4, <2>3, <3>1 DEF Hits, Visits
      <3>3. p \notin D
        <4>1. Once(search.sites, j, Around(query.areas[j]))
          BY <1>1, <1>2 DEF Searching, Covers
        <4>2. \A i \in Visits(search.sites, j) : search.sites[i].point = p => i = at + 1
          BY <3>1, <4>1 DEF Once
        <4>3. ~ (at + 1 <= at)  BY <1>4
        <4>4. QED  BY <4>2, <4>3 DEF Hits
      <3>4. search'.seen[j] = search.seen[j] + 1
            /\ search'.ways[j] = Found(search.ways[j], search.seen[j] + 1, p)
        BY <1>6, <2>4
      <3> HIDE DEF D, p, site, at
      <3>5. Evenly(Found(search.ways[j], search.seen[j] + 1, p), search.seen[j] + 1, D \cup {p})
        BY <2>1, <3>3, FoundEvenly
      <3>6. Evenly(search'.ways[j], search'.seen[j], Hits(j, search.at)')
        BY <3>2, <3>4, <3>5
      <3>7. QED  BY <2>2, <2>4, <3>4, <3>6
    <2>5. CASE j \notin hits
      <3>1. ~ (at + 1 \in Visits(search.sites, j) /\ Holds(j, p))  BY <2>5 DEF Visits, hits
      <3>2. Hits(j, search.at)' = D  BY <1>4, <2>3, <3>1 DEF Hits, Visits
      <3>3. search'.seen[j] = search.seen[j] /\ search'.ways[j] = search.ways[j]
        BY <1>6, <2>2, <2>5
      <3>4. QED  BY <2>1, <2>2, <2>5, <3>2, <3>3
    <2>6. QED  BY <2>4, <2>5
  <1>8. 1 \in 1..N /\ (query.ask = "CanSee" => N = 1 /\ search.seen[1] = 0)
    BY <1>1, <1>2 DEF Searching, Asks
  <1>9. search'.state = "looking" /\ query.ask = "CanSee" => search'.seen[1] = 0
    BY <1>6, <1>7, <1>8
  <1>10. search'.state = "done" => query.ask = "CanSee" /\ search'.seen[1] > 0
    <2>1. search'.state = "done" => query.ask = "CanSee" /\ hits # {}  BY <1>6
    <2>2. N = 1 /\ hits # {} => 1 \in hits
      <3>1. 1..1 = {1}  OBVIOUS
      <3>2. QED  BY <1>5, <3>1
    <2>3. QED  BY <1>7, <1>8, <2>1, <2>2
  <1>11. Covers(search'.sites, query')  BY <1>1, <1>6 DEF Searching
  <1>12. DOMAIN search'.seen = 1..N /\ DOMAIN search'.ways = 1..N  BY <1>6
  <1>13. Asks(query, N)'  BY <1>2, <1>6 DEF Asks, Fit
  <1>14. Covers(search.sites, query)'  BY <1>11 DEF Covers, Once, Visits, Around, Ring
  <1>15. search'.at \in 0..Len(search'.sites)  BY <1>4, <1>6
  <1> HIDE DEF at, site, p
  <1>16. Searching(N)'
    BY <1>6, <1>7, <1>9, <1>10, <1>12, <1>13, <1>14, <1>15 DEF Searching
  <1>17. Tables'  BY <1>6, TablesKept DEF WindowInv
  <1>18. search' = [sites |-> search'.sites, at |-> search'.at, seen |-> search'.seen,
                    ways |-> search'.ways, state |-> search'.state]
    BY <1>6
  <1>19. QED  BY <1>16, <1>17, <1>18 DEF WindowInv

LEMMA RestSearches ==
  ASSUME WindowInv, Finish \/ UNCHANGED searchVars
  PROVE  WindowInv'
  <1>1. Tables'  BY TablesKept DEF WindowInv, Finish, searchVars
  <1>2. CASE Finish
    <2>1. PICK N : Searching(N)  BY <1>2 DEF WindowInv, Finish
    <2>2. /\ query' = query /\ view' = view /\ search.at = Len(search.sites)
          /\ search' = [sites |-> search.sites, at |-> search.at, seen |-> search.seen,
                        ways |-> search.ways, state |-> "done"]
      <3> DEFINE s == search.sites
                 a == search.at
                 n == search.seen
                 w == search.ways
                 t == search.state
      <3>1. search = [sites |-> s, at |-> a, seen |-> n, ways |-> w, state |-> t]
        BY DEF WindowInv
      <3>2. search' = [search EXCEPT !.state = "done"]  BY <1>2 DEF Finish
      <3> HIDE DEF s, a, n, w, t
      <3>3. search' = [sites |-> s, at |-> a, seen |-> n, ways |-> w, state |-> "done"]
        BY <3>1, <3>2
      <3>4. QED  BY <1>2, <3>3 DEF Finish, s, a, n, w
    <2>3. Asks(query, N)'  BY <2>1, <2>2 DEF Searching, Asks, Fit
    <2>4. Covers(search.sites, query)'
      <3>1. Covers(search'.sites, query')  BY <2>1, <2>2 DEF Searching
      <3>2. QED  BY <3>1 DEF Covers, Once, Visits, Around, Ring
    <2>5. \A j \in 1..N : Hits(j, search.at)' = Hits(j, search.at)
      BY <2>2 DEF Hits, Holds, Visits
    <2>6. Searching(N)'  BY <2>1, <2>2, <2>3, <2>4, <2>5 DEF Searching
    <2>7. search' = [sites |-> search'.sites, at |-> search'.at, seen |-> search'.seen,
                     ways |-> search'.ways, state |-> search'.state]
      BY <2>2
    <2>8. QED  BY <1>1, <2>6, <2>7 DEF WindowInv
  <1>3. CASE UNCHANGED searchVars
    <2>1. query' = query /\ view' = view /\ search' = search  BY <1>3 DEF searchVars
    <2>2. ASSUME NEW N, Searching(N)  PROVE Searching(N)'
      <3>1. Asks(query, N)'  BY <2>1, <2>2 DEF Searching, Asks, Fit
      <3>2. Covers(search.sites, query)'
        <4>1. Covers(search'.sites, query')  BY <2>1, <2>2 DEF Searching
        <4>2. QED  BY <4>1 DEF Covers, Once, Visits, Around, Ring
      <3>3. \A j \in 1..N : Hits(j, search.at)' = Hits(j, search.at)
        BY <2>1 DEF Hits, Holds, Visits
      <3>4. QED  BY <2>1, <2>2, <3>1, <3>2, <3>3 DEF Searching
    <2>3. QED  BY <1>1, <2>1, <2>2 DEF WindowInv
  <1>4. QED  BY <1>2, <1>3

\* Given the tables, that is, a search for any types in any window, within any radius, in
\* any neighbourhood or any lists, has when it ends seen every atom it was asked about, and
\* nothing else, once; and random.OneIn at each has made them equally likely to be its pick.
\* The tables are lists of a radius that is fixed, and TLC looks at them.
THEOREM SearchesAreRight ==
  ASSUME Askable
  PROVE  WindowSpec /\ TablesRight => []WindowSound
  <1>1. WindowInit /\ TablesRight => WindowInv
    BY DEF WindowInit, WindowInv, Tables, NewMDist
  <1>2. WindowInv /\ [WindowNext]_searchVars => WindowInv'
    <2> SUFFICES ASSUME WindowInv, [WindowNext]_searchVars  PROVE WindowInv'
      OBVIOUS
    <2>1. CASE Visit  BY <2>1, VisitSearches
    <2>2. CASE Finish \/ UNCHANGED searchVars  BY <2>2, RestSearches
    <2>3. ASSUME NEW q, NEW N, Asks(q, N), Begin(q)  PROVE WindowInv'
      BY <2>3, BeginSearches DEF WindowInv
    <2>4. CASE WindowNext  BY <2>1, <2>2, <2>3, <2>4, AllAsked
    <2>5. QED  BY <2>2, <2>4
  <1>3. QED  BY <1>1, <1>2, SearchedRight, PTL DEF WindowSpec
=============================================================================
