-------------------------------- MODULE Atoms --------------------------------
(***************************************************************************)
(* What an atom is made of: a vector of bits in units (BitVector), a header *)
(* of the type and its parity (P3Atom, Parity2D_4x4), and fields that keep  *)
(* numbers and flags in the rest of the bits (BitField, VD).  Bits are      *)
(* numbered from a unit's most significant on; values of a field from its   *)
(* least significant.                                                       *)
(***************************************************************************)
EXTENDS Integers, Sequences, FiniteSetsExt

CONSTANTS
  BITS_PER_UNIT,   \* 32 in the code
  BITS,            \* of an atom
  W, H,            \* of the square of type bits: 4 by 4
  Fields,          \* of state bits: [start, length, kind], apart from each other
  Types,           \* numbers of types that atoms are made with
  Values(_),       \* what is stored in a field
  Exposed,         \* bits that radiation strikes
  MaxHits          \* bound on how many of them are wrong at a time

VARIABLES
  m_bits,          \* of the atom
  type,            \* that the atom was made with,
  held,            \* what was last stored in its fields,
  hit              \* and the bits that radiation has turned since
atomVars == <<m_bits, type, held, hit>>

Least(a, b) == IF a < b THEN a ELSE b

--------------------------------------------------------------------------------
(* BitVector *)

Units == 0..(BITS + BITS_PER_UNIT - 1) \div BITS_PER_UNIT - 1
UnitOf(i) == i \div BITS_PER_UNIT
InUnit(i) == i % BITS_PER_UNIT
AllClear == [u \in Units |-> 0]
Ones(length) == 2^length - 1

ReadFromUnit(unit, first, length) ==
  (unit \div 2^(BITS_PER_UNIT - (first + length))) % 2^length
WriteToUnit(unit, first, length, value) ==
  unit + ((value % 2^length) - ReadFromUnit(unit, first, length)) * 2^(BITS_PER_UNIT - (first + length))

\* Up to a unit's worth of bits, which lie in one unit or in two.
InFirst(start, length) == Least(length, BITS_PER_UNIT - InUnit(start))
ReadBits(v, start, length) ==
  LET u == UnitOf(start)
      here == InFirst(start, length)
      over == length - here
      head == ReadFromUnit(v[u], InUnit(start), here)
  IN  IF over = 0 THEN head ELSE head * 2^over + ReadFromUnit(v[u + 1], 0, over)
WriteBits(v, start, length, value) ==
  LET u == UnitOf(start)
      here == InFirst(start, length)
      over == length - here
      head == [v EXCEPT ![u] = WriteToUnit(@, InUnit(start), here, value \div 2^over)]
  IN  IF over = 0 THEN head ELSE [head EXCEPT ![u + 1] = WriteToUnit(@, 0, over, value)]

\* Up to two units' worth: its end first.
ReadLong(v, start, length) ==
  LET low == Least(BITS_PER_UNIT, length)
  IN  ReadBits(v, start + length - low, low) + ReadBits(v, start, length - low) * 2^low
WriteLong(v, start, length, value) ==
  LET low == Least(BITS_PER_UNIT, length)
      tail == WriteBits(v, start + length - low, low, value % 2^low)
  IN  IF length = low THEN tail ELSE WriteBits(tail, start, length - low, value \div 2^low)

WriteBit(v, i, bit) == WriteBits(v, i, 1, bit)
ToggleBit(v, i) == WriteBit(v, i, 1 - ReadBits(v, i, 1))
Toggled(v, S) == FoldSet(LAMBDA i, bits : ToggleBit(bits, i), v, S)

\* SetBits and ClearBits: units in the middle at once, the ends by halves.
StoreBits(v, value, start, length) ==
  LET stop == Least(BITS, start + length) - 1
      from(u) == IF u = UnitOf(start) THEN InUnit(start) ELSE 0
      to(u) == IF u = UnitOf(stop) THEN InUnit(stop) ELSE BITS_PER_UNIT - 1
  IN  [u \in Units |->
         IF u \in UnitOf(start)..UnitOf(stop)
         THEN WriteToUnit(v[u], from(u), to(u) + 1 - from(u), value) ELSE v[u]]

\* As text: digits of four bits, or of one.
Digits(v, digit) == [k \in 1..BITS \div digit |-> ReadBits(v, (k - 1) * digit, digit)]
ReadText(text, digit) ==
  FoldSet(LAMBDA k, v : WriteBits(v, (k - 1) * digit, digit, text[k]), AllClear, 1..BITS \div digit)

--------------------------------------------------------------------------------
(* Parity2D_4x4: the type's bits in a square, each row and column of it made odd *)

BitOf(n, i) == (n \div 2^i) % 2
IndexAt(row, column) ==
  CASE row < H /\ column < W -> H * W - 1 - (row * W + column)
    [] row < H /\ column = W -> H * W + H - 1 - row
    [] OTHER -> H * W + H + column
Odd(n, cells) == Cardinality({i \in cells : BitOf(n, i) = 1}) % 2 = 1
RowOf(r) == {IndexAt(r, c) : c \in 0..W}
ColumnOf(c) == {IndexAt(r, c) : r \in 0..H}
DATA_BITS == H * W
HEADER_LEN == DATA_BITS + H + W + 1

\* The bit of each row that makes it odd, then that of each column.
Add2DParity(data) ==
  LET Made(n, lines, last) ==
        n + FoldSet(LAMBDA i, sum : sum + 2^i, 0,
                    {last[k] : k \in {l \in DOMAIN last : ~Odd(n, lines[l] \ {last[l]})}})
      rows == Made(data % 2^DATA_BITS, [r \in 0..H - 1 |-> RowOf(r)], [r \in 0..H - 1 |-> IndexAt(r, W)])
  IN  Made(rows, [c \in 0..W |-> ColumnOf(c)], [c \in 0..W |-> IndexAt(H, c)])
Check2DParity(header) == header = Add2DParity(header % 2^DATA_BITS)

\* One bad row and one bad column meet in the bad bit.  0 stands for no correction.
\* (Variant with a mistake: it makes do with either.)
Correct2DParity_Eager(header) ==
  LET rows == {r \in 0..H : ~Odd(header, RowOf(r))}
      columns == {c \in 0..W : ~Odd(header, ColumnOf(c))}
      bad == IndexAt(IF rows = {} THEN H ELSE CHOOSE r \in rows : TRUE,
                     IF columns = {} THEN W ELSE CHOOSE c \in columns : TRUE)
  IN  IF rows = {} /\ columns = {} THEN header
      ELSE header + (1 - 2 * BitOf(header, bad)) * 2^bad
Correct2DParityIfPossible(header) ==
  LET rows == {r \in 0..H : ~Odd(header, RowOf(r))}
      columns == {c \in 0..W : ~Odd(header, ColumnOf(c))}
      bad == IndexAt(CHOOSE r \in rows : TRUE, CHOOSE c \in columns : TRUE)
  IN  CASE rows = {} /\ columns = {} -> header
        [] Cardinality(rows) = 1 /\ Cardinality(columns) = 1 ->
             header + (1 - 2 * BitOf(header, bad)) * 2^bad
        [] OTHER -> 0

--------------------------------------------------------------------------------
(* P3Atom *)

Header(v) == ReadBits(v, 0, HEADER_LEN)
SetType(v, t) == WriteBits(v, 0, HEADER_LEN, Add2DParity(t))
NewAtom(t) == SetType(AllClear, t)
GetType(v) == ReadBits(v, HEADER_LEN - DATA_BITS, DATA_BITS)
IsSane(v) == Check2DParity(Header(v))
CanBeRepaired(v) == Correct2DParityIfPossible(Header(v)) # 0
HasBeenRepaired(v) == WriteBits(v, 0, HEADER_LEN, Correct2DParityIfPossible(Header(v)))

\* ReadStateBits: the state bits of v, which were saved, under the header of atom.
ReadStateBits(atom, v) ==
  FoldSet(LAMBDA i, bits : WriteBit(bits, i, ReadBits(v, i, 1)), atom, HEADER_LEN..BITS - 1)

--------------------------------------------------------------------------------
(* BitField and VD *)

BitsOf(f) == f.start..f.start + f.length - 1
PopCount(n, length) == Cardinality({i \in 0..length - 1 : BitOf(n, i) = 1})

\* A flag is all ones and read by majority; a unary number is so many ones.
Encoded(f, value) ==
  CASE f.kind = "BOOL"  -> IF value = 1 THEN Ones(f.length) ELSE 0
    [] f.kind = "UNARY" -> Ones(value)
    [] f.kind = "S32"   -> value % 2^f.length
    [] OTHER -> value
Decoded(f, bits) ==
  CASE f.kind = "BOOL"  -> IF PopCount(bits, f.length) > f.length \div 2 THEN 1 ELSE 0
    [] f.kind = "UNARY" -> PopCount(bits, f.length)
    [] f.kind = "S32"   -> IF BitOf(bits, f.length - 1) = 1 THEN bits - 2^f.length ELSE bits
    [] OTHER -> bits
Stored(v, f, value) ==
  IF f.kind = "BITS" THEN WriteLong(v, f.start, f.length, Encoded(f, value))
                     ELSE WriteBits(v, f.start, f.length, Encoded(f, value))
Loaded(v, f) ==
  Decoded(f, IF f.kind = "BITS" THEN ReadLong(v, f.start, f.length) ELSE ReadBits(v, f.start, f.length))

--------------------------------------------------------------------------------

MakeAtom(t) ==
  /\ m_bits' = NewAtom(t) /\ type' = t
  /\ held' = [f \in Fields |-> 0] /\ hit' = {}

Store(f, value) ==
  /\ m_bits' = Stored(m_bits, f, value)
  /\ held' = [held EXCEPT ![f] = value] /\ hit' = hit \ BitsOf(f)
  /\ UNCHANGED type

\* SetBit, ClearBit: of a field of bits, from its most significant one.
SetBit(f, i, bit) ==
  /\ f.kind = "BITS"
  /\ m_bits' = WriteBit(m_bits, f.start + i, bit)
  /\ held' = [held EXCEPT ![f] = @ + (bit - BitOf(@, f.length - 1 - i)) * 2^(f.length - 1 - i)]
  /\ hit' = hit \ {f.start + i}
  /\ UNCHANGED type

\* SetBits, ClearBits.
Fill(f, bit) ==
  /\ f.kind = "BITS"
  /\ m_bits' = StoreBits(m_bits, bit * Ones(BITS_PER_UNIT), f.start, f.length)
  /\ held' = [held EXCEPT ![f] = bit * Ones(f.length)] /\ hit' = hit \ BitsOf(f)
  /\ UNCHANGED type

XRayBits(S) ==
  /\ m_bits' = Toggled(m_bits, S)
  /\ hit' = SymDiff(hit, S)
  /\ UNCHANGED <<type, held>>

\* What Tile::PlaceAtom does about an insane atom; what it erases is not followed.
Repair ==
  /\ ~IsSane(m_bits) /\ CanBeRepaired(m_bits)
  /\ m_bits' = HasBeenRepaired(m_bits)
  /\ hit' = hit \ 0..HEADER_LEN - 1
  /\ UNCHANGED <<type, held>>

\* A saved atom is read into a new one of its type, from digits of four bits.
SaveAndRestore ==
  /\ IsSane(m_bits)
  /\ m_bits' = ReadStateBits(NewAtom(GetType(m_bits)), ReadText(Digits(m_bits, 4), 4))
  /\ UNCHANGED <<type, held, hit>>

AtomInit == \E t \in Types :
  /\ m_bits = NewAtom(t) /\ type = t
  /\ held = [f \in Fields |-> 0] /\ hit = {}
\* Radiation strikes any number of bits at once; one after the other makes the same atoms.
AtomNext ==
  \/ \E t \in Types : MakeAtom(t)
  \/ \E f \in Fields : \E value \in Values(f) : Store(f, value)
  \/ \E f \in Fields, bit \in {0, 1} : Fill(f, bit) \/ \E i \in {0, f.length - 1} : SetBit(f, i, bit)
  \/ \E i \in Exposed : Cardinality(SymDiff(hit, {i})) <= MaxHits /\ XRayBits({i})
  \/ Repair
  \/ SaveAndRestore

--------------------------------------------------------------------------------

\* What was stored is what is loaded, from fields on both sides of units' edges and
\* longer than units, but for the bits that radiation turned.  A flag stands a
\* minority of wrong bits, and a unary number is wrong by no more than there are.
FieldsHold ==
  \A f \in Fields :
    LET wrong == Cardinality(hit \cap BitsOf(f))
    IN  \/ Loaded(m_bits, f) = held[f]
        \/ f.kind = "BOOL" /\ 2 * wrong >= f.length
        \/ /\ f.kind = "UNARY"
           /\ LET by == Loaded(m_bits, f) - held[f] IN by \in -wrong..wrong
        \/ f.kind \notin {"BOOL", "UNARY"} /\ wrong > 0

\* Any wrong bit of a header is put right, any two are noticed and not "corrected"
\* to another type, and without wrong bits the type is the one that was made.
TypeGuarded ==
  LET wrong == Cardinality(hit \cap 0..HEADER_LEN - 1)
  IN  /\ wrong = 0 => IsSane(m_bits) /\ GetType(m_bits) = type
      /\ wrong \in 1..2 => ~IsSane(m_bits)
      /\ wrong = 1 => Header(HasBeenRepaired(m_bits)) = Header(NewAtom(type))
      /\ wrong = 2 => ~CanBeRepaired(m_bits)
AtomSound == FieldsHold /\ TypeGuarded
=============================================================================
