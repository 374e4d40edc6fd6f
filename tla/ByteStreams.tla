----------------------------- MODULE ByteStreams -----------------------------
(***************************************************************************)
(* Text: what ByteSink prints and ByteSource scans, the lines that a        *)
(* LineTailByteSink keeps, and a source's one byte of unreading.  Bytes are *)
(* their codes; a sink is the sequence of bytes written to it.              *)
(***************************************************************************)
EXTENDS Integers, Sequences, SequencesExt, FiniteSetsExt

CONSTANTS
  WORD_BITS,       \* 32 in the code
  Formats,         \* of Printf: sequences of literals and directives
  Arguments(_),    \* values printed by a directive
  LINES,           \* that a LineTailByteSink keeps,
  BYTES_PER_LINE,  \* of up to these
  Chunks,          \* bytes written to it at a time
  Texts            \* that a source is read from

VARIABLES
  printed,         \* a format, its arguments and what they were printed as
  source,          \* that is being read
  tail,            \* the lines kept
  written          \* the last of the lines that were written, whole
streamVars == <<printed, source, tail, written>>

Word == 2^WORD_BITS
Chars == [newline |-> 10, space |-> 32, plus |-> 43, minus |-> 45, zero |-> 48, nine |-> 57,
          bracket |-> 93, caret |-> 94, X |-> 88, A |-> 65, a |-> 97]
Format == [DEC |-> 10, HEX |-> 16, OCT |-> 8, BIN |-> 2, BYTE |-> 0, BEU16 |-> -1, BEU32 |-> -2,
           LEX32 |-> -4, LXX32 |-> -5, LEXHD |-> -8, B36 |-> 36]
Literal(byte) == [is |-> "literal", byte |-> byte]
Directive(code, width, pad) == [is |-> "number", code |-> code, width |-> width, pad |-> pad]

--------------------------------------------------------------------------------
(* ByteSink *)

CountDigits(n, base) == CHOOSE k \in 1..WORD_BITS : n < base^k /\ (k = 1 \/ base^(k - 1) <= n)
Pad(width, length, pad) == [i \in 1..(IF width > length THEN width - length ELSE 0) |-> pad]
PrintInBase(n, base, width, pad) ==
  LET length == CountDigits(n, base)
      digit(i) == (n \div base^(length - i)) % base
      char(d) == IF d < 10 THEN Chars.zero + d ELSE Chars.A + d - 10
  IN  Pad(width, length, pad) \o [i \in 1..length |-> char(digit(i))]

\* The sign comes before zeros and after spaces.  That the least number's test
\* overflows makes no difference to what is printed.
PrintS32(n, width, pad) ==
  LET digits == PrintInBase(-n, 10, 0, pad)
      padding == Pad(width, Len(digits) + 1, pad)
  IN  CASE n >= 0 -> PrintInBase(n, 10, width, pad)
        [] pad = Chars.zero -> <<Chars.minus>> \o padding \o digits
        [] OTHER -> padding \o <<Chars.minus>> \o digits

\* Leximited: after the number of its digits, or after a 9 and that number leximited.
RECURSIVE PrintLex(_, _, _, _)
\* (Variant with a mistake: ten digits and more are headed by a 9 alone.)
PrintLexDigits_Short(digits) ==
  IF digits > 9 THEN <<Chars.nine>> \o PrintLex(digits, 10, -1, Chars.space) ELSE <<Chars.zero + digits>>
PrintLexDigits(digits) ==
  IF digits > 8 THEN <<Chars.nine>> \o PrintLex(digits, 10, -1, Chars.space) ELSE <<Chars.zero + digits>>
PrintLex(n, base, width, pad) ==
  PrintLexDigits(Max({CountDigits(n, base), width})) \o PrintInBase(n, base, width, pad)

PrintRaw(n, bytes) == [i \in 1..bytes |-> (n \div 256^(bytes - i)) % 256]

\* n as it is given; as an unsigned number for all codes but decimal.
PrintNumber(n, code, width, pad) ==
  CASE code = Format.DEC   -> PrintS32(n, width, pad)
    [] code = Format.LEXHD -> PrintLexDigits(n % Word)
    [] code = Format.LEX32 -> PrintLex(n % Word, 10, width, pad)
    [] code = Format.LXX32 -> PrintLex(n % Word, 16, width, pad)
    [] code \in {Format.BYTE, Format.BEU16, Format.BEU32} -> PrintRaw(n % Word, 2^(-code))
    [] OTHER -> PrintInBase(n % Word, code, width, pad)

Vprintf(format, args) ==
  FlattenSeq([i \in DOMAIN format |->
    IF format[i].is = "literal" THEN <<format[i].byte>>
    ELSE PrintNumber(args[i], format[i].code, format[i].width, format[i].pad)])

--------------------------------------------------------------------------------
(* ByteSource, with LineCountingByteSource's count of lines *)

Source(text) ==
  [text |-> text, next |-> 0, last |-> -1, unread |-> FALSE, failed |-> FALSE, line |-> 1]
ReadByte(s) ==
  LET byte == IF s.next < Len(s.text) THEN s.text[s.next + 1] ELSE -1
  IN  [s EXCEPT !.last = byte,
                !.next = IF byte < 0 THEN @ ELSE @ + 1,
                !.line = IF byte = Chars.newline THEN @ + 1 ELSE @]
Read(s) == IF s.unread THEN [s EXCEPT !.unread = FALSE] ELSE ReadByte(s)
\* A second byte cannot be unread: a FAIL.
Unread(s) == [s EXCEPT !.unread = TRUE, !.failed = @ \/ s.unread]
\* What has been read and not unread.
Position(s) == IF s.unread /\ s.last >= 0 THEN s.next - 1 ELSE s.next

\* The characters that a specification like [^a-z] stands for.
RECURSIVE CharMap(_, _, _)
CharMap(spec, i, map) ==   \* from its i-th character on
  LET ch == spec[i]
      first == i = 1
  IN  CASE ch = Chars.bracket /\ ~first -> map
        [] ch = Chars.minus /\ ~first /\ spec[i + 1] # Chars.bracket ->
             CharMap(spec, i + 2, map \cup spec[i - 1]..spec[i + 1])
        [] OTHER -> CharMap(spec, i + 1, map \cup {ch})
\* Bytes up to the first that is not of the set.  -1 where there are none left.
RECURSIVE Taken(_, _, _, _)
Taken(s, map, excluded, bytes) ==
  LET r == Read(s)
  IN  CASE r.last < 0 -> [source |-> r, bytes |-> bytes, count |-> IF bytes = <<>> THEN -1 ELSE Len(bytes)]
        [] (r.last \in map) = excluded -> [source |-> Unread(r), bytes |-> bytes, count |-> Len(bytes)]
        [] OTHER -> Taken(r, map, excluded, Append(bytes, r.last))
ScanSet(s, spec) ==
  LET excluded == spec[1] = Chars.caret
      chars == IF excluded THEN Tail(spec) ELSE spec
  IN  Taken(s, CharMap(chars, 1, {}), excluded, <<>>)

WHITESPACE_SET == <<32, 10, 9, 11, 93>>
LETTERS == <<95, 97, 45, 122, 65, 45, 90, 93>>                    \* "_a-zA-Z]"
LETTERS_AND_DIGITS == <<95, 97, 45, 122, 65, 45, 90, 48, 45, 57, 93>>
SkipWhitespace(s) == ScanSet(s, WHITESPACE_SET).source
ScanIdentifier(s) ==
  LET first == ScanSet(SkipWhitespace(s), LETTERS)
      rest == ScanSet(first.source, LETTERS_AND_DIGITS)
  IN  IF first.count <= 0 THEN [source |-> first.source, ok |-> FALSE, bytes |-> first.bytes]
      ELSE [source |-> rest.source, ok |-> TRUE, bytes |-> first.bytes \o rest.bytes]

Unlimited == 2^20
Digit(ch) ==
  LET lower == IF ch \in 64..95 THEN ch + 32 ELSE ch
  IN  CASE ch \in Chars.zero..Chars.nine -> ch - Chars.zero
        [] lower \in Chars.a..Chars.a + 25 -> lower - Chars.a + 10
        [] OTHER -> 99
Scanned(s, ok, n) == [source |-> s, ok |-> ok, n |-> n % Word]
RECURSIVE ScanDigits(_, _, _, _, _)
ScanDigits(s, width, base, n, some) ==   \* s holds a byte read but not accepted
  LET sum == (n * base + Digit(s.last)) % Word
  IN  CASE Digit(s.last) >= base -> Scanned(Unread(s), some, n)
        [] width = 0 -> Scanned(s, TRUE, sum)
        [] Read(s).last < 0 -> Scanned(Read(s), TRUE, sum)
        [] OTHER -> ScanDigits(Read(s), width - 1, base, sum, TRUE)
RECURSIVE ScanInBase(_, _, _)
ScanInBase(s, base, width) ==
  LET r == Read(s)
      after == Read(r)
      rest == ScanDigits(after, width - 2, base, 0, FALSE)
  IN  CASE width = 0 -> Scanned(s, FALSE, 0)
        [] r.last < 0 -> Scanned(r, FALSE, 0)
        [] r.last = Chars.space -> ScanInBase(r, base, width - 1)
        [] r.last \notin {Chars.minus, Chars.plus} -> ScanDigits(r, width - 1, base, 0, FALSE)
        [] width = 1 -> Scanned(r, FALSE, 0)
        [] after.last < 0 -> Scanned(after, FALSE, 0)
        [] OTHER -> IF r.last = Chars.minus THEN [rest EXCEPT !.n = (-@) % Word] ELSE rest

RECURSIVE ScanRaw(_, _, _)
ScanRaw(s, bytes, n) ==
  LET r == Read(s)
  IN  CASE bytes = 0 -> Scanned(s, TRUE, n)
        [] r.last < 0 -> Scanned(r, FALSE, 0)
        [] OTHER -> ScanRaw(r, bytes - 1, (n * 256 + r.last) % Word)
RECURSIVE ScanLexDigits(_)
ScanLex(s, base) ==
  LET digits == ScanLexDigits(s)
  IN  IF digits.ok THEN ScanInBase(digits.source, base, digits.n) ELSE digits
ScanLexDigits(s) ==
  LET head == ScanRaw(s, 1, 0)
  IN  CASE head.ok /\ head.n \in Chars.zero..Chars.nine - 1 -> Scanned(head.source, TRUE, head.n - Chars.zero)
        [] head.ok /\ head.n = Chars.nine -> ScanLex(head.source, 10)
        [] OTHER -> Scanned(head.source, FALSE, 0)
Scan(s, code, width) ==
  CASE code = Format.LEXHD -> ScanLexDigits(s)
    [] code = Format.LEX32 -> ScanLex(s, 10)
    [] code = Format.LXX32 -> ScanLex(s, 16)
    [] code \in {Format.BYTE, Format.BEU16, Format.BEU32} -> ScanRaw(s, 2^(-code), 0)
    [] OTHER -> ScanInBase(s, code, width)

\* Vscanf has no directive for leximited numbers, which Printf has: a FAIL.  A directive's
\* width, where it has one, is how many characters may be read, spaces and sign included.
\* (Variant with a mistake: numbers are read to their last digit.)
Leximited == {Format.LEXHD, Format.LEX32, Format.LXX32}
Alone(s, item) ==
  IF item.is = "literal" THEN Scanned(Read(s), Read(s).last = item.byte, 0)
  ELSE Scan(s, item.code, Unlimited)
Item_PastWidth(s, item) ==
  IF item.is = "number" /\ item.code \in Leximited THEN Scanned([s EXCEPT !.failed = TRUE], FALSE, 0)
  ELSE Alone(s, item)
Item(s, item) ==
  CASE item.is = "number" /\ item.code \in Leximited -> Scanned([s EXCEPT !.failed = TRUE], FALSE, 0)
    [] item.is = "number" /\ item.width >= 0 -> Scan(s, item.code, item.width)
    [] OTHER -> Alone(s, item)

\* Vscanf goes on while what the format says is there.  Its count is negative when a
\* directive fails, and not when a literal does.
Matched(r, item, got) ==
  CASE got.ok -> [r EXCEPT !.source = got.source, !.matches = @ + 1, !.values = Append(@, got.n)]
    [] item.is = "literal" -> [r EXCEPT !.source = got.source, !.ended = TRUE]
    [] OTHER -> [r EXCEPT !.source = got.source, !.ended = TRUE, !.matches = -@]
Scanning(s, format, Each(_, _)) ==
  FoldLeft(LAMBDA r, item : IF r.ended THEN r ELSE Matched(r, item, Each(r.source, item)),
           [source |-> s, matches |-> 0, values |-> <<>>, ended |-> FALSE], format)
Vscanf(s, format) == Scanning(s, format, Item)

--------------------------------------------------------------------------------
(* OverflowableCharBufferByteSink, LineTailByteSink *)

EmptyBuffer == [bytes |-> <<>>, overflowed |-> FALSE]
WriteBuffer(buffer, bytes) ==
  LET room == BYTES_PER_LINE - 2 - Len(buffer.bytes)
  IN  CASE buffer.overflowed -> buffer
        [] Len(bytes) > room ->
             [bytes |-> Append(buffer.bytes \o SubSeq(bytes, 1, room), Chars.X), overflowed |-> TRUE]
        [] OTHER -> [buffer EXCEPT !.bytes = @ \o bytes]

Newline(t) ==
  LET next == (t.m_nextLine + 1) % LINES
  IN  [t EXCEPT !.m_nextLine = next, !.m_lines[next] = EmptyBuffer,
                !.m_firstLine = IF next = @ THEN (@ + 1) % LINES ELSE @]
RECURSIVE WriteLines(_, _)
WriteLines(t, bytes) ==
  LET end == SelectInSeq(bytes, LAMBDA ch : ch = Chars.newline)
      line == IF end = 0 THEN bytes ELSE SubSeq(bytes, 1, end - 1)
      held == [t EXCEPT !.m_lines[t.m_nextLine] = WriteBuffer(@, line)]
  IN  IF end = 0 THEN held ELSE WriteLines(Newline(held), SubSeq(bytes, end + 1, Len(bytes)))
GetLines(t) == ((LINES + t.m_nextLine - t.m_firstLine) % LINES) + 1
GetZString(t, whichLine) == t.m_lines[(t.m_firstLine + whichLine) % LINES].bytes
ResetTail(t) ==
  [t EXCEPT !.m_firstLine = 0, !.m_nextLine = 0, !.m_lines[0] = EmptyBuffer]
TrimTail(t, lines) ==
  IF lines >= GetLines(t) THEN ResetTail(t) ELSE [t EXCEPT !.m_firstLine = (@ + lines) % LINES]

--------------------------------------------------------------------------------

\* The lines in bytes, the first of them going on from the last of lines.
RECURSIVE LinesOf(_, _)
LinesOf(lines, bytes) ==
  LET end == SelectInSeq(bytes, LAMBDA ch : ch = Chars.newline)
      begun == [lines EXCEPT ![Len(lines)] = @ \o (IF end = 0 THEN bytes ELSE SubSeq(bytes, 1, end - 1))]
  IN  IF end = 0 THEN begun ELSE LinesOf(Append(begun, <<>>), SubSeq(bytes, end + 1, Len(bytes)))
LastOf(lines, n) == IF Len(lines) <= n THEN lines ELSE SubSeq(lines, Len(lines) - n + 1, Len(lines))
Shown(line) ==
  IF Len(line) <= BYTES_PER_LINE - 2 THEN line ELSE Append(SubSeq(line, 1, BYTES_PER_LINE - 2), Chars.X)

PrintItems(format, args) ==
  /\ printed.format = <<>>
  /\ printed' = [format |-> format, args |-> args, text |-> Vprintf(format, args)]
  /\ UNCHANGED <<source, tail, written>>

Reading(s) == source' = s /\ UNCHANGED <<printed, tail, written>>
ReadNext == Reading(Read(source))
\* Only what was just read is unread.
UnreadLast == ~source.unread /\ source.last >= 0 /\ Reading(Unread(source))
Peek == Reading(Unread(Read(source)))
Skip == Reading(SkipWhitespace(source))
Identifier == Reading(ScanIdentifier(source).source)
Numeral(code, width) == Reading(Scan(source, code, width).source)

WriteChunk(bytes) ==
  /\ tail' = WriteLines(tail, bytes)
  /\ written' = LastOf(LinesOf(written, bytes), LINES)
  /\ \A i \in DOMAIN written' : Len(written'[i]) <= BYTES_PER_LINE + 1   \* a bound
  /\ UNCHANGED <<printed, source>>
Trim(lines) ==
  /\ tail' = TrimTail(tail, lines)
  /\ written' = IF lines >= Len(written) THEN <<<<>>>> ELSE SubSeq(written, lines + 1, Len(written))
  /\ UNCHANGED <<printed, source>>

StreamInit ==
  /\ printed = [format |-> <<>>, args |-> <<>>, text |-> <<>>]
  /\ source \in {Source(text) : text \in Texts}
  /\ tail = [m_lines |-> [i \in 0..LINES - 1 |-> EmptyBuffer], m_firstLine |-> 0, m_nextLine |-> 0]
  /\ written = <<<<>>>>
PrintNext == \E format \in Formats : \E args \in Arguments(format) : PrintItems(format, args)
SourceNext ==
  \/ ReadNext
  \/ UnreadLast
  \/ Peek
  \/ Skip
  \/ Identifier
  \/ \E code \in {Format.DEC, Format.HEX, Format.LEX32, Format.BEU16}, width \in {2, Unlimited} : Numeral(code, width)
TailNext ==
  \/ \E bytes \in Chunks : WriteChunk(bytes)
  \/ \E lines \in 1..LINES : Trim(lines)

--------------------------------------------------------------------------------

\* What is printed in any format is scanned back number by number, each by Scan with the
\* code it was printed with, with nothing left over or taken of what follows; so also
\* numbers that follow each other with nothing between them, where they are raw or
\* leximited.  The same format reads it back through Vscanf where all of its directives
\* are Vscanf's too and no number is longer than its directive's width, which Printf
\* only pads to: a longer one is read as its first characters (of two or more).
PrintedScansBack ==
  LET f == printed.format
      s == Source(printed.text \o <<44, 49>>)   \* followed by ",1"
      numbers == {i \in DOMAIN f : f[i].is = "number"}
      length(i) == Len(PrintNumber(printed.args[i], f[i].code, f[i].width, f[i].pad))
      long == {i \in numbers : f[i].code > 0 /\ f[i].width \in 2..length(i) - 1}
      first == Min(long)
      Cut(n) == n \div f[first].code^(length(first) - f[first].width)
      ScansBack(r) ==
        /\ r.matches = Len(f)
        /\ \A i \in numbers : r.values[i] = printed.args[i] % Word
        /\ Position(r.source) = Len(printed.text) /\ ~r.source.failed
      n == printed.args[first]
      r == Vscanf(s, f)
  IN  /\ ScansBack(Scanning(s, f, Alone))
      /\ (\A i \in numbers : f[i].code \notin Leximited) =>
           IF long = {} THEN ScansBack(r)
           ELSE r.values[first] =
                  (IF f[first].code = Format.DEC /\ n < 0 THEN -Cut(-n) ELSE Cut(n % Word)) % Word

\* Texts of leximited numbers, as in the names of saved files, sort as their numbers do.
LexSorts ==
  LET f == printed.format
      lex(i) == PrintNumber(printed.args[i], f[i].code, f[i].width, f[i].pad)
      before(s, t) == \E k \in DOMAIN s \cap DOMAIN t :
                        s[k] < t[k] /\ \A j \in 1..k - 1 : s[j] = t[j]
  IN  Len(f) = 2 /\ f[1] = f[2] /\ f[1].code \in {Format.LEX32, Format.LXX32} =>
        (printed.args[1] % Word < printed.args[2] % Word) = before(lex(1), lex(2))

\* Whatever is called in whichever order, no two bytes are unread at once, what was read
\* last is the byte before the next one, and the line is that of the bytes read.
SourceInStep ==
  LET newlines == {i \in 1..source.next : source.text[i] = Chars.newline}
  IN  /\ ~source.failed
      /\ source.last >= 0 => source.last = source.text[source.next]
      /\ source.line = 1 + Cardinality(newlines)

\* The last lines, whole or cut with an X, whatever portions they were written in.
TailKept ==
  /\ GetLines(tail) = Len(written)
  /\ \A i \in DOMAIN written : GetZString(tail, i - 1) = Shown(written[i])

\* All of these.
StreamsSound == PrintedScansBack /\ LexSorts /\ SourceInStep /\ TailKept
===============================================================================
