------------------------------ MODULE Parameters ------------------------------
(***************************************************************************)
(* The parameters of an element (Parameter.h): each keeps its value in the  *)
(* bits of an atom of its own, as its description (VD) says, and is set by  *)
(* the toolbox's controllers and by configuration files, whose text is a    *)
(* sequence of numbers and marks here.                                      *)
(***************************************************************************)
EXTENDS Atoms, SequencesExt

CONSTANTS
  Elements,          \* sequences of parameters: [tag, kind, min, vdef, max], vdef of bits a number
  PARM_LENGTH,       \* 32 in the code
  LONG_PARM_LENGTH,  \* 64
  SITES,             \* of an event window
  SliderValues,      \* where sliders are dragged to
  Texts              \* values in files

VARIABLES
  parms,             \* parameters of the toolbox's primary element
  m_storage,         \* by parameter
  controllers,       \* "none", "built" or "failed"
  m_bitField,        \* of each neighborhood's panel
  stale              \* whether parameters were loaded since the panels were built
parameterVars == <<parms, m_storage, controllers, m_bitField, stale>>

Parms == DOMAIN parms

--------------------------------------------------------------------------------
(* VD *)

\* GetMin, GetMax: of a kind, by length.
LeastOf(kind, length) == IF kind = "S32" THEN -2^(length - 1) ELSE 0
GreatestOf(kind, length) ==
  CASE kind = "U32"  -> Ones(Least(BITS_PER_UNIT - 1, length))
    [] kind = "S32"  -> Ones(length - 1)
    [] kind = "BOOL" -> 1
    [] OTHER -> length
\* What its constructor asserts.
Describable(p) ==
  p.kind # "BITS" =>
    /\ {p.min, p.max} \subseteq LeastOf(p.kind, PARM_LENGTH)..GreatestOf(p.kind, PARM_LENGTH)
    /\ p.vdef \in p.min..p.max

Field(p) ==
  IF p.kind = "BITS" THEN [start |-> BITS - SITES, length |-> SITES, kind |-> "BITS"]
                     ELSE [start |-> BITS - PARM_LENGTH, length |-> PARM_LENGTH, kind |-> p.kind]
\* Whatever its kind, as the bits of a signed number in range.
SetBitsAsS32(v, p, val) ==
  WriteBits(v, BITS - PARM_LENGTH, PARM_LENGTH,
            (CASE val < p.min -> p.min [] val > p.max -> p.max [] OTHER -> val) % 2^PARM_LENGTH)

Reset(p) ==
  IF p.kind = "BITS" THEN WriteLong(AllClear, BITS - LONG_PARM_LENGTH, LONG_PARM_LENGTH, p.vdef)
                     ELSE SetBitsAsS32(AllClear, p, p.vdef)
GetValue(v, p) == Loaded(v, Field(p))

--------------------------------------------------------------------------------
(* Their text *)

Number(n) == [is |-> "number", n |-> n]
Mark(c) == [is |-> c, n |-> 0]

\* PrintU64AsNeighborhood: runs of sites, "[1,3-5]", from the center out.
SitesOf(value) == {i \in 0..SITES - 1 : BitOf(value, SITES - 1 - i) = 1}
BitsFor(sites) == FoldSet(LAMBDA i, sum : sum + 2^(SITES - 1 - i), 0, sites)
\* (Variant with a mistake: a run ends before its last site.)
PrintRun_Short(start, end) ==
  IF start < end - 1 THEN <<Number(start), Mark("-"), Number(end - 1)>> ELSE <<Number(start)>>
PrintRun(start, end) ==
  IF start < end THEN <<Number(start), Mark("-"), Number(end)>> ELSE <<Number(start)>>
PrintNeighborhood(value) ==
  LET sites == SitesOf(value)
      starts == SetToSortSeq({i \in sites : i - 1 \notin sites}, <)
      end(i) == CHOOSE e \in sites : e >= i /\ i..e \subseteq sites /\ e + 1 \notin sites
      runs == [k \in DOMAIN starts |->
                 (IF k = 1 THEN <<>> ELSE <<Mark(",")>>) \o PrintRun(starts[k], end(starts[k]))]
  IN  <<Mark("[")>> \o FlattenSeq(runs) \o <<Mark("]")>>

\* ReadNeighborhoodAsU64: at each number or run, with those before it.
Failed == {-1}
RECURSIVE ReadRuns(_, _, _)
ReadRuns(text, i, sites) ==
  LET at(k) == IF k \in DOMAIN text THEN text[k] ELSE Mark("end")
      ranged == at(i + 1).is = "-"
      end == IF ranged THEN at(i + 2) ELSE at(i)
      read == sites \cup at(i).n..end.n
      delim == at(IF ranged THEN i + 3 ELSE i + 1).is
      next == IF ranged THEN i + 4 ELSE i + 2
  IN  CASE at(i).is = "]" -> sites
        [] at(i).is # "number" \/ at(i).n \notin 0..SITES - 1 -> Failed
        [] end.is # "number" \/ end.n \notin at(i).n..SITES - 1 -> Failed
        [] delim = "," -> ReadRuns(text, next, read)
        [] delim = "]" -> read
        [] OTHER -> Failed
ReadNeighborhood(text) ==
  IF text # <<>> /\ text[1].is = "[" THEN ReadRuns(text, 2, {}) ELSE Failed

\* Vprintf knows no "%u", so that printing an unsigned parameter fails and ends the program.
Unprintable(p) == p.kind = "U32"
PrintTo(v, p) ==
  CASE p.kind = "BITS" -> PrintNeighborhood(GetValue(v, p))
    [] p.kind = "BOOL" -> <<Mark(IF GetValue(v, p) = 1 THEN "true" ELSE "false")>>
    [] OTHER -> <<Number(GetValue(v, p))>>

\* ReadValue: whether it can be read, and what is stored then.  Nothing is clamped.
Readable(p, text) ==
  /\ text # <<>>
  /\ CASE p.kind = "BITS" -> ReadNeighborhood(text) # Failed
       [] p.kind = "BOOL" -> text[1].is \in {"true", "false"}
       [] OTHER -> text[1].is = "number"
ReadValue(v, p, text) ==
  Stored(v, Field(p),
         CASE p.kind = "BITS" -> BitsFor(ReadNeighborhood(text))
           [] p.kind = "BOOL" -> IF text[1].is = "true" THEN 1 ELSE 0
           [] OTHER -> text[1].n)

--------------------------------------------------------------------------------
(* Files *)

GetParameterNumberFromTag(tag) == SelectInSeq(parms, LAMBDA p : p.tag = tag)
Written == [i \in Parms |-> [tag |-> parms[i].tag, text |-> PrintTo(m_storage[i], parms[i])]]

\* SetElementParameter: a call refused ends the reading.
Refused(call) ==
  LET i == GetParameterNumberFromTag(call.tag) IN i = 0 \/ ~Readable(parms[i], call.text)
SetElementParameter(storage, call) ==
  LET i == GetParameterNumberFromTag(call.tag)
  IN  [storage EXCEPT ![i] = ReadValue(@, parms[i], call.text)]
ReadFile(storage, calls) ==
  LET bad == SelectInSeq(calls, Refused)
      good == IF bad = 0 THEN calls ELSE SubSeq(calls, 1, bad - 1)
  IN  FoldLeft(SetElementParameter, storage, good)

Load(calls) ==
  /\ m_storage' = ReadFile(m_storage, calls)
  /\ stale' = (controllers = "built")
  /\ UNCHANGED <<parms, controllers, m_bitField>>

--------------------------------------------------------------------------------
(* The toolbox's controllers *)

\* A panel looks at its neighborhood when it is built.
Panels == {i \in Parms : parms[i].kind = "BITS"}
RebuildControllers ==
  /\ controllers # "failed"
  /\ controllers' = IF \A i \in Parms : parms[i].kind \in {"S32", "BOOL", "BITS"} THEN "built" ELSE "failed"
  /\ m_bitField' = [i \in Panels |-> WriteLong(AllClear, 0, SITES, GetValue(m_storage[i], parms[i]))]
  /\ stale' = FALSE
  /\ UNCHANGED <<parms, m_storage>>

SetValue(i, val) ==
  /\ controllers = "built" /\ parms[i].kind = "S32"
  /\ m_storage' = [m_storage EXCEPT ![i] = SetBitsAsS32(@, parms[i], val)]
  /\ UNCHANGED <<parms, controllers, m_bitField, stale>>

\* A click on a check box sets it and reports that: twice the same.  -1 is clamped to 0.
SetChecked(v, p, checked) == SetBitsAsS32(v, p, IF checked THEN -1 ELSE 0)
OnClick(i) ==
  /\ controllers = "built" /\ parms[i].kind = "BOOL"
  /\ LET set == SetChecked(m_storage[i], parms[i], GetValue(m_storage[i], parms[i]) = 0)
     IN  m_storage' = [m_storage EXCEPT ![i] = SetChecked(set, parms[i], GetValue(set, parms[i]) = 1)]
  /\ UNCHANGED <<parms, controllers, m_bitField, stale>>

\* FlipBit: what is turned is what the panel shows.
FlipBit(i, site) ==
  /\ controllers = "built" /\ i \in Panels
  /\ LET bit == 1 - ReadBits(m_bitField[i], site, 1)
     IN  /\ m_bitField' = [m_bitField EXCEPT ![i] = WriteBit(@, site, bit)]
         /\ m_storage' = [m_storage EXCEPT ![i] = WriteBit(@, Field(parms[i]).start + site, bit)]
  /\ UNCHANGED <<parms, controllers, stale>>

ParameterInit ==
  /\ parms \in Elements /\ \A i \in Parms : Describable(parms[i])
  /\ m_storage = [i \in Parms |-> Reset(parms[i])]
  /\ controllers = "none" /\ m_bitField = <<>>
  /\ stale = FALSE
ParameterNext ==
  \/ \E i \in Parms, text \in Texts : Load(<<[tag |-> parms[i].tag, text |-> text]>>)
  \/ RebuildControllers
  \/ \E i \in Parms :
       \/ \E val \in SliderValues : SetValue(i, val)
       \/ OnClick(i)
       \/ \E site \in 0..SITES - 1 : FlipBit(i, site)

--------------------------------------------------------------------------------

\* What is printed of all parameters, whatever set them, reads back in a program that has
\* just begun, in any order of the calls.
PrintedReadsBack ==
  (\E i \in Parms : Unprintable(parms[i])) \/
  LET fresh == [i \in Parms |-> Reset(parms[i])]
      again == ReadFile(fresh, Written)
      backward == ReadFile(fresh, Reverse(Written))
  IN  \A i \in Parms : /\ GetValue(again[i], parms[i]) = GetValue(m_storage[i], parms[i])
                       /\ backward[i] = again[i]

\* The panels of neighborhoods keep a copy: until a file is loaded under them, they show
\* what the parameter is, whichever sites were clicked in whichever order.
PanelsInStep ==
  controllers = "built" /\ ~stale =>
    \A i \in Panels : ReadLong(m_bitField[i], 0, SITES) = GetValue(m_storage[i], parms[i])
ParametersKept == PrintedReadsBack /\ PanelsInStep
===============================================================================
