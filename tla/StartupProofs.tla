--------------------------- MODULE StartupProofs ----------------------------
(***************************************************************************)
(* No two programs that are started on one machine write to one directory, *)
(* and each that runs knows the elements that it found or needs, once, and *)
(* the atoms it begins with are of them: for any machines, command lines,  *)
(* directories and libraries.                                              *)
(***************************************************************************)
EXTENDS Startup, SequenceTheorems, TLAPS

ProgramFields == {"driver", "argv", "at", "taken", "options", "under", "since", "status",
                  "registry", "needed", "elements"}

\* The directories a program may search, and that it was started as machines start it.
Searched(p) == ToSet(p.argv) \cup ToSet(SharedPaths)
IsProgram(p) ==
  /\ DOMAIN p = ProgramFields
  /\ p.driver \in DOMAIN NeededElements
  /\ IsList(p.argv) /\ p.at \in Nat \ {0}
  /\ \A path \in Searched(p) : IsList(Files(path))
  /\ "elementPaths" \in DOMAIN p.options /\ p.options.elementPaths \in Seq(Searched(p))

\* The uuids of the first k files that are legal, and in which of the first i directories,
\* of the i-th only k files, a library was found.
LegalIn(files, k) == {files[l].uuid : l \in {j \in 1..k : files[j].legal}}
FoundIn(paths, i, k, uuid) ==
  {j \in 1..i : uuid \in LegalIn(Files(paths[j]), IF j < i THEN Len(Files(paths[j])) ELSE k)}

\* The last directory that a library was found in, or 0.
LastIn(S, path) == path \in S \cup {0} /\ \A i \in S : i <= path

Distinct(registry) == \A j, k \in DOMAIN registry : registry[j].uuid = registry[k].uuid => j = k
Entries(registry) ==
  /\ \E S : registry \in Seq(S)
  /\ \A k \in DOMAIN registry : DOMAIN registry[k] = {"uuid", "loaded", "path"}
Knows(registry, uuid) == \E k \in DOMAIN registry : registry[k].uuid = uuid

\* The registry as libraries are found.
Found(registry, paths, i, k) ==
  /\ Entries(registry) /\ Distinct(registry)
  /\ \A n \in DOMAIN registry :
       /\ ~registry[n].loaded
       /\ FoundIn(paths, i, k, registry[n].uuid) # {}
       /\ LastIn(FoundIn(paths, i, k, registry[n].uuid), registry[n].path)
  /\ \A uuid : FoundIn(paths, i, k, uuid) # {} => Knows(registry, uuid)

\* The registry as elements are needed.
Libraries(paths, uuid) == FoundIn(paths, Len(paths) + 1, 0, uuid)
Grown(registry, paths, elements) ==
  /\ Entries(registry) /\ Distinct(registry)
  /\ \A n \in DOMAIN registry :
       LET e == registry[n]
       IN  /\ e.loaded <=> Libraries(paths, e.uuid) = {}
           /\ e.loaded => e.uuid \in ToSet(elements)
           /\ LastIn(Libraries(paths, e.uuid), e.path)
  /\ \A uuid : Libraries(paths, uuid) # {} \/ uuid \in ToSet(elements) => Knows(registry, uuid)

\* What is known of a program, by how far it has come.
Stage(p) ==
  /\ p.status \in {"plugin", "arguments", "directory"} =>
       p.registry = <<>> /\ p.needed = <<>> /\ p.elements = <<>>
  /\ p.status = "made" =>
       /\ Found(p.registry, p.options.elementPaths, Len(p.options.elementPaths) + 1, 0)
       /\ p.needed = NeededElements[p.driver] /\ p.elements = <<>>
  /\ p.status = "running" => RegistryKept(p) /\ EdenKept(p)
Ended(p) == p.status \in {"failed", "exited"}
ProgramInv(p) == Ended(p) \/ (IsProgram(p) /\ Stage(p))

Writes(p) == p.status \in {"made", "running"}
StartupInv ==
  /\ \A n \in DOMAIN programs : ProgramInv(programs[n])
  /\ \A n \in DOMAIN programs : Writes(programs[n]) => SimulationOf(programs[n]) \in simulations
  /\ OwnDirectories

\* The folds: each step, and what it keeps to, in the context x after k members.
Onward(p, q) ==
  /\ DOMAIN q = ProgramFields
  /\ \A field \in ProgramFields \ {"options", "registry", "needed", "elements", "status"} : q[field] = p[field]
  /\ q.status \in {p.status, "failed"}

TryStep(x, p, arg) == Try(p, arg)
TryGood(x, p, k) ==
  DOMAIN p = ProgramFields /\ (Ended(p) \/ (IsProgram(p) /\ Stage(p) /\ p.status = "arguments"))
Tries == INSTANCE FoldProofs WITH FoldStep <- TryStep, FoldHolds <- TryGood

PathStep(x, p, path) == AddPath(p, path)
PathGood(x, p, k) ==
  /\ Onward(x, p) /\ IsProgram(p)
  /\ p.registry = x.registry /\ p.needed = x.needed /\ p.elements = x.elements
Adds == INSTANCE FoldProofs WITH FoldStep <- PathStep, FoldHolds <- PathGood

FileStep(x, p, file) == FindLibrary(p, file, x.dir)
FileGood(x, p, k) ==
  /\ Onward(x.p, p) /\ p.options = x.p.options /\ p.needed = x.p.needed /\ p.elements = x.p.elements
  /\ p.status = "failed" \/ Found(p.registry, p.options.elementPaths, x.dir, k)
Finds == INSTANCE FoldProofs WITH FoldStep <- FileStep, FoldHolds <- FileGood

DirStep(x, p, i) == FoldLeft(LAMBDA r, file : FindLibrary(r, file, i), p, Files(x.options.elementPaths[i]))
DirGood(x, p, k) == FileGood([p |-> x, dir |-> k + 1], p, 0)
Searches == INSTANCE FoldProofs WITH FoldStep <- DirStep, FoldHolds <- DirGood

NeedStep(x, p, e) == NeedElement(p, e)
NeedGood(x, p, k) ==
  /\ Onward(x, p) /\ p.options = x.options /\ p.registry = x.registry /\ p.elements = x.elements
  /\ p.status = "failed" \/ p.needed = [j \in 1..k |-> NeededElements[x.driver][j]]
Needs == INSTANCE FoldProofs WITH FoldStep <- NeedStep, FoldHolds <- NeedGood

UseStep(x, p, e) == GridNeeds(p, e)
UseGood(x, p, k) ==
  /\ Onward(x.p, p) /\ p.options = x.p.options /\ p.needed = x.p.needed
  /\ p.status = "failed" \/
       /\ Grown(p.registry, p.options.elementPaths, p.elements)
       /\ \E S : p.elements \in Seq(S)
       /\ \A j \in 1..k : x.list[j] \in ToSet(p.elements)
Employs == INSTANCE FoldProofs WITH FoldStep <- UseStep, FoldHolds <- UseGood
-----------------------------------------------------------------------------
(* Lists *)

\* A list with one more.
Extends(q, r, e) ==
  /\ \E T : q \in Seq(T)
  /\ Len(r) \in Nat /\ DOMAIN r = 1..Len(r) /\ Len(r) + 1 \in DOMAIN q
  /\ \A k : k \in DOMAIN q <=> k \in DOMAIN r \/ k = Len(r) + 1
  /\ \A k \in DOMAIN r : q[k] = r[k]
  /\ q[Len(r) + 1] = e
LEMMA Grows ==
  ASSUME NEW r, \E S : r \in Seq(S), NEW e
  PROVE  Extends(Append(r, e), r, e)
  <1>1. PICK S : r \in Seq(S)  OBVIOUS
  <1>2. r \in Seq(S \cup {e})  BY <1>1, SeqMonotonic
  <1>3. Append(r, e) \in Seq(S \cup {e})  BY <1>2
  <1>4. DOMAIN r = 1..Len(r) /\ DOMAIN Append(r, e) = 1..Len(r) + 1 /\ Len(r) \in Nat
    BY <1>2
  <1>5. \A k : k \in 1..Len(r) + 1 <=> k \in 1..Len(r) \/ k = Len(r) + 1  BY <1>4
  <1>6. QED  BY <1>2, <1>3, <1>4, <1>5 DEF Extends

LEMMA GrowsSet ==
  ASSUME NEW r, \E S : r \in Seq(S), NEW e
  PROVE  ToSet(Append(r, e)) = ToSet(r) \cup {e}
  BY Grows DEF ToSet, Extends

LEMMA Successor == \A k \in Nat \ {0} : k + 1 \in Nat \ {0}
  OBVIOUS

LEMMA IsSeq == ASSUME NEW T, NEW n \in Nat, NEW s \in [1..n -> T] PROVE s \in Seq(T)
  OBVIOUS

LEMMA Legal ==
  ASSUME NEW list, IsList(list)
  PROVE  Len(list) \in Nat /\ DOMAIN list = 1..Len(list) /\ list \in Seq(ToSet(list))
  <1>1. \A k \in 1..Len(list) : list[k] \in ToSet(list)  BY DEF IsList, ToSet
  <1>2. list \in [1..Len(list) -> ToSet(list)]  BY <1>1 DEF IsList
  <1>3. QED  BY <1>2 DEF IsList

\* The last directory of those a library is in.
LEMMA LastIsMost ==
  ASSUME NEW S \in SUBSET Nat, NEW path, LastIn(S, path)
  PROVE  path = Max({0} \cup S)
  <1>1. path \in {0} \cup S /\ \A i \in {0} \cup S : path >= i  BY DEF LastIn
  <1>2. \A p \in {0} \cup S : (\A i \in {0} \cup S : p >= i) => p = path  BY <1>1
  <1>3. QED  BY <1>1, <1>2 DEF Max

-----------------------------------------------------------------------------
(* Switches *)

\* A switch sets anything but the elements' directories, to which one adds.
IsSwitch(arg) ==
  /\ arg.does \in {"set", "number"} => arg.field # "elementPaths"
  /\ arg.does = "elementpath" => arg.needs
LEMMA DriverSwitches ==
  /\ \E n \in Nat : DOMAIN DriverArguments = 1..n
  /\ \A k \in DOMAIN DriverArguments : IsSwitch(DriverArguments[k])
  <1>1. DOMAIN DriverArguments = 1..16  BY DEF DriverArguments
  <1>2. \A k \in 1..16 : IsSwitch(DriverArguments[k])
    BY DEF DriverArguments, Other, Number, Flag, IsSwitch
  <1>3. QED  BY <1>1, <1>2
LEMMA GuiSwitches ==
  /\ \E n \in Nat : DOMAIN GuiArguments = 1..n
  /\ \A k \in DOMAIN GuiArguments : IsSwitch(GuiArguments[k])
  <1>1. DOMAIN GuiArguments = 1..6  BY DEF GuiArguments
  <1>2. \A k \in 1..6 : IsSwitch(GuiArguments[k])
    BY DEF GuiArguments, Other, Number, Flag, IsSwitch
  <1>3. QED  BY <1>1, <1>2
LEMMA Switches ==
  ASSUME NEW d
  PROVE  \E n \in Nat : /\ DOMAIN Arguments(d) = 1..n
                        /\ \A k \in 1..n : IsSwitch(Arguments(d)[k])
  <1> DEFINE L == ToSet(DriverArguments) \cup ToSet(GuiArguments) \cup {Pointless}
             a == DriverArguments
             b == IF d = "mfmheadless" THEN <<>> ELSE GuiArguments
             c == IF d = "mfmsim" THEN <<Pointless>> ELSE <<>>
  <1>1. \A arg \in L : IsSwitch(arg)
    <2>1. IsSwitch(Pointless)  BY DEF Pointless, Other, IsSwitch
    <2>2. QED  BY <2>1, DriverSwitches, GuiSwitches DEF ToSet
  <1>2. DriverArguments \in Seq(L) /\ GuiArguments \in Seq(L)
    <2>1. DriverArguments = [k \in DOMAIN DriverArguments |-> DriverArguments[k]]
          /\ GuiArguments = [k \in DOMAIN GuiArguments |-> GuiArguments[k]]
      BY DEF DriverArguments, GuiArguments
    <2>2. \A k \in DOMAIN DriverArguments : DriverArguments[k] \in L  BY DEF ToSet
    <2>3. \A k \in DOMAIN GuiArguments : GuiArguments[k] \in L  BY DEF ToSet
    <2> HIDE DEF L
    <2>4. PICK n \in Nat : DOMAIN DriverArguments = 1..n  BY DriverSwitches
    <2>5. PICK m \in Nat : DOMAIN GuiArguments = 1..m  BY GuiSwitches
    <2>6. DriverArguments \in [1..n -> L] /\ GuiArguments \in [1..m -> L]
      BY <2>1, <2>2, <2>3, <2>4, <2>5
    <2>7. QED  BY <2>6
  <1>3. b \in Seq(L) /\ c \in Seq(L)
    <2>1. b \in Seq(L)  BY <1>2
    <2>2. Pointless \in L  OBVIOUS
    <2> HIDE DEF L
    <2>3. c \in Seq(L)  BY <2>2
    <2>4. QED  BY <2>1, <2>3
  <1> HIDE DEF L, b, c
  <1>4. (a \o b) \o c \in Seq(L)  BY <1>2, <1>3, ConcatProperties
  <1>5. Arguments(d) = (a \o b) \o c  BY DEF Arguments, b, c
  <1>6. Arguments(d) \in Seq(L)  BY <1>4, <1>5
  <1> HIDE DEF a
  <1>7. QED
    <2> DEFINE n == Len(Arguments(d))
    <2>1. n \in Nat /\ DOMAIN Arguments(d) = 1..n /\ \A k \in 1..n : Arguments(d)[k] \in L  BY <1>6
    <2> HIDE DEF n
    <2>2. QED  BY <1>1, <2>1
-----------------------------------------------------------------------------
(* The command line *)

\* A program whose options alone were set, to other ones for elements' directories or not.
LEMMA OptionsSet ==
  ASSUME NEW p, IsProgram(p), Stage(p), p.status = "arguments", NEW q,
         DOMAIN q = ProgramFields,
         \A field \in {"driver", "argv", "status", "registry", "needed", "elements"} : q[field] = p[field],
         q.at \in Nat \ {0},
         "elementPaths" \in DOMAIN q.options, q.options.elementPaths \in Seq(Searched(p))
  PROVE  IsProgram(q) /\ Stage(q) /\ q.status = "arguments"
  <1>1. Searched(q) = Searched(p)  BY DEF Searched
  <1>2. IsProgram(q)  BY <1>1 DEF IsProgram
  <1>3. Stage(q)  BY DEF Stage
  <1>4. QED  BY <1>2, <1>3

LEMMA AddPathKeeps ==
  ASSUME NEW p, IsProgram(p), NEW path \in Searched(p)
  PROVE  LET q == AddPath(p, path)
         IN  /\ Onward(p, q) /\ q.registry = p.registry /\ q.needed = p.needed /\ q.elements = p.elements
             /\ "elementPaths" \in DOMAIN q.options /\ q.options.elementPaths \in Seq(Searched(p))
  <1> DEFINE q == AddPath(p, path)
             r == [p EXCEPT !.options.elementPaths = Append(@, path)]
  <1>1. Append(p.options.elementPaths, path) \in Seq(Searched(p))  BY DEF IsProgram
  <1>2. DOMAIN p = ProgramFields /\ "elementPaths" \in DOMAIN p.options
        /\ p.options.elementPaths \in Seq(Searched(p))
    BY DEF IsProgram
  <1>3. /\ Onward(p, r) /\ r.registry = p.registry /\ r.needed = p.needed /\ r.elements = p.elements
        /\ "elementPaths" \in DOMAIN r.options /\ r.options.elementPaths = Append(p.options.elementPaths, path)
    BY <1>2 DEF Onward, ProgramFields
  <1>4. CASE q = r  BY <1>1, <1>3, <1>4
  <1>5. CASE q = p  BY <1>2, <1>5 DEF Onward
  <1>6. CASE q = FailIn(p)  BY <1>2, <1>6 DEF Onward, FailIn, ProgramFields
  <1>7. QED  BY <1>4, <1>5, <1>6 DEF AddPath

LEMMA CallKeeps ==
  ASSUME NEW p, IsProgram(p), Stage(p), p.status = "arguments",
         NEW arg, IsSwitch(arg), NEW value, arg.needs => value \in Searched(p)
  PROVE  TryGood(0, Call(p, arg, value), 0)
  <1>1. DOMAIN p = ProgramFields /\ "elementPaths" \in DOMAIN p.options
        /\ p.options.elementPaths \in Seq(Searched(p)) /\ p.at \in Nat \ {0}
    BY DEF IsProgram
  <1>2. \A q : /\ DOMAIN q = ProgramFields
               /\ \A field \in ProgramFields \ {"options", "under", "since"} : q[field] = p[field]
               /\ "elementPaths" \in DOMAIN q.options /\ q.options.elementPaths = p.options.elementPaths
               => TryGood(0, q, 0)
    BY <1>1, OptionsSet DEF TryGood, ProgramFields
  <1>3. TryGood(0, Die(p), 0) /\ TryGood(0, FailIn(p), 0)
    BY <1>1 DEF TryGood, Ended, Die, FailIn, ProgramFields
  <1>4. CASE arg.does = "exit"  BY <1>3, <1>4 DEF Call
  <1>5. CASE arg.does = "set"
    <2> DEFINE q == [p EXCEPT !.options[arg.field] = arg.to]
    <2>1. arg.field # "elementPaths"  BY <1>5 DEF IsSwitch
    <2>2. /\ DOMAIN q = ProgramFields
          /\ \A field \in ProgramFields \ {"options", "under", "since"} : q[field] = p[field]
          /\ "elementPaths" \in DOMAIN q.options /\ q.options.elementPaths = p.options.elementPaths
      BY <1>1, <2>1 DEF ProgramFields
    <2>3. Call(p, arg, value) = q  BY <1>5 DEF Call
    <2> HIDE DEF q
    <2>4. QED  BY <1>2, <2>2, <2>3
  <1>6. CASE arg.does = "number"
    <2> DEFINE q == [p EXCEPT !.options[arg.field] = Atoi(value)]
    <2>1. arg.field # "elementPaths"  BY <1>6 DEF IsSwitch
    <2>2. /\ DOMAIN q = ProgramFields
          /\ \A field \in ProgramFields \ {"options", "under", "since"} : q[field] = p[field]
          /\ "elementPaths" \in DOMAIN q.options /\ q.options.elementPaths = p.options.elementPaths
      BY <1>1, <2>1 DEF ProgramFields
    <2>3. Call(p, arg, value) = q  BY <1>6 DEF Call
    <2> HIDE DEF q
    <2>4. QED  BY <1>2, <2>2, <2>3
  <1>7. CASE arg.does = "seed"
    <2> DEFINE q == Call(p, arg, value)
    <2>1. \E s : q = [p EXCEPT !.options.seed = s]  BY <1>7 DEF Call
    <2>2. /\ DOMAIN q = ProgramFields
          /\ \A field \in ProgramFields \ {"options", "under", "since"} : q[field] = p[field]
          /\ "elementPaths" \in DOMAIN q.options /\ q.options.elementPaths = p.options.elementPaths
      BY <1>1, <2>1 DEF ProgramFields
    <2>3. QED  BY <1>2, <2>2
  <1>8. CASE arg.does = "surge"
    <2> DEFINE q == Call(p, arg, value)
    <2>1. \E s, a : q = [p EXCEPT !.options.surgeAfterEpochs = s, !.options.acceleration = a]
      BY <1>8 DEF Call
    <2>2. /\ DOMAIN q = ProgramFields
          /\ \A field \in ProgramFields \ {"options", "under", "since"} : q[field] = p[field]
          /\ "elementPaths" \in DOMAIN q.options /\ q.options.elementPaths = p.options.elementPaths
      BY <1>1, <2>1 DEF ProgramFields
    <2>3. QED  BY <1>2, <2>2
  <1>9. CASE arg.does = "dir"
    <2>1. \A under : TryGood(0, [p EXCEPT !.under = under, !.since = now], 0)
      BY <1>1, <1>2 DEF ProgramFields
    <2>2. Call(p, arg, value) = SetDataDir(p, value)  BY <1>9 DEF Call
    <2>3. QED  BY <1>3, <2>1, <2>2 DEF SetDataDir
  <1>10. CASE arg.does = "elementpath"
    <2>1. value \in Searched(p)  BY <1>10 DEF IsSwitch
    <2>2. Call(p, arg, value) = AddPath(p, value)  BY <1>10 DEF Call
    <2> DEFINE q == AddPath(p, value)
    <2>3. /\ Onward(p, q) /\ q.registry = p.registry /\ q.needed = p.needed /\ q.elements = p.elements
          /\ "elementPaths" \in DOMAIN q.options /\ q.options.elementPaths \in Seq(Searched(p))
      BY <2>1, AddPathKeeps
    <2> HIDE DEF q
    <2>4. CASE q.status = "failed"  BY <2>2, <2>3, <2>4 DEF TryGood, Ended, Onward, q
    <2>5. CASE q.status = "arguments"
      <3>1. IsProgram(q) /\ Stage(q) /\ q.status = "arguments"
        BY <1>1, <2>3, <2>5, OptionsSet DEF Onward, ProgramFields
      <3>2. QED  BY <2>2, <2>3, <3>1 DEF TryGood, Onward, q
    <2>6. QED  BY <2>3, <2>4, <2>5 DEF Onward
  <1>11. CASE arg.does \notin {"exit", "set", "number", "seed", "surge", "dir", "elementpath"}
    <2>1. \A paths : TryGood(0, [p EXCEPT !.options.configurationPaths = paths], 0)
      BY <1>1, <1>2 DEF ProgramFields
    <2>2. Call(p, arg, value) = LoadFromConfigFile(p, value)  BY <1>11 DEF Call
    <2>3. QED  BY <1>3, <2>1, <2>2 DEF LoadFromConfigFile
  <1>12. QED  BY <1>4, <1>5, <1>6, <1>7, <1>8, <1>9, <1>10, <1>11

LEMMA TryKeeps ==
  ASSUME NEW p, TryGood(0, p, 0), NEW arg, IsSwitch(arg)
  PROVE  TryGood(0, Try(p, arg), 0)
  <1>1. CASE Try(p, arg) = p  BY <1>1
  <1> SUFFICES ASSUME Try(p, arg) # p  PROVE TryGood(0, Try(p, arg), 0)
    BY <1>1
  <1>2. IsProgram(p) /\ Stage(p) /\ p.status = "arguments"  BY DEF TryGood, Ended, Try
  <1>3. DOMAIN p = ProgramFields  BY <1>2 DEF IsProgram
  <1>4. CASE ~arg.needs
    <2>1. Try(p, arg) = Call(p, arg, "")  BY <1>4 DEF Try
    <2>2. QED  BY <1>2, <1>4, <2>1, CallKeeps
  <1>5. CASE arg.needs /\ p.at >= Len(p.argv)
    <2>1. Try(p, arg) = Die(p)  BY <1>5 DEF Try
    <2>2. QED  BY <1>3, <2>1 DEF TryGood, Ended, Die, ProgramFields
  <1>6. CASE arg.needs /\ ~(p.at >= Len(p.argv))
    <2> DEFINE q == [p EXCEPT !.at = p.at + 1, !.taken = TRUE]
    <2>1. Try(p, arg) = Call(q, arg, p.argv[p.at + 1])  BY <1>6 DEF Try
    <2>2. IsProgram(q) /\ Stage(q) /\ q.status = "arguments" /\ q.argv = p.argv
      <3>1. /\ DOMAIN q = ProgramFields
            /\ \A field \in ProgramFields \ {"at", "taken"} : q[field] = p[field]
            /\ q.at = p.at + 1
        BY <1>3 DEF ProgramFields
      <3> HIDE DEF q
      <3>2. q.at \in Nat \ {0}  BY <1>2, <3>1 DEF IsProgram
      <3>3. QED  BY <1>2, <3>1, <3>2, OptionsSet DEF ProgramFields, IsProgram
    <2>3. p.argv[p.at + 1] \in Searched(q)
      <3>1. p.at + 1 \in DOMAIN p.argv  BY <1>2, <1>6, Legal DEF IsProgram
      <3>2. QED  BY <2>2, <3>1 DEF Searched, ToSet
    <2> HIDE DEF q
    <2>4. QED  BY <2>1, <2>2, <2>3, CallKeeps
  <1>7. QED  BY <1>4, <1>5, <1>6

LEMMA ArgumentKeeps ==
  ASSUME NEW p, IsProgram(p), Stage(p), p.status = "arguments"
  PROVE  ProgramInv(ProcessArgument(p)) /\ ~Writes(ProcessArgument(p))
  <1>1. DOMAIN p = ProgramFields  BY DEF IsProgram
  <1>2. CASE p.argv[p.at] = ""
    <2>1. ProcessArgument(p) = FailIn(p)  BY <1>2 DEF ProcessArgument
    <2>2. QED  BY <1>1, <2>1 DEF ProgramInv, Ended, Writes, FailIn, ProgramFields
  <1> SUFFICES ASSUME p.argv[p.at] # ""
               PROVE  ProgramInv(ProcessArgument(p)) /\ ~Writes(ProcessArgument(p))
    BY <1>2
  <1> DEFINE q == [p EXCEPT !.taken = FALSE]
             tried == FoldLeft(Try, q, Arguments(p.driver))
             next == [tried EXCEPT !.at = @ + 1]
  <1>3. TryGood(0, q, 0)
    <2>1. /\ DOMAIN q = ProgramFields
          /\ \A field \in ProgramFields \ {"taken"} : q[field] = p[field]
      BY <1>1 DEF ProgramFields
    <2> HIDE DEF q
    <2>2. QED  BY <2>1, OptionsSet DEF ProgramFields, IsProgram, TryGood
  <1>4. PICK n \in Nat : DOMAIN Arguments(p.driver) = 1..n /\ \A k \in 1..n : IsSwitch(Arguments(p.driver)[k])
    BY Switches
  <1>5. Tries!KeepsTo(0, Arguments(p.driver), n)
    <2>1. \A v, k : TryGood(0, v, k) <=> TryGood(0, v, 0)  BY DEF TryGood
    <2>2. QED  BY <1>4, <2>1, TryKeeps DEF Tries!KeepsTo, TryStep
  <1>6. FoldLeft(Try, q, Arguments(p.driver)) = Tries!Folded(0, q, Arguments(p.driver))
    BY DEF FoldLeft, MapThenFoldSet, Max, Tries!Folded, Tries!FoldLeft, Tries!MapThenFoldSet,
           Tries!Max, TryStep
  <1> HIDE DEF q
  <1>7. TryGood(0, Tries!Folded(0, q, Arguments(p.driver)), n)  BY <1>3, <1>4, <1>5, Tries!FoldKeeps
  <1>8. TryGood(0, tried, 0)  BY <1>6, <1>7 DEF TryGood
  <1>9. ProcessArgument(p) = next  BY DEF ProcessArgument, q
  <1> HIDE DEF tried
  <1>10. CASE Ended(tried)
    <2>1. next.status = tried.status  BY <1>8 DEF TryGood, ProgramFields
    <2>2. QED  BY <1>9, <1>10, <2>1 DEF ProgramInv, Ended, Writes
  <1>11. CASE IsProgram(tried) /\ Stage(tried) /\ tried.status = "arguments"
    <2>1. /\ DOMAIN next = ProgramFields
          /\ \A field \in ProgramFields \ {"at"} : next[field] = tried[field]
          /\ next.at = tried.at + 1
      BY <1>11 DEF ProgramFields, IsProgram
    <2> HIDE DEF next
    <2>2. next.at \in Nat \ {0}
      <3>1. tried.at \in Nat \ {0}  BY <1>11 DEF IsProgram
      <3>2. next.at = tried.at + 1  BY <2>1
      <3>3. QED  BY <3>1, <3>2, Successor
    <2>3. IsProgram(next) /\ Stage(next) /\ next.status = "arguments"
      BY <1>11, <2>1, <2>2, OptionsSet DEF ProgramFields, IsProgram
    <2>4. QED  BY <1>9, <2>3 DEF ProgramInv, Writes
  <1>12. QED  BY <1>8, <1>10, <1>11 DEF TryGood
-----------------------------------------------------------------------------
(* Libraries *)

\* What Register makes of p.
Registers(p, entry, q) ==
  /\ DOMAIN q = ProgramFields
  /\ \A field \in ProgramFields \ {"registry", "status"} : q[field] = p[field]
  /\ q.status \in {p.status, "failed"}
  /\ \/ q.status = "failed"
     \/ q.registry = p.registry /\ Knows(p.registry, entry.uuid)
     \/ q.registry = Append(p.registry, entry) /\ ~Knows(p.registry, entry.uuid)
LEMMA RegisterGrows ==
  ASSUME NEW p, DOMAIN p = ProgramFields, NEW entry
  PROVE  Registers(p, entry, Register(p, entry))
  BY DEF Registers, Register, IsRegistered, Knows, FailIn, ProgramFields

\* One file more.
Has(file, uuid) == file.legal /\ file.uuid = uuid
MoreFound(paths, i, k, m, file) ==
  \A uuid :
    /\ Has(file, uuid) => FoundIn(paths, i, m, uuid) = FoundIn(paths, i, k, uuid) \cup {i}
    /\ ~Has(file, uuid) => FoundIn(paths, i, m, uuid) = FoundIn(paths, i, k, uuid)
LEMMA FoundMore ==
  ASSUME NEW paths, NEW i \in Nat \ {0}, NEW k \in Nat
  PROVE  MoreFound(paths, i, k, k + 1, Files(paths[i])[k + 1])
  <1> DEFINE files == Files(paths[i])
             m == k + 1
  <1> SUFFICES ASSUME NEW uuid
               PROVE  /\ Has(files[m], uuid) => FoundIn(paths, i, m, uuid) = FoundIn(paths, i, k, uuid) \cup {i}
                      /\ ~Has(files[m], uuid) => FoundIn(paths, i, m, uuid) = FoundIn(paths, i, k, uuid)
    BY DEF MoreFound
  <1>1. uuid \in LegalIn(files, m) <=> uuid \in LegalIn(files, k) \/ Has(files[m], uuid)
    BY DEF LegalIn, Has
  <1>2. \A j \in 1..i : j < i \/ j = i  OBVIOUS
  <1>3. i \in 1..i /\ ~(i < i)  OBVIOUS
  <1>4. QED  BY <1>1, <1>2, <1>3 DEF FoundIn

LEMMA FoundNone ==
  ASSUME NEW paths, NEW uuid
  PROVE  FoundIn(paths, 1, 0, uuid) = {}
  BY DEF FoundIn, LegalIn

\* All files of a directory are none of the next one.
LEMMA FoundNext ==
  ASSUME NEW paths, NEW i \in Nat, NEW uuid
  PROVE  FoundIn(paths, i + 1, Len(Files(paths[i + 1])), uuid) = FoundIn(paths, (i + 1) + 1, 0, uuid)
  <1>1. \A files : LegalIn(files, 0) = {}  BY DEF LegalIn
  <1>2. \A j \in 1..(i + 1) + 1 : j \in 1..i + 1 \/ j = (i + 1) + 1  OBVIOUS
  <1>3. \A j \in 1..i + 1 : j \in 1..(i + 1) + 1 /\ j < (i + 1) + 1 /\ (j < i + 1 \/ j = i + 1)  OBVIOUS
  <1>4. QED  BY <1>1, <1>2, <1>3 DEF FoundIn

LEMMA FileKeeps ==
  ASSUME NEW x, NEW i \in Nat \ {0}, x.dir = i, NEW paths, x.p.options.elementPaths = paths,
         NEW k \in Nat, NEW m, m = k + 1, NEW v, FileGood(x, v, k), NEW file, file = Files(paths[i])[m]
  PROVE  FileGood(x, FindLibrary(v, file, i), m)
  <1> DEFINE q == RegisterUUID(v, file.uuid)
             e == [uuid |-> file.uuid, loaded |-> FALSE, path |-> 0]
             found == [q EXCEPT !.registry = [n \in DOMAIN @ |->
                         IF @[n].uuid = file.uuid THEN [@[n] EXCEPT !.path = i] ELSE @[n]]]
  <1>1. DOMAIN v = ProgramFields /\ v.options.elementPaths = paths  BY DEF FileGood, Onward
  <1>2. MoreFound(paths, i, k, m, file)  BY FoundMore
  <1>3. /\ \A uuid : Has(file, uuid) => FoundIn(paths, i, m, uuid) = FoundIn(paths, i, k, uuid) \cup {i}
        /\ \A uuid : ~Has(file, uuid) => FoundIn(paths, i, m, uuid) = FoundIn(paths, i, k, uuid)
    BY <1>2 DEF MoreFound
  <1>4. \A uuid : Has(file, uuid) <=> file.legal /\ file.uuid = uuid  BY DEF Has
  <1>5. CASE ~file.legal
    <2>1. \A uuid : FoundIn(paths, i, m, uuid) = FoundIn(paths, i, k, uuid)  BY <1>5, <1>3, <1>4
    <2>2. FindLibrary(v, file, i) = v  BY <1>5 DEF FindLibrary
    <2>3. QED  BY <1>1, <2>1, <2>2 DEF FileGood, Found
  <1>6. CASE file.legal
    <2>1. FindLibrary(v, file, i) = found  BY <1>6 DEF FindLibrary
    <2>2. Registers(v, e, q) /\ e.uuid = file.uuid /\ ~e.loaded /\ e.path = 0
          /\ DOMAIN e = {"uuid", "loaded", "path"}
      BY <1>1, RegisterGrows DEF RegisterUUID
    <2> HIDE DEF e
    <2> HIDE DEF q
    <2>3. /\ DOMAIN found = ProgramFields
          /\ \A field \in ProgramFields \ {"registry", "status"} : found[field] = v[field]
          /\ found.status = q.status
      BY <2>2 DEF ProgramFields, Registers
    <2> DEFINE r == q.registry
               s == found.registry
    <2>4. s = [n \in DOMAIN r |-> IF r[n].uuid = file.uuid THEN [r[n] EXCEPT !.path = i] ELSE r[n]]
      BY <2>2 DEF ProgramFields, Registers
    <2> HIDE DEF found, r, s
    <2>5. CASE found.status = "failed"
      BY <2>1, <2>3, <2>5 DEF FileGood, Onward, ProgramFields
    <2>6. CASE found.status # "failed"
      <3>1. Found(v.registry, paths, i, k)  BY <1>1, <2>2, <2>3, <2>6 DEF FileGood, Registers
      <3>2. /\ Entries(r) /\ Distinct(r) /\ Knows(r, file.uuid)
            /\ \A n \in DOMAIN r : ~r[n].loaded /\ LastIn(FoundIn(paths, i, k, r[n].uuid), r[n].path)
            /\ \A n \in DOMAIN r : r[n].uuid = file.uuid \/ FoundIn(paths, i, k, r[n].uuid) # {}
            /\ \A uuid : FoundIn(paths, i, k, uuid) # {} => Knows(r, uuid)
        <4>1. CASE r = v.registry /\ Knows(v.registry, file.uuid)  BY <3>1, <4>1 DEF Found
        <4>2. CASE r = Append(v.registry, e) /\ ~Knows(v.registry, file.uuid)
          <5>1. Entries(v.registry) /\ Distinct(v.registry)  BY <3>1 DEF Found
          <5>2. Extends(r, v.registry, e)  BY <4>2, <5>1, Grows DEF Entries
          <5>3. \A n \in DOMAIN r : n \in DOMAIN v.registry \/ n = Len(v.registry) + 1  BY <5>2 DEF Extends
          <5>5. FoundIn(paths, i, k, file.uuid) = {}  BY <3>1, <4>2 DEF Found
          <5>6. Entries(r)
            <6>1. \E T : r \in Seq(T)  BY <5>2 DEF Extends
            <6>2. \A n \in DOMAIN v.registry : DOMAIN v.registry[n] = {"uuid", "loaded", "path"}
              BY <5>1 DEF Entries
            <6>3. \A n \in DOMAIN r : r[n] = e \/ (n \in DOMAIN v.registry /\ r[n] = v.registry[n])
              BY <5>2, <5>3 DEF Extends
            <6>4. \A n \in DOMAIN r : DOMAIN r[n] = {"uuid", "loaded", "path"}  BY <2>2, <6>2, <6>3
            <6>5. QED  BY <6>1, <6>4 DEF Entries
          <5>7. Distinct(r)  BY <2>2, <4>2, <5>1, <5>2 DEF Extends, Distinct, Knows
          <5>8. Knows(r, file.uuid)  BY <2>2, <5>2 DEF Knows, Extends
          <5>9. \A uuid : Knows(v.registry, uuid) => Knows(r, uuid)  BY <5>2 DEF Knows, Extends
          <5>10. LastIn({}, 0)  BY DEF LastIn
          <5>11. \A n \in DOMAIN r :
                   /\ ~r[n].loaded /\ LastIn(FoundIn(paths, i, k, r[n].uuid), r[n].path)
                   /\ r[n].uuid = file.uuid \/ FoundIn(paths, i, k, r[n].uuid) # {}
            <6> TAKE n \in DOMAIN r
            <6>1. CASE n \in DOMAIN v.registry  BY <3>1, <5>2, <6>1 DEF Found, Extends
            <6>2. CASE n = Len(v.registry) + 1
              <7>1. r[n] = e  BY <5>2, <6>2 DEF Extends
              <7>2. QED  BY <2>2, <5>5, <5>10, <7>1
            <6>3. QED  BY <5>3, <6>1, <6>2
          <5>12. QED  BY <3>1, <5>6, <5>7, <5>8, <5>9, <5>11 DEF Found
        <4>3. QED  BY <2>2, <2>3, <2>6, <4>1, <4>2 DEF r, Registers
      <3>3. DOMAIN s = DOMAIN r /\ \A n \in DOMAIN r : s[n].uuid = r[n].uuid /\ s[n].loaded = r[n].loaded
        BY <2>4, <3>2 DEF Entries
      <3>4. Entries(s) /\ Distinct(s) /\ \A uuid : Knows(s, uuid) <=> Knows(r, uuid)
        <4>1. \A n \in DOMAIN r : DOMAIN s[n] = {"uuid", "loaded", "path"}  BY <2>4, <3>2 DEF Entries
        <4>2. \E T : s \in Seq(T)
          <5>1. PICK S : r \in Seq(S)  BY <3>2 DEF Entries
          <5> DEFINE T == {s[n] : n \in DOMAIN s}
          <5>2. Len(r) \in Nat /\ DOMAIN r = 1..Len(r)  BY <5>1
          <5>3. s \in [1..Len(r) -> T]  BY <2>4, <5>2
          <5>4. s \in Seq(T)  BY <5>2, <5>3, IsSeq
          <5>5. QED  BY <5>4
        <4>3. QED  BY <3>2, <3>3, <4>1, <4>2 DEF Entries, Distinct, Knows
      <3>5. \A n \in DOMAIN s :
              /\ FoundIn(paths, i, m, s[n].uuid) # {}
              /\ LastIn(FoundIn(paths, i, m, s[n].uuid), s[n].path)
        <4> TAKE n \in DOMAIN s
        <4>1. CASE r[n].uuid = file.uuid
          <5>1. s[n].path = i  BY <2>4, <3>2, <3>3, <4>1 DEF Entries
          <5>2. FoundIn(paths, i, m, file.uuid) = FoundIn(paths, i, k, file.uuid) \cup {i}
            <6>1. Has(file, file.uuid)  BY <1>6, <1>4
            <6>2. QED  BY <1>3, <6>1
          <5>3. \A j \in FoundIn(paths, i, k, file.uuid) : j <= i  BY DEF FoundIn
          <5>4. QED  BY <3>3, <4>1, <5>1, <5>2, <5>3 DEF LastIn
        <4>2. CASE r[n].uuid # file.uuid
          <5>1. s[n] = r[n]  BY <2>4, <3>3, <4>2
          <5>2. FoundIn(paths, i, m, r[n].uuid) = FoundIn(paths, i, k, r[n].uuid)
            <6>1. ~Has(file, r[n].uuid)  BY <1>4, <4>2
            <6>2. QED  BY <1>3, <6>1
          <5>3. QED  BY <3>2, <3>3, <4>2, <5>1, <5>2
        <4>3. QED  BY <4>1, <4>2
      <3>6. \A uuid : FoundIn(paths, i, m, uuid) # {} => Knows(s, uuid)
        <4> TAKE uuid
        <4>1. CASE uuid = file.uuid  BY <3>2, <3>4, <4>1
        <4>2. CASE uuid # file.uuid
          <5>1. FoundIn(paths, i, m, uuid) = FoundIn(paths, i, k, uuid)  BY <1>3, <1>4, <4>2
          <5>2. FoundIn(paths, i, k, uuid) # {} => Knows(r, uuid)  BY <3>2
          <5>3. Knows(r, uuid) => Knows(s, uuid)  BY <3>4
          <5>4. QED  BY <5>1, <5>2, <5>3
        <4>3. QED  BY <4>1, <4>2
      <3>7. Found(s, paths, i, m)  BY <3>2, <3>3, <3>4, <3>5, <3>6 DEF Found
      <3>8. found.options = v.options /\ found.needed = v.needed /\ found.elements = v.elements
        BY <2>3 DEF ProgramFields
      <3>9. Onward(x.p, found)
        BY <2>2, <2>3 DEF FileGood, Onward, Registers, ProgramFields
      <3>10. QED  BY <1>1, <2>1, <3>7, <3>8, <3>9 DEF FileGood, s
    <2>7. QED  BY <2>5, <2>6
  <1>7. QED  BY <1>5, <1>6
-----------------------------------------------------------------------------
(* What Init makes of a program *)

LEMMA DirKeeps ==
  ASSUME NEW x, IsProgram(x), NEW k \in Nat, NEW i, i = k + 1, i \in DOMAIN x.options.elementPaths,
         NEW v, DirGood(x, v, k)
  PROVE  DirGood(x, DirStep(x, v, i), i)
  <1> DEFINE paths == x.options.elementPaths
             files == Files(paths[i])
             y == [p |-> x, dir |-> i]
             q == DirStep(x, v, i)
  <1>1. IsList(files) /\ i \in Nat \ {0}
    <2>1. paths \in Seq(Searched(x)) /\ \A path \in Searched(x) : IsList(Files(path))  BY DEF IsProgram
    <2>2. paths[i] \in Searched(x)  BY <2>1
    <2>3. QED  BY <2>1, <2>2
  <1>2. Len(files) \in Nat /\ DOMAIN files = 1..Len(files)  BY <1>1, Legal
  <1>3. FileGood(y, v, 0)  BY DEF DirGood
  <1>4. y.dir = i /\ y.p = x /\ y.p.options.elementPaths = paths  OBVIOUS
  <1> HIDE DEF y
  <1>5. Finds!KeepsTo(y, files, Len(files))
    <2> SUFFICES ASSUME NEW m \in Nat, NEW w, m + 1 \in 1..Len(files), FileGood(y, w, m)
                 PROVE  FileGood(y, FileStep(y, w, files[m + 1]), m + 1)
      BY DEF Finds!KeepsTo
    <2>1. PICK n : n = m + 1  OBVIOUS
    <2>2. FileGood(y, FindLibrary(w, files[n], i), n)  BY <1>1, <1>4, <2>1, FileKeeps
    <2>3. QED  BY <1>4, <2>1, <2>2 DEF FileStep
  <1>6. q = Finds!Folded(y, v, files)
    BY <1>4 DEF DirStep, FoldLeft, MapThenFoldSet, Max, Finds!Folded, Finds!FoldLeft,
                Finds!MapThenFoldSet, Finds!Max, FileStep
  <1>7. FileGood(y, q, Len(files))  BY <1>2, <1>3, <1>5, <1>6, Finds!FoldKeeps
  <1> HIDE DEF q
  <1>8. \A uuid : FoundIn(paths, i, Len(files), uuid) = FoundIn(paths, i + 1, 0, uuid)
    BY FoundNext
  <1>9. CASE q.status = "failed"
    BY <1>4, <1>7, <1>9 DEF FileGood, DirGood, q
  <1>10. CASE q.status # "failed"
    <2>1. Found(q.registry, paths, i, Len(files)) /\ q.options = x.options
      BY <1>4, <1>7, <1>10 DEF FileGood
    <2>2. Found(q.registry, paths, i + 1, 0)  BY <1>8, <2>1 DEF Found
    <2>3. QED  BY <1>4, <1>7, <2>1, <2>2 DEF FileGood, DirGood, q
  <1>11. QED  BY <1>9, <1>10

LEMMA LibrariesFound ==
  ASSUME NEW p, IsProgram(p), p.registry = <<>>
  PROVE  DirGood(p, FindLibraries(p), Len(p.options.elementPaths))
  <1> DEFINE paths == p.options.elementPaths
             at == [i \in DOMAIN paths |-> i]
  <1>1. Len(paths) \in Nat /\ DOMAIN paths = 1..Len(paths) /\ DOMAIN at = 1..Len(paths)
    <2>1. paths \in Seq(Searched(p))  BY DEF IsProgram
    <2>2. QED  BY <2>1
  <1>2. DirGood(p, p, 0)
    <2>1. Entries(<<>>) /\ Distinct(<<>>)
      <3>1. <<>> \in Seq({})  OBVIOUS
      <3>2. QED  BY <3>1 DEF Entries, Distinct
    <2>2. Found(<<>>, paths, 1, 0)  BY <2>1, FoundNone DEF Found
    <2>3. QED  BY <2>2 DEF DirGood, FileGood, Onward, IsProgram
  <1>3. Searches!KeepsTo(p, at, Len(paths))
    <2> SUFFICES ASSUME NEW m \in Nat, NEW v, m + 1 \in 1..Len(paths), DirGood(p, v, m)
                 PROVE  DirGood(p, DirStep(p, v, at[m + 1]), m + 1)
      BY DEF Searches!KeepsTo
    <2>1. PICK n : n = m + 1  OBVIOUS
    <2>2. at[n] = n /\ n \in DOMAIN paths  BY <1>1, <2>1
    <2>3. DirGood(p, DirStep(p, v, n), n)  BY <2>1, <2>2, DirKeeps
    <2>4. QED  BY <2>1, <2>2, <2>3
  <1>4. FindLibraries(p) = Searches!Folded(p, p, at)
    BY DEF FindLibraries, FoldLeftDomain, DirStep, FoldLeft, MapThenFoldSet, Max, Searches!Folded,
           Searches!FoldLeft, Searches!MapThenFoldSet, Searches!Max
  <1>5. QED  BY <1>1, <1>2, <1>3, <1>4, Searches!FoldKeeps

\* The directories every program searches are searched too.
LEMMA PathsAdded ==
  ASSUME NEW p, IsProgram(p)
  PROVE  PathGood(p, FoldLeft(AddPath, p, SharedPaths), 3)
  <1>1. DOMAIN SharedPaths = 1..3 /\ 3 \in Nat  BY DEF SharedPaths
  <1>2. PathGood(p, p, 0)  BY DEF PathGood, Onward, IsProgram
  <1>3. Adds!KeepsTo(p, SharedPaths, 3)
    <2> SUFFICES ASSUME NEW m \in Nat, NEW v, m + 1 \in 1..3, PathGood(p, v, m)
                 PROVE  PathGood(p, AddPath(v, SharedPaths[m + 1]), m + 1)
      BY DEF Adds!KeepsTo, PathStep
    <2>1. SharedPaths[m + 1] \in ToSet(SharedPaths)  BY <1>1 DEF ToSet
    <2>2. PICK path : path = SharedPaths[m + 1]  OBVIOUS
    <2> DEFINE q == AddPath(v, path)
    <2>3. IsProgram(v) /\ path \in Searched(v)  BY <2>1, <2>2 DEF PathGood, Searched
    <2>4. /\ Onward(v, q) /\ q.registry = v.registry /\ q.needed = v.needed /\ q.elements = v.elements
          /\ "elementPaths" \in DOMAIN q.options /\ q.options.elementPaths \in Seq(Searched(v))
      BY <2>3, AddPathKeeps
    <2> HIDE DEF q
    <2>5. /\ DOMAIN q = ProgramFields /\ q.driver = v.driver /\ q.argv = v.argv /\ q.at = v.at
          /\ Searched(q) = Searched(v)
      BY <2>4 DEF Onward, ProgramFields, Searched
    <2>6. IsProgram(q)  BY <2>3, <2>4, <2>5 DEF IsProgram
    <2>7. Onward(p, q)  BY <2>4 DEF PathGood, Onward
    <2>8. QED  BY <2>2, <2>4, <2>6, <2>7 DEF PathGood, q
  <1>4. FoldLeft(AddPath, p, SharedPaths) = Adds!Folded(p, p, SharedPaths)
    BY DEF FoldLeft, MapThenFoldSet, Max, Adds!Folded, Adds!FoldLeft, Adds!MapThenFoldSet,
           Adds!Max, PathStep
  <1>5. QED  BY <1>1, <1>2, <1>3, <1>4, Adds!FoldKeeps

IsListOf(list, n) == n \in Nat /\ DOMAIN list = 1..n /\ list = [j \in 1..n |-> list[j]]
LEMMA NeededLists == \A d \in DOMAIN NeededElements : \E n : IsListOf(NeededElements[d], n)
  <1>1. IsListOf(MfmsimElements, 8)  BY DEF MfmsimElements, IsListOf
  <1>2. IsListOf(BigtileElements, 7)  BY DEF BigtileElements, IsListOf
  <1>3. IsListOf(HeadlessElements, 5)  BY DEF HeadlessElements, IsListOf
  <1>4. IsListOf(DhaElements, 16)  BY DEF DhaElements, IsListOf
  <1>5. IsListOf(SBarElements, 6)  BY DEF SBarElements, IsListOf
  <1>6. IsListOf(MfmcElements, 31)  BY DEF MfmcElements, IsListOf
  <1>7. QED  BY <1>1, <1>2, <1>3, <1>4, <1>5, <1>6 DEF NeededElements

LEMMA NeedsAdded ==
  ASSUME NEW p, DOMAIN p = ProgramFields, p.driver \in DOMAIN NeededElements, p.needed = <<>>
  PROVE  LET q == FoldLeft(NeedElement, p, NeededElements[p.driver])
         IN  /\ Onward(p, q) /\ q.options = p.options /\ q.registry = p.registry /\ q.elements = p.elements
             /\ q.status = "failed" \/ q.needed = NeededElements[p.driver]
  <1> DEFINE list == NeededElements[p.driver]
             q == FoldLeft(NeedElement, p, list)
  <1>1. PICK n : IsListOf(list, n)  BY NeededLists
  <1>2. n \in Nat /\ DOMAIN list = 1..n  BY <1>1 DEF IsListOf
  <1>3. NeedGood(p, p, 0)
    <2>1. <<>> = [j \in 1..0 |-> list[j]]  OBVIOUS
    <2>2. QED  BY <2>1 DEF NeedGood, Onward
  <1>4. Needs!KeepsTo(p, list, n)
    <2> SUFFICES ASSUME NEW m \in Nat, NEW v, m + 1 \in 1..n, NeedGood(p, v, m)
                 PROVE  NeedGood(p, NeedElement(v, list[m + 1]), m + 1)
      BY DEF Needs!KeepsTo, NeedStep
    <2>1. DOMAIN v = ProgramFields  BY DEF NeedGood, Onward
    <2>2. CASE NeedElement(v, list[m + 1]) = FailIn(v)
      BY <2>1, <2>2 DEF NeedGood, Onward, FailIn, ProgramFields
    <2>3. CASE v.status # "failed" /\ NeedElement(v, list[m + 1]) = [v EXCEPT !.needed = Append(@, list[m + 1])]
      <3>1. v.needed = [j \in 1..m |-> list[j]]  BY <2>3 DEF NeedGood
      <3>2. Append(v.needed, list[m + 1]) = [j \in 1..m + 1 |-> list[j]]
        <4> HIDE DEF list
        <4>1. \A l : Append([j \in 1..m |-> l[j]], l[m + 1]) = [j \in 1..m + 1 |-> l[j]]  OBVIOUS
        <4>2. QED  BY <3>1, <4>1
      <3>3. QED  BY <2>1, <2>3, <3>2 DEF NeedGood, Onward, ProgramFields
    <2>4. QED  BY <2>2, <2>3 DEF NeedElement
  <1>5. q = Needs!Folded(p, p, list)
    BY DEF FoldLeft, MapThenFoldSet, Max, Needs!Folded, Needs!FoldLeft, Needs!MapThenFoldSet,
           Needs!Max, NeedStep
  <1>6. NeedGood(p, q, n)  BY <1>2, <1>3, <1>4, <1>5, Needs!FoldKeeps
  <1> HIDE DEF q
  <1>7. [j \in 1..n |-> list[j]] = list  BY <1>1 DEF IsListOf
  <1>8. QED  BY <1>6, <1>7 DEF NeedGood, q

LEMMA MadeKeeps ==
  ASSUME NEW p, IsProgram(p), Stage(p), p.status = "directory"
  PROVE  /\ ProgramInv(Made(p)) /\ Made(p).status \in {"made", "failed"}
         /\ SimulationOf(Made(p)) = SimulationOf(p)
  <1> DEFINE q == FoldLeft(AddPath, p, SharedPaths)
             r == FindLibraries(q)
             s == KnowElements(p)
  <1>1. DOMAIN p = ProgramFields /\ p.registry = <<>> /\ p.needed = <<>> /\ p.elements = <<>>
        /\ p.driver \in DOMAIN NeededElements
    BY DEF IsProgram, Stage
  <1>2. CASE Made(p) = FailIn(p)
    BY <1>1, <1>2 DEF FailIn, ProgramFields, ProgramInv, Ended, SimulationOf
  <1>3. PathGood(p, q, 3)  BY PathsAdded
  <1>4. s = FoldLeft(NeedElement, r, NeededElements[p.driver])  BY DEF KnowElements
  <1> HIDE DEF q
  <1>5. IsProgram(q) /\ q.registry = <<>> /\ q.needed = <<>> /\ q.elements = <<>> /\ Onward(p, q)
    BY <1>1, <1>3 DEF PathGood
  <1> DEFINE paths == q.options.elementPaths
  <1>6. DirGood(q, r, Len(paths))  BY <1>5, LibrariesFound
  <1> HIDE DEF r
  <1>7. /\ Onward(q, r) /\ r.options = q.options /\ r.needed = <<>> /\ r.elements = <<>>
        /\ r.status = "failed" \/ Found(r.registry, paths, Len(paths) + 1, 0)
    BY <1>5, <1>6 DEF DirGood, FileGood
  <1>8. DOMAIN r = ProgramFields /\ r.driver = p.driver  BY <1>5, <1>7 DEF Onward, ProgramFields
  <1>9. /\ Onward(r, s) /\ s.options = r.options /\ s.registry = r.registry /\ s.elements = <<>>
        /\ s.status = "failed" \/ s.needed = NeededElements[p.driver]
    BY <1>1, <1>4, <1>7, <1>8, NeedsAdded
  <1> HIDE DEF s
  <1>10. Onward(p, s)  BY <1>5, <1>7, <1>9 DEF Onward
  <1>11. SimulationOf(s) = SimulationOf(p)  BY <1>10 DEF Onward, ProgramFields, SimulationOf
  <1>12. CASE Made(p) = s /\ s.status = "failed"
    BY <1>11, <1>12 DEF ProgramInv, Ended
  <1>13. CASE s.status # "failed" /\ Made(p) = [s EXCEPT !.status = "made"]
    <2> DEFINE t == [s EXCEPT !.status = "made"]
    <2>1. /\ DOMAIN t = ProgramFields /\ t.status = "made"
          /\ \A field \in ProgramFields \ {"status"} : t[field] = s[field]
      BY <1>10 DEF Onward, ProgramFields
    <2> HIDE DEF t
    <2>2. SimulationOf(t) = SimulationOf(p)  BY <1>11, <2>1 DEF SimulationOf, ProgramFields
    <2>3. t.options = q.options /\ t.driver = p.driver /\ t.argv = p.argv /\ t.at = p.at
      BY <1>7, <1>9, <1>10, <2>1 DEF Onward, ProgramFields
    <2>4. IsProgram(t)
      <3>1. q.driver = p.driver /\ q.argv = p.argv /\ q.at = p.at  BY <1>5 DEF Onward, ProgramFields
      <3>2. Searched(t) = Searched(q)  BY <2>3, <3>1 DEF Searched
      <3>3. QED  BY <1>5, <2>1, <2>3, <3>1, <3>2 DEF IsProgram
    <2>5. s.status \in {r.status, "failed"}  BY <1>9 DEF Onward
    <2>6. Found(t.registry, t.options.elementPaths, Len(t.options.elementPaths) + 1, 0)
          /\ t.needed = NeededElements[t.driver] /\ t.elements = <<>>
      BY <1>7, <1>9, <1>13, <2>1, <2>3, <2>5 DEF ProgramFields
    <2>7. Stage(t)  BY <2>1, <2>6 DEF Stage
    <2>8. QED  BY <1>13, <2>1, <2>2, <2>4, <2>7 DEF ProgramInv, t
  <1>14. QED  BY <1>2, <1>12, <1>13 DEF Made, s
-----------------------------------------------------------------------------
(* What Reinit makes of a program *)

\* An element more is registered, unless a library of it was found.
LEMMA UseKeeps ==
  ASSUME NEW x, NEW k \in Nat, NEW m, m = k + 1, NEW v, UseGood(x, v, k), NEW e, e = x.list[m]
  PROVE  UseGood(x, GridNeeds(v, e), m)
  <1> DEFINE entry == [uuid |-> e, loaded |-> TRUE, path |-> 0]
             q == RegisterLoaded(v, e)
             t == GridNeeds(v, e)
             paths == v.options.elementPaths
  <1>1. DOMAIN v = ProgramFields  BY DEF UseGood, Onward
  <1>2. Registers(v, entry, q) /\ entry.uuid = e /\ entry.loaded /\ entry.path = 0
        /\ DOMAIN entry = {"uuid", "loaded", "path"}
    BY <1>1, RegisterGrows DEF RegisterLoaded
  <1> HIDE DEF entry, q
  <1>3. /\ DOMAIN t = ProgramFields
        /\ \A field \in ProgramFields \ {"elements"} : t[field] = q[field]
        /\ \/ Contains(q.elements, e) /\ t.elements = q.elements
           \/ t.elements = Append(q.elements, e)
    BY <1>2 DEF GridNeeds, q, Registers, ProgramFields
  <1> HIDE DEF t
  <1>4. /\ \A field \in ProgramFields \ {"registry", "status", "elements"} : t[field] = v[field]
        /\ t.status = q.status /\ q.elements = v.elements /\ t.registry = q.registry
    BY <1>2, <1>3 DEF Registers, ProgramFields
  <1>5. Onward(x.p, t) /\ t.options = x.p.options /\ t.needed = x.p.needed
    BY <1>2, <1>3, <1>4 DEF UseGood, Onward, Registers, ProgramFields
  <1>6. CASE t.status = "failed"  BY <1>5, <1>6 DEF UseGood, t
  <1>7. CASE t.status # "failed"
    <2>1. v.status # "failed"  BY <1>2, <1>4, <1>7 DEF Registers
    <2>2. PICK S : v.elements \in Seq(S)  BY <2>1 DEF UseGood
    <2>3. Grown(v.registry, paths, v.elements) /\ \A j \in 1..k : x.list[j] \in ToSet(v.elements)
      BY <2>1 DEF UseGood
    <2>4. (\E T : t.elements \in Seq(T)) /\ ToSet(t.elements) = ToSet(v.elements) \cup {e}
      <3>1. CASE Contains(v.elements, e) /\ t.elements = v.elements
        BY <2>2, <3>1 DEF Contains, ToSet
      <3>2. CASE t.elements = Append(v.elements, e)
        <4>1. Extends(Append(v.elements, e), v.elements, e)  BY <2>2, Grows
        <4>2. ToSet(Append(v.elements, e)) = ToSet(v.elements) \cup {e}  BY <2>2, GrowsSet
        <4>3. \E T : Append(v.elements, e) \in Seq(T)  BY <4>1 DEF Extends
        <4>4. QED  BY <3>2, <4>2, <4>3
      <3>3. QED  BY <1>3, <1>4, <3>1, <3>2
    <2>5. \A j \in 1..m : x.list[j] \in ToSet(t.elements)
      <3>1. \A j \in 1..m : j \in 1..k \/ j = m  OBVIOUS
      <3>2. QED  BY <2>3, <2>4, <3>1
    <2> DEFINE r == v.registry
               s == t.registry
    <2>6. \/ s = r /\ Knows(r, e)
          \/ s = Append(r, entry) /\ ~Knows(r, e)
      BY <1>2, <1>4, <1>7 DEF Registers
    <2> HIDE DEF r, s, paths
    <2>7. Grown(r, paths, v.elements)  BY <2>3 DEF r
    <2>8. Grown(s, paths, t.elements)
      <3>1. CASE s = r /\ Knows(r, e)  BY <2>4, <2>7, <3>1 DEF Grown
      <3>2. CASE s = Append(r, entry) /\ ~Knows(r, e)
        <4>1. Entries(r) /\ Distinct(r)  BY <2>7 DEF Grown
        <4>2. Extends(s, r, entry)  BY <3>2, <4>1, Grows DEF Entries
        <4>3. \A n \in DOMAIN s : n \in DOMAIN r \/ n = Len(r) + 1  BY <4>2 DEF Extends
        <4>4. Libraries(paths, e) = {}  BY <2>7, <3>2 DEF Grown
        <4>5. Entries(s)
          <5>1. \E T : s \in Seq(T)  BY <4>2 DEF Extends
          <5>2. \A n \in DOMAIN r : DOMAIN r[n] = {"uuid", "loaded", "path"}  BY <4>1 DEF Entries
          <5>3. \A n \in DOMAIN s : s[n] = entry \/ (n \in DOMAIN r /\ s[n] = r[n])
            BY <4>2, <4>3 DEF Extends
          <5>4. \A n \in DOMAIN s : DOMAIN s[n] = {"uuid", "loaded", "path"}  BY <1>2, <5>2, <5>3
          <5>5. QED  BY <5>1, <5>4 DEF Entries
        <4>6. Distinct(s)  BY <1>2, <3>2, <4>1, <4>2 DEF Extends, Distinct, Knows
        <4>7. Knows(s, e)  BY <1>2, <4>2 DEF Knows, Extends
        <4>8. \A uuid : Knows(r, uuid) => Knows(s, uuid)  BY <4>2 DEF Knows, Extends
        <4>9. LastIn({}, 0)  BY DEF LastIn
        <4>10. \A n \in DOMAIN s :
                 /\ s[n].loaded <=> Libraries(paths, s[n].uuid) = {}
                 /\ s[n].loaded => s[n].uuid \in ToSet(t.elements)
                 /\ LastIn(Libraries(paths, s[n].uuid), s[n].path)
          <5> TAKE n \in DOMAIN s
          <5>1. CASE n \in DOMAIN r  BY <2>4, <2>7, <4>2, <5>1 DEF Grown, Extends
          <5>2. CASE n = Len(r) + 1
            <6>1. s[n] = entry  BY <4>2, <5>2 DEF Extends
            <6>2. QED  BY <1>2, <2>4, <4>4, <4>9, <6>1
          <5>3. QED  BY <4>3, <5>1, <5>2
        <4>11. \A uuid : Libraries(paths, uuid) # {} \/ uuid \in ToSet(t.elements) => Knows(s, uuid)
          BY <2>4, <2>7, <4>7, <4>8 DEF Grown
        <4>12. QED  BY <4>5, <4>6, <4>10, <4>11 DEF Grown
      <3>3. QED  BY <2>6, <3>1, <3>2
    <2>9. t.options.elementPaths = paths  BY <1>4 DEF ProgramFields, paths
    <2>10. QED  BY <1>5, <2>4, <2>5, <2>8, <2>9 DEF UseGood, t, s
  <1>8. QED  BY <1>6, <1>7

\* The libraries of RegistryKept are the ones that were found.
LEMMA FoundThere ==
  ASSUME NEW files, IsList(files), NEW uuid
  PROVE  uuid \in {file.uuid : file \in {f \in ToSet(files) : f.legal}} <=> uuid \in LegalIn(files, Len(files))
  BY Legal DEF ToSet, LegalIn
LEMMA LibrariesThere ==
  ASSUME NEW paths, Len(paths) \in Nat, DOMAIN paths = 1..Len(paths), NEW uuid
  PROVE  /\ Libraries(paths, uuid) = {i \in DOMAIN paths : uuid \in LegalIn(Files(paths[i]), Len(Files(paths[i])))}
         /\ Libraries(paths, uuid) \in SUBSET Nat
  <1>1. \A files : LegalIn(files, 0) = {}  BY DEF LegalIn
  <1>2. \A j \in 1..Len(paths) + 1 : j \in 1..Len(paths) \/ j = Len(paths) + 1  OBVIOUS
  <1>3. \A j \in 1..Len(paths) : j \in 1..Len(paths) + 1 /\ j < Len(paths) + 1 /\ j \in Nat  OBVIOUS
  <1>4. Libraries(paths, uuid) = {i \in DOMAIN paths : uuid \in LegalIn(Files(paths[i]), Len(Files(paths[i])))}
    BY <1>1, <1>2, <1>3 DEF Libraries, FoundIn
  <1>5. QED  BY <1>3, <1>4

LEMMA GrownIsKept ==
  ASSUME NEW p, IsProgram(p), Grown(p.registry, p.options.elementPaths, p.elements)
  PROVE  RegistryKept(p)
  <1> DEFINE paths == p.options.elementPaths
             found(i) == {file.uuid : file \in {f \in ToSet(Files(paths[i])) : f.legal}}
             libraries == UNION {found(i) : i \in DOMAIN paths}
             uuids == {p.registry[k].uuid : k \in DOMAIN p.registry}
  <1>1. Len(paths) \in Nat /\ DOMAIN paths = 1..Len(paths) /\ \A i \in DOMAIN paths : IsList(Files(paths[i]))
    <2>1. paths \in Seq(Searched(p)) /\ \A path \in Searched(p) : IsList(Files(path))  BY DEF IsProgram
    <2>2. QED  BY <2>1
  <1>2. \A i \in DOMAIN paths : \A uuid : uuid \in found(i) <=> uuid \in LegalIn(Files(paths[i]), Len(Files(paths[i])))
    BY <1>1, FoundThere
  <1>3. \A uuid : Libraries(paths, uuid) = {i \in DOMAIN paths : uuid \in found(i)}
                  /\ Libraries(paths, uuid) \in SUBSET Nat
    <2> HIDE DEF found
    <2> TAKE uuid
    <2>1. Libraries(paths, uuid) = {i \in DOMAIN paths : uuid \in LegalIn(Files(paths[i]), Len(Files(paths[i])))}
          /\ Libraries(paths, uuid) \in SUBSET Nat
      BY <1>1, LibrariesThere
    <2>2. QED  BY <1>2, <2>1
  <1> HIDE DEF found
  <1>4. \A uuid : uuid \in libraries <=> Libraries(paths, uuid) # {}  BY <1>3
  <1>5. \A k \in DOMAIN p.registry :
          /\ p.registry[k].loaded <=> p.registry[k].uuid \notin libraries
          /\ p.registry[k].loaded => p.registry[k].uuid \in ToSet(p.elements)
          /\ LastIn(Libraries(paths, p.registry[k].uuid), p.registry[k].path)
    <2> HIDE DEF libraries
    <2>1. QED  BY <1>4 DEF Grown
  <1>6. \A uuid : uuid \in libraries \/ uuid \in ToSet(p.elements) => Knows(p.registry, uuid)
    <2> HIDE DEF libraries
    <2>1. QED  BY <1>4 DEF Grown
  <1> HIDE DEF libraries
  <1>7. uuids = libraries \cup ToSet(p.elements)
    <2>1. \A uuid \in uuids : uuid \in libraries \cup ToSet(p.elements)  BY <1>5
    <2>2. \A uuid \in libraries \cup ToSet(p.elements) : uuid \in uuids  BY <1>6 DEF Knows
    <2>3. QED  BY <2>1, <2>2
  <1>8. \A k \in DOMAIN p.registry :
          p.registry[k].path = Max({0} \cup {i \in DOMAIN paths : p.registry[k].uuid \in found(i)})
    <2> TAKE k \in DOMAIN p.registry
    <2>1. PICK S : S = Libraries(paths, p.registry[k].uuid)  OBVIOUS
    <2>2. S \in SUBSET Nat /\ S = {i \in DOMAIN paths : p.registry[k].uuid \in found(i)}
      BY <1>3, <2>1
    <2>3. p.registry[k].path = Max({0} \cup S)  BY <1>5, <2>1, <2>2, LastIsMost
    <2>4. QED  BY <2>2, <2>3
  <1>9. Distinct(p.registry)  BY DEF Grown
  <1>10. QED  BY <1>5, <1>7, <1>8, <1>9 DEF RegistryKept, Distinct, found, libraries
-----------------------------------------------------------------------------
(* What is in the worlds at first *)

\* An atom of one of the drivers' worlds, and that there is one at most on a site.
Apart(eden) == \A atom, other \in eden : atom[2] = other[2] => atom = other
Named(eden, elements) == {placed[1] : placed \in eden} \subseteq elements

IsSorter(atom, down) ==
  \E x \in 0..4, y \in 0..2, z \in 0..3 : atom = <<"Sorter", <<11 + x * 32 + z, down + 1 + y * 32>>>>
IsDreg(atom, down) ==
  \E x \in 0..4, y \in 0..2, z \in 0..3 : atom = <<"Dreg", <<10 + x * 32 + z, down + y * 32>>>>
LEMMA InRows ==
  ASSUME NEW down \in Int, NEW atom \in EdenRows(5, 3, down)
  PROVE  IsSorter(atom, down) \/ IsDreg(atom, down)
  BY DEF EdenRows, IsSorter, IsDreg

\* Where the sorters and the Dregs are.
SorterAt(atom, down) ==
  \E a, b \in Int : atom = <<"Sorter", <<a, b>>>> /\ a \in 11..142 /\ b \in {down + 1, down + 33, down + 65}
DregAt(atom, down) ==
  \E a, b \in Int : atom = <<"Dreg", <<a, b>>>> /\ a \in 10..141 /\ b \in {down, down + 32, down + 64}
LEMMA RowsAt ==
  ASSUME NEW down \in Int, NEW atom \in EdenRows(5, 3, down)
  PROVE  SorterAt(atom, down) \/ DregAt(atom, down)
  <1>1. CASE IsSorter(atom, down)
    <2>1. PICK x \in 0..4, y \in 0..2, z \in 0..3 : atom = <<"Sorter", <<11 + x * 32 + z, down + 1 + y * 32>>>>
      BY <1>1 DEF IsSorter
    <2>2. 11 + x * 32 + z \in 11..142 /\ down + 1 + y * 32 \in {down + 1, down + 33, down + 65}
          /\ 11 + x * 32 + z \in Int /\ down + 1 + y * 32 \in Int
      OBVIOUS
    <2>3. QED  BY <2>1, <2>2 DEF SorterAt
  <1>2. CASE IsDreg(atom, down)
    <2>1. PICK x \in 0..4, y \in 0..2, z \in 0..3 : atom = <<"Dreg", <<10 + x * 32 + z, down + y * 32>>>>
      BY <1>2 DEF IsDreg
    <2>2. 10 + x * 32 + z \in 10..141 /\ down + y * 32 \in {down, down + 32, down + 64}
          /\ 10 + x * 32 + z \in Int /\ down + y * 32 \in Int
      OBVIOUS
    <2>3. QED  BY <2>1, <2>2 DEF DregAt
  <1>3. QED  BY <1>1, <1>2, InRows

\* A wall is at the edges.
WallAt(atom) ==
  \E a, b \in Int :
    /\ atom = <<"Wall", <<a, b>>>>
    /\ a \in 0..167 /\ b \in 0..103
    /\ a <= 3 \/ a >= 164 \/ b <= 3 \/ b >= 100
LEMMA WallsAt ==
  ASSUME NEW atom \in SurroundRectangleWithWall(3, 3, 161, 97, 4)
  PROVE  WallAt(atom)
  <1>1. PICK k \in 0..3 :
          \E a \in (3 - k)..(164 + k), b \in (3 - k)..(100 + k) :
            atom = <<"Wall", <<a, b>>>> /\ (a \in {3 - k, 164 + k} \/ b \in {3 - k, 100 + k})
    <2>1. PICK k \in 0..3 :
            atom \in {<<"Wall", site>> : site \in {3 - k, 3 + 161 + k} \X ((3 - k)..(3 + 97 + k))
                                                  \cup ((3 - k)..(3 + 161 + k)) \X {3 - k, 3 + 97 + k}}
      BY DEF SurroundRectangleWithWall
    <2>2. PICK site \in {3 - k, 3 + 161 + k} \X ((3 - k)..(3 + 97 + k))
                        \cup ((3 - k)..(3 + 161 + k)) \X {3 - k, 3 + 97 + k} : atom = <<"Wall", site>>
      BY <2>1
    <2>3. PICK a \in (3 - k)..(164 + k), b \in (3 - k)..(100 + k) :
            site = <<a, b>> /\ (a \in {3 - k, 164 + k} \/ b \in {3 - k, 100 + k})
      <3>1. CASE site \in {3 - k, 3 + 161 + k} \X ((3 - k)..(3 + 97 + k))
        <4>1. PICK a \in {3 - k, 3 + 161 + k}, b \in (3 - k)..(3 + 97 + k) : site = <<a, b>>  BY <3>1
        <4>2. QED  BY <4>1
      <3>2. CASE site \in ((3 - k)..(3 + 161 + k)) \X {3 - k, 3 + 97 + k}
        <4>1. PICK a \in (3 - k)..(3 + 161 + k), b \in {3 - k, 3 + 97 + k} : site = <<a, b>>  BY <3>2
        <4>2. QED  BY <4>1
      <3>3. QED  BY <2>2, <3>1, <3>2
    <2>4. QED  BY <2>2, <2>3
  <1>2. QED  BY <1>1 DEF WallAt

LEMMA SameSite ==
  ASSUME NEW a, NEW b, NEW c, NEW d, <<a, b>> = <<c, d>>
  PROVE  a = c /\ b = d
  OBVIOUS

LEMMA MfmsimApart == Apart(MfmsimEden) /\ Named(MfmsimEden, {"Sorter", "Dreg", "Emitter", "Consumer"})
  <1> DEFINE Odd == {<<"Emitter", <<158, 48>>>>, <<"Consumer", <<0, 48>>>>}
  <1>1. \A atom \in MfmsimEden : SorterAt(atom, 14) \/ DregAt(atom, 14) \/ atom \in Odd
    BY RowsAt DEF MfmsimEden
  <1>2. \A atom \in MfmsimEden : atom[1] \in {"Sorter", "Dreg", "Emitter", "Consumer"}
    BY <1>1 DEF SorterAt, DregAt
  <1>3. ASSUME NEW atom \in MfmsimEden, NEW other \in MfmsimEden, atom[2] = other[2]  PROVE atom = other
    <2>1. PICK a, b : atom = <<atom[1], <<a, b>>>> /\ a \in Int /\ b \in Int
                      /\ \/ atom[1] = "Sorter" /\ b \in {15, 47, 79}
                         \/ atom[1] = "Dreg" /\ b \in {14, 46, 78}
                         \/ atom[1] = "Emitter" /\ a = 158 /\ b = 48
                         \/ atom[1] = "Consumer" /\ a = 0 /\ b = 48
      BY <1>1 DEF SorterAt, DregAt
    <2>2. PICK c, d : other = <<other[1], <<c, d>>>> /\ c \in Int /\ d \in Int
                      /\ \/ other[1] = "Sorter" /\ d \in {15, 47, 79}
                         \/ other[1] = "Dreg" /\ d \in {14, 46, 78}
                         \/ other[1] = "Emitter" /\ c = 158 /\ d = 48
                         \/ other[1] = "Consumer" /\ c = 0 /\ d = 48
      BY <1>1 DEF SorterAt, DregAt
    <2>3. a = c /\ b = d
      <3>1. atom[2] = <<a, b>> /\ other[2] = <<c, d>>  BY <2>1, <2>2
      <3>2. QED  BY <1>3, <3>1, SameSite
    <2>4. atom[1] = other[1]  BY <2>1, <2>2, <2>3
    <2>5. QED  BY <2>1, <2>2, <2>3, <2>4
  <1>4. QED  BY <1>2, <1>3 DEF Apart, Named

LEMMA BigtileApart == Apart(BigtileEden) /\ Named(BigtileEden, {"Sorter", "Dreg", "Emitter", "Consumer", "Wall"})
  <1> DEFINE Odd == {<<"Emitter", <<162, 10>>>>, <<"Consumer", <<5, 14>>>>, <<"Consumer", <<6, 15>>>>}
  <1>1. \A atom \in BigtileEden : SorterAt(atom, 10) \/ DregAt(atom, 10) \/ WallAt(atom) \/ atom \in Odd
    BY RowsAt, WallsAt DEF BigtileEden
  <1>2. \A atom \in BigtileEden : atom[1] \in {"Sorter", "Dreg", "Emitter", "Consumer", "Wall"}
    BY <1>1 DEF SorterAt, DregAt, WallAt
  <1> DEFINE Of(atom, a, b) ==
               /\ atom = <<atom[1], <<a, b>>>> /\ a \in Int /\ b \in Int
               /\ \/ atom[1] = "Sorter" /\ a \in 11..142 /\ b \in {11, 43, 75}
                  \/ atom[1] = "Dreg" /\ a \in 10..141 /\ b \in {10, 42, 74}
                  \/ atom[1] = "Wall" /\ (a <= 3 \/ a >= 164 \/ b <= 3 \/ b >= 100)
                  \/ atom[1] = "Emitter" /\ a = 162 /\ b = 10
                  \/ atom[1] = "Consumer" /\ a \in {5, 6} /\ b \in {14, 15}
  <1>3. ASSUME NEW atom \in BigtileEden  PROVE \E a, b : Of(atom, a, b)
    <2>1. CASE SorterAt(atom, 10)  BY <2>1 DEF SorterAt
    <2>2. CASE DregAt(atom, 10)  BY <2>2 DEF DregAt
    <2>3. CASE WallAt(atom)  BY <2>3 DEF WallAt
    <2>4. CASE atom \in Odd  BY <2>4
    <2>5. QED  BY <1>1, <2>1, <2>2, <2>3, <2>4
  <1>4. ASSUME NEW atom \in BigtileEden, NEW other \in BigtileEden, atom[2] = other[2]  PROVE atom = other
    <2>1. PICK a, b : Of(atom, a, b)  BY <1>3
    <2>2. PICK c, d : Of(other, c, d)  BY <1>3
    <2>3. a = c /\ b = d
      <3>1. atom[2] = <<a, b>> /\ other[2] = <<c, d>>  BY <2>1, <2>2
      <3>2. QED  BY <1>4, <3>1, SameSite
    <2>4. atom[1] = other[1]  BY <2>1, <2>2, <2>3
    <2>5. QED  BY <2>1, <2>2, <2>3, <2>4
  <1>5. QED  BY <1>2, <1>4 DEF Apart, Named

LEMMA EdenIsKept ==
  ASSUME NEW p, p.driver \in DOMAIN NeededElements,
         ToSet(NeededElements[p.driver]) \subseteq ToSet(p.elements)
  PROVE  EdenKept(p)
  <1> DEFINE needed == ToSet(NeededElements[p.driver])
  <1>1. Named(ReinitEden(p.driver), needed) /\ DataReporters(p.driver) \subseteq needed
    <2>1. {"Sorter", "Dreg", "Emitter", "Consumer"} \subseteq ToSet(MfmsimElements)
      <3>1. /\ MfmsimElements[4] = "Sorter" /\ MfmsimElements[2] = "Dreg"
            /\ MfmsimElements[5] = "Emitter" /\ MfmsimElements[6] = "Consumer"
            /\ DOMAIN MfmsimElements = 1..8
        BY DEF MfmsimElements
      <3>2. QED  BY <3>1 DEF ToSet
    <2>2. {"Sorter", "Dreg", "Emitter", "Consumer", "Wall"} \subseteq ToSet(BigtileElements)
      <3>1. /\ BigtileElements[3] = "Sorter" /\ BigtileElements[1] = "Dreg"
            /\ BigtileElements[4] = "Emitter" /\ BigtileElements[5] = "Consumer"
            /\ BigtileElements[7] = "Wall" /\ DOMAIN BigtileElements = 1..7
        BY DEF BigtileElements
      <3>2. QED  BY <3>1 DEF ToSet
    <2>3. {"Emitter", "Consumer"} \subseteq ToSet(DhaElements)
      <3>1. DhaElements[6] = "Emitter" /\ DhaElements[7] = "Consumer" /\ DOMAIN DhaElements = 1..16
        BY DEF DhaElements
      <3>2. QED  BY <3>1 DEF ToSet
    <2>4. "Dreg" \in ToSet(HeadlessElements)
      <3>1. HeadlessElements[1] = "Dreg" /\ DOMAIN HeadlessElements = 1..5  BY DEF HeadlessElements
      <3>2. QED  BY <3>1 DEF ToSet
    <2>5. {"Dreg", "SBar"} \subseteq ToSet(SBarElements)
      <3>1. SBarElements[2] = "Dreg" /\ SBarElements[4] = "SBar" /\ DOMAIN SBarElements = 1..6
        BY DEF SBarElements
      <3>2. QED  BY <3>1 DEF ToSet
    <2>6. CASE p.driver = "mfmsim"
      BY <2>1, <2>6, MfmsimApart DEF NeededElements, ReinitEden, DataReporters, Named
    <2>7. CASE p.driver = "mfmbigtile"
      BY <2>2, <2>7, BigtileApart DEF NeededElements, ReinitEden, DataReporters, Named
    <2>8. CASE p.driver = "mfmheadless"
      <3>1. Named(HeadlessEden, {"Dreg"})  BY DEF HeadlessEden, Named
      <3>2. ReinitEden(p.driver) = HeadlessEden /\ DataReporters(p.driver) = {}
            /\ NeededElements[p.driver] = HeadlessElements
        BY <2>8 DEF NeededElements, ReinitEden, DataReporters
      <3>3. QED  BY <2>4, <3>1, <3>2 DEF Named
    <2>9. CASE p.driver = "sbar"
      <3>1. Named(SBarEden, {"Dreg", "SBar"})  BY DEF SBarEden, Named
      <3>2. ReinitEden(p.driver) = SBarEden /\ DataReporters(p.driver) = {}
            /\ NeededElements[p.driver] = SBarElements
        BY <2>9 DEF NeededElements, ReinitEden, DataReporters
      <3>3. QED  BY <2>5, <3>1, <3>2 DEF Named
    <2>10. CASE p.driver = "mfmdha"
      <3>1. ReinitEden(p.driver) = {} /\ DataReporters(p.driver) = {"Emitter", "Consumer"}
            /\ NeededElements[p.driver] = DhaElements
        BY <2>10 DEF NeededElements, ReinitEden, DataReporters
      <3>2. QED  BY <2>3, <3>1 DEF Named
    <2>11. CASE p.driver \notin {"mfmsim", "mfmbigtile", "mfmheadless", "sbar", "mfmdha"}
      BY <2>11 DEF ReinitEden, DataReporters, Named
    <2>12. QED  BY <2>6, <2>7, <2>8, <2>9, <2>10, <2>11
  <1>2. Apart(ReinitEden(p.driver))
    <2>1. Apart(HeadlessEden)  BY DEF HeadlessEden, Apart
    <2>2. Apart(SBarEden)
      <3>1. \A atom \in SBarEden : atom = <<"Dreg", <<0, 0>>>> \/ atom = <<"SBar", <<80, 48>>>>
        BY DEF SBarEden
      <3>2. <<"Dreg", <<0, 0>>>>[2] = <<0, 0>> /\ <<"SBar", <<80, 48>>>>[2] = <<80, 48>>
            /\ <<0, 0>> # <<80, 48>>
        OBVIOUS
      <3>3. QED  BY <3>1, <3>2 DEF Apart
    <2>3. Apart({})  BY DEF Apart
    <2>4. QED  BY <2>1, <2>2, <2>3, MfmsimApart, BigtileApart DEF ReinitEden
  <1>3. QED  BY <1>1, <1>2 DEF EdenKept, Apart, Named
-----------------------------------------------------------------------------
(* Each step of a program *)

\* All that Reinit registers.
InWorld(d) == <<"Empty">> \o NeededElements[d]
LEMMA InWorldHas ==
  ASSUME NEW d \in DOMAIN NeededElements
  PROVE  \E n \in Nat : DOMAIN InWorld(d) = 1..n
                        /\ \A e \in ToSet(NeededElements[d]) : \E j \in 1..n : InWorld(d)[j] = e
  <1> DEFINE list == NeededElements[d]
  <1>1. PICK n : IsListOf(list, n)  BY NeededLists
  <1>2. n \in Nat /\ DOMAIN list = 1..n /\ list \in Seq(ToSet(list))
    <2>1. n \in Nat /\ DOMAIN list = 1..n /\ list = [j \in 1..n |-> list[j]]  BY <1>1 DEF IsListOf
    <2> HIDE DEF list
    <2>2. \A j \in 1..n : list[j] \in ToSet(list)  BY <2>1 DEF ToSet
    <2>3. list \in [1..n -> ToSet(list)]  BY <2>1, <2>2
    <2>4. QED  BY <2>1, <2>3, IsSeq
  <1> HIDE DEF list
  <1>3. PICK T : T = ToSet(list) \cup {"Empty"}  OBVIOUS
  <1>4. list \in Seq(T) /\ <<"Empty">> \in Seq(T) /\ Len(list) = n /\ Len(<<"Empty">>) = 1
    <2>1. ToSet(list) \subseteq T /\ "Empty" \in T  BY <1>3
    <2>2. list \in Seq(T)  BY <1>2, <2>1, SeqMonotonic
    <2>3. Len(list) = n  BY <1>2
    <2>4. QED  BY <2>1, <2>2, <2>3
  <1>5. Len(<<"Empty">> \o list) = 1 + n /\ <<"Empty">> \o list \in Seq(T)
        /\ \A j \in 1..n : (<<"Empty">> \o list)[1 + j] = list[j]
    <2>1. \A j \in 1..n : 1 + j \in 1..1 + n /\ 1 + j > 1 /\ 1 + j - 1 = j  BY <1>2
    <2>2. QED  BY <1>2, <1>4, <2>1, ConcatProperties
  <1>6. InWorld(d) = <<"Empty">> \o list  BY DEF InWorld, list
  <1>7. DOMAIN InWorld(d) = 1..1 + n /\ 1 + n \in Nat  BY <1>2, <1>5, <1>6
  <1>8. \A e \in ToSet(list) : \E j \in 1..1 + n : InWorld(d)[j] = e
    <2> TAKE e \in ToSet(list)
    <2>1. PICK j \in 1..n : list[j] = e  BY <1>2 DEF ToSet
    <2>2. 1 + j \in 1..1 + n  BY <1>2
    <2>3. QED  BY <1>5, <1>6, <2>1, <2>2
  <1>9. QED  BY <1>7, <1>8 DEF list

\* Reinit of the worlds Init made.
ReadyOf(p) == FoldLeft(GridNeeds, p, <<"Empty">> \o p.needed)
LEMMA ReinitKeeps ==
  ASSUME NEW p, IsProgram(p), Stage(p), p.status = "made"
  PROVE  LET q == ReadyOf(p)
         IN  /\ SimulationOf(q) = SimulationOf(p) /\ DOMAIN q = ProgramFields
             /\ q.status = "failed" \/
                  /\ ProgramInv([q EXCEPT !.status = "running"])
                  /\ SimulationOf([q EXCEPT !.status = "running"]) = SimulationOf(p)
  <1> DEFINE list == InWorld(p.driver)
             x == [p |-> p, list |-> list]
             q == ReadyOf(p)
             t == [q EXCEPT !.status = "running"]
             paths == p.options.elementPaths
  <1>1. /\ DOMAIN p = ProgramFields /\ p.driver \in DOMAIN NeededElements
        /\ Found(p.registry, paths, Len(paths) + 1, 0)
        /\ p.needed = NeededElements[p.driver] /\ p.elements = <<>>
    BY DEF IsProgram, Stage
  <1>2. PICK n \in Nat : DOMAIN list = 1..n
                         /\ \A e \in ToSet(NeededElements[p.driver]) : \E j \in 1..n : list[j] = e
    BY <1>1, InWorldHas
  <1> HIDE DEF list
  <1>3. x.p = p /\ x.list = list  OBVIOUS
  <1> HIDE DEF x
  <1>4. UseGood(x, p, 0)
    <2>1. Grown(p.registry, paths, <<>>)
      <3>1. \A uuid : Libraries(paths, uuid) = FoundIn(paths, Len(paths) + 1, 0, uuid)
        BY DEF Libraries
      <3>2. ToSet(<<>>) = {}  BY DEF ToSet
      <3>3. QED  BY <1>1, <3>1, <3>2 DEF Found, Grown
    <2>2. <<>> \in Seq({})  OBVIOUS
    <2>3. QED  BY <1>1, <1>3, <2>1, <2>2 DEF UseGood, Onward
  <1>5. Employs!KeepsTo(x, list, n)
    <2> SUFFICES ASSUME NEW m \in Nat, NEW v, m + 1 \in 1..n, UseGood(x, v, m)
                 PROVE  UseGood(x, GridNeeds(v, list[m + 1]), m + 1)
      BY DEF Employs!KeepsTo, UseStep
    <2>1. PICK l : l = m + 1  OBVIOUS
    <2>2. UseGood(x, GridNeeds(v, list[l]), l)  BY <1>3, <2>1, UseKeeps
    <2>3. QED  BY <2>1, <2>2
  <1>6. q = Employs!Folded(x, p, list)
    BY <1>1 DEF ReadyOf, list, InWorld, FoldLeft, MapThenFoldSet, Max, Employs!Folded, Employs!FoldLeft,
                Employs!MapThenFoldSet, Employs!Max, UseStep
  <1>7. UseGood(x, q, n)  BY <1>2, <1>4, <1>5, <1>6, Employs!FoldKeeps
  <1> HIDE DEF q
  <1>8. Onward(p, q) /\ q.options = p.options  BY <1>3, <1>7 DEF UseGood
  <1>9. SimulationOf(q) = SimulationOf(p) /\ DOMAIN q = ProgramFields
    BY <1>8 DEF Onward, ProgramFields, SimulationOf
  <1>10. CASE q.status = "failed"  BY <1>9, <1>10 DEF q
  <1>11. CASE q.status # "failed"
    <2>1. /\ DOMAIN t = ProgramFields /\ t.status = "running"
          /\ \A field \in ProgramFields \ {"status"} : t[field] = q[field]
      BY <1>9 DEF ProgramFields
    <2> HIDE DEF t
    <2>2. SimulationOf(t) = SimulationOf(p)  BY <1>9, <2>1 DEF SimulationOf, ProgramFields
    <2>3. t.options = p.options /\ t.driver = p.driver /\ t.argv = p.argv /\ t.at = p.at
      BY <1>8, <2>1 DEF Onward, ProgramFields
    <2>4. IsProgram(t)
      <3>1. Searched(t) = Searched(p)  BY <2>3 DEF Searched
      <3>2. QED  BY <2>1, <2>3, <3>1 DEF IsProgram
    <2>5. Grown(t.registry, t.options.elementPaths, t.elements)
      BY <1>7, <1>11, <2>1 DEF UseGood, ProgramFields
    <2>6. RegistryKept(t)  BY <2>4, <2>5, GrownIsKept
    <2>7. ToSet(NeededElements[t.driver]) \subseteq ToSet(t.elements)
      <3>1. \A j \in 1..n : list[j] \in ToSet(t.elements)
        BY <1>3, <1>7, <1>11, <2>1 DEF UseGood, ProgramFields
      <3>2. QED  BY <1>2, <2>3, <3>1
    <2>8. EdenKept(t)  BY <1>1, <2>3, <2>7, EdenIsKept
    <2>9. Stage(t)  BY <2>1, <2>6, <2>8 DEF Stage
    <2>10. QED  BY <1>9, <2>2, <2>4, <2>9 DEF ProgramInv, t, q
  <1>12. QED  BY <1>10, <1>11

LEMMA ChosenKeeps ==
  ASSUME NEW p, IsProgram(p), Stage(p), p.status = "arguments", NEW q,
         q \in {p, SetDataDir(p, "")}, q.status = "arguments"
  PROVE  ProgramInv([q EXCEPT !.status = "directory"]) /\ ~Writes([q EXCEPT !.status = "directory"])
  <1> DEFINE t == [q EXCEPT !.status = "directory"]
  <1>1. DOMAIN p = ProgramFields  BY DEF IsProgram
  <1>2. q # Die(p)  BY <1>1 DEF Die, ProgramFields
  <1>3. DOMAIN q = ProgramFields /\ \A field \in ProgramFields \ {"under", "since"} : q[field] = p[field]
    <2>1. CASE q = p  BY <1>1, <2>1
    <2>2. CASE q = [p EXCEPT !.under = "/tmp", !.since = now]  BY <1>1, <2>2 DEF ProgramFields
    <2>3. QED  BY <1>2, <2>1, <2>2 DEF SetDataDir
  <1>4. /\ DOMAIN t = ProgramFields /\ t.status = "directory"
        /\ \A field \in ProgramFields \ {"under", "since", "status"} : t[field] = p[field]
    BY <1>3 DEF ProgramFields
  <1> HIDE DEF t
  <1>5. t.argv = p.argv /\ t.driver = p.driver /\ t.at = p.at /\ t.options = p.options
        /\ t.registry = p.registry /\ t.needed = p.needed /\ t.elements = p.elements
    BY <1>4 DEF ProgramFields
  <1>6. IsProgram(t)
    <2>1. Searched(t) = Searched(p)  BY <1>5 DEF Searched
    <2>2. QED  BY <1>4, <1>5, <2>1 DEF IsProgram
  <1>7. Stage(t)  BY <1>4, <1>5 DEF Stage
  <1>8. QED  BY <1>4, <1>6, <1>7 DEF ProgramInv, Writes, t

\* A program that ended.
LEMMA EndKeeps ==
  ASSUME NEW p, DOMAIN p = ProgramFields
  PROVE  /\ ProgramInv(FailIn(p)) /\ ~Writes(FailIn(p)) /\ FailIn(p).status = "failed"
         /\ ProgramInv(Die(p)) /\ ~Writes(Die(p)) /\ Die(p).status = "exited"
  BY DEF ProgramInv, Ended, Writes, FailIn, Die, ProgramFields

\* One program's step, to what it is then and where it writes.
StepKeeps(n) ==
  /\ DOMAIN programs' = DOMAIN programs
  /\ \A m \in DOMAIN programs \ {n} : programs'[m] = programs[m]
  /\ ProgramInv(programs'[n])
  /\ simulations \subseteq simulations'
  /\ \/ ~Writes(programs'[n])
     \/ Writes(programs[n]) /\ SimulationOf(programs'[n]) = SimulationOf(programs[n])
     \/ SimulationOf(programs'[n]) \in simulations' \ simulations
LEMMA StepsKeepInv ==
  ASSUME StartupInv, NEW n \in DOMAIN programs, StepKeeps(n)
  PROVE  StartupInv'
  <1>1. \A m \in DOMAIN programs' : ProgramInv(programs'[m])  BY DEF StartupInv, StepKeeps
  <1>2. \A m \in DOMAIN programs' : Writes(programs'[m]) => SimulationOf(programs'[m]) \in simulations'
    BY DEF StartupInv, StepKeeps
  <1>3. ASSUME NEW m \in DOMAIN programs, NEW l \in DOMAIN programs, m # l,
               Writes(programs'[m]), Writes(programs'[l])
        PROVE  SimulationOf(programs'[m]) # SimulationOf(programs'[l])
    <2>1. \A i, j \in DOMAIN programs : i # j /\ Writes(programs[i]) /\ Writes(programs[j])
                                        => SimulationOf(programs[i]) # SimulationOf(programs[j])
      BY DEF StartupInv, OwnDirectories, Writes
    <2>2. \A i \in DOMAIN programs : Writes(programs[i]) => SimulationOf(programs[i]) \in simulations
      BY DEF StartupInv
    <2>3. QED  BY <1>3, <2>1, <2>2 DEF StepKeeps
  <1>4. OwnDirectories'
    <2>1. \A m, l \in DOMAIN programs' :
            {programs'[m].status, programs'[l].status} \subseteq {"made", "running"} /\ m # l
            => SimulationOf(programs'[m]) # SimulationOf(programs'[l])
      BY <1>3 DEF StepKeeps, Writes
    <2>2. QED  BY <2>1 DEF OwnDirectories, SimulationOf
  <1>5. QED  BY <1>1, <1>2, <1>4 DEF StartupInv
LEMMA StartupStarts == LegalMachines /\ StartupInit => StartupInv
  <1> SUFFICES ASSUME LegalMachines, StartupInit  PROVE StartupInv
    OBVIOUS
  <1>1. PICK machine \in Machines :
          programs = [n \in DOMAIN machine |->
                        Program([driver |-> Chosen(machine[n].driver, machine[n].argv), argv |-> machine[n].argv])]
    BY DEF StartupInit
  <1>2. ASSUME NEW n \in DOMAIN programs
        PROVE  ProgramInv(programs[n]) /\ ~Writes(programs[n])
    <2> DEFINE argv == machine[n].argv
               driver == Chosen(machine[n].driver, argv)
               start == [driver |-> driver, argv |-> argv]
               p == Program(start)
    <2>1. n \in DOMAIN machine /\ programs[n] = p  BY <1>1, <1>2
    <2>2. /\ driver \in DOMAIN NeededElements /\ IsList(argv)
          /\ \A path \in ToSet(argv) \cup ToSet(SharedPaths) : IsList(Files(path))
      BY <2>1 DEF LegalMachines
    <2> HIDE DEF argv, driver
    <2>3. /\ DOMAIN p = ProgramFields /\ p.driver = driver /\ p.argv = argv /\ p.at = 1
          /\ p.options = Defaults /\ p.registry = <<>> /\ p.needed = <<>> /\ p.elements = <<>>
          /\ p.status \in {"plugin", "arguments"}
      BY DEF Program, ProgramFields
    <2> HIDE DEF p
    <2>4. IsProgram(p)
      <3>1. Searched(p) = ToSet(argv) \cup ToSet(SharedPaths)  BY <2>3 DEF Searched
      <3>2. "elementPaths" \in DOMAIN Defaults /\ Defaults.elementPaths = <<>>  BY DEF Defaults
      <3>3. <<>> \in Seq(Searched(p))  OBVIOUS
      <3>4. QED  BY <2>2, <2>3, <3>1, <3>2, <3>3 DEF IsProgram
    <2>5. Stage(p)  BY <2>3 DEF Stage
    <2>6. QED  BY <2>1, <2>3, <2>4, <2>5 DEF ProgramInv, Writes
  <1>3. QED  BY <1>2 DEF StartupInv, OwnDirectories, Writes

LEMMA BecomesKeeps ==
  ASSUME StartupInv, NEW n \in DOMAIN programs, NEW p, Becomes(n, p), simulations' = simulations,
         ProgramInv(p),
         ~Writes(p) \/ (Writes(programs[n]) /\ SimulationOf(p) = SimulationOf(programs[n]))
  PROVE  StartupInv'
  <1>1. /\ DOMAIN programs' = DOMAIN programs /\ programs'[n] = p
        /\ \A m \in DOMAIN programs \ {n} : programs'[m] = programs[m]
    BY DEF Becomes
  <1>2. StepKeeps(n)  BY <1>1 DEF StepKeeps
  <1>3. QED  BY <1>2, StepsKeepInv

LEMMA StartupStep == StartupInv /\ [StartupNext]_startup => StartupInv'
  <1> SUFFICES ASSUME StartupInv, [StartupNext]_startup  PROVE StartupInv'
    OBVIOUS
  <1>1. CASE UNCHANGED programs /\ UNCHANGED simulations
    <2>1. \A n \in DOMAIN programs' : ProgramInv(programs'[n])  BY <1>1 DEF StartupInv
    <2>2. \A n \in DOMAIN programs' : Writes(programs'[n]) => SimulationOf(programs'[n]) \in simulations'
      BY <1>1 DEF StartupInv
    <2>3. OwnDirectories'  BY <1>1 DEF StartupInv, OwnDirectories
    <2>4. QED  BY <2>1, <2>2, <2>3 DEF StartupInv
  <1>2. ASSUME NEW n \in DOMAIN programs, ~Ended(programs[n])
        PROVE  /\ ProgramInv(programs[n]) /\ IsProgram(programs[n]) /\ Stage(programs[n])
               /\ DOMAIN programs[n] = ProgramFields
    BY <1>2 DEF StartupInv, ProgramInv, IsProgram
  <1>3. ASSUME NEW n \in DOMAIN programs, LoadPlugin(n)  PROVE StartupInv'
    <2> DEFINE p == programs[n]
               q == [p EXCEPT !.status = "arguments"]
    <2>1. p.status = "plugin" /\ simulations' = simulations  BY <1>3 DEF LoadPlugin
    <2>2. IsProgram(p) /\ Stage(p) /\ DOMAIN p = ProgramFields  BY <1>2, <2>1 DEF Ended
    <2>3. Becomes(n, q) \/ Becomes(n, FailIn(p))  BY <1>3 DEF LoadPlugin
    <2>4. ProgramInv(q) /\ ~Writes(q)
      <3>1. /\ DOMAIN q = ProgramFields /\ q.status = "arguments"
            /\ \A field \in ProgramFields \ {"status"} : q[field] = p[field]
        BY <2>2 DEF ProgramFields
      <3> HIDE DEF q
      <3>2. /\ q.argv = p.argv /\ q.driver = p.driver /\ q.at = p.at /\ q.options = p.options
            /\ q.registry = p.registry /\ q.needed = p.needed /\ q.elements = p.elements
        BY <3>1 DEF ProgramFields
      <3>3. Searched(q) = Searched(p)  BY <3>2 DEF Searched
      <3>4. IsProgram(q)  BY <2>2, <3>1, <3>2, <3>3 DEF IsProgram
      <3>5. Stage(q)  BY <2>1, <2>2, <3>1, <3>2 DEF Stage
      <3>6. QED  BY <3>1, <3>4, <3>5 DEF ProgramInv, Writes
    <2> HIDE DEF q
    <2>5. QED  BY <2>1, <2>2, <2>3, <2>4, EndKeeps, BecomesKeeps
  <1>4. ASSUME NEW n \in DOMAIN programs, Argument(n)  PROVE StartupInv'
    <2>1. programs[n].status = "arguments" /\ simulations' = simulations
          /\ Becomes(n, ProcessArgument(programs[n]))
      BY <1>4 DEF Argument
    <2>2. IsProgram(programs[n]) /\ Stage(programs[n])  BY <1>2, <2>1 DEF Ended
    <2>3. QED  BY <2>1, <2>2, ArgumentKeeps, BecomesKeeps
  <1>5. ASSUME NEW n \in DOMAIN programs, ChooseDirectory(n)  PROVE StartupInv'
    <2> DEFINE p == programs[n]
               q == IF p.under = "" THEN SetDataDir(p, "") ELSE p
               r == [q EXCEPT !.status = "directory"]
    <2>1. p.status = "arguments" /\ simulations' = simulations
          /\ Becomes(n, IF q.status # "arguments" THEN q ELSE IF ~Fits(q, 0) THEN FailIn(q) ELSE r)
      BY <1>5 DEF ChooseDirectory
    <2>2. IsProgram(p) /\ Stage(p) /\ DOMAIN p = ProgramFields  BY <1>2, <2>1 DEF Ended
    <2>3. q \in {p, SetDataDir(p, "")}  OBVIOUS
    <2>4. DOMAIN q = ProgramFields /\ (q.status # "arguments" => q = Die(p))
      BY <2>1, <2>2, <2>3 DEF SetDataDir, Die, ProgramFields
    <2> HIDE DEF q
    <2>5. CASE q.status # "arguments"
      <3>1. Becomes(n, Die(p))  BY <2>1, <2>4, <2>5
      <3>2. QED  BY <2>1, <2>2, <3>1, EndKeeps, BecomesKeeps
    <2>6. CASE q.status = "arguments" /\ ~Fits(q, 0)
      <3>1. Becomes(n, FailIn(q))  BY <2>1, <2>6
      <3>2. QED  BY <2>1, <2>4, <3>1, EndKeeps, BecomesKeeps
    <2>7. CASE q.status = "arguments" /\ Fits(q, 0)
      <3>1. Becomes(n, r)  BY <2>1, <2>7
      <3>2. ProgramInv(r) /\ ~Writes(r)  BY <2>1, <2>2, <2>3, <2>7, ChosenKeeps
      <3> HIDE DEF r
      <3>3. QED  BY <2>1, <3>1, <3>2, BecomesKeeps
    <2>8. QED  BY <2>5, <2>6, <2>7
  <1>6. ASSUME NEW n \in DOMAIN programs, MakeDirectories(n)  PROVE StartupInv'
    <2> DEFINE p == programs[n]
    <2>1. /\ p.status = "directory" /\ simulations' = simulations \cup {SimulationOf(p)}
          /\ Becomes(n, IF SimulationOf(p) \in simulations THEN Die(p) ELSE Made(p))
      BY <1>6 DEF MakeDirectories
    <2>2. IsProgram(p) /\ Stage(p) /\ DOMAIN p = ProgramFields  BY <1>2, <2>1 DEF Ended
    <2>3. CASE SimulationOf(p) \in simulations
      <3>1. Becomes(n, Die(p)) /\ simulations' = simulations  BY <2>1, <2>3
      <3>2. QED  BY <2>2, <3>1, EndKeeps, BecomesKeeps
    <2>4. CASE SimulationOf(p) \notin simulations
      <3>1. /\ DOMAIN programs' = DOMAIN programs /\ programs'[n] = Made(p)
            /\ \A m \in DOMAIN programs \ {n} : programs'[m] = programs[m]
        BY <2>1, <2>4 DEF Becomes
      <3>2. ProgramInv(Made(p)) /\ SimulationOf(Made(p)) = SimulationOf(p)  BY <2>1, <2>2, MadeKeeps
      <3>3. StepKeeps(n)  BY <2>1, <2>4, <3>1, <3>2 DEF StepKeeps
      <3>4. QED  BY <3>3, StepsKeepInv
    <2>5. QED  BY <2>3, <2>4
  <1>7. ASSUME NEW n \in DOMAIN programs, DriverReinit(n)  PROVE StartupInv'
    <2> DEFINE p == programs[n]
               ready == ReadyOf(p)
               r == [ready EXCEPT !.status = "running"]
    <2>1. /\ p.status = "made" /\ simulations' = simulations
          /\ \/ Becomes(n, FailIn(p))
             \/ ready.status = "failed" /\ Becomes(n, ready)
             \/ ready.status # "failed" /\ Becomes(n, r)
      BY <1>7 DEF DriverReinit, ReadyOf
    <2>2. IsProgram(p) /\ Stage(p) /\ DOMAIN p = ProgramFields /\ Writes(p)
      BY <1>2, <2>1 DEF Ended, Writes
    <2>3. /\ ready.status = "failed" \/
               /\ ProgramInv(r) /\ SimulationOf(r) = SimulationOf(p)
      BY <2>1, <2>2, ReinitKeeps
    <2> HIDE DEF r, ready
    <2>4. CASE Becomes(n, FailIn(p))  BY <2>1, <2>2, <2>4, EndKeeps, BecomesKeeps
    <2>5. CASE ready.status = "failed" /\ Becomes(n, ready)
      <3>1. ProgramInv(ready) /\ ~Writes(ready)  BY <2>5 DEF ProgramInv, Ended, Writes
      <3>2. QED  BY <2>1, <2>5, <3>1, BecomesKeeps
    <2>6. CASE ready.status # "failed" /\ Becomes(n, r)
      BY <2>1, <2>2, <2>3, <2>6, BecomesKeeps
    <2>7. QED  BY <2>1, <2>4, <2>5, <2>6
  <1>8. CASE Tick  BY <1>1, <1>8 DEF Tick
  <1>9. CASE UNCHANGED startup  BY <1>1, <1>9 DEF startup
  <1>10. QED  BY <1>3, <1>4, <1>5, <1>6, <1>7, <1>8, <1>9 DEF StartupNext

-----------------------------------------------------------------------------
\* On any machine, whatever the programs' command lines, the order of their steps and the
\* seconds between them, no two of them write to one simulation directory (OnceOnly).
THEOREM DirectoriesAreApart ==
  ASSUME LegalMachines
  PROVE  StartupSpec => []OwnDirectories
  <1>1. StartupInit => StartupInv  BY StartupStarts
  <1>2. StartupInv => OwnDirectories  BY DEF StartupInv
  <1>3. QED  BY <1>1, <1>2, StartupStep, PTL DEF StartupSpec

\* Whatever directories of libraries a program is told to search, and whatever is in them,
\* once it runs its registry has each element that it found or needs once, from the last
\* directory it was in, and its first atoms are of elements it registered, each on a site
\* of its own (Init, ElementRegistry::Init, ReinitEden).
THEOREM ElementsAreRegistered ==
  ASSUME LegalMachines
  PROVE  StartupSpec => []ElementsKept
  <1>1. StartupInit => StartupInv  BY StartupStarts
  <1>2. StartupInv => ElementsKept  BY DEF StartupInv, ProgramInv, Ended, Stage, ElementsKept
  <1>3. QED  BY <1>1, <1>2, StartupStep, PTL DEF StartupSpec
=============================================================================
