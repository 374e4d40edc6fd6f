------------------------------ MODULE Startup -------------------------------
(***************************************************************************)
(* Drivers from their command lines to their first frames: VArguments, the *)
(* handlers of AbstractDriver and AbstractGUIDriver, the directory each    *)
(* run writes to, the elements it knows and the atoms it begins with.      *)
(* Several programs may be started on one machine.                         *)
(***************************************************************************)
EXTENDS Integers, SequencesExt

CONSTANTS
  Machines,        \* sequences of [driver, argv], the programs started on a machine
  Directories,     \* the directories there are or that mkdir can make
  PathLength(_),   \* how long a directory's name is
  Files(_),        \* the files of a directory of elements, as [uuid, legal]
  Plugins,         \* what may come of loading mfmdha's plug-in
  MAX_PATHS, MAX_CONFIGURATION_PATHS, TABLE_SIZE, MAX_NEEDED_ELEMENTS,
  MaxSeconds       \* (bound) how long the start takes

VARIABLES
  programs,        \* the programs of the machine
  simulations,     \* the simulation directories that were made, <<under, second>>
  now              \* seconds on the machine's clock

startup == <<programs, simulations, now>>

--------------------------------------------------------------------------------
(* The switches *)

Flag(spellings, field, to) ==
  [spellings |-> spellings, needs |-> FALSE, does |-> "set", field |-> field, to |-> to]
Number(spellings, field) ==
  [spellings |-> spellings, needs |-> TRUE, does |-> "number", field |-> field]
Other(spellings, needs, does) ==
  [spellings |-> spellings, needs |-> needs, does |-> does]

DriverArguments ==
  <<Other(<<"-h", "--help">>, FALSE, "exit"),
    Number(<<"-l", "--log">>, "log"),
    Other(<<"-v", "--version">>, FALSE, "exit"),
    Other(<<"-V", "--Version">>, FALSE, "exit"),
    Other(<<"-s", "--seed">>, TRUE, "seed"),
    Number(<<"-e", "--epoch">>, "AEPSPerEpoch"),
    Number(<<"-a", "--autosave">>, "autosavePerEpochs"),
    Number(<<"--accelerate">>, "accelerateAfterEpochs"),
    Other(<<"--surge">>, TRUE, "surge"),
    Flag(<<"--gridImages">>, "gridImages", "on"),
    Flag(<<"--tileImages">>, "tileImages", "on"),
    Number(<<"--haltafteraeps">>, "haltAfterAEPS"),
    Other(<<"-d", "--dir">>, TRUE, "dir"),
    Other(<<"-ep", "--elementpath">>, TRUE, "elementpath"),
    Other(<<"-cp", "--configpath">>, TRUE, "configpath"),
    Flag(<<"--ignorethreadbugs">>, "ignoreThreadingProblems", "on")>>
NoHelp == <<"-n", " --nohelp">>   \* the blank is in the code
GuiArguments ==
  <<Flag(<<"--startwithoutgrid">>, "screen", "statistics"),
    Flag(<<"--startminimal">>, "screen", "minimal"),
    Flag(<<"-p", "--pngs">>, "captureScreenshots", "on"),
    Flag(<<"--run">>, "startPaused", "off"),
    Flag(NoHelp, "helpPanel", "off"),
    Flag(<<"--bigtext">>, "bigText", "on")>>
Pointless == Other(<<"--pointless">>, TRUE, "exit")

Arguments(driver) ==
  DriverArguments
  \o (IF driver = "mfmheadless" THEN <<>> ELSE GuiArguments)
  \o (IF driver = "mfmsim" THEN <<Pointless>> ELSE <<>>)

Defaults ==
  [log |-> 8, seed |-> 1, AEPSPerEpoch |-> 100, autosavePerEpochs |-> 1,
   accelerateAfterEpochs |-> 0, surgeAfterEpochs |-> 0, acceleration |-> 1,
   gridImages |-> "off", tileImages |-> "off", haltAfterAEPS |-> 0,
   elementPaths |-> <<>>, configurationPaths |-> <<>>, ignoreThreadingProblems |-> "off",
   screen |-> "full", captureScreenshots |-> "off", startPaused |-> "on",
   helpPanel |-> "on", bigText |-> "off"]

\* atoi, of whole numbers of one digit (bound); what is not a number is 0.
Numerals == -9..9
Atoi(str) ==
  IF \E n \in Numerals : ToString(n) = str THEN CHOOSE n \in Numerals : ToString(n) = str ELSE 0

\* strstr finds the first place; the argument matches where that is at the end of
\* one of the spellings, and so from the middle of one as well.
Places(str, in) == {i \in 1..Len(in) - Len(str) + 1 : SubSeq(in, i, i + Len(str) - 1) = str}
MatchesFilter(str, spellings) ==
  \E k \in DOMAIN spellings :
    LET places == Places(str, spellings[k])
    IN places # {} /\ Min(places) = Len(spellings[k]) - Len(str) + 1

--------------------------------------------------------------------------------
(* The handlers.  A program [driver, argv, at, taken, options, under, since,   *)
(* status, registry, needed, elements] is at argument "at".                    *)

Program(p) ==
  [driver |-> p.driver, argv |-> p.argv, at |-> 1, taken |-> FALSE, options |-> Defaults,
   under |-> "", since |-> 0, status |-> IF p.driver = "mfmdha" THEN "plugin" ELSE "arguments",
   registry |-> <<>>, needed |-> <<>>, elements |-> <<>>]

Die(p) == [p EXCEPT !.status = "exited"]
FailIn(p) == [p EXCEPT !.status = "failed"]

DATE == 16   \* "/20140728034508/"
PATH_LIMIT == 1000 - 100
SetDataDir(p, path) ==
  LET under == IF path = "" THEN "/tmp" ELSE path
  IN IF under \notin Directories \/ PathLength(under) + DATE >= PATH_LIMIT THEN Die(p)
     ELSE [p EXCEPT !.under = under, !.since = now]

\* What GetSimDirPathTemporary's sink cannot hold is a FAIL.
Fits(p, more) == PathLength(p.under) + DATE + more <= 500 - 2

AddPath(p, path) ==
  IF Contains(p.options.elementPaths, path) THEN p
  ELSE IF Len(p.options.elementPaths) >= MAX_PATHS THEN FailIn(p)
  ELSE [p EXCEPT !.options.elementPaths = Append(@, path)]

LoadFromConfigFile(p, path) ==
  IF Len(p.options.configurationPaths) >= MAX_CONFIGURATION_PATHS THEN Die(p)
  ELSE [p EXCEPT !.options.configurationPaths = Append(@, path)]

Call(p, arg, value) ==
  CASE arg.does = "exit" -> Die(p)
    [] arg.does = "set" -> [p EXCEPT !.options[arg.field] = arg.to]
    [] arg.does = "number" -> [p EXCEPT !.options[arg.field] = Atoi(value)]
    [] arg.does = "seed" -> [p EXCEPT !.options.seed = IF Atoi(value) = 0 THEN "time" ELSE Atoi(value)]
    [] arg.does = "surge" ->
         [p EXCEPT !.options.surgeAfterEpochs = Atoi(value),
                   !.options.acceleration = IF Atoi(value) > 0 THEN 0 ELSE @]
    [] arg.does = "dir" -> SetDataDir(p, value)
    [] arg.does = "elementpath" -> AddPath(p, value)
    [] OTHER -> LoadFromConfigFile(p, value)

\* (Variant with a mistake: the value is looked at as a switch as well.)
Try_KeepsPlace(p, arg) ==
  IF p.status # "arguments" \/ p.taken \/ ~MatchesFilter(p.argv[p.at], arg.spellings) THEN p
  ELSE IF ~arg.needs THEN Call(p, arg, "")
  ELSE IF p.at >= Len(p.argv) THEN Die(p)
  ELSE Call([p EXCEPT !.taken = TRUE], arg, p.argv[p.at + 1])

\* One registered switch against the argument; a handler that takes no value lets the
\* search go on, one that takes the next argument ends it.
Try(p, arg) ==
  IF p.status # "arguments" \/ p.taken \/ ~MatchesFilter(p.argv[p.at], arg.spellings) THEN p
  ELSE IF ~arg.needs THEN Call(p, arg, "")
  ELSE IF p.at >= Len(p.argv) THEN Die(p)
  ELSE Call([p EXCEPT !.at = p.at + 1, !.taken = TRUE], arg, p.argv[p.at + 1])

ProcessArgument(p) ==
  IF p.argv[p.at] = "" THEN FailIn(p)
  ELSE LET tried == FoldLeft(Try, [p EXCEPT !.taken = FALSE], Arguments(p.driver))
       IN [tried EXCEPT !.at = @ + 1]

--------------------------------------------------------------------------------
(* The registry of elements.  An entry is loaded, or its library was in the path'th of *)
(* the directories that were searched, or both.                                        *)

IsRegistered(p, uuid) == \E k \in DOMAIN p.registry : p.registry[k].uuid = uuid
Register(p, entry) ==
  CASE p.status = "failed" \/ IsRegistered(p, entry.uuid) -> p
    [] ~IsRegistered(p, entry.uuid) /\ Len(p.registry) >= TABLE_SIZE -> FailIn(p)
    [] OTHER -> [p EXCEPT !.registry = Append(@, entry)]
RegisterUUID(p, uuid) == Register(p, [uuid |-> uuid, loaded |-> FALSE, path |-> 0])
RegisterLoaded(p, uuid) == Register(p, [uuid |-> uuid, loaded |-> TRUE, path |-> 0])

\* (Variant with a mistake: the first directory it was in stays.)
FindLibrary_FirstStays(p, file, i) ==
  IF ~file.legal \/ IsRegistered(p, file.uuid) THEN p
  ELSE Register(p, [uuid |-> file.uuid, loaded |-> FALSE, path |-> i])
\* A library that is in several of the directories is taken from the last.
FindLibrary(p, file, i) ==
  LET q == RegisterUUID(p, file.uuid)
  IN IF ~file.legal THEN p
     ELSE [q EXCEPT !.registry = [k \in DOMAIN @ |->
             IF @[k].uuid = file.uuid THEN [@[k] EXCEPT !.path = i] ELSE @[k]]]
FindLibraries(p) ==
  FoldLeftDomain(LAMBDA q, i : FoldLeft(LAMBDA r, file : FindLibrary(r, file, i),
                                        q, Files(p.options.elementPaths[i])),
                 p, p.options.elementPaths)

--------------------------------------------------------------------------------
(* Drivers: their elements and what is in their worlds at first *)

MfmsimElements == <<"Empty", "Dreg", "Res", "Sorter", "Emitter", "Consumer", "Data", "Wall">>
BigtileElements == <<"Dreg", "Res", "Sorter", "Emitter", "Consumer", "Data", "Wall">>
HeadlessElements == <<"Dreg", "Res", "Wall", "ForkBomb1", "ForkBomb2">>
DhaElements ==
  <<"Empty", "Dreg", "Res", "Wall", "Data", "Emitter", "Consumer", "Sorter", "Block",
    "ForkBomb1", "ForkBomb2", "ForkBomb3", "AntiForkBomb", "Collector", "DemoMQBar", "DemoMover">>
SBarElements == <<"Empty", "Dreg", "Res", "SBar", "DBar", "DemoMover">>
MfmcElements ==
  <<"Empty", "Wall", "Res", "Dreg", "Sorter", "Data", "Emitter", "Consumer", "Block",
    "ForkBomb1", "ForkBomb2", "ForkBomb3", "AntiForkBomb", "MQBar", "Mover", "Indexed", "Fish",
    "Shark", "Xtal_Sq1", "Xtal_L12", "Xtal_R12", "Xtal_General", "Creg", "Dmover",
    "CheckerForkBlue", "CheckerForkRed", "Wanderer_Cyan", "Wanderer_Magenta", "Mine", "Base",
    "Infantry">>
NeededElements ==
  [mfmsim |-> MfmsimElements, mfmbigtile |-> BigtileElements, mfmheadless |-> HeadlessElements,
   mfmdha |-> DhaElements, sbar |-> SBarElements,
   mfmc |-> MfmcElements, mfmc_s |-> MfmcElements, mfmc_l |-> MfmcElements]
NeedElement(p, e) ==
  IF p.status = "failed" \/ Len(p.needed) >= MAX_NEEDED_ELEMENTS THEN FailIn(p)
  ELSE [p EXCEPT !.needed = Append(@, e)]
GridNeeds(p, e) ==
  LET q == RegisterLoaded(p, e)
  IN IF Contains(q.elements, e) THEN q ELSE [q EXCEPT !.elements = Append(@, e)]

\* The tiles across and down, and the sites of a tile's side that it owns.
GridOf ==
  [mfmsim |-> <<5, 3, 32>>, mfmbigtile |-> <<2, 1, 168>>, mfmheadless |-> <<5, 3, 32>>,
   mfmdha |-> <<5, 3, 32>>, sbar |-> <<5, 3, 32>>,
   mfmc |-> <<5, 3, 32>>, mfmc_s |-> <<2, 2, 24>>, mfmc_l |-> <<8, 5, 40>>]
InGrid(driver, site) ==
  /\ site[1] >= 0 /\ site[1] \div GridOf[driver][3] < GridOf[driver][1]
  /\ site[2] >= 0 /\ site[2] \div GridOf[driver][3] < GridOf[driver][2]

\* Rows of four sorters below rows of four Dregs, "down" from a tile's upper side.
EdenRows(across, height, down) ==
  UNION {{<<"Sorter", <<11 + x * 32 + z, down + 1 + y * 32>>>>, <<"Dreg", <<10 + x * 32 + z, down + y * 32>>>>} :
           x \in 0..across - 1, y \in 0..height - 1, z \in 0..3}

SurroundRectangleWithWall(sx, sy, w, h, thickness) ==
  UNION {LET left == sx - k  top == sy - k  right == sx + w + k  bottom == sy + h + k
         IN {<<"Wall", site>> : site \in {left, right} \X (top..bottom) \cup (left..right) \X {top, bottom}} :
         k \in 0..thickness - 1}

MfmsimEden == EdenRows(5, 3, 14) \cup {<<"Emitter", <<158, 48>>>>, <<"Consumer", <<0, 48>>>>}
BigtileEden ==
  EdenRows(5, 3, 10) \cup SurroundRectangleWithWall(3, 3, 161, 97, 4)
  \cup {<<"Emitter", <<162, 10>>>>, <<"Consumer", <<5, 14>>>>, <<"Consumer", <<6, 15>>>>}
HeadlessEden == {<<"Dreg", <<5, 5>>>>}
SBarEden == {<<"Dreg", <<0, 0>>>>, <<"SBar", <<80, 48>>>>}
ReinitEden(driver) ==
  CASE driver = "mfmsim" -> MfmsimEden [] driver = "mfmbigtile" -> BigtileEden
    [] driver = "mfmheadless" -> HeadlessEden [] driver = "sbar" -> SBarEden
    [] OTHER -> {}
\* The elements whose data the statistics panel shows.
DataReporters(driver) == IF driver \in {"mfmsim", "mfmdha"} THEN {"Emitter", "Consumer"} ELSE {}

EndsWith(string, suffix) == suffix = SubSeq(string, Len(string) - Len(suffix) + 1, Len(string))
SizeOf(argv) ==
  CASE EndsWith(argv[1], "_s") -> "mfmc_s" [] EndsWith(argv[1], "_l") -> "mfmc_l" [] OTHER -> "mfmc"
\* mfmdha's main takes the demo from the program's own name.
Chosen(driver, argv) ==
  CASE driver = "mfmdha" /\ Atoi(argv[1]) = 2 -> "sbar"
    [] driver = "mfmc" -> SizeOf(argv)
    [] OTHER -> driver

--------------------------------------------------------------------------------
(* Init, Reinit and Run *)

Becomes(n, p) == programs' = [programs EXCEPT ![n] = p]

LoadPlugin(n) ==
  /\ programs[n].status = "plugin"
  /\ \E plugin \in Plugins :
       Becomes(n, IF plugin = "element" THEN [programs[n] EXCEPT !.status = "arguments"] ELSE FailIn(programs[n]))
  /\ UNCHANGED <<simulations, now>>

Argument(n) ==
  /\ programs[n].status = "arguments" /\ programs[n].at <= Len(programs[n].argv)
  /\ Becomes(n, ProcessArgument(programs[n]))
  /\ UNCHANGED <<simulations, now>>

\* OnceOnly, to where it makes the directories: without a switch they go under /tmp.
ChooseDirectory(n) ==
  LET p == programs[n]
      chosen == IF p.under = "" THEN SetDataDir(p, "") ELSE p
  IN /\ p.status = "arguments" /\ p.at > Len(p.argv)
     /\ Becomes(n, IF chosen.status # "arguments" THEN chosen
                   ELSE IF ~Fits(chosen, 0) THEN FailIn(chosen)
                   ELSE [chosen EXCEPT !.status = "directory"])
     /\ UNCHANGED <<simulations, now>>

SimulationOf(p) == <<p.under, p.since>>
SharedPaths == <<"~/.mfm/res/elements", "SHARED_DIR/res/elements", "./bin">>
LONGEST_NAME == 20   \* "tbd/tribe_counts.csv"

\* The rest of Init, after the directories.
KnowElements(p) ==
  LET ready == FindLibraries(FoldLeft(AddPath, p, SharedPaths))
  IN FoldLeft(NeedElement, ready, NeededElements[p.driver])
Made(p) ==
  LET ready == KnowElements(p)
  IN CASE ~Fits(p, LONGEST_NAME) -> FailIn(p)
       [] Fits(p, LONGEST_NAME) /\ ready.status = "failed" -> ready
       [] OTHER -> [ready EXCEPT !.status = "made"]

\* mkdir of what is there already is the end.
\* (Variant with a mistake: a directory that is there will do, as for -d.)
MakeDirectories_ExistOk(n) ==
  LET p == programs[n]
  IN /\ p.status = "directory"
     /\ simulations' = simulations \cup {SimulationOf(p)}
     /\ Becomes(n, Made(p))
     /\ UNCHANGED now
MakeDirectories(n) ==
  LET p == programs[n]
  IN /\ p.status = "directory"
     /\ simulations' = simulations \cup {SimulationOf(p)}
     /\ Becomes(n, IF SimulationOf(p) \in simulations THEN Die(p) ELSE Made(p))
     /\ UNCHANGED now

\* Empty first, and the others in order; an atom off the grid is a FAIL.
DriverReinit(n) ==
  LET p == programs[n]
      ready == FoldLeft(GridNeeds, p, <<"Empty">> \o p.needed)
  IN /\ p.status = "made"
     /\ Becomes(n, IF \E placed \in ReinitEden(p.driver) : ~InGrid(p.driver, placed[2]) THEN FailIn(p)
                   ELSE IF ready.status = "failed" THEN ready
                   ELSE [ready EXCEPT !.status = "running"])
     /\ UNCHANGED <<simulations, now>>

Tick == now < MaxSeconds /\ now' = now + 1 /\ UNCHANGED <<programs, simulations>>

StartupInit ==
  /\ programs \in {[n \in DOMAIN machine |->
                      Program([driver |-> Chosen(machine[n].driver, machine[n].argv), argv |-> machine[n].argv])] :
                   machine \in Machines}
  /\ simulations = {}
  /\ now = 0
StartupNext ==
  \/ \E n \in DOMAIN programs : LoadPlugin(n) \/ Argument(n) \/ ChooseDirectory(n) \/ MakeDirectories(n) \/ DriverReinit(n)
  \/ Tick
StartupSpec == StartupInit /\ [][StartupNext]_startup

\* Drivers there are, with words and files in some order.
IsList(list) == Len(list) \in Nat /\ list = [k \in 1..Len(list) |-> list[k]]
LegalMachines ==
  \A machine \in Machines : \A n \in DOMAIN machine :
    LET argv == machine[n].argv
    IN  /\ Chosen(machine[n].driver, argv) \in DOMAIN NeededElements
        /\ IsList(argv)
        /\ \A path \in ToSet(argv) \cup ToSet(SharedPaths) : IsList(Files(path))

--------------------------------------------------------------------------------
(* What a command line means: a switch is one of its spellings, where it is not what *)
(* an earlier switch takes, and of several for one option the last one counts.       *)

Spelled(p) ==
  [i \in DOMAIN p.argv |->
     {arg \in ToSet(Arguments(p.driver)) : {p.argv[i], " " \o p.argv[i]} \cap ToSet(arg.spellings) # {}}]
Operands(takers, positions) ==
  CHOOSE S \in SUBSET positions : \A i \in positions : i \in S <=> i - 1 \in takers \ S
\* The switches of a command line, as <<argument, switch>>.
Uses(p) ==
  LET spelled == Spelled(p)
      operands == Operands({i \in DOMAIN spelled : \E arg \in spelled[i] : arg.needs}, DOMAIN spelled)
  IN UNION {{i} \X spelled[i] : i \in DOMAIN spelled \ operands}
LastOf(uses) == CHOOSE use \in uses : \A other \in uses : other[1] <= use[1]
Values(p, uses, does) ==
  LET at == SetToSortSeq({use[1] : use \in {u \in uses : u[2].does = does}}, <)
  IN [k \in DOMAIN at |-> p.argv[at[k] + 1]]

\* Whatever the order of the switches and whatever words their values are, a program that
\* runs has for each option the value of its last switch, or the default; and acceleration
\* waits for a surge whenever one was asked for (VArguments::ProcessArguments).
SwitchesApplied(p) ==
  LET o == p.options
      uses == Uses(p)
      simple == {use \in uses : use[2].does \in {"set", "number"}}
      surges == Values(p, uses, "surge")
      seeds == Values(p, uses, "seed")
      dirs == Values(p, uses, "dir")
  IN /\ \A use \in simple :
          LET last == LastOf({u \in simple : u[2].field = use[2].field})
          IN o[use[2].field] = IF last[2].does = "set" THEN last[2].to ELSE Atoi(p.argv[last[1] + 1])
     /\ \A field \in DOMAIN Defaults \ {use[2].field : use \in simple} :
          \/ field \in {"seed", "surgeAfterEpochs", "acceleration", "elementPaths", "configurationPaths"}
          \/ o[field] = Defaults[field]
     /\ o.seed = IF seeds = <<>> THEN 1 ELSE IF Atoi(Last(seeds)) = 0 THEN "time" ELSE Atoi(Last(seeds))
     /\ o.surgeAfterEpochs = IF surges = <<>> THEN 0 ELSE Atoi(Last(surges))
     /\ o.acceleration = IF \E k \in DOMAIN surges : Atoi(surges[k]) > 0 THEN 0 ELSE 1
     /\ o.configurationPaths = Values(p, uses, "configpath")
     /\ ToSet(o.elementPaths) = ToSet(Values(p, uses, "elementpath")) \cup ToSet(SharedPaths)
     /\ p.under = IF dirs = <<>> \/ Last(dirs) = "" THEN "/tmp" ELSE Last(dirs)

\* No two programs write to one simulation directory, even when they are started in the
\* same second under the same directory (AbstractDriver::OnceOnly).
OwnDirectories ==
  \A n, m \in DOMAIN programs :
    {programs[n].status, programs[m].status} \subseteq {"made", "running"} /\ n # m =>
      SimulationOf(programs[n]) # SimulationOf(programs[m])

\* The registry has each element that was found or needed once, with the last directory
\* its library is in, and what can be used at once is what the driver needs and found no
\* library of (ElementRegistry::Init, Grid::Needed).
RegistryKept(p) ==
  LET paths == p.options.elementPaths
      found(i) == {file.uuid : file \in {f \in ToSet(Files(paths[i])) : f.legal}}
      libraries == UNION {found(i) : i \in DOMAIN paths}
      uuids == {p.registry[k].uuid : k \in DOMAIN p.registry}
  IN /\ uuids = libraries \cup ToSet(p.elements)
     /\ \A j, k \in DOMAIN p.registry : p.registry[j].uuid = p.registry[k].uuid => j = k
     /\ \A k \in DOMAIN p.registry :
          LET entry == p.registry[k]
          IN /\ entry.loaded <=> entry.uuid \notin libraries
             /\ entry.path = Max({0} \cup {i \in DOMAIN paths : entry.uuid \in found(i)})

\* The first atoms and the data shown are of elements that the driver registered, and none
\* of the atoms is put on another (the drivers' ReinitEden).
EdenKept(p) ==
  LET eden == ReinitEden(p.driver)
  IN /\ {placed[1] : placed \in eden} \cup DataReporters(p.driver) \subseteq ToSet(p.elements)
     /\ \A atom, other \in eden : atom[2] = other[2] => atom = other

ElementsKept ==
  \A n \in DOMAIN programs : programs[n].status = "running" => RegistryKept(programs[n]) /\ EdenKept(programs[n])
SwitchesKept ==
  \A n \in DOMAIN programs : programs[n].status = "running" => SwitchesApplied(programs[n])
=============================================================================
