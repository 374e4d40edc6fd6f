----------------------------- MODULE MCServices -----------------------------
EXTENDS ElementTable, GuiDriver, Startup

\* A run is of one of these parts, which do not meet: the element table, one of the worlds
\* below, an atom, an element's parameters, numbers, a source or lines of text, the start
\* of programs, or searches of an event window.
VARIABLE part
Parts == {"table", "world", "atom", "parameters", "numbers", "source", "lines", "startup", "window"}

\* The screen is 7 wide and 4 high, with the grid of two tiles in its corner; but for one
\* world the statistics panel is below it, half of it outside, and the toolbox on its right.
Extent ==
  [statistics |-> [size |-> <<4, BigEnough>>],
   buttons    |-> [size |-> <<BigEnough, 3>>],
   toolbox    |-> [size |-> <<3, 2>>],
   slider     |-> [at |-> <<0, 2>>, size |-> <<3, 1>>],
   first      |-> [at |-> <<0, 0>>, size |-> <<1, 1>>],
   second     |-> [at |-> <<1, 0>>, size |-> <<1, 1>>],
   third      |-> [at |-> <<2, 0>>, size |-> <<1, 1>>],
   upper      |-> [at |-> <<0, 0>>, size |-> <<1, 1>>],
   lower      |-> [at |-> <<1, 0>>, size |-> <<1, 1>>]]
First == <<0, 3>>
Second == <<1, 3>>
Third == <<2, 3>>
Upper == <<4, 0>>
Lower == <<5, 0>>
Beside == <<6, 1>>

Res == Element("Res")
Dreg == Element("Dreg")
OldDreg == [Dreg EXCEPT !.date = 0]
NewDreg == [Dreg EXCEPT !.date = 2]
Unknown == Element("Unknown")
Atom(element, bits) == [type |-> element, bits |-> bits]

Sites == (0..2 * TileSide - 1) \X (0..TileSide - 1)
Blank == [pt \in Sites |-> GetDefaultAtom(Empty)]
Still ==
  [grid |-> Blank, param |-> Dreg :> 0, parameterMax |-> 2, files |-> <<>>,
   registry |-> <<Entry(Res), Entry(Dreg)>>, startPaused |-> TRUE,
   shown |-> {"statistics", "toolbox"}, extent |-> Extent,
   dragged |-> [statistics |-> <<0, 2>>, toolbox |-> <<4, 0>>],
   screen |-> <<7, 4>>, screens |-> {}, radii |-> {},
   driverButtons |-> <<>>, toolButtons |-> <<>>, buttons |-> [p \in {} |-> 0],
   tool |-> "pencil", held |-> <<Res, Dreg>>, brush |-> 1, pointer |-> Beside,
   atomSize |-> 1, reach |-> {}, mouse |-> {}, keys |-> {}, alive |-> {}, born |-> {}, maxAEPS |-> 0, maxShift |-> 0]

Epochs == [Still EXCEPT !.startPaused = FALSE, !.maxAEPS = 9, !.registry = @ \o <<Found(Unknown)>>]
Pausing ==
  [Still EXCEPT !.driverButtons = <<"first", "second">>, !.maxAEPS = 1,
                !.buttons = [first |-> [does |-> "step"], second |-> [does |-> "pause"]],
                !.reach = {First, Second, <<0, 0>>}, !.mouse = {"left"}, !.keys = {"space", "s"},
                !.alive = {<<0, 0>>}, !.born = {Empty, Res}]

\* The tools, over the grid and over what lies on it.
Tools == {"pencil", "eraser", "brush", "airbrush", "xray", "clone", "bucket"}
Striped == [pt \in Sites |-> IF pt[1] = 1 /\ pt[2] = 0 THEN Atom(Dreg, 1) ELSE GetDefaultAtom(Empty)]
Painting(tool) ==
  [Still EXCEPT !.grid = Striped, !.tool = tool, !.mouse = {"left", "right"},
                !.reach = {<<0, 0>>, <<2, 1>>, <<0, 2>>, Beside},
                !.keys = {"escape"}]
Wheeling ==
  [Still EXCEPT !.tool = "brush", !.mouse = {"left"} \cup Wheel,
                !.reach = {<<0, 0>>, Upper}, !.keys = {"t"}]
Choosing ==
  [Still EXCEPT !.toolButtons = <<"upper", "lower">>,
                !.buttons = [upper |-> [does |-> "tool", tool |-> "eraser"],
                             lower |-> [does |-> "element", element |-> Dreg]],
                !.reach = {<<3, 0>>, Upper, Lower}, !.mouse = {"left", "right"}]

\* The grid drawn large and small, dragged about, moved with the keys and taken apart,
\* under a pencil, a brush and the selectors.
Drawing(tool, pressed, clicks, shift) ==
  [Still EXCEPT !.tool = tool, !.atomSize = 2, !.keys = pressed, !.mouse = clicks, !.brush = 2,
                !.maxShift = shift, !.reach = {<<0, 0>>, <<3, 1>>}]
Views ==
  {Drawing("pencil", {"ctrl"}, {"left"}, 3), Drawing("pencil", {}, {"left"} \cup Wheel, 3),
   Drawing("brush", {"right", "down", "shift"}, {"left"}, 2),
   Drawing("atom selector", {"p", "escape"}, {"left"} \cup Wheel, 1)}

\* The toolbox dragged onto the grid and away from under the mouse.
Dragging ==
  [Still EXCEPT !.reach = {<<1, 0>>, Upper, Lower, <<3, 1>>}, !.mouse = {"left"}, !.keys = {"ctrl"}]
Sliding ==
  [Still EXCEPT !.held = <<Dreg, Res>>, !.toolButtons = <<"upper", "lower">>,
                !.buttons = [upper |-> [does |-> "element", element |-> Dreg],
                             lower |-> [does |-> "element", element |-> Res]],
                !.reach = {<<3, 0>>, Upper, Lower, <<4, 2>>, <<5, 2>>, <<6, 2>>},
                !.mouse = {"left"}]

\* The statistics panel, and a button of it, dragged over the grid, to be shown and hidden.
Covering ==
  [Still EXCEPT !.dragged = [statistics |-> <<0, -1>>, toolbox |-> <<4, 0>>],
                !.driverButtons = <<"first">>, !.buttons = [first |-> [does |-> "pause"]],
                !.reach = {<<0, 0>>, <<2, 1>>}, !.mouse = {"left", "right"}, !.keys = {"i"}]

\* As the program starts, with everything hidden and on top of the grid; and the screen
\* made smaller than what is on it.
Opening ==
  [Still EXCEPT !.dragged = [p \in {} |-> 0], !.shown = {}, !.driverButtons = <<"first">>,
                !.buttons = [first |-> [does |-> "quit"]], !.keys = {"i", "t"},
                !.reach = {<<3, 0>>, <<3, 1>>}, !.mouse = {"left"},
                !.screens = {<<7, 4>>, <<5, 2>>, <<2, 3>>}]
Cornering ==
  [Still EXCEPT !.reach = {<<3, 1>>, Upper}, !.mouse = {"left"}, !.keys = {"ctrl"},
                !.screens = {<<7, 4>>, <<5, 3>>}]
Blasting ==
  [Still EXCEPT !.grid = Striped, !.driverButtons = <<"first", "second">>,
                !.buttons = [first |-> [does |-> "nuke"], second |-> [does |-> "xray"]],
                !.reach = {First, Second, <<0, 0>>}, !.mouse = {"left"}, !.radii = {1, 2},
                !.alive = {<<0, 0>>, <<1, 0>>, <<3, 1>>}]

\* Files: one as it is written, and ones with what goes wrong.
Good == <<RegisterElementCall(Res, 1), RegisterElementCall(OldDreg, 2), SetElementParameterCall(2, 1),
          GACall(1, <<0, 0>>, 0), GACall(2, <<3, 1>>, 1), DisableTileCall(<<1, 0>>)>>
Malformed == <<RegisterElementCall(Res, 1), GACall(1, <<1, 1>>, 1), [call |-> "Unheard"], GACall(1, <<0, 0>>, 0)>>
Stranger == <<RegisterElementCall(Unknown, 1)>>
Younger == <<RegisterElementCall(NewDreg, 1)>>
Twice == <<RegisterElementCall(Res, 1), RegisterElementCall(Dreg, 1)>>
OffGrid == <<RegisterElementCall(Res, 1), GACall(1, <<9, 9>>, 0)>>
Loading(files) ==
  [Still EXCEPT !.files = files, !.driverButtons = <<"first", "second", "third">>,
                !.buttons = [first  |-> [does |-> "reload"], second |-> [does |-> "clear tile"],
                             third  |-> [does |-> "pause tile"]],
                !.tool = "selector", !.reach = {First, Second, Third, <<1, 1>>, <<3, 1>>},
                !.mouse = {"left"}]
Saving(registry) ==
  [Still EXCEPT !.registry = registry, !.driverButtons = <<"first", "second">>,
                !.buttons = [first |-> [does |-> "save"], second |-> [does |-> "clear grid"]],
                !.reach = {First, Second, <<0, 0>>, <<3, 1>>}, !.mouse = {"left"},
                !.keys = {"i"}]

MCWorlds ==
  {Epochs, Pausing, Wheeling, Choosing, Dragging, Sliding, Covering, Opening, Cornering, Blasting}
  \cup Views \cup {Painting(tool) : tool \in Tools} \cup {[Painting("clone") EXCEPT !.brush = 0]}
  \cup {Loading(files) : files \in {<<Good, Malformed>>, <<Stranger, Good>>, <<Younger, Twice>>, <<OffGrid>>}}
  \cup {Saving(<<Entry(Res), Entry(Dreg)>>), Saving(<<Entry(Res), Found(Dreg)>>)}

\* Each of them is one a simulation can start from, and so is the one nothing is done in.
ASSUME LegalWorlds == \A w \in MCWorlds \cup {Still} : LegalWorld(w)

\* Command lines.  An epoch length below 0 is, alone, for no epochs at all; words are of 4 bits.
Idle == [epoch |-> -1, accelerate |-> 0, surge |-> 0, autosave |-> 0, halt |-> 0]
MCOptions ==
  {[epoch |-> epoch, accelerate |-> accelerate, surge |-> surge, autosave |-> autosave, halt |-> halt] :
     epoch \in {-2, -1, 0, 2}, accelerate \in 0..2, surge \in 0..2, autosave \in {0, 2}, halt \in {0, 5}}

MCElements == 1..127
MCData == [e \in 2..4 |-> 2]
InTable == {hash[slot] : slot \in HashSlots}
\* Elements are needed in an order of their own, the first time.
Known(e) == \A f \in 1..e - 1 : f \in DOMAIN typeOf
\* Tables with data stay small; those without are filled until one more is a FAIL.
TableSteps ==
  \/ \E e \in Elements \ InTable :
       /\ Known(e) /\ (inUse >= 4 => nextFree = 0)
       /\ e \in DOMAIN typeOf \/ DOMAIN typeOf \subseteq InTable
       /\ Needed(e)
  \/ \E e \in DOMAIN DataSlots : inUse \in {4, SIZE \div 2} /\ GetDataAndRegister(e)
  \/ Cardinality(DOMAIN typeOf) = 4 /\ inUse = 4 /\ Reinit

--------------------------------------------------------------------------------
(* Atoms and parameters: of 36 bits in units of 12, of which 9 are the header *)

FieldAt(first, size, kind) == [start |-> first, length |-> size, kind |-> kind]
MCFields ==
  {FieldAt(11, 3, "S32"), FieldAt(14, 3, "BOOL"),
   FieldAt(17, 3, "UNARY"), FieldAt(20, 15, "BITS")}
MCValues(f) ==
  CASE f.kind = "S32" -> {-4} [] f.kind = "BOOL" -> {1}
    [] f.kind = "UNARY" -> {2} [] OTHER -> {18765}

Parameter(tag, kind, min, vdef, max) ==
  [tag |-> tag, kind |-> kind, min |-> min, vdef |-> vdef, max |-> max]
Whole == <<Parameter("age", "S32", -2, 1, 3), Parameter("evo", "BOOL", 0, 0, 1)>>
MCParameters ==
  {Whole, <<Parameter("ngh", "BITS", 0, 9, 0), Parameter("bias", "S32", 0, 0, 1)>>,
   <<Parameter("symI", "U32", 0, 3, 7)>>}
MCSliderValues == {-5, -2, 0, 3, 4}
MCText(words) ==
  [i \in DOMAIN words |->
     IF words[i] \in {"[", "]", "-", ",", "true", "false"} THEN [is |-> words[i], n |-> 0]
     ELSE [is |-> "number", n |-> CHOOSE n \in -1..9 : ToString(n) = words[i]]]
MCParameterTexts ==
  {<<>>} \cup {MCText(words) : words \in
    {<<"2">>, <<"-1">>, <<"true">>, <<"false">>, <<"[", "]">>, <<"[", "1", ",", "]">>,
     <<"[", "0", "-", "4", "]">>, <<"[", "3", "-", "1", "]">>, <<"[", "5", "]">>,
     <<"[", "4", ",", "1", "-", "2", "]">>, <<"[", "1">>, <<"[", "1", "-", "]">>}}

VARIABLES m_bits, type, held, hit, parms, m_storage, controllers, m_bitField, stale
Memory == INSTANCE Parameters WITH
  BITS_PER_UNIT <- 12, BITS <- 36, W <- 2, H <- 2, Fields <- MCFields, Values <- MCValues,
  Types <- {9}, Exposed <- 0..8 \cup {15}, MaxHits <- 2,
  Elements <- MCParameters, PARM_LENGTH <- 12, LONG_PARM_LENGTH <- 24, SITES <- 5,
  SliderValues <- MCSliderValues, Texts <- MCParameterTexts
atomVars == <<m_bits, type, held, hit>>
parameterVars == <<parms, m_storage, controllers, m_bitField, stale>>

--------------------------------------------------------------------------------
(* Text: numbers of 16 bits in every format; three lines of four bytes *)

Printed(code, width, pad) == [is |-> "number", code |-> code, width |-> width, pad |-> pad]
Byte(code) == [is |-> "literal", byte |-> code]
MCFormats ==
  {<<Printed(c, w, p)>> : c \in {10, 16, 8, 2, 36, 0, -1, -2, -4, -5, -8}, w \in {-1, 3, 6, 12}, p \in {32, 48}}
  \cup {<<Printed(c, w, 48), Printed(c, w, 48)>> : c \in {-4, -5, -1}, w \in {-1, 12}}
  \cup {<<Byte(40), Printed(10, -1, 32), Byte(44), Printed(16, 4, 48), Byte(10), Printed(-1, 0, 32)>>}
Numbers(directive) ==
  CASE directive.is = "literal" -> {0}
    [] directive.code = 0 -> {0, 9, 255}
    [] OTHER -> {0, 8, 9, 10, 99, 100, 255, 256, 32767, -32768, -1}
MCArguments(format) ==
  CASE Len(format) = 1 -> {<<n>> : n \in Numbers(format[1])}
    [] Len(format) = 2 -> {<<n, m>> : n \in Numbers(format[1]), m \in Numbers(format[2])}
    [] OTHER -> {<<0, n, 0, m, 0, 12337>> : n \in {0, -5, 32767}, m \in {10, 65535}}
\* Line ends and letters, a line at a time and less and more.
MCChunks ==
  UNION {[1..n -> {10, 97}] : n \in 0..2}
  \cup {<<97, 97, 97, 10>>, <<10, 10, 10, 10>>, <<97, 98, 10, 98>>}
\* " -12", "ab "; "1a", "", "--3"; and "92101", the text of 1 in two digits leximited.
MCSources ==
  {<<32, 45, 49, 50, 10, 97, 98, 32>>, <<49, 97, 10, 10, 45, 45, 51>>, <<57, 50, 49, 48, 49>>, <<>>}

VARIABLES printed, source, tail, written
Text == INSTANCE ByteStreams WITH
  WORD_BITS <- 16, Formats <- MCFormats, Arguments <- MCArguments, LINES <- 3, BYTES_PER_LINE <- 4,
  Chunks <- MCChunks, Texts <- MCSources
streamVars == <<printed, source, tail, written>>

--------------------------------------------------------------------------------
(* Programs with every switch, with every two of some, and with what goes wrong; and two *)
(* programs on a machine.                                                                *)

Launch(program, words) == [driver |-> program, argv |-> <<"./bin/" \o program>> \o words]
Phrases ==
  {<<"-e", "--run">>, <<"--epoch", "-5">>, <<"--run">>, <<"--surge", "2">>, <<"--surge", "0">>,
   <<"-d", "">>, <<"--dir", "data">>, <<"-cp", "-d">>, <<"-ep", "./bin">>, <<"-s", "0">>,
   <<"--startminimal">>, <<"--startwithoutgrid">>, <<"--nohelp">>}
Ends ==
  {<<>>, <<"-e">>, <<"">>, <<"-d", "nowhere">>, <<"-d", "long">>, <<"-d", "longer">>, <<"-d", "longest">>,
   <<"-ep", "a", "-ep", "b", "-ep", "a">>, <<"-ep", "a", "-ep", "b", "-ep", "c">>,
   <<"-cp", "a", "-cp", "b">>, <<"-cp", "a", "-cp", "b", "-cp", "c">>, <<"-d", "data", "-d", "near">>}
Where == {<<>>, <<"-d", "data">>, <<"-d", "data", "-d", "/tmp">>}
MCPathLength(path) ==
  CASE path = "long" -> 470 [] path = "longer" -> 480 [] path = "longest" -> 890 [] OTHER -> Len(path)
MCDirectories == {"/tmp", "data", "near", "long", "longer", "longest"}
Spellings ==
  {"-h", "--help", "-l", "--log", "-v", "--version", "-V", "--Version", "-s", "--seed", "-e", "--epoch",
   "-a", "--autosave", "--accelerate", "--surge", "--gridImages", "--tileImages", "--haltafteraeps",
   "-d", "--dir", "-ep", "--elementpath", "-cp", "--configpath", "--ignorethreadbugs",
   "--startwithoutgrid", "--startminimal", "-p", "--pngs", "--run", "-n", "--nohelp", "--bigtext",
   "--pointless"}
Library(uuid) == [uuid |-> uuid, legal |-> TRUE]
MCFiles(path) ==
  CASE path = "./bin" -> <<Library("Mover"), [uuid |-> "Makefile", legal |-> FALSE]>>
    [] path = "a" -> <<Library("Indexed"), Library("Foreign"), Library("Mover")>>
    [] path = "b" -> <<Library("Foreign"), Library("Strange"), Library("Stranger")>>
    [] OTHER -> <<>>
MCMachines ==
  {<<Launch("mfmsim", words)>> :
     words \in Ends \cup {p \o q : p \in Phrases, q \in Phrases} \cup {<<word, "7">> : word \in Spellings}}
  \cup {<<Launch(program, <<>>)>> : program \in {"mfmbigtile", "mfmdha", "mfmc"}}
  \cup {<<[driver |-> "mfmc", argv |-> argv]>> :
           argv \in {<<"bin/mfmc_s">>, <<"bin/mfmc_l", "-ep", "a">>, <<"mfmc", "-ep", "b">>, <<"mfmc", "-ep", "a", "-ep", "b">>}}
  \cup {<<[driver |-> "mfmdha", argv |-> <<"2">>]>>, <<Launch("mfmheadless", <<"-l", "3", "--run">>)>>}
  \cup {<<Launch("mfmheadless", w), Launch("mfmc", v)>> : w \in Where, v \in Where}

\* They are ones that can be started.
ASSUME MachinesAreLegal == LegalMachines

--------------------------------------------------------------------------------
(* Windows in and at the corner of a small tile, turned and mirrored; every search *)

MCViews ==
  {[grid |-> [p \in (0..3) \X (0..4) |->
                [type |-> IF (p[1] * p[1] + 2 * p[2]) % 3 = 0 THEN "Res" ELSE IF p[1] = p[2] THEN "Wall" ELSE "Empty"]],
    center |-> center, sym |-> sym] : center \in {<<1, 2>>, <<3, 4>>}, sym \in {0, 1, 6}}
MCSubWindows == << <<<<-1, -1>>, <<0, -1>>, <<-1, 0>>, <<2, 0>> >>, <<<<1, 0>>, <<0, 1>>, <<1, 1>> >> >>

VARIABLES dist, view, query, search
Window == INSTANCE WindowScanner WITH R <- 4, Diffusible <- {}, Views <- MCViews,
  Types <- {"Res", "Wall"}, Radii <- {0, 2, 4, 5}, SubWindows <- MCSubWindows
ASSUME QueriesFit == Window!Askable
windowVars == <<dist, view, query, search>>

--------------------------------------------------------------------------------

vars == <<part, table, gui, atomVars, parameterVars, streamVars, startup, windowVars>>

NoTable ==
  /\ typeOf = <<>> /\ counter = 0
  /\ hash = <<>> /\ inUse = 0 /\ start = <<>> /\ length = <<>> /\ nextFree = 0
  /\ status = "none"

\* What a part does not use stays as it is at first, which is one state.
Init ==
  /\ part \in Parts
  /\ IF part = "table" THEN TableInit ELSE NoTable
  /\ GuiInit(IF part = "world" THEN MCWorlds ELSE {Still}) /\ (world # Epochs => options = Idle)
  /\ Memory!AtomInit
  /\ Memory!ParameterInit /\ (part # "parameters" => parms = Whole)
  /\ IF part = "startup" THEN StartupInit ELSE programs = <<>> /\ simulations = {} /\ now = 0
  /\ IF part = "window" THEN Window!WindowInit
     ELSE dist = <<>> /\ view = <<>> /\ query = Window!NoQuery /\ search = <<>>
  /\ Text!StreamInit /\ (part # "source" => source = Text!Source(<<>>))
Next ==
  /\ UNCHANGED part
  /\ \/ part = "table" /\ TableSteps /\ UNCHANGED <<gui, atomVars, parameterVars, streamVars, startup, windowVars>>
     \/ part = "world" /\ GuiNext /\ UNCHANGED <<table, atomVars, parameterVars, streamVars, startup, windowVars>>
     \/ part = "atom" /\ Memory!AtomNext /\ UNCHANGED <<table, gui, parameterVars, streamVars, startup, windowVars>>
     \/ /\ part = "parameters" /\ Memory!ParameterNext
        /\ UNCHANGED <<table, gui, atomVars, streamVars, startup, windowVars>>
     \/ /\ \/ part = "numbers" /\ Text!PrintNext
           \/ part = "source" /\ Text!SourceNext
           \/ part = "lines" /\ Text!TailNext
        /\ UNCHANGED <<table, gui, atomVars, parameterVars, startup, windowVars>>
     \/ part = "startup" /\ StartupNext /\ UNCHANGED <<table, gui, atomVars, parameterVars, streamVars, windowVars>>
     \/ /\ part = "window" /\ Window!WindowNext
        /\ UNCHANGED <<table, gui, atomVars, parameterVars, streamVars, startup>>
Spec == Init /\ [][Next]_vars

\* Elements are found, their data is apart and lookups end (ElementTable): TableSound.
\* Sites are found, at their distance and by their direction, and any of those that hold
\* a type is as likely to be picked (MDist.tcc, WindowScanner.tcc): WindowScanner!WindowSound.
LookupsSound ==
  /\ part = "table" => TableSound
  /\ part = "window" => Window!WindowSound

\* The bits of atoms, whose fields hold what was stored (BitField) and whose types stand
\* wrong bits (Parity2D_4x4): Atoms!AtomSound.  An element's parameters print and read
\* back, and the toolbox's panels show what they are (Parameter.h, NeighborSelectPanel.h):
\* Parameters!ParametersKept.
BitsKept ==
  /\ part = "atom" => Memory!AtomSound
  /\ part = "parameters" => Memory!ParametersKept

\* What ByteSink prints ByteSource scans, up to a directive's width; leximited numbers sort,
\* sources keep their place and LineTailByteSink its lines: ByteStreams!StreamsSound.
\* Programs start as the words of their command lines say (VArguments::ProcessArguments):
\* Startup's SwitchesKept.
TextKept ==
  /\ part \in {"numbers", "source", "lines"} => Text!StreamsSound
  /\ SwitchesKept
=============================================================================
