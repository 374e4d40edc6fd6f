--------------------------- MODULE MCTilePhysics ---------------------------
EXTENDS TilePhysics

\* A world drawn as rows of atoms, from north to south, all of them owned, with
\* the types that are there and those that may be born.
World(born, grid) ==
  [grid |-> grid, owned |-> DOMAIN grid, radiation |-> FALSE, arrivals |-> {},
   types |-> {grid[p].type : p \in DOMAIN grid} \cup born \cup {"Empty"}]
Drawn(born, rows) ==
  World(born, [p \in (0..Len(rows[1]) - 1) \X (0..Len(rows) - 1) |-> rows[p[2] + 1][p[1] + 1]])

\* The worlds of the liveness properties are columns where no other world has sites.
Column(atoms) == World({}, [p \in {-1} \X (1..Len(atoms)) |-> atoms[p[2]]])

Of(type) == [type |-> type]
Wall == Of("Wall")
Stacked(type) == [type |-> type, below |-> 0, above |-> 0]
Sorter(threshold) == [type |-> "Sorter", threshold |-> threshold]

MCNamed ==
  [sorting |-> Drawn({}, << <<Wall, Empty, Wall>>,
                            <<Stacked("Consumer"), Sorter(5), Stacked("Emitter")>>,
                            <<Empty, Empty, Data(2)>> >>),
   column  |-> Column(<<Wall, [Stacked("Consumer") EXCEPT !.above = 1], Empty, Empty, Wall>>),
   bombs   |-> Column(<<AntiFork(0), Empty, AntiFork(0), Of("BombRed")>>),
   wator   |-> Drawn({}, << <<Fish(0), Empty>>, <<Empty, Shark(0, 2)>>, <<Fish(0), Wall>> >>),
   movers  |-> Drawn({}, << <<Res, Of("Mover"), Empty>>, <<Of("Dmover"), Wall, Of("Indexed")>> >>),
   pile    |-> Drawn({}, << <<Of("Collector"), Empty, Of("Wanderer")>>, <<Res, Res, Of("Block")>> >>),
   war     |-> Drawn({}, << <<Base("red", 0), Res>>, <<Wall, Infantry("blue", East)>> >>),
   mining  |-> Drawn({"Res", "Infantry"}, << <<Mine(1), Empty>>, <<Base("red", 250), Wall>> >>),
   spent   |-> Drawn({}, << <<Mine(0), Res>> >>),
   bar     |-> Drawn({}, << <<Bar(Center, <<1, 3>>, 0, 0), Res, Empty>>, <<Res, Empty, Empty>>,
                            <<Empty, Res, Empty>>  >>),
   docked  |-> Drawn({}, << <<QBar(Center, <<1, 3>>, 0, 1), Res, QBar(<<0, 2>>, <<1, 3>>, 1, 2)>>,
                            <<Res, Empty, Wall>>, <<Empty, Res, Empty>>  >>),
   packed  |-> Drawn({}, << <<DemoBar(<<26, 80>>, <<27, 81>>, 0, 0), Res>>, <<Wall, Empty>>, <<Empty, Empty>> >>),
   carrier |-> Drawn({}, << <<Res, Of("DemoMover"), Of("Block")>>, <<Empty, Res, Wall>> >>),
   slanted |-> Drawn({"SBar"}, << <<Empty, Res, Empty, Empty>>, <<Res, DBar(Center, <<1, 1>>, 0), Res, Empty>>,
                                  <<Empty, Res, Empty, Empty>>, <<Empty, Empty, Empty, Wall>> >>),
   straight |-> Drawn({"DBar"}, << <<SBar(Center, <<2, 1>>, 1), Res, Empty>>, <<Res, SBar(Center, <<2, 1>>, 0), Empty>>,
                                   <<Empty, Res, Empty>> >>),
   square  |-> Drawn({}, << <<Crystal("XtalSq1"), Res, Empty>>, <<Res, Empty, Crystal("XtalSq1")>>,
                            <<Crystal("XtalR12"), Empty, Empty>> >>),
   density |-> Drawn({"Res"}, << <<Of("Dreg"), Wall>>, <<Of("Creg"), Empty>> >>),
   checker |-> Drawn({"CheckerBlue"}, << <<Of("CheckerRed"), Of("BombYellow"), Of("Rocket")>> >>),
   hot     |-> [Drawn({}, << <<Res, Of("Rocket")>> >>) EXCEPT !.radiation = TRUE],
   edge    |-> [Drawn({}, << <<Res, Empty, Of("Wanderer"), Empty>> >>) EXCEPT
                  !.owned = (0..2) \X {0}, !.arrivals = {Empty, Res}]]
\* A Dmover near a bar that is turned by a quarter.
MCTurned == {Drawn({}, << <<Of("Block"), Of("Dmover"), Empty>>,
                          <<Empty, Bar(Center, <<1, 1>>, 1, 0), Empty>> >>)}
MCWorlds == {MCNamed[name] : name \in DOMAIN MCNamed}

MCDiffusible == {"Empty", "Res", "Indexed", "Dreg", "Creg", "Mover", "DemoMover", "Dmover", "Collector",
                 "Wanderer", "BombRed", "BombYellow", "CheckerRed", "CheckerBlue", "AntiFork",
                 "Data", "Sorter", "Infantry", "Base"}
MCXRayed == {Res, Junk}
MCFairSites == {-1} \X (1..4)

\* What FieldsStayInBounds asks of the atoms that a world starts with or receives.
ASSUME WorldsFit == AtomsComeFit
=============================================================================
