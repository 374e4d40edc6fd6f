SPECIFICATION Spec
CONSTANTS
  R = 1
  TILE_WIDTH = 7
  GRID_WIDTH = 3
  GRID_HEIGHT = 1
  Empty = Empty
  A = A
  Atoms <- MCAtoms
  Behaviours <- RowBehaviours
  Watched <- RowSites
  EventCenters <- RowCenters
  ExecutingTiles <- AllTiles
  GENERATIONS = 2
INVARIANTS
  IInv
  AssertsHold
  CachesAgree
  StoppedIsClean
  Handshake
  BuffersFit
PROPERTIES
  WindowUndisturbed
  ImplementsSharedGrid
