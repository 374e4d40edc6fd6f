SPECIFICATION Spec
CONSTANTS
  R = 1
  TILE_WIDTH = 7
  GRID_WIDTH = 2
  GRID_HEIGHT = 2
  Empty = Empty
  A = A
  Atoms <- MCAtoms
  Behaviours <- CornerBehaviours
  Watched <- CornerSites
  EventCenters <- CornerCenters
  ExecutingTiles <- CornerTiles
  GENERATIONS = 1
INVARIANTS
  CachesAgree
  EventsExclusive
PROPERTIES
  ImplementsSharedGrid
