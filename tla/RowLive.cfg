SPECIFICATION FairSpec
CONSTANTS
  R = 1
  TILE_WIDTH = 7
  GRID_WIDTH = 3
  GRID_HEIGHT = 1
  Empty = Empty
  A = A
  Atoms <- LiveAtoms
  Behaviours <- LiveBehaviours
  Watched <- LiveSites
  EventCenters <- LiveCenters
  ExecutingTiles <- AllTiles
  GENERATIONS = 1
PROPERTIES
  LocksReleased
