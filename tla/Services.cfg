SPECIFICATION Spec
CONSTANTS
  Elements <- MCElements
  EmptyElement = 1
  NoElement = 0
  BITS = 16
  ELEMENT_TABLE_BITS = 8
  ELEMENT_DATA_SLOTS = 4
  DataSlots <- MCData
  Options <- MCOptions
  FrameAEPS = {0, 1, 3}
  U32 = 16
  MAX_BUCKET_FILL_DEPTH = 4
  TileSide = 2
  CacheWidth = 1
  MAX_ATOM_SIZE = 3
  CAMERA_SLOW_SPEED = 1
  CAMERA_FAST_SPEED = 3
  MAX_REGISTERED_ELEMENTS = 3
  NoPanel = NoPanel
  MaxBrush = 2
  MaxEpochs = 7
  Machines <- MCMachines
  Directories <- MCDirectories
  PathLength <- MCPathLength
  Files <- MCFiles
  Plugins = {"element", "no library", "no accessor"}
  MAX_PATHS = 5
  MAX_CONFIGURATION_PATHS = 2
  TABLE_SIZE = 33
  MAX_NEEDED_ELEMENTS = 31
  MaxSeconds = 1
INVARIANTS
  LookupsSound
  EpochSchedule
  RoundTrip
  BitsKept
  TextKept
  OwnDirectories
  ElementsKept
PROPERTIES
  EditsAsAimed
\* A failure or a halt ends the program.
CHECK_DEADLOCK FALSE
