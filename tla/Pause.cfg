\* The hostile setting: short sleeps, spurious wakeups, polling that gives up.
SPECIFICATION Spec
CONSTANTS
  N = 3
  Links <- TriangleLinks
  SleepsEnough = FALSE
  SpuriousWakeups = TRUE
  GivesUp = TRUE
INVARIANTS
  AssertsHold
  PausedIsQuiet
  PInv
PROPERTY ImplementsStopTheWorld
\* A FAIL ends the program.
CHECK_DEADLOCK FALSE
