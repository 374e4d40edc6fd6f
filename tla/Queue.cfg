\* A ring of three bytes, with every call at every length that fits in it.
SPECIFICATION Spec
CONSTANTS
  THREADQUEUE_MAX_BYTES = 3
  Byte = {b1, b2}
  Dead = dead
  Outside = outside
INVARIANTS
  ReadsAreWhole
  NoLostWakeup
  QInv
PROPERTY ImplementsByteQueue
\* A FAIL ends the program.
CHECK_DEADLOCK FALSE
