\* What the driver sees of the bytes held.
SPECIFICATION Spec
CONSTANTS
  THREADQUEUE_MAX_BYTES = 3
  Byte = {b1, b2}
  Dead = dead
  Outside = outside
INVARIANT PeekShowsHeldBytes
\* A FAIL ends the program.
CHECK_DEADLOCK FALSE
