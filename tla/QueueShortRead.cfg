\* What a Read gives when fewer bytes are held than it asks for.
SPECIFICATION Spec
CONSTANTS
  THREADQUEUE_MAX_BYTES = 3
  Byte = {b1, b2}
  Dead = dead
  Outside = outside
PROPERTY ReadsWhatIsHeld
\* A FAIL ends the program.
CHECK_DEADLOCK FALSE
