\* A stream one byte longer than the array has slots after the first byte.
SPECIFICATION Spec
CONSTANTS
  DEFAULT_BUFF_SIZE = 4
  ISN = 0
  MaxStream = 6
  Junk = Junk
INVARIANT PacketsDeliverStream
CHECK_DEADLOCK FALSE
