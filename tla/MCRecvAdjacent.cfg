\* Two packets that touch, the later one first.
SPECIFICATION Spec
CONSTANTS
  DEFAULT_BUFF_SIZE = 5
  ISN = 3
  MaxStream = 5
  Junk = Junk
INVARIANT NextByteMissing
CHECK_DEADLOCK FALSE
