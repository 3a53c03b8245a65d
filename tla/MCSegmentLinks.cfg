\* Memory that still has the links it had when it was freed.
SPECIFICATION ListSpec
CONSTANTS
  DEFAULT_BUFF_SIZE = 6
  ISN = 3
  MaxStream = 6
  Junk = Junk
  Modulus = 1048576
  Cell = {c1, c2, c3, c4, c5, c6}
  NULL = NULL
  Recycled = TRUE
SYMMETRY Symmetry
INVARIANT EndsAreEnds
CHECK_DEADLOCK FALSE
