\* More than a lap of the ring, with room for three segments ahead of a gap.
SPECIFICATION TiedSpec
CONSTANTS
  DEFAULT_BUFF_SIZE = 5
  ISN = 3
  MaxStream = 7
  Junk = Junk
  Modulus = 1048576
  Cell = {c1, c2, c3, c4, c5}
  NULL = NULL
  Recycled = FALSE
SYMMETRY Symmetry
INVARIANTS
  ListIsSet
  CellsAccounted
PROPERTIES
  ImplementsBuffer
CHECK_DEADLOCK FALSE
