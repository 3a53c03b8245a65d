\* More than a lap of the ring, with room for four segments ahead of a gap.
SPECIFICATION Spec
CONSTANTS
  DEFAULT_BUFF_SIZE = 6
  ISN = 3
  MaxStream = 8
  Junk = Junk
  Modulus = 13
INVARIANTS
  TypeOK
  SegmentsSound
  HoldsWhatArrived
  BytesInPlace
  ReadsInOrder
  WordsAgree
PROPERTIES
  PromisesKept
  ImplementsReassembly
CHECK_DEADLOCK FALSE
