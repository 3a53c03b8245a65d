\* A stream that goes round the array more than twice.
CONSTANTS
  DEFAULT_BUFF_SIZE = 4
  ISN = 5
  MaxStream = 9
  Junk = Junk
SPECIFICATION Spec
INVARIANTS TypeOK RingTracksStream AckAssertionsHold UnackedBytesKept PayloadInPlace FirstLapExact
PROPERTY ImplementsWindow
CHECK_DEADLOCK FALSE
