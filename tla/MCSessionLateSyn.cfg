\* A SYN-ACK that comes twice.
SPECIFICATION SessionSpec
CONSTANTS
  DEFAULT_BUFF_SIZE = 4
  Junk = Junk
  MSS = 2
  CP1_WINDOW_SIZE = 64
  ISN <- MCISN
  MaxStream <- OneEach
  MaxInFlight = 2
  Duplication = {FALSE}
INVARIANT NoSynAfterHandshake
CHECK_DEADLOCK FALSE
