\* The server reads across the end of its array while it sends a packet.
SPECIFICATION Spec
CONSTANTS
  DEFAULT_BUFF_SIZE = 3
  Junk = Junk
  MSS = 3
  CP1_WINDOW_SIZE = 96
  ISN <- MCISN
  MaxStream <- Torn
  MaxInFlight = 1
  Duplication = {FALSE}
INVARIANT WindowsBacked
CHECK_DEADLOCK FALSE
