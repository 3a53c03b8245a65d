\* A stream that leaves room in the window, and both ends may close.
SPECIFICATION LifeSpec
CONSTANTS
  DEFAULT_BUFF_SIZE = 4
  Junk = Junk
  MSS = 4
  CP1_WINDOW_SIZE = 128
  ISN <- MCISN
  MaxStream <- OneWay2
  MaxInFlight = 1
  Duplication = {TRUE, FALSE}
INVARIANTS
  LifeTypeOK
  CloseFlushes
  SleepsForReason
PROPERTIES
  CloseReturns
  EventuallyRead
CHECK_DEADLOCK FALSE
