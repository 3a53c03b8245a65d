\* A receiver that fills up while nothing is unacknowledged.
SPECIFICATION Spec
CONSTANTS
  DEFAULT_BUFF_SIZE = 3
  Junk = Junk
  MSS = 3
  CP1_WINDOW_SIZE = 96
  ISN <- MCISN
  MaxStream <- OneWay3
  MaxInFlight = 1
  Duplication = {TRUE, FALSE}
INVARIANT NoWindowDeadlock
CHECK_DEADLOCK FALSE
