\* Two laps of the rings, every fault of the network; windows close, and old packets
\* close them again.
SPECIFICATION FairSpec
CONSTANTS
  DEFAULT_BUFF_SIZE = 3
  Junk = Junk
  MSS = 3
  CP1_WINDOW_SIZE = 96
  ISN <- MCISN
  MaxStream <- OneWay4
  MaxInFlight = 2
  Duplication = {TRUE, FALSE}
INVARIANTS
  TypeOK
  WindowInStep
  NothingLost
  AcksInFlightValid
  PureAcksBacked
  NeverMisplaced
PROPERTIES
  ImplementsStreams
  EventuallyAcked
CHECK_DEADLOCK FALSE
