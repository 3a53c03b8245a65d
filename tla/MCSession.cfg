\* Data both ways over every fault of the network, from the first SYN on.
SPECIFICATION FairSessionSpec
CONSTANTS
  DEFAULT_BUFF_SIZE = 4
  Junk = Junk
  MSS = 2
  CP1_WINDOW_SIZE = 64
  ISN <- MCISN
  MaxStream <- OneEach
  MaxInFlight = 1
  Duplication = {TRUE, FALSE}
INVARIANTS
  SessionTypeOK
  HandshakeAssertsHold
  InitializedInStep
  EstablishedInStep
  TransferIntact
PROPERTIES
  SessionImplementsStreams
  EventuallyEstablished
CHECK_DEADLOCK FALSE
