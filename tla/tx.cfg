SPECIFICATION FairSpec
CONSTANTS
  tcpip = tcpip
  driver = driver
  Senders <- MCOneSender
  MaxCalls = 4
  MaxSize = 4
  FrameRoom = 3
  Ring = 6
  MinSize = 2
  IrqBuilds = {TRUE, FALSE}
  CanTimeOut = TRUE
CHECK_DEADLOCK FALSE
INVARIANTS
  TypeOK
  SuccessMeansSent
  IntactOnWire
PROPERTIES
  ImplementsEthernetTx
  SendReturns
