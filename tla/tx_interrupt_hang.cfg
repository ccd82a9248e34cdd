SPECIFICATION FairSpec
CONSTANTS
  tcpip = tcpip
  driver = driver
  Senders <- MCOneSender
  MaxCalls = 2
  MaxSize = 3
  FrameRoom = 3
  Ring = 6
  MinSize = 2
  IrqBuilds = {TRUE}
  CanTimeOut = FALSE
CHECK_DEADLOCK FALSE
PROPERTY InterruptSendReturns
