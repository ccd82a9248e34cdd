SPECIFICATION FairSpec
CONSTANTS
  tcpip = tcpip
  driver = driver
  Senders <- MCTwoSenders
  MaxCalls = 2
  MaxSize = 3
  FrameRoom = 3
  Ring = 6
  MinSize = 2
  IrqBuilds = {FALSE}
  CanTimeOut = FALSE
CHECK_DEADLOCK FALSE
INVARIANT IntactOnWire
