SPECIFICATION FairSpec
CONSTANTS
  w1 = w1
  Waiters <- MCOneWaiter
  StartContext = "main"
  SocketCanFail = TRUE
  HeapCanFail = FALSE
  LwipDhcp = TRUE
  PreventNullIp = TRUE
  ArgValues <- MCAddressArgs
PROPERTY OpenSocketLeadsToReady
