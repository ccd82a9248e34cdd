SPECIFICATION Spec
CONSTANTS
  w1 = w1
  Waiters <- MCOneWaiter
  StartContext = "task"
  SocketCanFail = FALSE
  HeapCanFail = FALSE
  LwipDhcp = TRUE
  PreventNullIp = TRUE
  ArgValues <- MCAddressArgs
INVARIANT ReadyMeansInitialised
