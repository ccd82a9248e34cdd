SPECIFICATION FairSpec
CONSTANTS
  w1 = w1
  Waiters <- MCOneWaiter
  StartContext = "main"
  SocketCanFail = TRUE
  HeapCanFail = TRUE
  LwipDhcp = TRUE
  PreventNullIp = TRUE
  ArgValues <- MCAllArgs
CHECK_DEADLOCK FALSE
INVARIANTS
  TypeOK
  ReadyMeansInitialised
  SignalsAgree
  WaitReadyHolds
  NetworkUsable
  MacAgreement
PROPERTIES
  ImplementsLifecycle
  ErrorWaiterReturns
  EventuallyReady
