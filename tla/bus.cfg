SPECIFICATION FairSpec
CONSTANTS
  tcpip = tcpip
  driver = driver
  isr = isr
  Users <- MCUsers
  Handler = isr
  Builds <- MCBuilds
  Boards <- MCBoards
CHECK_DEADLOCK FALSE
INVARIANTS
  TypeOK
  NoStaleHeader
  FailedOpenReleases
PROPERTIES
  ImplementsAtomicBus
  LockReleased
