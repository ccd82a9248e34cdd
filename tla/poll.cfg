SPECIFICATION FairSpec
CONSTANTS
  w1 = w1
  Watchers <- MCOneWatcher
  LinkUnreadable = TRUE
  CheckBuilds = {TRUE, FALSE}
  EarlyBuilds = {TRUE, FALSE}
  Timeout = 2
  MaxFrames = 3
  ChipFrames = 2
  PoolSize = 2
  MboxSize = 1
INVARIANTS
  TypeOK
  CopiesAgree
  NoRepeatedLinkEvent
  PbufsConserved
  InputMeansLinkUp
PROPERTIES
  EventStays
  WaiterFindsLink
  ChipDrained
  
