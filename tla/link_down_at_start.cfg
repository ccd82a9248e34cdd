SPECIFICATION FairSpec
CONSTANTS
  w1 = w1
  Watchers <- MCOneWatcher
  LinkUnreadable = FALSE
  CheckBuilds = {TRUE}
  EarlyBuilds = {FALSE}
  Timeout = 2
  MaxFrames = 0
  ChipFrames = 1
  PoolSize = 1
  MboxSize = 1
PROPERTY DownWaiterReturns
