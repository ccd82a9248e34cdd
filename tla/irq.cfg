SPECIFICATION FairSpec
CONSTANTS
  Watchers = {}
  LinkUnreadable = TRUE
  Builds <- MCBuilds
  ChipFrames = 2
INVARIANTS
  TypeOK
  PinServed
  NoSleepOnFrames
PROPERTIES
  FramesTaken
  
