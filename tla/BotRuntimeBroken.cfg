SPECIFICATION FairSpec
CONSTANTS
  MaxUpdates = 3
  Kind <- WithBroken
  PollLimit = 2
  MaxDeaths = 0
  MaxErrors = 0
PROPERTY EveryUpdateDone
CHECK_DEADLOCK FALSE
