SPECIFICATION FairSpec
CONSTANTS
  MaxUpdates = 5
  Kind <- AllKinds
  PollLimit = 2
  MaxDeaths = 2
  MaxErrors = 2
INVARIANTS TypeOK NothingForgotten TakenOnce AnsweredOrRecorded
PROPERTY DoneUntilBroken
CHECK_DEADLOCK FALSE
