SPECIFICATION FairSpec
CONSTANTS
  MaxJobs = 2
  Chats = {c1}
  MaxMessages = 2
  BatchSize = 1
  MaxCrashes = 1
  MaxDbErrors = 1
INVARIANTS
  TypeOK
  CoveredAboveCursor
  CompletedMeansSaved
  CountNeverAhead
  OnlyRequestedPeriods
PROPERTIES
  CancelIsNeverLost
  FinishedIsFinal
  NothingSavedAfterCancel
  ImplementsPromise
  CancelTakesEffect
  EveryJobEnds
\* The owner stops creating jobs and Telegram stops sending: MaxJobs, MaxMessages.
CHECK_DEADLOCK FALSE
