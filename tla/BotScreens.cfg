SPECIFICATION Spec
CONSTANTS
  Chats = {1, 2, 3}
  Kind <- ThreeKinds
  BaseDenied = {}
  BaseAllowed = {3}
  Titles = {1}
  Stored <- TwoStored
  Days = {30}
  PageSize = 1
  MaxJobs = 2
  MaxScreens = 8
  MaxFaults = 1
  MaxUpdates = 1
  MaxBatches = 1
INVARIANTS TypeOK ConfirmedFirst NumberMeansOneJob CancelReachable WalkMissesNothing
PROPERTY StartedAsAllowed
\* The owner stops pressing: MaxScreens.
CHECK_DEADLOCK FALSE
