SPECIFICATION FairSpec
CONSTANTS
  Chats <- TwoChats
  Kind <- TwoKinds
  BaseDenied = {"group"}
  BaseAllowed = {}
  MaxMessages <- MostlyNews
  IngestLimit = 1
  InOrder = TRUE
  Bare = TRUE
  MaxStops = 1
  MaxErrors = 0
  MaxIngests = 1
  MaxBackfills = 0
  MaxPolicies = 2
PROPERTIES
  DeniedStaysUnread CatchUpEnds UpdateHandled
CHECK_DEADLOCK FALSE
