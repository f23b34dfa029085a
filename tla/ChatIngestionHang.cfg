SPECIFICATION FairSpec
CONSTANTS
  Chats <- OneChat
  Kind <- OneKind
  BaseDenied = {}
  BaseAllowed = {}
  MaxMessages <- Two
  IngestLimit = 1
  InOrder = TRUE
  Bare = TRUE
  MaxStops = 1
  MaxErrors = 0
  MaxIngests = 0
  MaxBackfills = 1
  MaxPolicies = 0
PROPERTIES
  UpdateHandled
\* Messages, stops, errors, imports and policy changes are all bounded.
CHECK_DEADLOCK FALSE
