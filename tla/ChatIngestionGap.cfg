SPECIFICATION Spec
CONSTANTS
  Chats <- OneChat
  Kind <- OneKind
  BaseDenied = {}
  BaseAllowed = {}
  MaxMessages <- Three
  IngestLimit = 1
  InOrder = TRUE
  Bare = FALSE
  MaxStops = 2
  MaxErrors = 0
  MaxIngests = 0
  MaxBackfills = 0
  MaxPolicies = 0
INVARIANTS
  RecoveredAtStartup
\* Messages, stops, errors, imports and policy changes are all bounded.
CHECK_DEADLOCK FALSE
