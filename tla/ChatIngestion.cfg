SPECIFICATION Spec
CONSTANTS
  Chats <- OneChat
  Kind <- OneKind
  BaseDenied = {}
  BaseAllowed = {}
  MaxMessages <- Four
  IngestLimit = 2
  InOrder = FALSE
  Bare = TRUE
  MaxStops = 1
  MaxErrors = 1
  MaxIngests = 1
  MaxBackfills = 1
  MaxPolicies = 0
INVARIANTS
  TypeOK
  NothingMissed
PROPERTIES
  CursorNeverRewinds
\* Messages, stops, errors, imports and policy changes are all bounded.
CHECK_DEADLOCK FALSE
