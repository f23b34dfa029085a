SPECIFICATION Spec
CONSTANTS
  m1 = m1
  m2 = m2
  m3 = m3
  Messages = {m1, m2}
  SentAt <- OneByOne
  Number <- OneByOne
  Worth = {m1, m2}
  None = None
  OldItems = {old}
  Invented = {ghost}
  MayRepeat = FALSE
  BatchSize = 1
  ShowLimit = 1
  MaxActions = 2
  MaxFaults = 1
  MaxPresses = 1
INVARIANTS TypeOK NoCandidateLost NothingHidden CreatedWithConsent
PROPERTIES ChangedWithConsent ImplementsPromise
CHECK_DEADLOCK FALSE
