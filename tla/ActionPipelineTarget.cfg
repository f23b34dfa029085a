SPECIFICATION Spec
CONSTANTS
  m1 = m1
  m2 = m2
  m3 = m3
  Messages = {m1, m2}
  SentAt <- OneByOne
  Number <- OneByOne
  Worth = {m1, m2}
  None = None
  OldItems = {old}
  Invented = {ghost}
  MayRepeat = FALSE
  BatchSize = 1
  ShowLimit = 1
  MaxActions = 1
  MaxFaults = 0
  MaxPresses = 0
PROPERTY AnswerKept
CHECK_DEADLOCK FALSE
