SPECIFICATION FairSpec
CONSTANTS
  m1 = m1
  m2 = m2
  m3 = m3
  Messages = {m1, m2, m3}
  SentAt <- OneByOneOfThree
  Number <- OneByOneOfThree
  Worth = {m1, m3}
  None = None
  OldItems = {old}
  Invented = {}
  MayRepeat = FALSE
  BatchSize = 2
  ShowLimit = 1
  MaxActions = 1
  MaxFaults = 2
  MaxPresses = 0
PROPERTIES EveryCandidateExtracted EveryReviewShown
CHECK_DEADLOCK FALSE
