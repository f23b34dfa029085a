SPECIFICATION FairSpec
CONSTANTS
  Contexts = {4096, 8192}
  Wanted = 8192
  MaxIds = 6
  MaxFaults = 2
  MaxOthers = 3
INVARIANTS TypeOK ReadyMeansLoaded
PROPERTIES OthersUntouched ReadyInTheEnd
CHECK_DEADLOCK FALSE
