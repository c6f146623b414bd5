CONSTANTS
  MsgLen = 3
  BufLen = 2
  DownCap = 5
  UpCap = 7
SPECIFICATION FairSpec
INVARIANTS
  TypeOK
PROPERTIES
  LoopComesToRest
  BlockedTogether
  FeederEndStopsBoard
CHECK_DEADLOCK FALSE
