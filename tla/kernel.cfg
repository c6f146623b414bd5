SPECIFICATION Spec
CONSTANTS
  Idle = 3
  Sem = {s}
  Queue = {q}
  Msg = {m1, m2}
  NoMsg = NoMsg
  MaxDelay = 2
  MaxLock = 1
  MaxCnt = 1
  InitCnt <- Zero
  QSize = 2
INVARIANTS
  TypeOK
  ReadyIffRunnable
  HighestRuns
  NoPostLost
  NoMessageLost
PROPERTIES
  MessagesInOrder
  TimeoutEnds
