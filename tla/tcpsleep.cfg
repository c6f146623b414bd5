SPECIFICATION Spec
CONSTANTS
  Idle = 4
  Sem = {1, 8, 9}
  Queue = {}
  Msg = {}
  NoMsg = NoMsg
  MaxDelay = 1
  MaxLock = 1
  MaxCnt = 2
  InitCnt <- Created
  Net = 8
  Rx = 9
  Slot = {1}
  Tps = 1
INVARIANTS
  NetExclusive
  SleepersCanBeCalled
PROPERTY DataReceived
