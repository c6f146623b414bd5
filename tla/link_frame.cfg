CONSTANTS
  MsgLen = 2
  BufLen = 3
  DownCap = 5
  UpCap = 7
SPECIFICATION FairSpec
PROPERTIES
  RecvIsOneQuaternion
CHECK_DEADLOCK FALSE
