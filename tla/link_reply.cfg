CONSTANTS
  MsgLen = 3
  BufLen = 2
  DownCap = 5
  UpCap = 7
SPECIFICATION FairSpec
PROPERTIES
  ReplyIsRead
CHECK_DEADLOCK FALSE
