CONSTANTS
  Backlog = 1
  InCap = 2
  RxCap = 3
  QSize = 2
SPECIFICATION FairSpec
PROPERTIES
  RequestRejected
CHECK_DEADLOCK FALSE
