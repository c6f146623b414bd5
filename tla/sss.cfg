CONSTANTS
  Backlog = 1
  InCap = 2
  RxCap = 3
  QSize = 2
SPECIFICATION FairSpec
INVARIANTS
  TypeOK
  OffMeansNoPattern
  CommandsTakeEffect
PROPERTIES
  DroppedOnlyWhileWaiting
  WaitEndsUnlessServerSpins
  AbandonedForGood
CHECK_DEADLOCK FALSE
