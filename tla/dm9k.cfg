CONSTANTS
  SramCap = 4
  PoolSize = 4
  WindowMax = 2
SPECIFICATION FairSpec
INVARIANTS
  TypeOK
  DataLandsWhereMeant
  BufferConservation
  ResetSparesTransmission
  StrandedOnlyByWindow
PROPERTIES
  ServedWhileTraffic
  TransmitReturns
