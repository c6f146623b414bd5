CONSTANTS
  WordCount = 64
  Offered <- MCOffered
  MinHold = 1
  MaxHold = 1
  ReadHold = 2
SPECIFICATION MSpec
PROPERTIES
  LoadTakesEffect
