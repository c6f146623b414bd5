CONSTANTS
  WordCount = 64
  Offered <- MCOffered
  MinHold = 1
  MaxHold = 5
  ReadHold = 2
SPECIFICATION EitherSpec
INVARIANTS
  TypeOK
  CommandOnlyWhileWritten
  LatchFresh
  ExecutedHeldMinusOne
  ReadWhileWriting
  BusReadsAllOnes
PROPERTIES
  ImplementsDevice
  AccumulatorOnlyByCommand
