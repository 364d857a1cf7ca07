SPECIFICATION ReaderSpec
CONSTANTS
  ReadCap = 4
  MaxLegacy = 2
  MaxBatch = 2
  MaxInterrupts = 2
INVARIANTS
  ChainIntact
  EvidenceFollowsRecords
  StopsPastReadCap
  NoFalseAssurance
  NoFalseAlarmAtRest
PROPERTIES
  FailureIsFinal
  ImplementsSealedLog
