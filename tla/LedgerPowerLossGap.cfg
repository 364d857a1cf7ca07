SPECIFICATION PowerSpec
CONSTANTS
  ReadCap = 4
  MaxLegacy = 0
  MaxBatch = 1
  MaxInterrupts = 1
INVARIANTS
  StateConsistentAfterPowerLoss
