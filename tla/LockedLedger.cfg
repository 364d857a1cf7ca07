SPECIFICATION LockedSpec
CONSTANTS
  p1 = p1
  p2 = p2
  Procs = {p1, p2}
  MaxFailures = 1
  MayOverrun = TRUE
  ReadCap = 2
PROPERTY ImplementsLedger
