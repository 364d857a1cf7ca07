SPECIFICATION BusySpec
CONSTANTS
  p1 = p1
  p2 = p2
  p3 = p3
  Procs = {p1, p2, p3}
  MaxFailures = 1
  MayOverrun = TRUE
INVARIANTS
  ExclusionUnlessCompromised
PROPERTIES
  EveryCallReturns
  AbandonedLockReclaimed
