SPECIFICATION ServerSpec
CONSTANTS
  p1 = p1
  p2 = p2
  s1 = s1
  s2 = s2
  small = small
  large = large
  m1 = m1
  m2 = m2
  Procs = {p1, p2}
  Skills = {s1, s2}
  Packs = {small, large}
  PackSkills <- TwoPacks
  Meters = {m1, m2}
  MaxVersion = 2
  MaxCalls = 3
  MaxInterrupts = 1
  Wanted = large
SYMMETRY Symmetric
INVARIANTS
  BilledWhenEarned
  SuccessIsBilled
  RetryBillsOnce
PROPERTIES
  GateHoldsThroughout
