SPECIFICATION FairSpec
CONSTANTS
  p1 = p1
  p2 = p2
  Process = {p1, p2}
  NumPhotos = 1
  MaxVersion = 3
  Size <- Sizes
  Time <- Times
  Windows <- TwoWindows
  MaxFailures = 1
INVARIANTS
  SignatureTells
  ReportedReplicated
PROPERTIES
  CopiesKept
  Converges
