SPECIFICATION Spec
CONSTANTS
  CallsOf <- MCCallsOf
  Tokens <- MCTokens
  MaxArgs = 3
  RequestsOf <- MCRequestsOf
  Half = 128
  Scale = 16
  ConfiguredMS = {2, 8, 17}
  AskedMS = {7, 8, 17}
  MaxWrites = 3
  Skills <- MCSkills
  Here = "here"
  Entries <- MCEntries
  MaxEntries = 3
  MaxFiles = 2
  MaxBytes = 3
  HalfSize = 8
  OcrRuns <- MCOcrRuns
  Mirrors = 2
INVARIANTS
  SchemasTellCalls
  ConfirmationIsLast
  ReadsAsWritten
  ReportTellsOutput
  RunIsBounded
  WithinLimits
  InstalledIsWhole
  DownloadsAreUsable
PROPERTIES
  ImplementsConsentGate
  EveryRequestAnswered
CHECK_DEADLOCK FALSE
