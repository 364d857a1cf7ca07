SPECIFICATION Spec
CONSTANTS
  MaxVersion = 3
  MaxInterrupts = 2
INVARIANTS
  PointerMatchesInstalled
  
  RunSurvivesMutations
