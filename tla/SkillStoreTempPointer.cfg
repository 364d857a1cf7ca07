SPECIFICATION Spec
CONSTANTS
  MaxVersion = 2
  MaxInterrupts = 1
INVARIANTS
  PointerIsVersion
