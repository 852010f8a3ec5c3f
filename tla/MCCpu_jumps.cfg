SPECIFICATION Spec
CONSTANTS
  WORD = 4
  Starts <- Contexts
  Programs <- Greater
  MemSize = 48
INVARIANTS JumpsMove
CHECK_DEADLOCK FALSE
