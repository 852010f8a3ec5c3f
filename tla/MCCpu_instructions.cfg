SPECIFICATION Spec
CONSTANTS
  WORD = 4
  Starts <- Contexts
  Programs <- TwoSteps
  MemSize = 48
INVARIANTS Tracks Compares
CHECK_DEADLOCK FALSE
