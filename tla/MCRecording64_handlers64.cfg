SPECIFICATION Spec
CONSTANTS
  WORD = 8
  Plans <- Traces
  rows <- Rows
  handle <- Handle
  sregs <- Sregs
  goes_on <- Goes
  keeps <- Keep
  patience <- Patience
INVARIANTS Recognised TellsWhatHappened Registers
CHECK_DEADLOCK FALSE
