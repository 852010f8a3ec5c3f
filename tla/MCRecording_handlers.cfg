SPECIFICATION Spec
CONSTANTS
  WORD = 4
  Plans <- Traces
  rows <- Rows
  handle <- Handle
  sregs <- Sregs
  goes_on <- Goes
  keeps <- Keep
  patience <- Patience
INVARIANTS TypeOK Recognised TellsWhatHappened Registers NotAnother StopsWhenLost
CHECK_DEADLOCK FALSE
