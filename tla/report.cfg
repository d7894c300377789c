SPECIFICATION FairSpec
CONSTANTS
  MaxLines = 3
  PipeSize = 2
  Attempts = 2
  LogLines = 2
  ErrorLines = 1
  Limit = 3
  MaxText = 7
INVARIANTS OutputOnRecord RecordIsTrue SplitIsFaithful
PROPERTY KeepsMoving
CHECK_DEADLOCK FALSE
