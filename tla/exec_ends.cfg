SPECIFICATION FairSpec
CONSTANTS
  Timeout = 3
  Grace = 1
  StderrTimeout = 2
  Horizon = 8
INVARIANTS EndsInTime CancelHonoured
PROPERTIES KeepsContract EverythingSettles
