SPECIFICATION Spec
CONSTANTS
  Timeout = 3
  Grace = 1
  StderrTimeout = 2
  Horizon = 8
INVARIANT CancelIsPrompt
