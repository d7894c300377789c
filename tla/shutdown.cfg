SPECIFICATION FairSpec
CONSTANTS
  t1 = t1
  t2 = t2
  p1 = p1
  Tasks <- MCTasks
  Plays <- MCPlays
  Max = 2
  MaxLives = 2
INVARIANTS DatabaseServes AtMostOnce
PROPERTIES BegunRemoves PlaybackEnds StopCompletes
CHECK_DEADLOCK FALSE
