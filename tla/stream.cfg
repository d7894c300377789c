SPECIFICATION FairSpec
CONSTANTS
  c1 = c1
  c2 = c2
  h1 = h1
  Chats <- MCChats
  Stoppers = {h1}
  MaxStreams = 2
  MaxClips = 1
  WithAudio = TRUE
INVARIANTS CanBeStopped OneRecorder NothingLeft
PROPERTY StopEnds
CHECK_DEADLOCK FALSE
