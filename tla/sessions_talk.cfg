SPECIFICATION Spec
CONSTANTS
  p1 = p1
  p2 = p2
  NoProject = NoProject
  Projects <- MCProjects
  DefaultProject = p1
  StartProject = p1
  Handlers = {h1, h2}
  MaxSessions = 2
  MaxMessages = 2
  MaxRequests = 5
  MaxCrashes = 1
  Patient = TRUE
INVARIANTS OneActive ActiveInProject ConversationOwned Continuity
CHECK_DEADLOCK FALSE
