SPECIFICATION Spec
CONSTANTS
  p1 = p1
  p2 = p2
  s1 = s1
  NoSession = NoSession
  Projects <- MCProjects
  Sessions <- MCSessions
  SessionProject <- MCSessionProject
  MaxTasks = 2
  Capacity = 2
  PageSize = 2
  Cancellers = {c1}
  MaxCrashes = 0
INVARIANT WorkspaceIsolation
