SPECIFICATION PagedOutSpec
CONSTANTS
  p1 = p1
  p2 = p2
  s1 = s1
  NoSession = NoSession
  Projects <- MCProjects
  Sessions <- MCNoSessions
  SessionProject <- MCNoSessionProject
  MaxTasks = 3
  Capacity = 2
  PageSize = 1
  Cancellers = {c1}
  MaxCrashes = 1
INVARIANT RowIsolation
PROPERTY EveryTaskEnds
