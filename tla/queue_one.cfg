SPECIFICATION FairSpec
CONSTANTS
  p1 = p1
  p2 = p2
  s1 = s1
  NoSession = NoSession
  Projects <- MCProjects
  Sessions <- MCSessions
  SessionProject <- MCSessionProject
  MaxTasks = 2
  Capacity = 1
  PageSize = 1
  Cancellers = {c1}
  MaxCrashes = 1
INVARIANTS RunningBound NoOrphanRunning OldestFirst
PROPERTIES FollowsLifecycle EveryMessageAnswered
