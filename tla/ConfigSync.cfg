CONSTANTS
  p1 = p1
  m1 = m1
  n1 = n1
  t1 = t1
  u1 = u1
  p2 = p2
  u2 = u2
  Projects = {p1, p2}
  Kinds = {"configuration", "access"}
  MaxVersion <- VersionBound
  Operators = {o1}
  Responses = {}
  MaxLinks = 2
  LastReset = 1
  MaxTokens = 2
  MaxFaults = 1
  None = None
  Rows = {p1, m1, n1, t1, u1, p2, u2}
  Tipo <- TipoOf
  Parent <- ParentOf
  ProjectOf <- TwoProjects
  Snapshots <- Sent
  Syncs = {s1, s2}
  Scheduler = s1
  Pushes = {q1}
CHECK_DEADLOCK FALSE
SPECIFICATION MCSpec
INVARIANT NotedWasApplied
INVARIANT SyncedIsSound
PROPERTY OwnStateKept
PROPERTY SyncConverges
