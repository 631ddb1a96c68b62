CONSTANTS
  Projects = {p1}
  Kinds = {"configuration"}
  MaxVersion <- NoVersions
  Operators = {o1}
  Responses = {r1, r2}
  MaxLinks = 2
  LastReset = 4
  MaxTokens = 3
  MaxFaults = 1
  None = None
  Modulos = {m1}
  Updates = {u1, u2}
  Batch = 1
  Retry = 2
  Keepalive = 2
  MaxChanges = 2
CHECK_DEADLOCK FALSE
SPECIFICATION HeartbeatSpec
INVARIANT TokenAccepted
INVARIANT ChangeIsDue
PROPERTY CloudSeesModulos
