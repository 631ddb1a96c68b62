CONSTANTS
  Users = {u1}
  Passwords = {w1, w2}
  Profiles = {p1}
  Modules = {m1}
  MaxAge = 1
  TokenDays = 0
  Logins = {l1}
  Requests = {r1}
  MaxDay = 3
  MaxChanges = 1
  MaxFaults = 1
  None = None
CHECK_DEADLOCK FALSE
SPECIFICATION MCSpec
INVARIANT OfflineIsVouched
PROPERTY RevokedIsOut
