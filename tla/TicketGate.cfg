\* One user with two tickets and two keys, two requests at a time.
CONSTANTS
  Tickets = {t1, t2}
  Users = {u1}
  Requests = {r1, r2}
  Keys = {k1, k2}
  MaxExits = 2
  None = None
CHECK_DEADLOCK FALSE
SPECIFICATION Spec
SYMMETRY Symmetry
INVARIANT GateInv
INVARIANT OneEntryPerKey
