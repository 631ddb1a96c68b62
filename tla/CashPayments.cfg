\* One ticket, two sessions, two shifts, two requests at a time.
CONSTANTS
  Tickets = {t1}
  Sessions = {s1, s2}
  Shifts = {h1, h2}
  Requests = {r1, r2}
  Keys = {k1, k2}
  AppRefs = {a1, a2}
  Cash = {1, 2}
  Quotes = {0, 1, 2}
  None = None
CHECK_DEADLOCK FALSE
SPECIFICATION Spec
SYMMETRY Symmetry
INVARIANT CashLedgerAgrees
INVARIANT CashCounted
INVARIANT LedgerInv
INVARIANT OneSessionStillOwed
PROPERTY NoCashForPaidTicket
PROPERTY SettledOnce
