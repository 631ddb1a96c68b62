CONSTANTS
  MaxDay = 3
  Month <- MonthOf
  PartialDays = {2}
  Timer = timer
  Admins = {a1}
  Writers = {w1}
  MaxLogs = 1
  MaxSettings = 1
  MaxFaults = 1
  None = None
CHECK_DEADLOCK FALSE
SPECIFICATION MCSpec
INVARIANT NoLogLost
PROPERTY MonthIsClosed
