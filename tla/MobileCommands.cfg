\* Two commands, one pass that a direct request may use too, three openings and a
\* fault, every poll of the scheduler fair.
CONSTANTS
  Passes = {p1}
  Requests = {w, r1}
  Worker = w
  Commands = {c1, c2}
  MaxOpenings = 3
  MaxRenewals = 1
  MaxFaults = 1
  None = None
CHECK_DEADLOCK FALSE
SPECIFICATION MobileFairSpec
INVARIANT AntiPassback
INVARIANT MovesWereOpened
INVARIANT OnePassagePerCommand
INVARIANT SuccessIsStored
PROPERTY EveryCommandAnswered
