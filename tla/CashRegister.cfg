\* Two shifts of one register, one manual movement and one sale, two requests.
CONSTANTS
  Shifts = {h1, h2}
  Modulos = {m1}
  Users = {u1}
  Requests = {r1, r2}
  Keys = {k1}
  Sales = {s1}
  Funds = {2}
  Amounts <- MCAmounts
  Counted = {2, 3}
  None = None
CHECK_DEADLOCK FALSE
SPECIFICATION Spec
SYMMETRY Symmetry
CONSTRAINT BoundClosing
INVARIANT RegisterInv
INVARIANT ClosedAsCut
INVARIANT UnexplainedWasOvertaken
PROPERTY ExpectedIsDrawerLessFunds
PROPERTY CutIsFinal
