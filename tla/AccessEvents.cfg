\* One ticket, four events of its entry and exit, three handlers.
CONSTANTS
  Handlers = {h1, h2, h3}
  MaxTime = 4
CHECK_DEADLOCK FALSE
SPECIFICATION EventsSpec
SYMMETRY Symmetry
INVARIANT MarksAgree
INVARIANT MarksAreReported
