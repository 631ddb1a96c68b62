CONSTANTS
  DayMinutes = 4
  MaxPrice = 4
  LegacyHour = 3
  LegacyBelow = 1
  LegacyAbove = 2
  s1 = s1
  s2 = s2
  Savers = {s1, s2}
  Drafts <- DraftsOf
  Quotes = {q1}
  MaxStay = 12
  MaxVersions = 1
  None = None
CHECK_DEADLOCK FALSE
SPECIFICATION RatesSpec
INVARIANT QuotedAsDocumented
INVARIANT QuoteIsBounded
INVARIANT EverySaveIsStored
