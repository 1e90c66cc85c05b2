CONSTANTS
  Session = {s1}
  Request = {r1, r2}
  Body = {EMPTY, b1}
  EMPTY = EMPTY
  MISSING = MISSING
  TORN = TORN
  NONE = NONE
  VOID = VOID
  MaxEra = 0
  MaxRequests = 4
  MaxCrashes = 0
SPECIFICATION SessionSpec
INVARIANT NewOnlyIfMissing
CHECK_DEADLOCK FALSE
