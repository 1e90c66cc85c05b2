CONSTANTS
  Capture = {c1}
  Request = {r1}
  MISSING = MISSING
  TORN = TORN
  NONE = NONE
  NOTEXT = NOTEXT
  WAITING = WAITING
  MaxExports = 1
  MaxQuits = 0
SPECIFICATION CaptureSpec
INVARIANT TextlessIsEmpty
CHECK_DEADLOCK FALSE
