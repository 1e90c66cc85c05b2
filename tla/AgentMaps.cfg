CONSTANTS
  Conn = {c1,c2}
  Req = {r1,r2}
  Session = {s1,s2}
  Proj = {p1}
  Think = {}
  Cwd = {nocwd, d1}
  EmptyCwd = nocwd
  MaxEvents = 0
  None = None
SPECIFICATION Spec
SYMMETRY Symmetry
INVARIANTS
  TypeOK
  AbortEntryLive
  HandleOfOwnSession
  BoundaryCurrent
  LoneStopReaches
PROPERTY StopIsPrecise
