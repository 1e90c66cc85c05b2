CONSTANTS
  Conn = {c1}
  Req = {r1,r2}
  Session = {s1}
  Proj = {p1}
  Think = {}
  Cwd = {nocwd, d1}
  EmptyCwd = nocwd
  MaxEvents = 0
  None = None
SPECIFICATION Spec
INVARIANT ProjectTakesEffect
