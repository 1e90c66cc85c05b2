CONSTANTS
  Conn = {c1}
  Req = {r1}
  Session = {s1}
  Proj = {}
  Think = {}
  Cwd = {nocwd, d1}
  EmptyCwd = nocwd
  MaxEvents = 1
  None = None
SPECIFICATION Spec
INVARIANT ErrorSurfaced
