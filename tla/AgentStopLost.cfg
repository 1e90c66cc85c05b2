CONSTANTS
  Conn = {c1,c2}
  Req = {r1,r2}
  Session = {s1}
  Proj = {}
  Think = {}
  Cwd = {nocwd, d1}
  EmptyCwd = nocwd
  MaxEvents = 1
  None = None
SPECIFICATION Spec
SYMMETRY Symmetry
INVARIANT StopCanCancel
