CONSTANTS
  Conn = {c1}
  Req = {r1,r2}
  Session = {s1}
  Proj = {p1}
  Think = {t1}
  Cwd = {nocwd}
  EmptyCwd = nocwd
  MaxEvents = 1
  None = None
SPECIFICATION FairSpec
PROPERTIES
  PromptsServed
  EveryRequestFinishes
