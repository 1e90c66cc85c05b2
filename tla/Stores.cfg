CONSTANTS
  Session = {s1}
  Request = {r1, r2}
  Body = {EMPTY, b1}
  EMPTY = EMPTY
  MISSING = MISSING
  TORN = TORN
  BARE = BARE
  NONE = NONE
  VOID = VOID
  MaxEra = 1
  MaxRequests = 4
  MaxCrashes = 1
  Builtin = {DEFAULT}
  Custom = {m1}
  DEFAULT = DEFAULT
  Slug = {g1, g2}
  Config = {v1}
  Provider = {p1, p2}
  Login = {l1, l2}
  UNSET = UNSET
  BLANK = BLANK
  MaxServed = 3
  MaxFaults = 1
  Plugin = {PLACEHOLDER, q1}
  PLACEHOLDER = PLACEHOLDER
  Dir = {TARGET, d1}
  TARGET = TARGET
  MaxInstalls = 2
  MaxStops = 1
  Capture = {c1, c2}
  NOTEXT = NOTEXT
  WAITING = WAITING
  MaxExports = 2
  MaxQuits = 1
SPECIFICATION StoresSpec
INVARIANTS
  SessionNeverVanishes
  OnePlace
  StoresTypeOK
  ChangesAtomic
  NoSilentReset
  LoginAccounted
  RegistryIsDisk
  UninstalledStaysGone
  LibraryConsistent
  IndexCurrent
  FileIsOwn
PROPERTIES
  RequestsAtomic
SYMMETRY Symmetry
CHECK_DEADLOCK FALSE
