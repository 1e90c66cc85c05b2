CONSTANTS
  Meeting = {m1, m2}
  Ask = {a1}
  Text = {n1}
  NULL = NULL
  ListLimit = 1
  MaxChunks = 1
  MaxFaults = 1
  MaxCrashes = 1
SPECIFICATION FairSpec
INVARIANTS
  TypeOK
  NoOrphanRows
  StatusOwned
  AudioSafe
  NotesSurvive
PROPERTIES
  MinutesKept
  MeetingSettles
