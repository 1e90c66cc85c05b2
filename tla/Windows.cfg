CONSTANTS
  Recording = {v1, v2}
  NOBODY = NOBODY
  Session = {s1, s2}
  NOSESSION = NOSESSION
  MaxSubmits = 2
  MaxAsks = 1
  MaxLosses = 1
SPECIFICATION WindowsSpec
INVARIANTS
  WindowsTypeOK
  NoRunawayRecording
  BusyMatchesTurn
  AnswersInOwnChat
PROPERTIES
  StoppedReachesEditor
  BusySettles
CHECK_DEADLOCK FALSE
