SPECIFICATION Spec
CONSTANTS
  Sessions = {s1, s2}
  Workers = {k1}
  NoFile = NoFile
  MaxVersion = 1
INVARIANT LogsOfLiveSessionsKept
CHECK_DEADLOCK FALSE
