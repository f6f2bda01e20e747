SPECIFICATION Spec
CONSTANTS
  Sessions = {s1, s2}
  Sibling = s2
  Workers = {k1, k2}
  NoFile = NoFile
  MaxVersion = 1
CONSTRAINT SiblingOnlyLaunches
INVARIANT LiveDaemonOnDisk
PROPERTIES
  AckedCloseOnDisk
  SessionsFileStays
CHECK_DEADLOCK FALSE
