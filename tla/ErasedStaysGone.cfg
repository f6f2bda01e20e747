SPECIFICATION Spec
CONSTANTS
  Sessions = {s1}
  Workers = {k1, k2}
  NoFile = NoFile
  MaxVersion = 1
INVARIANT ErasedStaysGone
CHECK_DEADLOCK FALSE
