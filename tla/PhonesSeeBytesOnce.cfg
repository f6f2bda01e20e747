SPECIFICATION Spec
CONSTANTS
  Sockets = {}
  Phones = {p1}
  Capacity = 2
  RingCapacity = 2
  MaxChunk = 1
  MaxBytes = 4
  MaxPreload = 0
  MaxOthers = 1
INVARIANTS
  PhonesSeeBytesOnce
CHECK_DEADLOCK FALSE
