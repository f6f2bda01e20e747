SPECIFICATION Spec
CONSTANTS
  Sockets = {s1}
  Phones = {p1}
  Capacity = 2
  RingCapacity = 1
  MaxChunk = 2
  MaxBytes = 3
  MaxPreload = 1
  MaxOthers = 1
INVARIANTS
  TypeOK
  StreamsAreExact
  HandoverInv
  LagLosesNothingOnPhones
  ReplayIsNewest
  ClosedIsLast
PROPERTIES
  OutputIsShown
  PaneFollowsShell
  StreamEnds
  IsTerminalStream
CHECK_DEADLOCK FALSE
