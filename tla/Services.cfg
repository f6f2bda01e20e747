SPECIFICATION ServicesSpec
CONSTANTS
  PaneIds = {p1, p2}
  TabIds = {t1, t2}
  WorkspaceIds = {w1, w2}
  NoPane = NoPane
  MaxDuplicates = 0
  ChannelCap = 2
  RingCap = 2
  NoLog = NoLog
  MaxDisk = 2
  MaxOutput = 4
  MaxLives = 2
  None = None
  MaxLaunches = 2
  MaxDaemons = 2
  News <- SomeNews
  EventCap = 2
  MaxNews = 3
VIEW Observed
INVARIANTS
  LogSafe
  ConnectionsSafe
PROPERTIES
  DrainTasksStart
  ClosesAreExact
  FlushReturns
  ConnectionsEnd
CHECK_DEADLOCK FALSE
