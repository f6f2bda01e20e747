SPECIFICATION DesktopSpec
CONSTANTS
  Panes = {p1, p2, p3}
  Spaces = {"w1", "w2"}
  NoTab = NoTab
  MaxQueue = 2
  MaxTorn = 1
  Leaves = {"a", "b", "c"}
  FirstLeaf = "a"
  MaxFocus = 4
  MaxRows = 5
  Heights = {2, 3}
  NoRows = NoRows
  Daemons = {"d1", "d2"}
  Watched = "d1"
  Devices = {"phone"}
  Conns = {"c1"}
  MaxTimers = 2
  Ids = {p1, p2, p3}
  Names = {"n1", "n2"}
  Colors = {"red"}
  MaxNews = 2
  Keys = {p1, p2, p3}
  MaxPanes = 3
  Windows = {u1, u2}
  MaxChanges = 2
  MaxRebinds = 3
SYMMETRY Identifiers
CONSTRAINTS ShortScrollback TimersOfOne OneShortcut TornInPeace FewNews OneAtATime
INVARIANTS
  DesktopTypeOK
  WindowShowsDaemon
  FocusSettles
  SearchIsExact
  PairingSafe
  SidebarShowsDaemon
  TabPagesSafe
  SettingsSafe
PROPERTIES
  
  CopyIsExact
CHECK_DEADLOCK FALSE
