SPECIFICATION Spec
CONSTANTS
  PaneIds = {p1, p2, p3}
  TabIds = {t1, t2, t3}
  WorkspaceIds = {w1, w2, w3}
  NoPane = NoPane
  MaxDuplicates = 1
  MaxSpawning = 3
SYMMETRY Identifiers
VIEW Observed
CONSTRAINT DrainsWait
INVARIANTS
  IndicesValid TreeConsistent
PROPERTIES
  KeepsActiveWorkspace MoveKeepsActiveTab
CHECK_DEADLOCK FALSE
