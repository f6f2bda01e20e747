SPECIFICATION Spec
CONSTANTS
  PaneIds = {p1, p2}
  TabIds = {t1}
  WorkspaceIds = {w1}
  NoPane = NoPane
  MaxDuplicates = 0
INVARIANT NoGhostLeaves
CHECK_DEADLOCK FALSE
