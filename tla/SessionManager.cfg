SPECIFICATION Spec
CONSTANTS
  PaneIds = {p1, p2, p3}
  TabIds = {t1, t2}
  WorkspaceIds = {w1, w2}
  NoPane = NoPane
  MaxDuplicates = 1
  MaxSpawning = 1
SYMMETRY Identifiers
VIEW Observed
CONSTRAINT FewSpawning
INVARIANTS
  TypeOK RegistrySound
PROPERTIES
  PaneEventsMatchRegistry TabEventsMatchLayout ClosedPanesFirst
CHECK_DEADLOCK FALSE
