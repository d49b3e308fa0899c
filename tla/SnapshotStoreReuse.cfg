\* As SnapshotStore.cfg, but two requests may choose one path.
SPECIFICATION FairSpec
CONSTANTS
  None = None
  Handlers = {h1, h2}
  Ids = {s1, s2}
  Subvolumes = {home}
  RestorePaths = {spare}
  Names = {daily}
  MaxSecond = 1
  MaxFaults = 1
  FreshPaths = FALSE
INVARIANTS
  DanglingOnlyWhileDeleting
PROPERTIES
  DanglingIsCleared
