\* Two handlers, two snapshots, two seconds, one fault; no path is asked for twice.
SPECIFICATION Spec
CONSTANTS
  None = None
  Handlers = {h1, h2}
  Ids = {s1, s2}
  Subvolumes = {home}
  RestorePaths = {spare}
  Names = {daily}
  MaxSecond = 1
  MaxFaults = 1
  FreshPaths = TRUE
SYMMETRY Symmetry
INVARIANTS
  TypeOK
  
  DeletedMeansGone
  ListedNamesOwnSubvolume
  RestoreDelivers
PROPERTIES
  DeletesOwnData
  ImplementsLifecycle
