\* Two clients, six requests, a clock of three windows.
SPECIFICATION Spec
CONSTANTS
  None = None
  Keys = {c1, c2}
  Limit = 2
  Window = 2
  MaxClock = 6
  MaxRequests = 6
SYMMETRY Symmetry
INVARIANTS
  
  RestedIsGranted
  RefusedAfterLimit
PROPERTIES
  SweepInvisible
