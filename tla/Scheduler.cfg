\* Two policies over one base, two seconds, one fault, two other subvolumes
\* with long paths, retention given and not given.
\* The clock stops at its bound: no deadlock check.
SPECIFICATION Spec
CONSTANTS
  None = None
  Ids = {p1, p2}
  Bases = {b1}
  Names = {n1, n2}
  Wordy = {n2}
  Schedules = {"six", "five"}
  Keeps = {0, 1}
  DefaultKeep = 2
  Others = 2
  MaxClock = 1
  MaxFaults = 1
SYMMETRY Symmetry
INVARIANTS
  BaseSurvives
  
  
CHECK_DEADLOCK FALSE
