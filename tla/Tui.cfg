\* Two requests of each kind may overlap and all are answered.  The program may
\* quit: no deadlock check.
SPECIFICATION LiveSpec
CONSTANTS
  Stock = {"nodes", "events"}
  MaxPending = 2
INVARIANTS
  LoadingMeansPending
  ScreenIsEarned
PROPERTIES
  LoadingEnds
CHECK_DEADLOCK FALSE
