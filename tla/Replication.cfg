\* Three jobs, two restarts or failed inserts.  A finite number of jobs comes to
\* an end: no deadlock check.
SPECIFICATION LiveSpec
CONSTANTS
  None = None
  Jobs = {j1, j2, j3}
  Snaps = {s1}
  Dests = {d1}
  MaxFaults = 2
INVARIANTS
  OutcomeMatchesTarget
  ListedIsTrue
PROPERTIES
  ImplementsJobs
  EveryJobEnds
CHECK_DEADLOCK FALSE
