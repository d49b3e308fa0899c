\* One job that meets no fault.
SPECIFICATION Spec
CONSTANTS
  None = None
  Jobs = {j1}
  Snaps = {s1}
  Dests = {d1}
  MaxFaults = 0
INVARIANTS
  DoneMeansCopied
CHECK_DEADLOCK FALSE
