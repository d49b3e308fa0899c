\* One agent process, two ids of which StreamEvents refreshes one, one fault.
SPECIFICATION FairSpec
CONSTANTS
  None = None
  Agents = {a1}
  Ids = {n1, n2}
  Streamed = {n2}
  Interval = 2
  OfflineAfter = 4
  MaxFaults = 1

  
  
PROPERTIES
  SilentNodeReported
