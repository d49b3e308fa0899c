\* A call, two streams and two requests; two units for the ten seconds.
SPECIFICATION FairSpec
CHECK_DEADLOCK FALSE
CONSTANTS
  Calls = {c1}
  Streams = {s1, s2}
  HttpRequests = {r1, r2}
  Grace = 2
INVARIANTS
  ServerTypeOK
  StopCutsNoCall
  RequestsGetTheirGrace
PROPERTIES
  OnlyStreamsHoldUp
