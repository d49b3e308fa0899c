\* Two requests at a time, one key, one login, two days and one fault.
\* A request for one key more than there are has nothing to take: no deadlock check.
SPECIFICATION Spec
CHECK_DEADLOCK FALSE
CONSTANTS
  Never = Never
  NoRow = NoRow
  Handlers = {h1, h2}
  Keys = {k1}
  Tokens = {t1}
  Lifetimes <- MCLifetimes
  TokenLife = 2
  MaxClock = 2
  MaxFaults = 1
SYMMETRY Symmetry
INVARIANTS
  RevokedStaysOut
  
  LastUsedIsReal
  

  
