------------------------- MODULE RateLimiterProofs -------------------------
(***************************************************************************)
(* What RateLimiter guarantees for any clients, limit and window, with any *)
(* number of requests.                                                     *)
(***************************************************************************)
EXTENDS RateLimiter, FiniteSetTheorems, TLAPS

LEMMA Constants ==
  /\ Limit \in Nat /\ Limit >= 1 /\ Window \in Nat
  /\ MaxClock \in Nat /\ MaxRequests \in Nat
BY LimiterAssumption

LEMMA VisitorIsNotNone == None \notin Visitor
BY LimiterAssumption DEF Visitor

\* The inductive invariant: LogInv, VisitorInv and CountInv over well-typed states.
IInv == TypeOK /\ LogInv /\ VisitorInv /\ CountInv

LEMMA Requests ==
  ASSUME IInv
  PROVE  /\ Cardinality(log) \in Nat /\ Number \in Nat /\ Number = Cardinality(log) + 1
         /\ now \in Nat /\ now <= MaxClock
         /\ \A e \in log : /\ e.nr \in Nat /\ e.nr < Number /\ e.at \in Nat /\ e.at <= now
                          /\ e.count \in Nat /\ e.count >= 1 /\ e.key \in Keys
         /\ \A key \in Keys : visitors[key] # None =>
              /\ visitors[key].count \in Nat /\ visitors[key].count >= 1
              /\ visitors[key].lastSeen \in Nat /\ visitors[key].lastSeen <= now
<1>1. Cardinality(log) \in Nat
  BY FS_CardinalityType DEF IInv, LogInv
<1>2. now \in Nat /\ now <= MaxClock
  BY Constants DEF IInv, TypeOK
<1>3. ASSUME NEW e \in log
      PROVE  /\ e.nr \in Nat /\ e.nr < Number /\ e.at \in Nat /\ e.at <= now
             /\ e.count \in Nat /\ e.count >= 1 /\ e.key \in Keys
  <2>1. e \in Entry
    BY DEF IInv, TypeOK
  <2>2. e.nr <= Cardinality(log) /\ e.at <= now
    BY DEF IInv, LogInv
  <2> QED BY <1>1, <2>1, <2>2, Constants DEF Entry, Number
<1>4. ASSUME NEW key \in Keys, visitors[key] # None
      PROVE  /\ visitors[key].count \in Nat /\ visitors[key].count >= 1
             /\ visitors[key].lastSeen \in Nat /\ visitors[key].lastSeen <= now
  <2>1. visitors[key] \in Visitor
    BY <1>4 DEF IInv, TypeOK
  <2>2. PICK d \in log : d.at = visitors[key].lastSeen
    BY <1>4 DEF IInv, VisitorInv
  <2> QED BY <1>3, <2>1, <2>2, Constants DEF Visitor
<1> QED BY <1>1, <1>2, <1>3, <1>4 DEF Number

\* The visitor a request leaves: its count is beyond that of every request of
\* the client that is less than a window old.
LEMMA CountedFacts ==
  ASSUME IInv, NEW key \in Keys, Number <= MaxRequests
  PROVE  /\ Counted(key) \in Visitor /\ Counted(key).lastSeen = now
         /\ Counted(key).count \in Nat /\ Counted(key).count >= 1
         /\ Counted(key).count <= Number
         /\ \/ Counted(key).count = 1
            \/ /\ visitors[key] # None /\ now - visitors[key].lastSeen <= Window
               /\ Counted(key).count = visitors[key].count + 1
         /\ \A e \in log : e.key = key /\ now - e.at <= Window =>
              e.count < Counted(key).count
<1>1. CASE visitors[key] = None \/ Expired(visitors[key])
  <2>1. Counted(key) = [count |-> 1, lastSeen |-> now]
    BY <1>1 DEF Counted
  <2>2. Counted(key) \in Visitor
    BY <2>1, Requests, Constants DEF Visitor
  <2>3. ASSUME NEW e \in log, e.key = key, now - e.at <= Window PROVE FALSE
    <3>1. visitors[key] # None /\ e.at <= visitors[key].lastSeen
      BY <2>3 DEF IInv, VisitorInv
    <3>2. now - visitors[key].lastSeen > Window
      BY <1>1, <3>1 DEF Expired
    <3> QED BY <2>3, <3>1, <3>2, Requests, Constants
  <2> QED BY <2>1, <2>2, <2>3, Requests
<1>2. CASE visitors[key] # None /\ ~Expired(visitors[key])
  <2>1. Counted(key) = [count |-> visitors[key].count + 1, lastSeen |-> now]
    BY <1>2 DEF Counted
  <2>2. now - visitors[key].lastSeen <= Window
    BY <1>2, Requests, Constants DEF Expired
  <2>3. visitors[key].count <= Cardinality(log)
    BY <1>2 DEF IInv, VisitorInv
  <2>4. Counted(key) \in Visitor /\ Counted(key).count <= Number
    BY <1>2, <2>1, <2>3, Requests, Constants DEF Visitor
  <2>5. \A e \in log : e.key = key /\ now - e.at <= Window => e.count <= visitors[key].count
    BY DEF IInv, VisitorInv
  <2> QED BY <1>2, <2>1, <2>2, <2>4, <2>5, Requests
<1> QED BY <1>1, <1>2

\* The entry a request adds to the log.
Added(key) == [nr |-> Number, key |-> key, at |-> now,
               count |-> Counted(key).count, ok |-> Granted(Counted(key))]

LEMMA AllowEffect ==
  ASSUME IInv, NEW key \in Keys, Allow(key)
  PROVE  /\ Number <= MaxRequests /\ now' = now
         /\ Added(key) \in Entry /\ Added(key) \notin log
         /\ log' = log \cup {Added(key)}
         /\ visitors' = [visitors EXCEPT ![key] = Counted(key)]
         /\ IsFiniteSet(log') /\ Cardinality(log') = Number
<1>1. Number <= MaxRequests /\ now' = now /\ log' = log \cup {Added(key)}
      /\ visitors' = [visitors EXCEPT ![key] = Counted(key)]
  BY DEF Allow, Added
<1>2. Granted(Counted(key)) \in BOOLEAN
  BY DEF Granted
<1>3. /\ Number \in 1 .. MaxRequests /\ now \in 0 .. MaxClock
      /\ Counted(key).count \in 1 .. MaxRequests
  BY <1>1, Requests, CountedFacts, Constants
<1>4. Added(key) \in Entry
  BY <1>2, <1>3 DEF Added, Entry
<1>5. Added(key) \notin log
  BY Requests DEF Added
<1>6. IsFiniteSet(log') /\ Cardinality(log') = Cardinality(log) + 1
  BY <1>1, <1>5, FS_AddElement DEF IInv, LogInv
<1> QED BY <1>1, <1>4, <1>5, <1>6, Requests

LEMMA AllowKeeps == ASSUME IInv, NEW key \in Keys, Allow(key) PROVE IInv'
<1> DEFINE new == Added(key)
<1>1. /\ new.nr = Number /\ new.key = key /\ new.at = now
      /\ new.count = Counted(key).count /\ new.ok = Granted(Counted(key))
  BY DEF Added
<1>2. /\ log' = log \cup {new} /\ now' = now /\ Number <= MaxRequests
      /\ visitors'[key] = Counted(key)
      /\ \A k \in Keys : k # key => visitors'[k] = visitors[k]
      /\ Cardinality(log') = Number /\ IsFiniteSet(log')
  BY AllowEffect DEF IInv, TypeOK
<1> HIDE DEF new
<1>3. TypeOK'
  BY AllowEffect, CountedFacts DEF IInv, TypeOK
<1>4. LogInv'
  <2>1. \A e \in log' : e.nr <= Cardinality(log') /\ e.at <= now'
    BY <1>1, <1>2, Requests
  <2>2. \A d, e \in log' : d.nr = e.nr => d = e
    BY <1>1, <1>2, Requests DEF IInv, LogInv
  <2>3. \A d, e \in log' : d.nr < e.nr => d.at <= e.at
    BY <1>1, <1>2, Requests DEF IInv, LogInv
  <2> QED BY <1>2, <2>1, <2>2, <2>3 DEF LogInv
<1>5. VisitorInv'
  <2>1. ASSUME NEW k \in Keys, k # key
        PROVE  /\ visitors'[k] # None =>
                    /\ visitors'[k].count <= Cardinality(log')
                    /\ \E d \in log' : d.key = k /\ d.at = visitors'[k].lastSeen
                    /\ \A i \in 1 .. visitors'[k].count :
                         \E d \in log' : d.key = k /\ d.count = i
               /\ \A e \in log' : e.key = k /\ now' - e.at <= Window =>
                    /\ visitors'[k] # None
                    /\ e.at <= visitors'[k].lastSeen /\ e.count <= visitors'[k].count
    BY <1>1, <1>2, <2>1, Requests DEF IInv, VisitorInv
  <2>2. visitors'[key] # None /\ visitors'[key].count <= Cardinality(log')
        /\ \E d \in log' : d.key = key /\ d.at = visitors'[key].lastSeen
    BY <1>1, <1>2, CountedFacts, VisitorIsNotNone
  <2>3. ASSUME NEW i \in 1 .. Counted(key).count
        PROVE  \E d \in log' : d.key = key /\ d.count = i
    <3>1. CASE i = Counted(key).count
      BY <1>1, <1>2, <3>1
    <3>2. CASE i # Counted(key).count
      <4>1. visitors[key] # None /\ i \in 1 .. visitors[key].count
        BY <1>2, <3>2, CountedFacts, Requests
      <4> QED BY <1>2, <4>1 DEF IInv, VisitorInv
    <3> QED BY <3>1, <3>2
  <2>4. \A e \in log' : e.key = key /\ now' - e.at <= Window =>
          e.at <= visitors'[key].lastSeen /\ e.count <= visitors'[key].count
    BY <1>1, <1>2, CountedFacts, Requests
  <2>5. \A i \in 1 .. visitors'[key].count : \E d \in log' : d.key = key /\ d.count = i
    BY <1>2, <2>3
  <2> QED BY <2>1, <2>2, <2>4, <2>5 DEF VisitorInv
<1>6. CountInv'
  <2>1. \A d, e \in log' :
          d.key = e.key /\ d.nr < e.nr /\ e.at - d.at <= Window => d.count < e.count
    BY <1>1, <1>2, CountedFacts, Requests DEF IInv, CountInv
  <2>2. \A e \in log' : e.ok <=> e.count <= Limit
    BY <1>1, <1>2, CountedFacts, Constants DEF Granted, IInv, CountInv
  <2>3. \A e \in log' : \A i \in 1 .. e.count - 1 :
          \E d \in log' : d.key = e.key /\ d.nr < e.nr /\ d.count = i
    <3>1. ASSUME NEW i \in 1 .. new.count - 1
          PROVE  \E d \in log : d.key = key /\ d.nr < new.nr /\ d.count = i
      <4>1. visitors[key] # None /\ i \in 1 .. visitors[key].count
        BY <1>1, <1>2, CountedFacts, Requests
      <4> QED BY <1>1, <4>1, Requests DEF IInv, VisitorInv
    <3> QED BY <1>1, <1>2, <3>1 DEF IInv, CountInv
  <2>4. RestedIsGranted'
    <3>1. ASSUME ~new.ok
          PROVE  \E d \in log : d.key = key /\ d.nr < new.nr /\ new.at - d.at <= Window
      <4>1. visitors[key] # None /\ now - visitors[key].lastSeen <= Window
        BY <1>1, <1>2, <3>1, CountedFacts DEF Granted
      <4> QED BY <1>1, <4>1, Requests DEF IInv, VisitorInv
    <3> QED BY <1>1, <1>2, <3>1 DEF RestedIsGranted, IInv, CountInv
  <2> QED BY <2>1, <2>2, <2>3, <2>4 DEF CountInv
<1> QED BY <1>3, <1>4, <1>5, <1>6 DEF IInv

LEMMA SweepKeeps == ASSUME IInv, Sweep PROVE IInv'
<1>1. UNCHANGED <<now, log>>
  BY DEF Sweep
<1>2. \A key \in Keys :
        \/ visitors'[key] = visitors[key]
        \/ visitors[key] # None /\ Expired(visitors[key]) /\ visitors'[key] = None
  BY DEF Sweep
<1>3. TypeOK'
  BY DEF Sweep, IInv, TypeOK
<1>4. VisitorInv'
  <2>1. \A key \in Keys, e \in log : e.key = key /\ now - e.at <= Window =>
          visitors'[key] = visitors[key]
    BY <1>2, Requests, Constants DEF Expired, IInv, VisitorInv
  <2> QED BY <1>1, <1>2, <2>1 DEF IInv, VisitorInv
<1> QED BY <1>1, <1>3, <1>4 DEF IInv, LogInv, CountInv, RestedIsGranted

LEMMA TickKeeps == ASSUME IInv, Tick PROVE IInv'
<1>1. UNCHANGED <<visitors, log>> /\ now' = now + 1 /\ now < MaxClock
  BY DEF Tick
<1>2. TypeOK'
  BY <1>1, Constants DEF IInv, TypeOK
<1>3. LogInv'
  BY <1>1, Requests DEF IInv, LogInv
<1>4. VisitorInv'
  <2>1. \A e \in log : now' - e.at <= Window => now - e.at <= Window
    BY <1>1, Requests, Constants
  <2> QED BY <1>1, <2>1 DEF IInv, VisitorInv
<1> QED BY <1>1, <1>2, <1>3, <1>4 DEF IInv, CountInv, RestedIsGranted

\* The invariant holds throughout, for every interleaving of requests, sweeps
\* and the clock.
THEOREM LimiterInvariant == Spec => []IInv
<1>1. Init => IInv
  <2> SUFFICES ASSUME Init PROVE IInv
    OBVIOUS
  <2>1. TypeOK
    BY Constants DEF Init, TypeOK
  <2>2. LogInv
    BY FS_EmptySet DEF Init, LogInv
  <2> QED BY <2>1, <2>2 DEF Init, IInv, VisitorInv, CountInv, RestedIsGranted
<1>2. IInv /\ [Next]_vars => IInv'
  <2>1. ASSUME IInv, UNCHANGED vars PROVE IInv'
    BY <2>1 DEF vars, IInv, TypeOK, LogInv, VisitorInv, CountInv, RestedIsGranted
  <2> QED BY <2>1, AllowKeeps, SweepKeeps, TickKeeps DEF Next
<1> QED BY <1>1, <1>2, PTL DEF Spec

\* No client is granted more than Limit requests within a window: the counts of
\* the granted ones are different numbers from 1 to Limit.
THEOREM NeverOverLimit == Spec => []AtMostLimit
<1>1. IInv => AtMostLimit
  <2> SUFFICES ASSUME IInv, NEW key \in Keys, NEW t \in 0 .. MaxClock
               PROVE  Cardinality({e \in During(key, t) : e.ok}) <= Limit
    BY DEF AtMostLimit
  <2> DEFINE S == {e \in During(key, t) : e.ok}
             f == [e \in S |-> e.count]
  <2>1. \A e \in S : e \in log /\ e.key = key /\ e.count \in 1 .. Limit
                     /\ t <= e.at /\ e.at <= t + Window
    BY Requests, Constants DEF During, IInv, CountInv
  <2>2. \A d, e \in S : d.nr < e.nr => d.count < e.count
    BY <2>1, Requests, Constants DEF IInv, CountInv
  <2>3. \A d, e \in S : d.count = e.count => d = e
    BY <2>1, <2>2, Requests DEF IInv, LogInv
  <2> HIDE DEF S
  <2>4. f \in Injection(S, 1 .. Limit)
    BY <2>1, <2>3 DEF Injection, IsInjective
  <2>5. IsFiniteSet(1 .. Limit) /\ Cardinality(1 .. Limit) = Limit
    BY FS_Interval, Constants
  <2>6. IsFiniteSet(S) /\ Cardinality(S) <= Cardinality(1 .. Limit)
    BY ONLY <2>4, <2>5, FS_Injection
  <2> QED BY <2>5, <2>6 DEF S
<1> QED BY <1>1, LimiterInvariant, PTL

\* Whoever stays silent for longer than a window is granted.
THEOREM Rested == Spec => []RestedIsGranted
<1>1. IInv => RestedIsGranted
  BY DEF IInv, CountInv
<1> QED BY <1>1, LimiterInvariant, PTL

\* Nobody is refused before Limit requests of theirs have been granted: the
\* earlier ones went through all the counts from 1 to Limit.
THEOREM RefusedLate == Spec => []RefusedAfterLimit
<1>1. IInv => RefusedAfterLimit
  <2> SUFFICES ASSUME IInv, NEW e \in log, ~e.ok
               PROVE  Cardinality({d \in log : d.key = e.key /\ d.nr < e.nr /\ d.ok}) >= Limit
    BY DEF RefusedAfterLimit
  <2> DEFINE S == {d \in log : d.key = e.key /\ d.nr < e.nr /\ d.ok}
             g == [i \in 1 .. Limit |->
                    CHOOSE d \in log : d.key = e.key /\ d.nr < e.nr /\ d.count = i]
  <2>1. e.count > Limit
    BY Requests, Constants DEF IInv, CountInv
  <2>2. \A i \in 1 .. Limit : \E d \in log : d.key = e.key /\ d.nr < e.nr /\ d.count = i
    <3>1. \A i \in 1 .. Limit : i \in 1 .. e.count - 1
      BY <2>1, Requests, Constants
    <3> QED BY <3>1 DEF IInv, CountInv
  <2>3. \A i \in 1 .. Limit : g[i] \in log /\ g[i].key = e.key /\ g[i].nr < e.nr /\ g[i].count = i
    BY <2>2
  <2> HIDE DEF g
  <2>4. \A i \in 1 .. Limit : g[i] \in S
    BY <2>3, Constants DEF IInv, CountInv
  <2>5. g \in [1 .. Limit -> S]
    BY <2>4 DEF g
  <2>6. g \in Injection(1 .. Limit, S)
    BY <2>3, <2>5 DEF Injection, IsInjective
  <2>7. IsFiniteSet(S)
    BY FS_Subset DEF IInv, LogInv
  <2> HIDE DEF S
  <2>8. Cardinality(1 .. Limit) <= Cardinality(S)
    BY ONLY <2>6, <2>7, FS_Injection
  <2>9. Cardinality(1 .. Limit) = Limit /\ Cardinality(S) \in Nat
    BY <2>7, FS_Interval, FS_CardinalityType, Constants
  <2> QED BY <2>8, <2>9, Constants DEF S
<1> QED BY <1>1, LimiterInvariant, PTL

\* The sweep is never noticed.
THEOREM Unnoticed == Spec => SweepInvisible
<1>1. IInv /\ [Next]_vars =>
        (UNCHANGED <<now, log>> => \A key \in Keys : Effective(key)' = Effective(key))
  <2> SUFFICES ASSUME IInv, [Next]_vars, UNCHANGED <<now, log>>, NEW key \in Keys
               PROVE  Effective(key)' = Effective(key)
    OBVIOUS
  <2>1. \A k \in Keys : ~Allow(k)
    BY AllowEffect
  <2>2. ~Tick
    BY Requests DEF Tick
  <2>3. CASE Sweep
    BY <2>3 DEF Sweep, Effective, Expired
  <2>4. CASE UNCHANGED vars
    BY <2>4 DEF vars, Effective, Expired
  <2> QED BY <2>1, <2>2, <2>3, <2>4 DEF Next
<1> QED BY <1>1, LimiterInvariant, PTL DEF Spec, SweepInvisible

\* Every reachable state of the limiter is well typed: a visitor that is kept has
\* counted a request, and was seen at a time of the clock (ratelimit.go:22-58).
THEOREM TypeCorrect == Spec => []TypeOK
  BY LimiterInvariant, PTL DEF IInv

=============================================================================
