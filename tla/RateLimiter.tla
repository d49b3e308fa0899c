---------------------------- MODULE RateLimiter ----------------------------
(***************************************************************************)
(* internal/ratelimit: the limiter in front of the HTTP handlers, and the  *)
(* goroutine that forgets old visitors every minute.  Both hold the mutex  *)
(* from beginning to end, so Allow and Sweep are single steps; requests of *)
(* one client arrive on any number of connections and in any order.        *)
(*                                                                         *)
(* A key is the string Middleware takes a client for.  log is history: the *)
(* code keeps a count and a time per key and no more.                      *)
(***************************************************************************)
EXTENDS Naturals, FiniteSets

CONSTANTS
  None,
  Keys,
  Limit,        \* 10 for the login, 200 for the API (main.go)
  Window,       \* a minute, in units
  MaxClock,     \* bound: the clock runs from 0 to MaxClock
  MaxRequests   \* bound: requests in a run

ASSUME LimiterAssumption ==
  /\ Limit \in Nat \ {0} /\ Window \in Nat
  /\ MaxClock \in Nat /\ MaxRequests \in Nat
  /\ None \notin [count : Nat, lastSeen : Nat]

VARIABLES
  now,       \* the monotonic clock time.Since reads
  visitors,  \* per key: count and lastSeen, or None
  log        \* every request: its number, key, time, count and answer

vars == <<now, visitors, log>>

Visitor == [count : 1 .. MaxRequests, lastSeen : 0 .. MaxClock]
Entry == [nr : 1 .. MaxRequests, key : Keys, at : 0 .. MaxClock,
          count : 1 .. MaxRequests, ok : BOOLEAN]

----------------------------------------------------------------------------
(* The limiter.                                                            *)

Expired(v) == now - v.lastSeen > Window

\* Seeded bug: lastSeen stays at the first request of the window.
CountedFromFirst(key) ==
  LET v == visitors[key] IN
  IF v = None \/ Expired(v)
  THEN [count |-> 1, lastSeen |-> now]
  ELSE [count |-> v.count + 1, lastSeen |-> v.lastSeen]

\* Seeded bug: an old visitor is never started afresh.
CountedForever(key) ==
  LET v == visitors[key] IN
  IF v = None
  THEN [count |-> 1, lastSeen |-> now]
  ELSE [count |-> v.count + 1, lastSeen |-> now]

\* The visitor after one more request: a fresh one, or one more counted and
\* seen now, whether the request is granted or not.
Counted(key) ==
  LET v == visitors[key] IN
  IF v = None \/ Expired(v)
  THEN [count |-> 1, lastSeen |-> now]
  ELSE [count |-> v.count + 1, lastSeen |-> now]

\* Seeded bug: one request too few.
GrantedOneFewer(v) == v.count = 1 \/ v.count < Limit

\* The first request of a fresh visitor is granted without a look at the limit.
Granted(v) == v.count = 1 \/ v.count <= Limit

Number == Cardinality(log) + 1

Allow(key) ==
  LET v == Counted(key) IN
  /\ Number <= MaxRequests
  /\ visitors' = [visitors EXCEPT ![key] = v]
  /\ log' = log \cup {[nr |-> Number, key |-> key, at |-> now,
                       count |-> v.count, ok |-> Granted(v)]}
  /\ UNCHANGED now

\* Seeded bug: a visitor is forgotten when the window is only just over.
SweepTooSoon ==
  /\ visitors' = [key \in Keys |->
       IF visitors[key] # None /\ now - visitors[key].lastSeen >= Window
       THEN None ELSE visitors[key]]
  /\ UNCHANGED <<now, log>>

\* The goroutine of New.  When its ticker fires is left open.
Sweep ==
  /\ visitors' = [key \in Keys |->
       IF visitors[key] # None /\ Expired(visitors[key]) THEN None ELSE visitors[key]]
  /\ UNCHANGED <<now, log>>

Tick == now < MaxClock /\ now' = now + 1 /\ UNCHANGED <<visitors, log>>

Init == now = 0 /\ visitors = [key \in Keys |-> None] /\ log = {}

Next == Sweep \/ Tick \/ \E key \in Keys : Allow(key)

Spec == Init /\ [][Next]_vars

----------------------------------------------------------------------------
(* Properties.                                                             *)

TypeOK ==
  /\ now \in 0 .. MaxClock
  /\ visitors \in [Keys -> Visitor \cup {None}]
  /\ log \subseteq Entry

\* The requests of key from time t on for one window, both ends included.
During(key, t) == {e \in log : e.key = key /\ t <= e.at /\ e.at <= t + Window}

\* No client is granted more than Limit requests in any period as long as the
\* window, wherever the period begins and whenever the sweep runs.
AtMostLimit ==
  \A key \in Keys, t \in 0 .. MaxClock :
    Cardinality({e \in During(key, t) : e.ok}) <= Limit

\* What a request of key would find.
Effective(key) ==
  IF visitors[key] = None \/ Expired(visitors[key]) THEN None ELSE visitors[key]

\* The goroutine only saves memory: forgetting a visitor never changes what the
\* next request of any client finds.
SweepInvisible ==
  [][UNCHANGED <<now, log>> => \A key \in Keys : Effective(key)' = Effective(key)]_vars

\* A client that has been silent for more than a window is granted, however
\* often it was refused before.
RestedIsGranted ==
  \A e \in log :
    ~e.ok => \E d \in log : d.key = e.key /\ d.nr < e.nr /\ e.at - d.at <= Window

\* A refusal comes after Limit granted requests of the same client.
RefusedAfterLimit ==
  \A e \in log : ~e.ok =>
    Cardinality({d \in log : d.key = e.key /\ d.nr < e.nr /\ d.ok}) >= Limit

----------------------------------------------------------------------------
(* Why these hold.                                                         *)

\* Requests are numbered in the order they are served, and never from the future.
LogInv ==
  /\ IsFiniteSet(log)
  /\ \A e \in log : e.nr <= Cardinality(log) /\ e.at <= now
  /\ \A d, e \in log : d.nr = e.nr => d = e
  /\ \A d, e \in log : d.nr < e.nr => d.at <= e.at

\* A visitor was last seen at a request, and one request was given each count
\* up to its own; no request is less than a window old without a visitor that
\* has seen it and counted as far.
VisitorInv ==
  \A key \in Keys :
    /\ visitors[key] # None =>
         /\ visitors[key].count <= Cardinality(log)
         /\ \E d \in log : d.key = key /\ d.at = visitors[key].lastSeen
         /\ \A i \in 1 .. visitors[key].count :
              \E d \in log : d.key = key /\ d.count = i
    /\ \A e \in log : e.key = key /\ now - e.at <= Window =>
         /\ visitors[key] # None
         /\ e.at <= visitors[key].lastSeen /\ e.count <= visitors[key].count

\* Within a window the counts of a client grow from request to request; those
\* up to Limit are granted, and a count is reached only through all lower ones.
CountInv ==
  /\ \A d, e \in log :
       d.key = e.key /\ d.nr < e.nr /\ e.at - d.at <= Window => d.count < e.count
  /\ \A e \in log : e.ok <=> e.count <= Limit
  /\ \A e \in log : \A i \in 1 .. e.count - 1 :
       \E d \in log : d.key = e.key /\ d.nr < e.nr /\ d.count = i
  /\ RestedIsGranted

=============================================================================
