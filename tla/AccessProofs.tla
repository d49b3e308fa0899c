---------------------------- MODULE AccessProofs ----------------------------
(***************************************************************************)
(* Type correctness and the properties of Access, for any number of        *)
(* requests, keys and tokens, any lifetimes and any faults.                *)
(*                                                                         *)
(* The argument has two halves.  No step undoes what a request relies on:  *)
(* a row stays, keeps its expiry and is never active again (Grows).  So    *)
(* only the request that moves has to be looked at (its Serves lemmas).    *)
(***************************************************************************)
EXTENDS Access, TLAPS

Steps == {"check", "expiry", "touch", "serve", "created", "revoked",
          "refused", "done"}

\* Why a request with a key was turned away.
Cause(k) ==
  \/ faults > 0
  \/ ~keys[k].active
  \/ asked[k].days > 0 /\ now > asked[k].at + asked[k].days

\* A row says what was asked for, and was used when a request passed.
RowOK(k) ==
  keys[k] # NoRow =>
    /\ keys[k].expires =
         IF asked[k].days > 0 THEN asked[k].at + asked[k].days ELSE Never
    /\ keys[k].lastUsed # Never => keys[k].lastUsed \in passed[k]

\* What a request relies on, by how far it is.
Credited(r) ==
  /\ r.credential \in Keys => keys[r.credential] # NoRow
  /\ r.credential \in Tokens => tokens[r.credential] # NoRow
  /\ r.op = "revoke" => r.target \in Keys

Checked(r) ==
  /\ r.step \in {"expiry", "touch"} => r.credential \in Keys
  /\ r.step = "expiry" =>
       r.copy \in Row /\ r.copy.expires = keys[r.credential].expires
  /\ r.step = "touch" => r.at \in passed[r.credential]

Changed(r) ==
  /\ r.step = "created" => r.target \in Keys /\ keys[r.target] # NoRow
  /\ r.step = "revoked" =>
       r.target \in Keys /\ keys[r.target] # NoRow /\ ~keys[r.target].active

Judged(r) ==
  /\ r.late => r.credential \in closed /\ r.step \in {"check", "refused", "done"}
  /\ (r.step = "refused" /\ r.credential \in Keys) => Cause(r.credential)
  /\ (r.step \in {"serve", "created", "revoked"} /\ r.credential \in Keys
        /\ faults = 0)
       => keys[r.credential].lastUsed # Never

RequestOK(r) ==
  r # NoRequest => Credited(r) /\ Checked(r) /\ Changed(r) /\ Judged(r)

IInv ==
  /\ TypeOK
  /\ AnswersAreTrue
  /\ \A k \in Keys : RowOK(k)
  /\ \A h \in Handlers : RequestOK(handler[h])

\* What no step takes back.
Kept(k) ==
  /\ keys[k] # NoRow =>
       /\ keys'[k] # NoRow
       /\ keys'[k].expires = keys[k].expires
       /\ keys'[k].active => keys[k].active
       /\ keys[k].lastUsed # Never => keys'[k].lastUsed # Never
       /\ asked'[k] = asked[k]
  /\ passed[k] \subseteq passed'[k]

Grows ==
  /\ \A k \in Keys : Kept(k)
  /\ \A t \in Tokens : tokens[t] # NoRow => tokens'[t] # NoRow
  /\ closed \subseteq closed' /\ handed \subseteq handed'
  /\ now <= now' /\ faults <= faults'

----------------------------------------------------------------------------
(* Types.                                                                  *)

LEMMA ClockStep ==
  ASSUME TypeOK, now < MaxClock, now' = now + 1 PROVE now' \in 0 .. MaxClock
  BY AccessAssumption DEF TypeOK

LEMMA FaultStep == ASSUME TypeOK, Fault PROVE faults' \in 0 .. MaxFaults
  BY AccessAssumption DEF TypeOK, Fault

LEMMA Numbers == TypeOK => now \in Int /\ faults \in Nat
  BY AccessAssumption DEF TypeOK

LEMMA Busy ==
  ASSUME TypeOK, NEW h \in Handlers, handler[h].step # "idle"
  PROVE  handler[h] \in Request /\ handler[h] # NoRequest
  BY DEF TypeOK, NoRequest

LEMMA NotIdle ==
  ASSUME NEW r \in Request PROVE r # NoRequest /\ r.step \in Steps
<1>1. r.step \in Steps
  BY DEF Request, Steps
<1> QED BY <1>1 DEF NoRequest, Steps

\* A request that moves on and is otherwise as it was.
LEMMA GotoEffect ==
  ASSUME TypeOK, NEW h \in Handlers, handler[h].step # "idle",
         NEW s \in Steps, Goto(h, s)
  PROVE  /\ handler' \in [Handlers -> Request \cup {NoRequest}]
         /\ \A g \in Handlers \ {h} : handler'[g] = handler[g]
         /\ handler'[h] = [handler[h] EXCEPT !.step = s]
<1>1. handler[h] \in Request
  BY Busy
<1>2. [handler[h] EXCEPT !.step = s] \in Request
  BY <1>1 DEF Request, Steps
<1>3. handler' = [handler EXCEPT ![h] = [handler[h] EXCEPT !.step = s]]
  BY DEF Goto, TypeOK
<1> QED BY <1>2, <1>3 DEF TypeOK

LEMMA FreshRow ==
  ASSUME TypeOK, NEW role \in Roles, NEW e \in Int \cup {Never}
  PROVE  /\ NewRow(role, e) \in Row /\ NewRow(role, e) # NoRow
         /\ NewRow(role, e).expires = e /\ NewRow(role, e).lastUsed = Never
<1>1. NewRow(role, e) \in Row
  BY DEF NewRow, Row
<1> QED BY <1>1, NoRowIsNoRow DEF NewRow

LEMMA ExpiryType ==
  ASSUME TypeOK, NEW days \in Lifetimes PROVE Expiry(days) \in Int \cup {Never}
  BY Numbers, AccessAssumption DEF Expiry

----------------------------------------------------------------------------
(* What a request relies on survives the steps of the others.              *)

LEMMA Survives ==
  ASSUME IInv, Grows, TypeOK', NEW g \in Handlers, handler'[g] = handler[g]
  PROVE  RequestOK(handler[g])'
<1> SUFFICES ASSUME handler[g] # NoRequest
    PROVE  (Credited(handler[g]) /\ Checked(handler[g])
             /\ Changed(handler[g]) /\ Judged(handler[g]))'
  BY DEF RequestOK
<1> DEFINE r == handler[g]
<1>0. handler[g] \in Request
  BY DEF IInv, TypeOK
<1>1. Credited(r) /\ Checked(r) /\ Changed(r) /\ Judged(r)
  BY DEF IInv, RequestOK
<1>2. \A k \in Keys : Kept(k)
  BY DEF Grows
<1>3. Credited(r)'
  BY <1>1, <1>2 DEF Credited, Grows, Kept
<1>4. Checked(r)'
  <2>1. r.credential \in Keys => keys[r.credential] # NoRow
    BY <1>1 DEF Credited
  <2> QED BY <1>1, <1>2, <2>1 DEF Checked, Kept
<1>5. Changed(r)'
  BY <1>1, <1>2 DEF Changed, Kept
<1>6. Judged(r)'
  <2>1. r.late => r.credential \in closed'
    BY <1>1 DEF Judged, Grows
  <2>2. \A k \in Keys : (keys[k] # NoRow /\ Cause(k)) => Cause(k)'
    <3> SUFFICES ASSUME NEW k \in Keys, keys[k] # NoRow, Cause(k)
                 PROVE  Cause(k)'
      OBVIOUS
    <3>1. /\ now \in Int /\ now' \in Int /\ now <= now'
          /\ faults \in Nat /\ faults' \in Nat /\ faults <= faults'
      BY Numbers, AccessAssumption DEF IInv, Grows, TypeOK
    <3>2. asked[k] \in [days : Int, at : Int] /\ asked'[k] = asked[k]
      BY <1>2 DEF Kept, IInv, TypeOK
    <3>3. keys'[k].active => keys[k].active
      BY <1>2 DEF Kept
    <3> QED BY <3>1, <3>2, <3>3 DEF Cause
  <2>3. r.credential \in Keys => keys[r.credential] # NoRow
    BY <1>1 DEF Credited
  <2>4. faults' = 0 => faults = 0
    BY Numbers, AccessAssumption DEF IInv, Grows, TypeOK
  <2> QED BY <1>1, <1>2, <2>1, <2>2, <2>3, <2>4 DEF Judged, Kept
<1> QED BY <1>3, <1>4, <1>5, <1>6

\* A row that is left alone stays as it should be.
LEMMA RowStays ==
  ASSUME IInv, NEW k \in Keys, keys'[k] = keys[k], asked'[k] = asked[k],
         passed[k] \subseteq passed'[k]
  PROVE  RowOK(k)'
  BY DEF IInv, RowOK

\* A step that changes one request, and nothing the others rely on but the
\* count of faults.
LEMMA OnlyRequest ==
  ASSUME IInv, NEW h \in Handlers,
         handler' \in [Handlers -> Request \cup {NoRequest}],
         \A g \in Handlers \ {h} : handler'[g] = handler[g],
         RequestOK(handler[h])',
         UNCHANGED <<now, keys, tokens, clients, asked, passed>>,
         faults' \in 0 .. MaxFaults, faults <= faults'
  PROVE  IInv' /\ Grows
<1>1. TypeOK'
  BY DEF IInv, TypeOK, clients
<1>2. Grows
  BY Numbers DEF IInv, Grows, Kept, clients
<1>3. \A k \in Keys : RowOK(k)'
  BY RowStays
<1>4. AnswersAreTrue'
  BY DEF IInv, AnswersAreTrue, clients
<1>5. \A g \in Handlers : RequestOK(handler[g])'
  BY <1>1, <1>2, Survives
<1> QED BY <1>1, <1>2, <1>3, <1>4, <1>5 DEF IInv

\* Nothing at all is asked of a request that only has to be ended.
LEMMA DoneIsOK ==
  ASSUME IInv, NEW h \in Handlers, handler[h].step # "idle", Goto(h, "done"),
         UNCHANGED <<now, keys, tokens, clients, asked, passed>>,
         faults' \in 0 .. MaxFaults, faults <= faults'
  PROVE  IInv' /\ Grows
<1>1. /\ handler' \in [Handlers -> Request \cup {NoRequest}]
      /\ \A g \in Handlers \ {h} : handler'[g] = handler[g]
      /\ handler'[h] = [handler[h] EXCEPT !.step = "done"]
  BY GotoEffect DEF IInv, Steps
<1>2. handler[h] \in Request /\ RequestOK(handler[h]) /\ handler[h] # NoRequest
  BY Busy DEF IInv
<1>3. RequestOK(handler[h])'
  <2> DEFINE r == handler'[h]
  <2>1. /\ r.step = "done" /\ r.credential = handler[h].credential
        /\ r.op = handler[h].op /\ r.target = handler[h].target
        /\ r.late = handler[h].late
    BY <1>1, <1>2 DEF Request
  <2>2. Credited(handler[h]) /\ Judged(handler[h])
    BY <1>2 DEF RequestOK
  <2>3. Credited(handler[h])' /\ Checked(handler[h])' /\ Changed(handler[h])'
    BY <2>1, <2>2 DEF Credited, Checked, Changed
  <2>4. Judged(handler[h])'
    BY <2>1, <2>2 DEF Judged, clients
  <2> QED BY <2>3, <2>4 DEF RequestOK
<1> QED BY <1>1, <1>3, OnlyRequest

\* The request at a step with nothing done to it yet.
LEMMA AtWork ==
  ASSUME IInv, NEW h \in Handlers, handler[h].step # "idle"
  PROVE  /\ TypeOK /\ handler[h] \in Request
         /\ Credited(handler[h]) /\ Checked(handler[h])
         /\ Changed(handler[h]) /\ Judged(handler[h])
  BY Busy DEF IInv, RequestOK

LEMMA NoFault == TypeOK /\ faults' = faults => faults' \in 0 .. MaxFaults /\ faults <= faults'
  BY Numbers DEF TypeOK

LEMMA OneFault ==
  TypeOK /\ Fault => faults' \in 0 .. MaxFaults /\ faults <= faults' /\ faults' > 0
  BY FaultStep, Numbers DEF Fault

----------------------------------------------------------------------------
(* The clock, logins and crashes.                                          *)

LEMMA LoginStep ==
  ASSUME IInv, NEW t \in Tokens, Login(t) PROVE IInv' /\ Grows
<1>1. PICK role \in Roles : tokens' = [tokens EXCEPT ![t] = NewRow(role, now + TokenLife)]
  BY DEF Login
<1>2. now + TokenLife \in Int
  BY Numbers, AccessAssumption DEF IInv
<1>3. PICK row : row = NewRow(role, now + TokenLife)
  OBVIOUS
<1>4. row \in Row /\ row # NoRow
  BY <1>2, <1>3, FreshRow DEF IInv
<1>5. TypeOK'
  BY <1>1, <1>3, <1>4 DEF IInv, TypeOK, Login, clients
<1>6. \A u \in Tokens : tokens[u] # NoRow => tokens'[u] # NoRow
  BY <1>1, <1>3, <1>4 DEF IInv, TypeOK
<1>7. Grows
  BY <1>6, Numbers DEF IInv, Grows, Kept, Login, clients
<1>8. \A k \in Keys : RowOK(k)'
  BY RowStays DEF Login
<1>9. AnswersAreTrue'
  BY DEF IInv, AnswersAreTrue, Login, clients
<1>10. \A g \in Handlers : RequestOK(handler[g])'
  BY <1>5, <1>7, Survives DEF Login
<1> QED BY <1>5, <1>7, <1>8, <1>9, <1>10 DEF IInv

LEMMA TickStep == ASSUME IInv, Tick PROVE IInv' /\ Grows
<1>1. now' \in 0 .. MaxClock
  BY ClockStep DEF IInv, Tick
<1>2. TypeOK'
  BY <1>1 DEF IInv, TypeOK, Tick, clients
<1>3. now <= now' /\ faults <= faults'
  BY Numbers DEF IInv, Tick
<1>4. Grows
  BY <1>3 DEF Grows, Kept, Tick, clients
<1>5. \A k \in Keys : RowOK(k)'
  BY RowStays DEF Tick
<1>6. AnswersAreTrue'
  BY DEF IInv, AnswersAreTrue, Tick, clients
<1>7. \A g \in Handlers : RequestOK(handler[g])'
  BY <1>2, <1>4, Survives DEF Tick
<1> QED BY <1>2, <1>4, <1>5, <1>6, <1>7 DEF IInv

LEMMA CrashStep == ASSUME IInv, Crash PROVE IInv' /\ Grows
<1>1. faults' \in 0 .. MaxFaults /\ faults <= faults'
  BY OneFault DEF IInv, Crash
<1>2. TypeOK'
  BY <1>1 DEF IInv, TypeOK, Crash, clients
<1>3. Grows
  BY <1>1, Numbers DEF IInv, Grows, Kept, Crash, clients
<1>4. \A k \in Keys : RowOK(k)'
  BY RowStays DEF Crash
<1>5. AnswersAreTrue'
  BY DEF IInv, AnswersAreTrue, Crash, clients
<1>6. \A g \in Handlers : RequestOK(handler[g])'
  BY DEF RequestOK, Crash
<1> QED BY <1>2, <1>3, <1>4, <1>5, <1>6 DEF IInv

----------------------------------------------------------------------------
(* The middleware.                                                         *)

LEMMA ArriveStep ==
  ASSUME IInv, NEW h \in Handlers, Arrive(h) PROVE IInv' /\ Grows
<1>1. PICK credential \in handed \cup {t \in Tokens : tokens[t] # NoRow},
           op \in Ops, target \in Keys \cup {NoRow} :
        /\ target \in Keys <=> op = "revoke"
        /\ handler' = [handler EXCEPT ![h] =
             [step |-> "check", op |-> op, credential |-> credential,
              target |-> target, copy |-> NoRow, at |-> 0,
              late |-> credential \in closed]]
  BY DEF Arrive
<1>2. PICK r : r = [step |-> "check", op |-> op, credential |-> credential,
                    target |-> target, copy |-> NoRow, at |-> 0,
                    late |-> credential \in closed]
  OBVIOUS
<1>3. r \in Request
  BY <1>2 DEF IInv, TypeOK, Request, Credentials
<1>4. handler' = [handler EXCEPT ![h] = r]
  BY <1>1, <1>2
<1>5. handler' \in [Handlers -> Request \cup {NoRequest}]
  BY <1>3, <1>4 DEF IInv, TypeOK
<1>6. handler'[h] = r /\ \A g \in Handlers \ {h} : handler'[g] = handler[g]
  BY <1>4 DEF IInv, TypeOK
<1>7. RequestOK(handler[h])'
  <2>1. /\ r.step = "check" /\ r.credential = credential /\ r.op = op
        /\ r.target = target /\ (r.late => credential \in closed)
    BY <1>2
  <2>2. Credited(handler[h])'
    <3>1. credential \in Keys => keys[credential] # NoRow
      BY AccessAssumption DEF IInv, AnswersAreTrue
    <3>2. credential \in Tokens => tokens[credential] # NoRow
      BY AccessAssumption DEF IInv, TypeOK
    <3> QED BY <1>1, <1>6, <2>1, <3>1, <3>2 DEF Credited, Arrive
  <2>3. Checked(handler[h])' /\ Changed(handler[h])'
    BY <1>6, <2>1 DEF Checked, Changed
  <2>4. Judged(handler[h])'
    BY <1>6, <2>1 DEF Judged, Arrive, clients
  <2> QED BY <2>2, <2>3, <2>4 DEF RequestOK
<1> QED BY <1>5, <1>6, <1>7, OnlyRequest, NoFault DEF IInv, Arrive

LEMMA CheckTokenStep ==
  ASSUME IInv, NEW h \in Handlers, CheckToken(h) PROVE IInv' /\ Grows
<1>1. /\ handler[h].step = "check" /\ handler[h].credential \in Tokens
      /\ handler[h].credential \notin Keys
  BY AccessAssumption DEF CheckToken
<1>2. /\ TypeOK /\ handler[h] \in Request
      /\ Credited(handler[h]) /\ Judged(handler[h])
  BY <1>1, AtWork
<1>3. PICK s : s = IF now < tokens[handler[h].credential].expires
                   THEN "serve" ELSE "refused"
  OBVIOUS
<1>4. PICK r : r = [handler[h] EXCEPT !.step = s, !.copy = tokens[handler[h].credential]]
  OBVIOUS
<1>5. tokens[handler[h].credential] \in Row \cup {NoRow}
  BY <1>1, <1>2 DEF TypeOK
<1>6. r \in Request
  BY <1>2, <1>3, <1>4, <1>5 DEF Request
<1>7. handler' = [handler EXCEPT ![h] = r]
  BY <1>2, <1>3, <1>4 DEF CheckToken, TypeOK
<1>8. /\ handler' \in [Handlers -> Request \cup {NoRequest}]
      /\ handler'[h] = r /\ \A g \in Handlers \ {h} : handler'[g] = handler[g]
  BY <1>2, <1>6, <1>7 DEF TypeOK
<1>9. RequestOK(handler[h])'
  <2>1. /\ r.step \in {"serve", "refused"} /\ r.credential = handler[h].credential
        /\ r.op = handler[h].op /\ r.target = handler[h].target
        /\ r.late = handler[h].late
    BY <1>2, <1>3, <1>4 DEF Request
  <2>2. ~handler[h].late
    BY <1>1, <1>2 DEF Judged, TypeOK
  <2>3. Credited(handler[h])' /\ Checked(handler[h])' /\ Changed(handler[h])'
    BY <1>2, <1>8, <2>1 DEF Credited, Checked, Changed, CheckToken
  <2>4. Judged(handler[h])'
    BY <1>1, <1>8, <2>1, <2>2 DEF Judged
  <2> QED BY <2>3, <2>4 DEF RequestOK
<1> QED BY <1>8, <1>9, OnlyRequest, NoFault DEF IInv, CheckToken

LEMMA KeyAsTokenStep ==
  ASSUME IInv, NEW h \in Handlers, KeyAsToken(h) PROVE IInv' /\ Grows
<1>1. handler[h].step # "idle"
  BY DEF KeyAsToken
<1> QED BY <1>1, DoneIsOK, NoFault DEF KeyAsToken, IInv

\* A request with a key that is turned away, and why.
LEMMA Turned ==
  ASSUME IInv, NEW h \in Handlers, handler[h].step # "idle",
         handler[h].credential \in Keys, Goto(h, "refused"),
         UNCHANGED <<now, keys, tokens, clients, asked, passed>>,
         faults' \in 0 .. MaxFaults, faults <= faults',
         Cause(handler[h].credential)'
  PROVE  IInv' /\ Grows
<1>1. /\ handler' \in [Handlers -> Request \cup {NoRequest}]
      /\ \A g \in Handlers \ {h} : handler'[g] = handler[g]
      /\ handler'[h] = [handler[h] EXCEPT !.step = "refused"]
  BY GotoEffect DEF IInv, Steps
<1>2. /\ handler[h] \in Request
      /\ Credited(handler[h]) /\ Judged(handler[h])
  BY AtWork
<1>3. RequestOK(handler[h])'
  <2> DEFINE r == handler'[h]
  <2>1. /\ r.step = "refused" /\ r.credential = handler[h].credential
        /\ r.op = handler[h].op /\ r.target = handler[h].target
        /\ r.late = handler[h].late
    BY <1>1, <1>2 DEF Request
  <2>2. Credited(handler[h])' /\ Checked(handler[h])' /\ Changed(handler[h])'
    BY <1>2, <2>1 DEF Credited, Checked, Changed
  <2>3. Judged(handler[h])'
    BY <1>2, <2>1 DEF Judged, Cause, clients
  <2> QED BY <2>2, <2>3 DEF RequestOK
<1> QED BY <1>1, <1>3, OnlyRequest

LEMMA LookupStep ==
  ASSUME IInv, NEW h \in Handlers, Lookup(h) PROVE IInv' /\ Grows
<1>1. handler[h].step = "check" /\ handler[h].credential \in Keys
  BY DEF Lookup
<1>2. /\ TypeOK /\ handler[h] \in Request
      /\ Credited(handler[h]) /\ Judged(handler[h]) /\ AnswersAreTrue
  BY <1>1, AtWork DEF IInv
<1>3. PICK k \in Keys : k = handler[h].credential
  BY <1>1
<1>4. keys[k] # NoRow /\ keys[k] \in Row
  BY <1>2, <1>3 DEF Credited, TypeOK
<1>5. CASE /\ Found(keys[k])
           /\ handler' = [handler EXCEPT ![h].step = "expiry", ![h].copy = keys[k]]
           /\ UNCHANGED faults
  <2>1. PICK r : r = [handler[h] EXCEPT !.step = "expiry", !.copy = keys[k]]
    OBVIOUS
  <2>2. r \in Request
    BY <1>2, <1>4, <2>1 DEF Request
  <2>3. handler' = [handler EXCEPT ![h] = r]
    BY <1>2, <1>5, <2>1 DEF TypeOK
  <2>4. /\ handler' \in [Handlers -> Request \cup {NoRequest}]
        /\ handler'[h] = r /\ \A g \in Handlers \ {h} : handler'[g] = handler[g]
    BY <1>2, <2>2, <2>3 DEF TypeOK
  <2>5. /\ r.step = "expiry" /\ r.credential = k /\ r.copy = keys[k]
        /\ r.op = handler[h].op /\ r.target = handler[h].target
        /\ r.late = handler[h].late
    BY <1>2, <1>3, <2>1 DEF Request
  <2>6. ~handler[h].late
    BY <1>2, <1>3, <1>5 DEF Judged, AnswersAreTrue, Found
  <2>7. Credited(handler[h])' /\ Checked(handler[h])' /\ Changed(handler[h])'
    BY <1>2, <1>3, <1>4, <2>4, <2>5 DEF Credited, Checked, Changed, Lookup
  <2>8. Judged(handler[h])'
    BY <2>4, <2>5, <2>6 DEF Judged
  <2>9. RequestOK(handler[h])'
    BY <2>7, <2>8 DEF RequestOK
  <2> QED BY <1>2, <1>5, <2>4, <2>9, OnlyRequest, NoFault DEF Lookup
<1>6. CASE ~Found(keys[k]) /\ Goto(h, "refused") /\ UNCHANGED faults
  <2>1. ~keys[k].active
    BY <1>4, <1>6 DEF Found
  <2>2. Cause(handler[h].credential)'
    <3>1. handler'[h] = [handler[h] EXCEPT !.step = "refused"]
      BY <1>1, <1>2, <1>6, GotoEffect DEF Steps
    <3>2. handler'[h].credential = k
      BY <1>2, <1>3, <3>1 DEF Request
    <3> QED BY <2>1, <3>2 DEF Cause, Lookup
  <2> QED BY <1>1, <1>2, <1>6, <2>2, Turned, NoFault DEF Lookup
<1>7. CASE Fault /\ Goto(h, "refused")
  <2>1. Cause(handler[h].credential)'
    BY <1>2, <1>7, OneFault DEF Cause
  <2> QED BY <1>1, <1>2, <1>7, <2>1, Turned, OneFault DEF Lookup
<1> QED BY <1>3, <1>5, <1>6, <1>7 DEF Lookup

LEMMA CheckExpiryStep ==
  ASSUME IInv, NEW h \in Handlers, CheckExpiry(h) PROVE IInv' /\ Grows
<1>1. handler[h].step = "expiry"
  BY DEF CheckExpiry
<1>2. /\ TypeOK /\ handler[h] \in Request /\ Credited(handler[h])
      /\ Checked(handler[h]) /\ Judged(handler[h])
      /\ \A j \in Keys : RowOK(j)
  BY <1>1, AtWork DEF IInv
<1>3. PICK k \in Keys : k = handler[h].credential
  BY <1>1, <1>2 DEF Checked
<1>4. /\ keys[k] # NoRow /\ keys[k] \in Row /\ handler[h].copy \in Row
      /\ handler[h].copy.expires = keys[k].expires
  BY <1>1, <1>2, <1>3 DEF Credited, Checked, TypeOK
<1>5. CASE Expired(handler[h].copy)
  <2>1. Goto(h, "refused") /\ UNCHANGED passed
    BY <1>5 DEF CheckExpiry
  <2>2. Cause(k)
    BY <1>2, <1>4, <1>5 DEF Expired, RowOK, Cause
  <2>3. Cause(handler[h].credential)'
    <3>1. handler'[h] = [handler[h] EXCEPT !.step = "refused"]
      BY <1>1, <1>2, <2>1, GotoEffect DEF Steps
    <3>2. handler'[h].credential = k
      BY <1>2, <1>3, <3>1 DEF Request
    <3> QED BY <2>2, <3>2 DEF Cause, CheckExpiry
  <2> QED BY <1>1, <1>2, <1>3, <2>1, <2>3, Turned, NoFault DEF CheckExpiry
<1>6. CASE ~Expired(handler[h].copy)
  <2>1. PICK r : r = [handler[h] EXCEPT !.step = "touch", !.at = now]
    OBVIOUS
  <2>2. r \in Request
    BY <1>2, <2>1, Numbers DEF Request
  <2>3. handler' = [handler EXCEPT ![h] = r]
    BY <1>2, <1>6, <2>1 DEF TypeOK, CheckExpiry
  <2>4. /\ handler' \in [Handlers -> Request \cup {NoRequest}]
        /\ handler'[h] = r /\ \A g \in Handlers \ {h} : handler'[g] = handler[g]
    BY <1>2, <2>2, <2>3 DEF TypeOK
  <2>5. passed' = [passed EXCEPT ![k] = @ \cup {now}]
    BY <1>3, <1>6 DEF CheckExpiry
  <2>6. /\ passed' \in [Keys -> SUBSET Int] /\ now \in passed'[k]
        /\ \A j \in Keys : passed[j] \subseteq passed'[j]
    BY <1>2, <2>5, Numbers DEF TypeOK
  <2>7. TypeOK'
    BY <1>2, <2>4, <2>6 DEF TypeOK, CheckExpiry, clients
  <2>8. Grows
    BY <1>2, <2>6, Numbers DEF Grows, Kept, CheckExpiry, clients
  <2>9. \A j \in Keys : RowOK(j)'
    BY <2>6, RowStays DEF CheckExpiry
  <2>10. AnswersAreTrue'
    BY DEF IInv, AnswersAreTrue, CheckExpiry, clients
  <2>11. RequestOK(handler[h])'
    <3>1. /\ r.step = "touch" /\ r.credential = k /\ r.at = now
          /\ r.op = handler[h].op /\ r.target = handler[h].target
          /\ r.late = handler[h].late
      BY <1>2, <1>3, <2>1 DEF Request
    <3>2. Credited(handler[h])' /\ Checked(handler[h])' /\ Changed(handler[h])'
      BY <1>2, <1>3, <2>4, <2>6, <3>1 DEF Credited, Checked, Changed, CheckExpiry
    <3>3. Judged(handler[h])'
      BY <1>1, <1>2, <2>4, <3>1 DEF Judged
    <3> QED BY <3>2, <3>3 DEF RequestOK
  <2>12. \A g \in Handlers : RequestOK(handler[g])'
    BY <2>4, <2>7, <2>8, <2>11, Survives
  <2> QED BY <2>7, <2>8, <2>9, <2>10, <2>12 DEF IInv
<1> QED BY <1>5, <1>6

LEMMA TouchStep ==
  ASSUME IInv, NEW h \in Handlers, Touch(h) PROVE IInv' /\ Grows
<1>1. handler[h].step = "touch" /\ Goto(h, "serve")
  BY DEF Touch
<1>2. /\ TypeOK /\ handler[h] \in Request /\ Credited(handler[h])
      /\ Checked(handler[h]) /\ Judged(handler[h]) /\ AnswersAreTrue
      /\ \A j \in Keys : RowOK(j)
  BY <1>1, AtWork DEF IInv
<1>3. PICK k \in Keys : k = handler[h].credential
  BY <1>1, <1>2 DEF Checked
<1>4. /\ keys[k] # NoRow /\ keys[k] \in Row
      /\ handler[h].at \in Int /\ handler[h].at \in passed[k]
      /\ ~handler[h].late
  BY <1>1, <1>2, <1>3 DEF Credited, Checked, Judged, TypeOK, Request
<1>5. /\ handler' \in [Handlers -> Request \cup {NoRequest}]
      /\ \A g \in Handlers \ {h} : handler'[g] = handler[g]
      /\ handler'[h] = [handler[h] EXCEPT !.step = "serve"]
  BY <1>1, <1>2, GotoEffect DEF Steps
<1>6. /\ handler'[h].step = "serve" /\ handler'[h].credential = k
      /\ handler'[h].op = handler[h].op /\ handler'[h].target = handler[h].target
      /\ handler'[h].late = handler[h].late
  BY <1>2, <1>3, <1>5 DEF Request
<1>7. PICK row : row = [keys[k] EXCEPT !.lastUsed = handler[h].at]
  OBVIOUS
<1>8. /\ row \in Row /\ row # NoRow /\ row.expires = keys[k].expires
      /\ row.active = keys[k].active /\ row.lastUsed = handler[h].at
      /\ row.lastUsed # Never
  BY <1>4, <1>7, NoRowIsNoRow, AccessAssumption DEF Row
<1>9. CASE keys' = [keys EXCEPT ![k] = row] /\ UNCHANGED faults
  <2>1. /\ keys' \in [Keys -> Row \cup {NoRow}] /\ keys'[k] = row
        /\ \A j \in Keys \ {k} : keys'[j] = keys[j]
    BY <1>2, <1>8, <1>9 DEF TypeOK
  <2>2. TypeOK'
    BY <1>2, <1>5, <1>9, <2>1 DEF TypeOK, Touch, clients
  <2>3. \A j \in Keys : Kept(j)
    BY <1>8, <2>1 DEF Kept, Touch
  <2>4. Grows
    BY <1>2, <1>9, <2>3, Numbers DEF Grows, Touch, clients
  <2>5. \A j \in Keys : RowOK(j)'
    <3>1. RowOK(k)'
      BY <1>2, <1>4, <1>8, <2>1 DEF RowOK, Touch
    <3>2. \A j \in Keys \ {k} : RowOK(j)'
      BY <2>1, RowStays DEF Touch
    <3> QED BY <3>1, <3>2
  <2>6. AnswersAreTrue'
    BY <1>2, <1>8, <2>1 DEF TypeOK, AnswersAreTrue, Touch, clients
  <2>7. RequestOK(handler[h])'
    <3>1. Credited(handler[h])'
      <4>1. tokens'[k] = tokens[k] /\ (k \in Tokens => tokens[k] # NoRow)
        BY <1>2, <1>3 DEF Credited, Touch
      <4> QED BY <1>2, <1>6, <1>8, <2>1, <4>1 DEF Credited
    <3>2. Checked(handler[h])' /\ Changed(handler[h])'
      BY <1>6 DEF Checked, Changed
    <3>3. Judged(handler[h])'
      BY <1>4, <1>6, <1>8, <2>1 DEF Judged
    <3> QED BY <3>1, <3>2, <3>3 DEF RequestOK
  <2>8. \A g \in Handlers : RequestOK(handler[g])'
    BY <1>5, <2>2, <2>4, <2>7, Survives
  <2> QED BY <2>2, <2>4, <2>5, <2>6, <2>8 DEF IInv
<1>10. CASE Fault /\ UNCHANGED keys
  <2>1. RequestOK(handler[h])'
    <3>1. Credited(handler[h])' /\ Checked(handler[h])' /\ Changed(handler[h])'
      BY <1>2, <1>3, <1>4, <1>6, <1>10 DEF Credited, Checked, Changed, Touch
    <3>2. Judged(handler[h])'
      BY <1>2, <1>4, <1>6, <1>10, OneFault DEF Judged
    <3> QED BY <3>1, <3>2 DEF RequestOK
  <2> QED BY <1>2, <1>5, <1>10, <2>1, OneFault, OnlyRequest DEF Touch
<1>11. \/ keys' = [keys EXCEPT ![k] = row] /\ UNCHANGED faults
       \/ Fault /\ UNCHANGED keys
  BY <1>3, <1>7 DEF Touch, Touched
<1> QED BY <1>9, <1>10, <1>11

----------------------------------------------------------------------------
(* The handlers.                                                           *)

LEMMA WorkStep ==
  ASSUME IInv, NEW h \in Handlers, Work(h) \/ Forbidden(h) PROVE IInv' /\ Grows
<1>1. handler[h].step # "idle" /\ Goto(h, "done")
  BY DEF Work, Forbidden
<1>2. faults' = faults /\ UNCHANGED <<now, keys, tokens, clients, asked, passed>>
  BY DEF Work, Forbidden
<1> QED BY <1>1, <1>2, DoneIsOK, NoFault DEF IInv

LEMMA SaveKeyStep ==
  ASSUME IInv, NEW h \in Handlers, SaveKey(h) PROVE IInv' /\ Grows
<1>1. handler[h].step = "serve"
  BY DEF SaveKey
<1>2. /\ TypeOK /\ handler[h] \in Request /\ Credited(handler[h])
      /\ Judged(handler[h]) /\ AnswersAreTrue
  BY <1>1, AtWork DEF IInv
<1>3. CASE Fault /\ Goto(h, "done") /\ UNCHANGED <<keys, asked>>
  BY <1>1, <1>2, <1>3, DoneIsOK, OneFault DEF SaveKey
<1>4. ASSUME NEW k \in Keys, NEW role \in Roles, NEW days \in Lifetimes,
             keys[k] = NoRow,
             keys' = [keys EXCEPT ![k] = NewRow(role, Expiry(days))],
             asked' = [asked EXCEPT ![k] = [days |-> days, at |-> now]],
             handler' = [handler EXCEPT ![h].step = "created", ![h].target = k],
             UNCHANGED faults
      PROVE  IInv' /\ Grows
  <2>1. PICK row : row = NewRow(role, Expiry(days))
    OBVIOUS
  <2>2. /\ row \in Row /\ row # NoRow /\ row.expires = Expiry(days)
        /\ row.lastUsed = Never
    BY <1>2, <2>1, ExpiryType, FreshRow
  <2>3. /\ keys' \in [Keys -> Row \cup {NoRow}] /\ keys'[k] = row
        /\ \A j \in Keys \ {k} : keys'[j] = keys[j]
    BY <1>2, <1>4, <2>1, <2>2 DEF TypeOK
  <2>4. /\ asked' \in [Keys -> [days : Int, at : Int]]
        /\ asked'[k].days = days /\ asked'[k].at = now
        /\ \A j \in Keys \ {k} : asked'[j] = asked[j]
    <3>1. [days |-> days, at |-> now] \in [days : Int, at : Int]
      BY <1>2, Numbers, AccessAssumption
    <3> QED BY <1>2, <1>4, <3>1 DEF TypeOK
  <2>5. PICK r : r = [handler[h] EXCEPT !.step = "created", !.target = k]
    OBVIOUS
  <2>6. r \in Request
    BY <1>2, <2>5 DEF Request
  <2>7. /\ handler' \in [Handlers -> Request \cup {NoRequest}]
        /\ handler'[h] = r /\ \A g \in Handlers \ {h} : handler'[g] = handler[g]
    BY <1>2, <1>4, <2>5, <2>6 DEF TypeOK
  <2>8. TypeOK'
    BY <1>2, <1>4, <2>3, <2>4, <2>7 DEF TypeOK, SaveKey, clients
  <2>9. \A j \in Keys : Kept(j)
    BY <1>4, <2>3, <2>4 DEF Kept, SaveKey
  <2>10. Grows
    BY <1>2, <1>4, <2>9, Numbers DEF Grows, SaveKey, clients
  <2>11. \A j \in Keys : RowOK(j)'
    <3>1. RowOK(k)'
      <4>1. row.expires = IF days > 0 THEN now + days ELSE Never
        BY <2>2 DEF Expiry
      <4> QED BY <2>2, <2>3, <2>4, <4>1 DEF RowOK
    <3>2. \A j \in Keys \ {k} : RowOK(j)'
      BY <2>3, <2>4, RowStays DEF SaveKey
    <3> QED BY <3>1, <3>2
  <2>12. AnswersAreTrue'
    BY <1>2, <1>4, <2>2, <2>3 DEF TypeOK, AnswersAreTrue, SaveKey, clients
  <2>13. RequestOK(handler[h])'
    <3>1. /\ r.step = "created" /\ r.credential = handler[h].credential
          /\ r.op = handler[h].op /\ r.target = k /\ r.late = handler[h].late
      BY <1>2, <2>5 DEF Request
    <3>2. Credited(handler[h])'
      BY <1>2, <2>7, <2>9, <3>1 DEF Credited, Kept, SaveKey
    <3>3. Checked(handler[h])' /\ Changed(handler[h])'
      BY <2>2, <2>3, <2>7, <3>1 DEF Checked, Changed
    <3>4. Judged(handler[h])'
      <4>1. ~r.late
        BY <1>1, <1>2, <3>1 DEF Judged
      <4>2. (r.credential \in Keys /\ faults' = 0) =>
              /\ keys[r.credential] # NoRow
              /\ keys[r.credential].lastUsed # Never
        BY <1>1, <1>2, <1>4, <3>1 DEF Judged, Credited
      <4>3. (r.credential \in Keys /\ faults' = 0) =>
              keys'[r.credential].lastUsed # Never
        BY <2>9, <4>2 DEF Kept
      <4> QED BY <2>7, <3>1, <4>1, <4>3 DEF Judged
    <3> QED BY <3>2, <3>3, <3>4 DEF RequestOK
  <2>14. \A g \in Handlers : RequestOK(handler[g])'
    BY <2>7, <2>8, <2>10, <2>13, Survives
  <2> QED BY <2>8, <2>10, <2>11, <2>12, <2>14 DEF IInv
<1> QED BY <1>3, <1>4 DEF SaveKey

LEMMA AnswerKeyStep ==
  ASSUME IInv, NEW h \in Handlers, AnswerKey(h) PROVE IInv' /\ Grows
<1>1. handler[h].step = "created" /\ Goto(h, "done")
  BY DEF AnswerKey
<1>2. /\ TypeOK /\ handler[h] \in Request /\ Credited(handler[h])
      /\ Changed(handler[h]) /\ Judged(handler[h]) /\ AnswersAreTrue
  BY <1>1, AtWork DEF IInv
<1>3. /\ handler' \in [Handlers -> Request \cup {NoRequest}]
      /\ \A g \in Handlers \ {h} : handler'[g] = handler[g]
      /\ handler'[h] = [handler[h] EXCEPT !.step = "done"]
  BY <1>1, <1>2, GotoEffect DEF Steps
<1>4. handler[h].target \in Keys /\ keys[handler[h].target] # NoRow
  BY <1>1, <1>2 DEF Changed
<1>5. TypeOK'
  BY <1>2, <1>3, <1>4 DEF TypeOK, AnswerKey, clients
<1>6. Grows
  BY <1>2, Numbers DEF Grows, Kept, AnswerKey
<1>7. \A j \in Keys : RowOK(j)'
  BY RowStays DEF AnswerKey
<1>8. AnswersAreTrue'
  BY <1>2, <1>4 DEF AnswersAreTrue, AnswerKey
<1>9. RequestOK(handler[h])'
  <2>1. /\ handler'[h].step = "done"
        /\ handler'[h].credential = handler[h].credential
        /\ handler'[h].op = handler[h].op /\ handler'[h].target = handler[h].target
        /\ handler'[h].late = handler[h].late
    BY <1>2, <1>3 DEF Request
  <2>2. Credited(handler[h])' /\ Checked(handler[h])' /\ Changed(handler[h])'
    BY <1>2, <2>1 DEF Credited, Checked, Changed, AnswerKey
  <2>3. Judged(handler[h])'
    BY <1>1, <1>2, <2>1 DEF Judged
  <2> QED BY <2>2, <2>3 DEF RequestOK
<1>10. \A g \in Handlers : RequestOK(handler[g])'
  BY <1>3, <1>5, <1>6, <1>9, Survives
<1> QED BY <1>5, <1>6, <1>7, <1>8, <1>10 DEF IInv

LEMMA RevokeStep ==
  ASSUME IInv, NEW h \in Handlers, Revoke(h) PROVE IInv' /\ Grows
<1>1. handler[h].step = "serve" /\ handler[h].op = "revoke"
  BY DEF Revoke
<1>2. /\ TypeOK /\ handler[h] \in Request /\ Credited(handler[h])
      /\ Judged(handler[h]) /\ AnswersAreTrue /\ \A j \in Keys : RowOK(j)
  BY <1>1, AtWork DEF IInv
<1>3. PICK k \in Keys : k = handler[h].target
  BY <1>1, <1>2 DEF Credited
<1>4. CASE Fault /\ Goto(h, "done") /\ UNCHANGED keys
  BY <1>1, <1>2, <1>4, DoneIsOK, OneFault DEF Revoke
<1>5. CASE keys[k] = NoRow /\ keys' = keys /\ Goto(h, "done") /\ UNCHANGED faults
  BY <1>1, <1>2, <1>5, DoneIsOK, NoFault DEF Revoke
<1>6. CASE /\ keys[k] # NoRow
           /\ keys' = [keys EXCEPT ![k] = Deactivated(keys[k])]
           /\ Goto(h, "revoked") /\ UNCHANGED faults
  <2>1. PICK row : row = [keys[k] EXCEPT !.active = FALSE]
    OBVIOUS
  <2>2. keys[k] \in Row
    BY <1>2, <1>6 DEF TypeOK
  <2>3. /\ row \in Row /\ row # NoRow /\ ~row.active
        /\ row.expires = keys[k].expires /\ row.lastUsed = keys[k].lastUsed
    BY <2>1, <2>2, NoRowIsNoRow DEF Row
  <2>4. /\ keys' \in [Keys -> Row \cup {NoRow}] /\ keys'[k] = row
        /\ \A j \in Keys \ {k} : keys'[j] = keys[j]
    BY <1>2, <1>6, <2>1, <2>3 DEF TypeOK, Deactivated
  <2>5. /\ handler' \in [Handlers -> Request \cup {NoRequest}]
        /\ \A g \in Handlers \ {h} : handler'[g] = handler[g]
        /\ handler'[h] = [handler[h] EXCEPT !.step = "revoked"]
    BY <1>1, <1>2, <1>6, GotoEffect DEF Steps
  <2>6. TypeOK'
    BY <1>2, <1>6, <2>4, <2>5 DEF TypeOK, Revoke, clients
  <2>7. \A j \in Keys : Kept(j)
    BY <2>3, <2>4 DEF Kept, Revoke
  <2>8. Grows
    BY <1>2, <1>6, <2>7, Numbers DEF Grows, Revoke, clients
  <2>9. \A j \in Keys : RowOK(j)'
    <3>1. RowOK(k)'
      BY <1>2, <1>6, <2>3, <2>4 DEF RowOK, Revoke
    <3>2. \A j \in Keys \ {k} : RowOK(j)'
      BY <2>4, RowStays DEF Revoke
    <3> QED BY <3>1, <3>2
  <2>10. AnswersAreTrue'
    BY <1>2, <2>3, <2>4 DEF TypeOK, AnswersAreTrue, Revoke, clients
  <2>11. RequestOK(handler[h])'
    <3>1. /\ handler'[h].step = "revoked"
          /\ handler'[h].credential = handler[h].credential
          /\ handler'[h].op = handler[h].op /\ handler'[h].target = k
          /\ handler'[h].late = handler[h].late
      BY <1>2, <1>3, <2>5 DEF Request
    <3>2. Credited(handler[h])'
      BY <1>2, <2>7, <3>1 DEF Credited, Kept, Revoke
    <3>3. Checked(handler[h])' /\ Changed(handler[h])'
      BY <2>3, <2>4, <3>1 DEF Checked, Changed
    <3>4. Judged(handler[h])'
      <4>1. ~handler[h].late
        BY <1>1, <1>2 DEF Judged
      <4>2. (handler[h].credential \in Keys /\ faults' = 0) =>
              keys'[handler[h].credential].lastUsed # Never
        BY <1>1, <1>2, <1>6, <2>7 DEF Judged, Credited, Kept
      <4> QED BY <3>1, <4>1, <4>2 DEF Judged
    <3> QED BY <3>2, <3>3, <3>4 DEF RequestOK
  <2>12. \A g \in Handlers : RequestOK(handler[g])'
    BY <2>5, <2>6, <2>8, <2>11, Survives
  <2> QED BY <2>6, <2>8, <2>9, <2>10, <2>12 DEF IInv
<1> QED BY <1>3, <1>4, <1>5, <1>6 DEF Revoke

LEMMA AnswerRevokeStep ==
  ASSUME IInv, NEW h \in Handlers, AnswerRevoke(h) PROVE IInv' /\ Grows
<1>1. handler[h].step = "revoked" /\ Goto(h, "done")
  BY DEF AnswerRevoke
<1>2. /\ TypeOK /\ handler[h] \in Request /\ Credited(handler[h])
      /\ Changed(handler[h]) /\ Judged(handler[h]) /\ AnswersAreTrue
  BY <1>1, AtWork DEF IInv
<1>3. /\ handler' \in [Handlers -> Request \cup {NoRequest}]
      /\ \A g \in Handlers \ {h} : handler'[g] = handler[g]
      /\ handler'[h] = [handler[h] EXCEPT !.step = "done"]
  BY <1>1, <1>2, GotoEffect DEF Steps
<1>4. /\ handler[h].target \in Keys /\ keys[handler[h].target] # NoRow
      /\ ~keys[handler[h].target].active
  BY <1>1, <1>2 DEF Changed
<1>5. TypeOK'
  BY <1>2, <1>3, <1>4 DEF TypeOK, AnswerRevoke
<1>6. Grows
  BY <1>2, Numbers DEF Grows, Kept, AnswerRevoke
<1>7. \A j \in Keys : RowOK(j)'
  BY RowStays DEF AnswerRevoke
<1>8. AnswersAreTrue'
  BY <1>2, <1>4 DEF AnswersAreTrue, AnswerRevoke
<1>9. RequestOK(handler[h])'
  <2>1. /\ handler'[h].step = "done"
        /\ handler'[h].credential = handler[h].credential
        /\ handler'[h].op = handler[h].op /\ handler'[h].target = handler[h].target
        /\ handler'[h].late = handler[h].late
    BY <1>2, <1>3 DEF Request
  <2>2. Credited(handler[h])' /\ Checked(handler[h])' /\ Changed(handler[h])'
    BY <1>2, <2>1 DEF Credited, Checked, Changed, AnswerRevoke
  <2>3. Judged(handler[h])'
    BY <1>1, <1>2, <2>1 DEF Judged
  <2> QED BY <2>2, <2>3 DEF RequestOK
<1>10. \A g \in Handlers : RequestOK(handler[g])'
  BY <1>3, <1>5, <1>6, <1>9, Survives
<1> QED BY <1>5, <1>6, <1>7, <1>8, <1>10 DEF IInv

LEMMA EndStep ==
  ASSUME IInv, NEW h \in Handlers, End(h) PROVE IInv' /\ Grows
<1>1. /\ handler' \in [Handlers -> Request \cup {NoRequest}]
      /\ \A g \in Handlers \ {h} : handler'[g] = handler[g]
      /\ handler'[h] = NoRequest
  BY DEF End, IInv, TypeOK
<1>2. RequestOK(handler[h])'
  BY <1>1 DEF RequestOK
<1> QED BY <1>1, <1>2, OnlyRequest, NoFault DEF End, IInv

----------------------------------------------------------------------------
(* The theorems.                                                           *)

LEMMA InitHolds == Init => IInv
<1> SUFFICES ASSUME Init PROVE IInv
  OBVIOUS
<1>1. TypeOK
  BY AccessAssumption DEF Init, TypeOK
<1>2. AnswersAreTrue /\ \A k \in Keys : RowOK(k)
  BY DEF Init, AnswersAreTrue, RowOK
<1>3. \A h \in Handlers : RequestOK(handler[h])
  BY DEF Init, RequestOK
<1> QED BY <1>1, <1>2, <1>3 DEF IInv

LEMMA NextHolds == ASSUME IInv, [Next]_vars PROVE IInv' /\ Grows
<1>1. CASE \E t \in Tokens : Login(t)
  BY <1>1, LoginStep
<1>2. ASSUME NEW h \in Handlers, Middleware(h) PROVE IInv' /\ Grows
  BY <1>2, CheckTokenStep, KeyAsTokenStep, LookupStep, CheckExpiryStep, TouchStep
  DEF Middleware
<1>3. ASSUME NEW h \in Handlers, Serve(h) PROVE IInv' /\ Grows
  BY <1>3, WorkStep, SaveKeyStep, AnswerKeyStep, RevokeStep, AnswerRevokeStep
  DEF Serve
<1>4. ASSUME NEW h \in Handlers, Arrive(h) \/ End(h) PROVE IInv' /\ Grows
  BY <1>4, ArriveStep, EndStep
<1>5. CASE Tick \/ Crash
  BY <1>5, TickStep, CrashStep
<1>6. CASE UNCHANGED vars
  <2> USE <1>6 DEF vars, clients
  <2>1. TypeOK'
    BY DEF IInv, TypeOK
  <2>2. Grows
    BY Numbers DEF IInv, Grows, Kept
  <2>3. AnswersAreTrue' /\ \A k \in Keys : RowOK(k)'
    BY RowStays DEF IInv, AnswersAreTrue
  <2>4. \A h \in Handlers : RequestOK(handler[h])'
    BY <2>1, <2>2, Survives
  <2> QED BY <2>1, <2>2, <2>3, <2>4 DEF IInv
<1> QED BY <1>1, <1>2, <1>3, <1>4, <1>5, <1>6 DEF Next

\* What requests, rows and answers say of each other is inductive (db.go:101-121,
\* apikeys.go:28-72, main.go:461-506).
THEOREM AccessInvariant == Spec => []IInv
<1>1. IInv /\ [Next]_vars => IInv'
  BY NextHolds
<1> QED BY <1>1, InitHolds, PTL DEF Spec

\* Every reachable state of keys, tokens and requests is well typed: a copy
\* that is looked at is a row, and so is what is saved (apikeys.go:49-64).
THEOREM TypeCorrect == Spec => []TypeOK
<1>1. IInv => TypeOK
  BY DEF IInv
<1> QED BY <1>1, AccessInvariant, PTL

\* No request that arrives after its key was revoked is let through, for any
\* number of requests, keys and faults (apikeys.go:51-64, 70-72).
THEOREM RevokedOut == Spec => []RevokedStaysOut
<1>1. IInv => RevokedStaysOut
  <2> SUFFICES ASSUME IInv, NEW h \in Handlers, Admitted(h)
               PROVE  ~handler[h].late
    BY DEF RevokedStaysOut
  <2>1. handler[h].step \in {"touch", "serve", "created", "revoked"}
    BY DEF Admitted
  <2> QED BY <2>1, AtWork DEF Judged
<1> QED BY <1>1, AccessInvariant, PTL

\* A key is refused for one of three causes only (apikeys.go:40-43, 55-60).
THEOREM Causes == Spec => []RefusedForCause
<1>1. IInv => RefusedForCause
  <2> SUFFICES ASSUME IInv, NEW h \in Handlers, handler[h].step = "refused",
                      handler[h].credential \in Keys
               PROVE  Cause(handler[h].credential)
    BY DEF RefusedForCause, Cause
  <2> QED BY AtWork DEF Judged
<1> QED BY <1>1, AccessInvariant, PTL

\* last_used_at is a time at which a request passed (apikeys.go:62).
THEOREM UsesAreReal == Spec => []LastUsedIsReal
<1>1. IInv => LastUsedIsReal
  <2> SUFFICES ASSUME IInv, NEW k \in Keys
               PROVE  /\ (keys[k] # NoRow /\ keys[k].lastUsed # Never)
                            => keys[k].lastUsed \in passed[k]
                      /\ \A h \in Handlers :
                           (handler[h] # NoRequest
                              /\ handler[h].step \in {"serve", "created", "revoked"}
                              /\ handler[h].credential = k /\ faults = 0)
                             => keys[k].lastUsed # Never
    BY DEF LastUsedIsReal
  <2>1. RowOK(k)
    BY DEF IInv
  <2>2. ASSUME NEW h \in Handlers, handler[h].credential = k, faults = 0,
               handler[h].step \in {"serve", "created", "revoked"}
        PROVE  keys[k].lastUsed # Never
    BY <2>2, AtWork DEF Judged
  <2> QED BY <2>1, <2>2 DEF RowOK
<1> QED BY <1>1, AccessInvariant, PTL

\* What a client was told of a key stays true, crashes included
\* (main.go:469-481, 502-503).
THEOREM Answers == Spec => []AnswersAreTrue
<1>1. IInv => AnswersAreTrue
  BY DEF IInv
<1> QED BY <1>1, AccessInvariant, PTL

\* No step of any request makes a revoked key active again (db.go:115-121).
THEOREM Sticks == Spec => RevocationSticks
<1>1. IInv /\ [Next]_vars =>
        [\A k \in Keys : (keys[k] # NoRow /\ ~keys[k].active) => ~keys'[k].active]_vars
  BY NextHolds DEF Grows, Kept
<1> QED BY <1>1, AccessInvariant, PTL DEF Spec, RevocationSticks

----------------------------------------------------------------------------
(* Keys behave as KeyLifecycle says.                                       *)

KeyMap ==
  /\ \A k \in Keys :
       /\ keys[k] = NoRow => keyState[k] = "unmade"
       /\ keys[k] # NoRow /\ keys[k].active => keyState[k] = "active"
       /\ keys[k] # NoRow /\ ~keys[k].active => keyState[k] = "revoked"
  /\ keyState = [k \in Keys |-> keyState[k]]

\* A row counts only by its being there and by its flag.
Alike(k) == (keys'[k] = NoRow <=> keys[k] = NoRow) /\ (keys[k] # NoRow => keys'[k].active = keys[k].active)

SessionMap ==
  /\ \A h \in Handlers :
       /\ handler[h] # NoRequest /\ handler[h].credential \in Keys =>
            keySession[h] = [phase |-> Phase(handler[h].step), key |-> handler[h].credential]
       /\ ~(handler[h] # NoRequest /\ handler[h].credential \in Keys) =>
            keySession[h] = [phase |-> "idle"]
  /\ keySession = [h \in Handlers |-> keySession[h]]

LEMMA KeyMapHolds == KeyMap /\ KeyMap'
  BY DEF KeyMap, keyState

LEMMA SessionMapHolds == SessionMap /\ SessionMap'
  BY DEF SessionMap, keySession

LEMMA Phases ==
  /\ Phase("check") = "asking"
  /\ \A s \in {"expiry", "touch", "serve", "created", "revoked"} : Phase(s) = "cleared"
  /\ \A s \in {"refused", "done"} : Phase(s) = "over"
  /\ \A s \in Steps : Phase(s) # "idle"
  BY DEF Phase, Steps

LEMMA SameKeys ==
  ASSUME \A k \in Keys : Alike(k)
  PROVE  UNCHANGED keyState
<1>1. \A k \in Keys : keyState'[k] = keyState[k]
  BY DEF keyState, Alike
<1> QED BY <1>1, KeyMapHolds DEF KeyMap

LEMMA OneKey ==
  ASSUME NEW k \in Keys, \A j \in Keys \ {k} : keys'[j] = keys[j]
  PROVE  keyState' = [keyState EXCEPT ![k] = keyState'[k]]
<1>1. \A j \in Keys \ {k} : keyState'[j] = keyState[j]
  BY DEF keyState
<1> QED BY <1>1, KeyMapHolds DEF KeyMap

\* A request that moves on takes its session along, if it has one.
LEMMA SessionMoves ==
  ASSUME NEW h \in Handlers,
         handler[h] \in Request, handler'[h] \in Request,
         handler'[h].credential = handler[h].credential,
         \A g \in Handlers \ {h} : handler'[g] = handler[g]
  PROVE  /\ \/ handler[h].credential \notin Keys
            \/ Phase(handler'[h].step) = Phase(handler[h].step)
            => UNCHANGED keySession
         /\ handler[h].credential \in Keys =>
              /\ KeyLife!Goes(h, Phase(handler[h].step), Phase(handler'[h].step))
              /\ keySession[h].key = handler[h].credential
<1> DEFINE from == Phase(handler[h].step)
           to == Phase(handler'[h].step)
<1>1. handler[h] # NoRequest /\ handler'[h] # NoRequest /\ handler[h].step \in Steps
  BY NotIdle
<1>2. \A g \in Handlers \ {h} : keySession'[g] = keySession[g]
  BY DEF keySession
<1>3. CASE handler[h].credential \notin Keys
  <2>1. keySession'[h] = keySession[h]
    BY <1>1, <1>3, SessionMapHolds DEF SessionMap
  <2> QED BY <1>2, <1>3, <2>1, SessionMapHolds DEF SessionMap
<1>4. CASE handler[h].credential \in Keys
  <2>1. /\ keySession[h] = [phase |-> from, key |-> handler[h].credential]
        /\ keySession'[h] = [phase |-> to, key |-> handler[h].credential]
    BY <1>1, <1>4, SessionMapHolds DEF SessionMap
  <2>2. to = from => UNCHANGED keySession
    BY <1>2, <2>1, SessionMapHolds DEF SessionMap
  <2>3. keySession'[h] = [keySession[h] EXCEPT !.phase = to]
    BY <2>1
  <2>4. keySession' = [keySession EXCEPT ![h].phase = to]
    BY <1>2, <2>3, SessionMapHolds DEF SessionMap
  <2>5. keySession[h] # [phase |-> "idle"]
    BY <1>1, <2>1, Phases
  <2> QED BY <1>4, <2>1, <2>2, <2>4, <2>5 DEF KeyLife!Goes, KeyLife!NoSession
<1> QED BY <1>3, <1>4

\* What is turned away or through ends its session, if it has one.
LEMMA EndsRefine ==
  ASSUME TypeOK, NEW h \in Handlers, handler[h].step \in Steps,
         NEW s \in {"refused", "done"}, Goto(h, s),
         handler[h].step \notin {"refused", "done"}, UNCHANGED <<keys, clients>>
  PROVE  [KeyLife!Next]_(KeyLife!vars)
<1>1. handler[h] \in Request
  BY Busy DEF Steps
<1>2. /\ \A g \in Handlers \ {h} : handler'[g] = handler[g]
      /\ handler'[h] = [handler[h] EXCEPT !.step = s]
  BY GotoEffect DEF Steps
<1>3. /\ handler'[h] \in Request /\ handler'[h].step = s
      /\ handler'[h].credential = handler[h].credential
  BY <1>1, <1>2 DEF Request
<1>4. Phase(handler'[h].step) = "over" /\ Phase(handler[h].step) \in {"asking", "cleared"}
  BY <1>3, Phases DEF Steps
<1>5. UNCHANGED <<keyState, handed, closed>>
  BY SameKeys DEF clients, Alike
<1>6. CASE handler[h].credential \notin Keys
  BY <1>1, <1>2, <1>3, <1>5, <1>6, SessionMoves DEF KeyLife!vars
<1>7. CASE handler[h].credential \in Keys
  <2>1. KeyLife!End(h)
    BY <1>1, <1>2, <1>3, <1>4, <1>5, <1>7, SessionMoves DEF KeyLife!End
  <2> QED BY <2>1 DEF KeyLife!Next
<1> QED BY <1>6, <1>7

\* A step within the middleware or a handler, for the keys alone.
LEMMA WithinRefines ==
  ASSUME TypeOK, NEW h \in Handlers, handler[h] \in Request, handler'[h] \in Request,
         handler'[h].credential = handler[h].credential,
         \A g \in Handlers \ {h} : handler'[g] = handler[g],
         {handler[h].step, handler'[h].step} \subseteq
           {"expiry", "touch", "serve", "created", "revoked"}
  PROVE  UNCHANGED keySession
<1>1. Phase(handler'[h].step) = "cleared" /\ Phase(handler[h].step) = "cleared"
  BY Phases
<1> QED BY <1>1, SessionMoves

LEMMA AnswerRefines ==
  ASSUME TypeOK, NEW h \in Handlers, handler[h].step \in {"created", "revoked"}, Goto(h, "done")
  PROVE  KeyLife!Answered
<1>1. handler[h] \in Request
  BY Busy
<1>2. /\ \A g \in Handlers \ {h} : handler'[g] = handler[g]
      /\ handler'[h] = [handler[h] EXCEPT !.step = "done"]
  BY GotoEffect DEF Steps
<1>3. /\ handler'[h] \in Request /\ handler'[h].step = "done"
      /\ handler'[h].credential = handler[h].credential
  BY <1>1, <1>2 DEF Request
<1>4. Phase(handler'[h].step) = "over" /\ Phase(handler[h].step) = "cleared"
  BY <1>3, Phases
<1> QED BY <1>1, <1>2, <1>3, <1>4, SessionMoves DEF KeyLife!Answered

LEMMA QuietRefines ==
  ASSUME UNCHANGED <<keys, handler, clients>> PROVE UNCHANGED KeyLife!vars
<1>1. UNCHANGED keyState
  BY SameKeys DEF Alike
<1>2. UNCHANGED keySession
  BY SessionMapHolds DEF SessionMap, keySession
<1> QED BY <1>1, <1>2 DEF clients, KeyLife!vars

LEMMA CrashRefines ==
  ASSUME Crash PROVE KeyLife!Next
<1>1. \A h \in Handlers : keySession'[h] = [phase |-> "idle"]
  BY DEF Crash, keySession
<1>2. keySession' = [h \in Handlers |-> [phase |-> "idle"]]
  BY <1>1, SessionMapHolds DEF SessionMap
<1>3. UNCHANGED <<keyState, handed, closed>>
  BY SameKeys DEF Crash, clients, Alike
<1>4. KeyLife!Crash
  BY <1>2, <1>3 DEF KeyLife!Crash, KeyLife!NoSession
<1> QED BY <1>4 DEF KeyLife!Next

LEMMA ArriveRefines ==
  ASSUME IInv, NEW h \in Handlers, Arrive(h)
  PROVE  [KeyLife!Next]_(KeyLife!vars)
<1>1. UNCHANGED <<keyState, handed, closed>>
  BY SameKeys DEF Arrive, clients, Alike
<1>2. keySession[h] = [phase |-> "idle"]
  BY SessionMapHolds DEF Arrive, SessionMap
<1>3. PICK credential \in handed \cup {t \in Tokens : tokens[t] # NoRow},
           op \in Ops, target \in Keys \cup {NoRow} :
        handler' = [handler EXCEPT ![h] =
          [step |-> "check", op |-> op, credential |-> credential, target |-> target,
           copy |-> NoRow, at |-> 0, late |-> credential \in closed]]
  BY DEF Arrive
<1>4. /\ handler'[h].step = "check" /\ handler'[h].credential = credential
      /\ handler'[h] # NoRequest
      /\ \A g \in Handlers \ {h} : handler'[g] = handler[g]
  <2>1. handler'[h] = [step |-> "check", op |-> op, credential |-> credential,
                       target |-> target, copy |-> NoRow, at |-> 0,
                       late |-> credential \in closed]
    BY <1>3 DEF IInv, TypeOK
  <2>2. handler'[h].step = "check"
    BY <2>1
  <2> QED BY <1>3, <2>1, <2>2 DEF IInv, TypeOK, NoRequest
<1>5. \A g \in Handlers \ {h} : keySession'[g] = keySession[g]
  BY <1>4 DEF keySession
<1>6. CASE credential \notin Keys
  <2>1. keySession'[h] = [phase |-> "idle"]
    BY <1>4, <1>6, SessionMapHolds DEF SessionMap
  <2>2. UNCHANGED keySession
    BY <1>2, <1>5, <2>1, SessionMapHolds DEF SessionMap
  <2> QED BY <1>1, <2>2 DEF KeyLife!vars
<1>7. CASE credential \in Keys
  <2>1. credential \in handed
    BY <1>7, AccessAssumption
  <2>2. keySession'[h] = [phase |-> "asking", key |-> credential]
    BY <1>4, <1>7, SessionMapHolds, Phases DEF SessionMap
  <2>3. keySession' = [keySession EXCEPT ![h] = [phase |-> "asking", key |-> credential]]
    BY <1>5, <2>2, SessionMapHolds DEF SessionMap
  <2>4. KeyLife!Ask(h)
    BY <1>1, <1>2, <2>1, <2>3 DEF KeyLife!Ask, KeyLife!NoSession
  <2> QED BY <2>4 DEF KeyLife!Next
<1> QED BY <1>6, <1>7

LEMMA EndRefines ==
  ASSUME IInv, NEW h \in Handlers, End(h)
  PROVE  [KeyLife!Next]_(KeyLife!vars)
<1>1. UNCHANGED <<keyState, handed, closed>>
  BY SameKeys DEF End, clients, Alike
<1>2. /\ handler[h].step \in {"refused", "done"} /\ handler'[h] = NoRequest
      /\ \A g \in Handlers \ {h} : handler'[g] = handler[g]
  BY DEF End, IInv, TypeOK
<1>3. handler[h] # NoRequest
  BY <1>2, Busy DEF IInv
<1>4. /\ \A g \in Handlers \ {h} : keySession'[g] = keySession[g]
      /\ keySession'[h] = [phase |-> "idle"]
  BY <1>2, SessionMapHolds DEF keySession, SessionMap
<1>5. CASE handler[h].credential \notin Keys
  <2>1. UNCHANGED keySession
    BY <1>3, <1>4, <1>5, SessionMapHolds DEF SessionMap
  <2> QED BY <1>1, <2>1 DEF KeyLife!vars
<1>6. CASE handler[h].credential \in Keys
  <2>1. keySession[h] = [phase |-> "over", key |-> handler[h].credential]
    BY <1>2, <1>3, <1>6, SessionMapHolds, Phases DEF SessionMap
  <2>2. keySession[h].phase = "over" /\ keySession[h] # [phase |-> "idle"]
    BY <2>1
  <2>3. keySession' = [keySession EXCEPT ![h] = [phase |-> "idle"]]
    BY <1>4, SessionMapHolds DEF SessionMap
  <2>4. KeyLife!Forget(h)
    BY <1>1, <2>2, <2>3 DEF KeyLife!Forget, KeyLife!NoSession
  <2> QED BY <2>4 DEF KeyLife!Next
<1> QED BY <1>5, <1>6

LEMMA LookupRefines ==
  ASSUME IInv, NEW h \in Handlers, Lookup(h)
  PROVE  [KeyLife!Next]_(KeyLife!vars)
<1> DEFINE k == handler[h].credential
           row == keys[k]
<1>1. handler[h].step = "check" /\ k \in Keys /\ handler[h] \in Request /\ TypeOK
  BY Busy DEF Lookup, IInv
<1>2. CASE Goto(h, "refused")
  <2>1. UNCHANGED <<keys, clients>>
    BY DEF Lookup
  <2> QED BY <1>1, <1>2, <2>1, EndsRefine DEF Steps
<1>3. CASE Found(row) /\ handler' = [handler EXCEPT ![h].step = "expiry", ![h].copy = row]
  <2>1. /\ \A g \in Handlers \ {h} : handler'[g] = handler[g]
        /\ handler'[h] = [handler[h] EXCEPT !.step = "expiry", !.copy = row]
    BY <1>1, <1>3 DEF TypeOK
  <2>2. handler' \in [Handlers -> Request \cup {NoRequest}]
    BY NextHolds, <1>1 DEF IInv, TypeOK, Next, Middleware
  <2>3. handler'[h].step = "expiry" /\ handler'[h].credential = k
    BY <1>1, <2>1 DEF Request
  <2>4. handler'[h] \in Request
    BY <2>2, <2>3 DEF NoRequest
  <2>5. Phase(handler[h].step) = "asking" /\ Phase(handler'[h].step) = "cleared"
    BY <1>1, <2>3, Phases
  <2>6. keyState[k] = "active"
    BY <1>1, <1>3, KeyMapHolds DEF KeyMap, Found
  <2>7. UNCHANGED <<keyState, handed, closed>>
    BY SameKeys DEF Lookup, clients, Alike
  <2>8. KeyLife!Goes(h, "asking", "cleared") /\ keySession[h].key = k
    BY <1>1, <2>1, <2>3, <2>4, <2>5, SessionMoves
  <2>9. KeyLife!Clear(h)
    BY <2>6, <2>7, <2>8 DEF KeyLife!Clear
  <2> QED BY <2>9 DEF KeyLife!Next
<1> QED BY <1>2, <1>3 DEF Lookup

LEMMA StaysRefines ==
  ASSUME IInv, IInv', NEW h \in Handlers, CheckExpiry(h) \/ Touch(h) \/ CheckToken(h)
  PROVE  [KeyLife!Next]_(KeyLife!vars)
<1>1. TypeOK /\ TypeOK' /\ handler[h].step # "idle" /\ handler[h] \in Request
  BY Busy DEF IInv, CheckExpiry, Touch, CheckToken
<1>2. CASE CheckToken(h)
  <2>1. /\ handler[h].credential \notin Keys
        /\ \A g \in Handlers \ {h} : handler'[g] = handler[g]
        /\ handler'[h].credential = handler[h].credential
        /\ handler'[h].step \in {"serve", "refused"}
    BY <1>1, <1>2, AccessAssumption DEF CheckToken, TypeOK, Request
  <2>2. handler'[h] \in Request
    BY <1>1, <2>1 DEF TypeOK, NoRequest
  <2>3. UNCHANGED keySession
    BY <1>1, <2>1, <2>2, SessionMoves
  <2>4. UNCHANGED <<keyState, handed, closed>>
    BY <1>2, SameKeys DEF CheckToken, clients, Alike
  <2> QED BY <2>3, <2>4 DEF KeyLife!vars
<1>3. CASE CheckExpiry(h)
  <2>1. CASE Goto(h, "refused")
    BY <1>1, <1>3, <2>1, EndsRefine DEF CheckExpiry, Steps
  <2>2. CASE handler' = [handler EXCEPT ![h].step = "touch", ![h].at = now]
    <3>1. /\ \A g \in Handlers \ {h} : handler'[g] = handler[g]
          /\ handler'[h].credential = handler[h].credential
          /\ handler'[h].step = "touch"
      BY <1>1, <2>2 DEF TypeOK, Request
    <3>2. handler'[h] \in Request /\ handler[h].step = "expiry"
      BY <1>1, <1>3, <3>1 DEF TypeOK, NoRequest, CheckExpiry
    <3>3. UNCHANGED keySession
      BY <1>1, <3>1, <3>2, WithinRefines
    <3>4. UNCHANGED <<keyState, handed, closed>>
      BY <1>3, SameKeys DEF CheckExpiry, clients, Alike
    <3> QED BY <3>3, <3>4 DEF KeyLife!vars
  <2> QED BY <1>3, <2>1, <2>2 DEF CheckExpiry
<1>4. CASE Touch(h)
  <2>1. /\ \A g \in Handlers \ {h} : handler'[g] = handler[g]
        /\ handler'[h] = [handler[h] EXCEPT !.step = "serve"]
    BY <1>1, <1>4, GotoEffect DEF Touch, Steps
  <2>2. /\ handler'[h].credential = handler[h].credential
        /\ handler'[h].step = "serve" /\ handler'[h] \in Request /\ handler[h].step = "touch"
    BY <1>1, <1>4, <2>1 DEF Request, Touch
  <2>3. UNCHANGED keySession
    BY <1>1, <2>1, <2>2, WithinRefines
  <2>4. \A k \in Keys : Alike(k)
    <3> DEFINE c == handler[h].credential
    <3>1. c \in Keys /\ keys[c] # NoRow /\ keys[c] \in Row
      BY <1>1, <2>2, AtWork DEF Checked, Credited, TypeOK
    <3>2. Touched(h) \in Row /\ Touched(h).active = keys[c].active
      <4>1. handler[h].at \in Int
        BY <1>1 DEF Request
      <4> QED BY <3>1, <4>1 DEF Touched, Row
    <3>3. Touched(h) # NoRow
      BY <3>2, NoRowIsNoRow
    <3> QED BY <1>1, <1>4, <3>1, <3>2, <3>3 DEF Touch, Alike, TypeOK
  <2>5. UNCHANGED keyState
    BY <2>4, SameKeys
  <2> QED BY <1>4, <2>3, <2>5 DEF Touch, clients, KeyLife!vars
<1> QED BY <1>2, <1>3, <1>4

LEMMA SaveRefines ==
  ASSUME IInv, IInv', NEW h \in Handlers, SaveKey(h)
  PROVE  [KeyLife!Next]_(KeyLife!vars)
<1>1. TypeOK /\ TypeOK' /\ handler[h].step = "serve" /\ handler[h] \in Request
  BY Busy DEF IInv, SaveKey
<1>2. CASE Fault /\ Goto(h, "done") /\ UNCHANGED <<keys, asked>>
  <2>1. UNCHANGED <<keys, clients>>
    BY <1>2 DEF SaveKey
  <2> QED BY <1>1, <1>2, <2>1, EndsRefine DEF Steps
<1>3. ASSUME NEW k \in Keys, NEW role \in Roles, NEW days \in Lifetimes,
             keys[k] = NoRow, keys' = [keys EXCEPT ![k] = NewRow(role, Expiry(days))],
             handler' = [handler EXCEPT ![h].step = "created", ![h].target = k]
      PROVE  KeyLife!Next
  <2>1. /\ \A g \in Handlers \ {h} : handler'[g] = handler[g]
        /\ handler'[h].credential = handler[h].credential
        /\ handler'[h].step = "created"
    BY <1>1, <1>3 DEF TypeOK, Request
  <2>2. handler'[h] \in Request
    BY <1>1, <2>1 DEF TypeOK, NoRequest
  <2>3. UNCHANGED keySession
    BY <1>1, <2>1, <2>2, WithinRefines
  <2>4. /\ keys'[k] = NewRow(role, Expiry(days))
        /\ \A j \in Keys \ {k} : keys'[j] = keys[j]
    BY <1>1, <1>3 DEF TypeOK
  <2>5. keys'[k] # NoRow /\ keys'[k].active
    BY <1>1, <2>4, ExpiryType, FreshRow DEF NewRow
  <2>6. keyState[k] = "unmade" /\ keyState'[k] = "active"
    BY <1>3, <2>5, KeyMapHolds DEF KeyMap
  <2>7. KeyLife!Make(k)
    BY <2>3, <2>4, <2>6, OneKey DEF SaveKey, clients, KeyLife!Make, KeyLife!Becomes
  <2> QED BY <2>7 DEF KeyLife!Next
<1> QED BY <1>2, <1>3 DEF SaveKey

LEMMA RevokeRefines ==
  ASSUME IInv, IInv', NEW h \in Handlers, Revoke(h)
  PROVE  [KeyLife!Next]_(KeyLife!vars)
<1> DEFINE k == handler[h].target
<1>1. /\ TypeOK /\ TypeOK' /\ handler[h].step = "serve" /\ handler[h] \in Request
      /\ k \in Keys
  BY AtWork DEF Revoke, Credited, IInv
<1>2. CASE Goto(h, "done") /\ UNCHANGED keys
  <2>1. UNCHANGED <<keys, clients>>
    BY <1>2 DEF Revoke
  <2> QED BY <1>1, <1>2, <2>1, EndsRefine DEF Steps
<1>3. CASE Goto(h, "revoked") /\ keys[k] # NoRow
           /\ keys' = [keys EXCEPT ![k] = Deactivated(keys[k])]
  <2>1. /\ \A g \in Handlers \ {h} : handler'[g] = handler[g]
        /\ handler'[h] = [handler[h] EXCEPT !.step = "revoked"]
    BY <1>1, <1>3, GotoEffect DEF Steps
  <2>2. /\ handler'[h].credential = handler[h].credential
        /\ handler'[h].step = "revoked" /\ handler'[h] \in Request
    BY <1>1, <2>1 DEF Request
  <2>3. UNCHANGED keySession
    BY <1>1, <2>1, <2>2, WithinRefines
  <2>4. /\ keys'[k] = Deactivated(keys[k])
        /\ \A j \in Keys \ {k} : keys'[j] = keys[j]
    BY <1>1, <1>3 DEF TypeOK
  <2>5. keys[k] \in Row
    BY <1>1, <1>3 DEF TypeOK
  <2>6. Deactivated(keys[k]) \in Row /\ ~Deactivated(keys[k]).active
    BY <2>5 DEF Deactivated, Row
  <2>7. keyState'[k] = "revoked"
    BY <1>1, <2>4, <2>6, KeyMapHolds, NoRowIsNoRow DEF KeyMap
  <2>8. keyState[k] \in {"active", "revoked"}
    BY <1>1, <1>3, <2>5, KeyMapHolds DEF KeyMap, Row
  <2>9. keyState' = [keyState EXCEPT ![k] = "revoked"]
    BY <1>1, <2>4, <2>7, OneKey
  <2>10. CASE keyState[k] = "active"
    <3>1. KeyLife!Revoke(k)
      BY <2>3, <2>9, <2>10 DEF Revoke, clients, KeyLife!Revoke, KeyLife!Becomes
    <3> QED BY <1>1, <3>1 DEF KeyLife!Next
  <2>11. CASE keyState[k] = "revoked"
    <3>1. UNCHANGED keyState
      BY <2>9, <2>11, KeyMapHolds DEF KeyMap
    <3> QED BY <2>3, <3>1 DEF Revoke, clients, KeyLife!vars
  <2> QED BY <2>8, <2>10, <2>11
<1> QED BY <1>2, <1>3 DEF Revoke

LEMMA AnswersRefine ==
  ASSUME IInv, NEW h \in Handlers, AnswerKey(h) \/ AnswerRevoke(h)
  PROVE  KeyLife!Next
<1> DEFINE k == handler[h].target
<1>1. TypeOK /\ handler[h] \in Request /\ Changed(handler[h])
  BY AtWork DEF AnswerKey, AnswerRevoke
<1>2. UNCHANGED keyState
  BY SameKeys DEF AnswerKey, AnswerRevoke, Alike
<1>3. CASE AnswerKey(h)
  <2>1. k \in Keys /\ keys[k] # NoRow /\ KeyLife!Answered
    BY <1>1, <1>3, AnswerRefines DEF AnswerKey, Changed
  <2>2. keyState[k] # "unmade"
    BY <1>1, <2>1, KeyMapHolds DEF KeyMap, TypeOK, Row
  <2>3. KeyLife!Show(k)
    BY <1>2, <1>3, <2>1, <2>2 DEF AnswerKey, KeyLife!Show
  <2> QED BY <2>1, <2>3 DEF KeyLife!Next
<1>4. CASE AnswerRevoke(h)
  <2>1. k \in Keys /\ keys[k] # NoRow /\ ~keys[k].active /\ KeyLife!Answered
    BY <1>1, <1>4, AnswerRefines DEF AnswerRevoke, Changed
  <2>2. keyState[k] = "revoked"
    BY <2>1, KeyMapHolds DEF KeyMap
  <2>3. KeyLife!Confirm(k)
    BY <1>2, <1>4, <2>1, <2>2 DEF AnswerRevoke, KeyLife!Confirm
  <2> QED BY <2>1, <2>3 DEF KeyLife!Next
<1> QED BY <1>3, <1>4

LEMMA StepRefines ==
  ASSUME IInv, IInv', [Next]_vars
  PROVE  [KeyLife!Next]_(KeyLife!vars)
<1>1. ASSUME NEW h \in Handlers, KeyAsToken(h) \/ Work(h) \/ Forbidden(h)
      PROVE  [KeyLife!Next]_(KeyLife!vars)
  BY <1>1, EndsRefine DEF IInv, KeyAsToken, Work, Forbidden, Steps
<1>2. CASE (\E t \in Tokens : Login(t)) \/ Tick \/ UNCHANGED vars
  BY <1>2, QuietRefines DEF Login, Tick, vars
<1>3. ASSUME NEW h \in Handlers, Middleware(h) PROVE [KeyLife!Next]_(KeyLife!vars)
  BY <1>1, <1>3, StaysRefines, LookupRefines DEF Middleware
<1>4. ASSUME NEW h \in Handlers, Serve(h) PROVE [KeyLife!Next]_(KeyLife!vars)
  BY <1>1, <1>4, SaveRefines, AnswersRefine, RevokeRefines DEF Serve
<1> QED
  BY <1>2, <1>3, <1>4, ArriveRefines, EndRefines, CrashRefines DEF Next

\* Keys behave as KeyLifecycle says, for any number of requests, keys and faults:
\* although a lookup, the look at the clock and the update of last_used_at are
\* steps of their own, a request is let on at one moment, the lookup, at which
\* its key is active (apikeys.go:49-72, main.go:461-506).
THEOREM KeysRefine == Spec => ImplementsKeys
<1>1. Init => KeyLife!Init
  <2> SUFFICES ASSUME Init PROVE KeyLife!Init
    OBVIOUS
  <2>1. \A k \in Keys : keyState[k] = "unmade"
    BY KeyMapHolds DEF Init, KeyMap
  <2>2. \A h \in Handlers : keySession[h] = [phase |-> "idle"]
    BY SessionMapHolds DEF Init, SessionMap
  <2> QED
    BY <2>1, <2>2, KeyMapHolds, SessionMapHolds
    DEF Init, KeyMap, SessionMap, KeyLife!Init, KeyLife!NoSession
<1>2. IInv /\ IInv' /\ [Next]_vars => [KeyLife!Next]_(KeyLife!vars)
  BY StepRefines
<1> QED
  BY <1>1, <1>2, AccessInvariant, PTL DEF Spec, ImplementsKeys, KeyLife!Spec

=============================================================================
