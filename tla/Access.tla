------------------------------- MODULE Access -------------------------------
(***************************************************************************)
(* internal/apikeys and internal/auth: who may call the HTTP handlers, and *)
(* the handlers that make and revoke API keys.  A request carries a key or *)
(* a login token and is handled by a goroutine of its own, cut here at     *)
(* every statement on the table api_key_records.                           *)
(*                                                                         *)
(* Keys are looked at by CombinedMiddleware only, which main.go does not   *)
(* use: it wraps its routes in the token check alone.  A request of the    *)
(* model may come to a route of either kind; the properties about keys are *)
(* what the package promises to the routes that use it.                    *)
(*                                                                         *)
(* handed, closed, asked, passed and late are history.                     *)
(***************************************************************************)
EXTENDS Integers

CONSTANTS
  Never, NoRow,
  Handlers,
  Keys,          \* a key and its id: random, so each is made once
  Tokens,
  Lifetimes,     \* values of expires_days
  TokenLife,     \* expiryHours
  MaxClock,      \* bound: the clock runs from 0 to MaxClock
  MaxFaults      \* bound: failed statements and crashes

ASSUME AccessAssumption ==
  /\ Lifetimes \subseteq Int /\ TokenLife \in Nat
  /\ MaxClock \in Nat /\ MaxFaults \in Nat
  /\ Never \notin Int
  /\ Keys \cap Tokens = {}

VARIABLES
  now,
  keys,      \* the rows, NoRow before they are saved
  tokens,    \* what the tokens say, NoRow before the login
  handler,   \* per goroutine: its request and how far it is
  handed,    \* keys some client was given
  closed,    \* keys whose revocation was answered
  asked,     \* per key: the expires_days it was made with, and when
  passed,    \* per key: the times at which a request with it passed
  faults     \* failed statements and crashes so far

clients == <<handed, closed>>
vars == <<now, keys, tokens, handler, clients, asked, passed, faults>>

Roles == {"admin", "operator"}
Ops == {"work", "create", "revoke"}
Credentials == Keys \cup Tokens
Row == [role : Roles, active : BOOLEAN, expires : Int \cup {Never},
        lastUsed : Int \cup {Never}]

ASSUME NoRowIsNoRow == NoRow \notin Row

NoRequest == [step |-> "idle"]
Request == [step : {"check", "expiry", "touch", "serve", "created", "revoked",
                    "refused", "done"},
            op : Ops, credential : Credentials, target : Keys \cup {NoRow},
            copy : Row \cup {NoRow}, at : Int, late : BOOLEAN]

----------------------------------------------------------------------------
(* Keys, tokens and the clock.                                             *)

\* Seeded bug: zero days are counted as days.
ExpiryFromZero(days) == IF days >= 0 THEN now + days ELSE Never

\* Generate: no expiry unless a positive number of days was asked for.
Expiry(days) == IF days > 0 THEN now + days ELSE Never

\* Validate: a key lasts to the end of its last instant.
Expired(row) == row.expires # Never /\ now > row.expires

NewRow(role, expires) ==
  [role |-> role, active |-> TRUE, expires |-> expires, lastUsed |-> Never]

\* Login answers a token with the role of the user and the time it ends.
Login(t) ==
  /\ tokens[t] = NoRow
  /\ \E role \in Roles :
       tokens' = [tokens EXCEPT ![t] = NewRow(role, now + TokenLife)]
  /\ UNCHANGED <<now, keys, handler, clients, asked, passed, faults>>

Tick ==
  /\ now < MaxClock
  /\ now' = now + 1
  /\ UNCHANGED <<keys, tokens, handler, clients, asked, passed, faults>>

----------------------------------------------------------------------------
(* The middleware.                                                         *)

Goto(h, step) == handler' = [handler EXCEPT ![h].step = step]

\* A statement fails; what happens next is up to its caller.
Fault == faults < MaxFaults /\ faults' = faults + 1

\* A client sends what it was given: a key or a token.
Arrive(h) ==
  /\ handler[h] = NoRequest
  /\ \E credential \in handed \cup {t \in Tokens : tokens[t] # NoRow},
        op \in Ops, target \in Keys \cup {NoRow} :
       /\ target \in Keys <=> op = "revoke"
       /\ handler' = [handler EXCEPT ![h] =
            [step |-> "check", op |-> op, credential |-> credential,
             target |-> target, copy |-> NoRow, at |-> 0,
             late |-> credential \in closed]]
  /\ UNCHANGED <<now, keys, tokens, clients, asked, passed, faults>>

\* The token check: the signature holds and the token has not ended.
CheckToken(h) ==
  /\ handler[h].step = "check"
  /\ handler[h].credential \in Tokens
  /\ LET token == tokens[handler[h].credential] IN
     handler' = [handler EXCEPT
       ![h].step = IF now < token.expires THEN "serve" ELSE "refused",
       ![h].copy = token]
  /\ UNCHANGED <<now, keys, tokens, clients, asked, passed, faults>>

\* A route under the token check alone, as all are in main.go: a key is no
\* token.
KeyAsToken(h) ==
  /\ handler[h].step = "check"
  /\ handler[h].credential \in Keys
  /\ Goto(h, "done")
  /\ UNCHANGED <<now, keys, tokens, clients, asked, passed, faults>>

\* Seeded bug: inactive rows are found too.
FoundInactive(row) == row # NoRow

Found(row) == row # NoRow /\ row.active

\* A route under CombinedMiddleware: Validate reads the row; what follows
\* works on this copy.
Lookup(h) ==
  /\ handler[h].step = "check"
  /\ handler[h].credential \in Keys
  /\ LET row == keys[handler[h].credential] IN
     \/ /\ Found(row)
        /\ handler' =
             [handler EXCEPT ![h].step = "expiry", ![h].copy = row]
        /\ UNCHANGED faults
     \/ ~Found(row) /\ Goto(h, "refused") /\ UNCHANGED faults
     \/ Fault /\ Goto(h, "refused")
  /\ UNCHANGED <<now, keys, tokens, clients, asked, passed>>

\* Validate looks at the clock here, and again for last_used_at: one reading.
CheckExpiry(h) ==
  /\ handler[h].step = "expiry"
  /\ IF Expired(handler[h].copy)
     THEN /\ Goto(h, "refused")
          /\ UNCHANGED passed
     ELSE /\ handler' =
               [handler EXCEPT ![h].step = "touch", ![h].at = now]
          /\ passed' = [passed EXCEPT ![handler[h].credential] = @ \cup {now}]
  /\ UNCHANGED <<now, keys, tokens, clients, asked, faults>>

\* Seeded bug: the whole copy is saved, not one column.
TouchedCopy(h) == [handler[h].copy EXCEPT !.lastUsed = handler[h].at]

\* Seeded bug: the column is not written.
TouchedNothing(h) == keys[handler[h].credential]

\* The row after the update of one column, whatever the others are by now.
Touched(h) == [keys[handler[h].credential] EXCEPT !.lastUsed = handler[h].at]

\* The update of last_used_at; its error is dropped.
Touch(h) ==
  /\ handler[h].step = "touch"
  /\ \/ /\ keys' = [keys EXCEPT ![handler[h].credential] = Touched(h)]
        /\ UNCHANGED faults
     \/ Fault /\ UNCHANGED keys
  /\ Goto(h, "serve")
  /\ UNCHANGED <<now, tokens, clients, asked, passed>>

----------------------------------------------------------------------------
(* The handlers behind it.                                                 *)

Role(h) == handler[h].copy.role

\* Any handler that leaves the keys alone.
Work(h) ==
  /\ handler[h].step = "serve" /\ handler[h].op = "work"
  /\ Goto(h, "done")
  /\ UNCHANGED <<now, keys, tokens, clients, asked, passed, faults>>

Forbidden(h) ==
  /\ handler[h].step = "serve" /\ handler[h].op # "work"
  /\ Role(h) # "admin"
  /\ Goto(h, "done")
  /\ UNCHANGED <<now, keys, tokens, clients, asked, passed, faults>>

\* Seeded bug: the key is shown although the statement failed.
SaveKeyUnchecked(h) ==
  /\ handler[h].step = "serve" /\ handler[h].op = "create"
  /\ Role(h) = "admin"
  /\ \E k \in Keys, role \in Roles, days \in Lifetimes :
       /\ keys[k] = NoRow
       /\ handler' = [handler EXCEPT ![h].step = "created", ![h].target = k]
       /\ asked' = [asked EXCEPT ![k] = [days |-> days, at |-> now]]
       /\ \/ /\ keys' = [keys EXCEPT ![k] = NewRow(role, Expiry(days))]
             /\ UNCHANGED faults
          \/ Fault /\ UNCHANGED keys
  /\ UNCHANGED <<now, tokens, clients, passed>>

\* handleAPIKeys, POST: the row is saved before the key is shown.
SaveKey(h) ==
  /\ handler[h].step = "serve" /\ handler[h].op = "create"
  /\ Role(h) = "admin"
  /\ \/ \E k \in Keys, role \in Roles, days \in Lifetimes :
          /\ keys[k] = NoRow
          /\ keys' = [keys EXCEPT ![k] = NewRow(role, Expiry(days))]
          /\ asked' = [asked EXCEPT ![k] = [days |-> days, at |-> now]]
          /\ handler' =
               [handler EXCEPT ![h].step = "created", ![h].target = k]
          /\ UNCHANGED faults
     \/ Fault /\ Goto(h, "done") /\ UNCHANGED <<keys, asked>>
  /\ UNCHANGED <<now, tokens, clients, passed>>

\* The only time the key itself is seen.
AnswerKey(h) ==
  /\ handler[h].step = "created"
  /\ handed' = handed \cup {handler[h].target}
  /\ Goto(h, "done")
  /\ UNCHANGED <<now, keys, tokens, closed, asked, passed, faults>>

Deactivated(row) == [row EXCEPT !.active = FALSE]

\* handleRevokeAPIKey: an id without a row is updated nowhere and no error.
Revoke(h) ==
  /\ handler[h].step = "serve" /\ handler[h].op = "revoke"
  /\ Role(h) = "admin"
  /\ LET k == handler[h].target IN
     \/ /\ keys' = IF keys[k] = NoRow THEN keys
                   ELSE [keys EXCEPT ![k] = Deactivated(keys[k])]
        /\ Goto(h, IF keys[k] = NoRow THEN "done" ELSE "revoked")
        /\ UNCHANGED faults
     \/ Fault /\ Goto(h, "done") /\ UNCHANGED keys
  /\ UNCHANGED <<now, tokens, clients, asked, passed>>

AnswerRevoke(h) ==
  /\ handler[h].step = "revoked"
  /\ closed' = closed \cup {handler[h].target}
  /\ Goto(h, "done")
  /\ UNCHANGED <<now, keys, tokens, handed, asked, passed, faults>>

End(h) ==
  /\ handler[h].step \in {"refused", "done"}
  /\ handler' = [handler EXCEPT ![h] = NoRequest]
  /\ UNCHANGED <<now, keys, tokens, clients, asked, passed, faults>>

\* The server dies: the table stays, and so do keys and tokens of clients.
Crash ==
  /\ Fault
  /\ handler' = [h \in Handlers |-> NoRequest]
  /\ UNCHANGED <<now, keys, tokens, clients, asked, passed>>

Init ==
  /\ now = 0
  /\ keys = [k \in Keys |-> NoRow]
  /\ tokens = [t \in Tokens |-> NoRow]
  /\ handler = [h \in Handlers |-> NoRequest]
  /\ handed = {} /\ closed = {}
  /\ asked = [k \in Keys |-> [days |-> 0, at |-> 0]]
  /\ passed = [k \in Keys |-> {}]
  /\ faults = 0

Middleware(h) ==
  CheckToken(h) \/ KeyAsToken(h) \/ Lookup(h) \/ CheckExpiry(h) \/ Touch(h)

Serve(h) ==
  \/ Work(h) \/ Forbidden(h)
  \/ SaveKey(h) \/ AnswerKey(h)
  \/ Revoke(h) \/ AnswerRevoke(h)

Next ==
  \/ \E t \in Tokens : Login(t)
  \/ \E h \in Handlers : Arrive(h) \/ Middleware(h) \/ Serve(h) \/ End(h)
  \/ Tick \/ Crash

Spec == Init /\ [][Next]_vars

----------------------------------------------------------------------------
(* Properties.                                                             *)

TypeOK ==
  /\ now \in 0 .. MaxClock /\ faults \in 0 .. MaxFaults
  /\ keys \in [Keys -> Row \cup {NoRow}]
  /\ tokens \in [Tokens -> Row \cup {NoRow}]
  /\ handler \in [Handlers -> Request \cup {NoRequest}]
  /\ handed \subseteq Keys /\ closed \subseteq Keys
  /\ asked \in [Keys -> [days : Int, at : Int]]
  /\ passed \in [Keys -> SUBSET Int]

Admitted(h) == handler[h].step \in {"touch", "serve", "created", "revoked"}

\* A request that arrives after the revocation of its key was answered is not
\* let through, however lookups, updates of last_used_at and revocations
\* overlap (apikeys.go:51-64, 70-72).
RevokedStaysOut ==
  \A h \in Handlers : Admitted(h) => ~handler[h].late

\* A revoked row is never active again (db.go:115-121: both updates of a row
\* write one column).
RevocationSticks ==
  [][\A k \in Keys : (keys[k] # NoRow /\ ~keys[k].active) => ~keys'[k].active]_vars

\* A key that was given to a client is refused only if it was revoked, if as
\* many days have gone by as were asked for, or if a statement failed
\* (apikeys.go:40-43, 55-60).
RefusedForCause ==
  \A h \in Handlers :
    (handler[h].step = "refused" /\ handler[h].credential \in Keys) =>
      LET k == handler[h].credential IN
      \/ faults > 0
      \/ ~keys[k].active
      \/ asked[k].days > 0 /\ now > asked[k].at + asked[k].days

\* last_used_at is a time at which a request with the key passed, and it is
\* there as soon as one was served, unless a statement failed.  It need not be
\* the latest (apikeys.go:62: the time is read before the update).
LastUsedIsReal ==
  \A k \in Keys :
    /\ (keys[k] # NoRow /\ keys[k].lastUsed # Never) => keys[k].lastUsed \in passed[k]
    /\ \A h \in Handlers :
         (handler[h] # NoRequest /\ handler[h].step \in {"serve", "created", "revoked"}
            /\ handler[h].credential = k /\ faults = 0)
           => keys[k].lastUsed # Never

\* What a client is told is so, and stays so after a crash: a key that was
\* shown has a row, and a key whose revocation was answered is inactive
\* (apikeys.go:45-47, 70-72, main.go:469-481, 502-503).
AnswersAreTrue ==
  /\ \A k \in handed : keys[k] # NoRow
  /\ \A k \in closed : keys[k] # NoRow /\ ~keys[k].active

----------------------------------------------------------------------------
(* The promise of a key, KeyLifecycle, is kept.                            *)

keyState == [k \in Keys |->
  CASE keys[k] = NoRow -> "unmade"
    [] keys[k] # NoRow /\ keys[k].active -> "active"
    [] keys[k] # NoRow /\ ~keys[k].active -> "revoked"]

Phase(step) ==
  CASE step = "check" -> "asking"
    [] step \in {"expiry", "touch", "serve", "created", "revoked"} -> "cleared"
    [] step \in {"refused", "done"} -> "over"

\* A request with a key, and nothing for one with a token.
keySession == [h \in Handlers |->
  IF handler[h] # NoRequest /\ handler[h].credential \in Keys
  THEN [phase |-> Phase(handler[h].step), key |-> handler[h].credential]
  ELSE [phase |-> "idle"]]

KeyLife == INSTANCE KeyLifecycle
  WITH Sessions <- Handlers, state <- keyState, shown <- handed, session <- keySession

\* However the statements of requests interleave, fail or are cut off by a
\* crash, keys behave as KeyLifecycle says: a request is let on at a moment at
\* which its key is active, and what was revoked stays so (apikeys.go:49-72,
\* main.go:461-506).
ImplementsKeys == KeyLife!Spec

=============================================================================
