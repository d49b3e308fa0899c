---------------------------- MODULE KeyLifecycle ----------------------------
(***************************************************************************)
(* What API keys promise to those who make, use and revoke them: a key is  *)
(* shown once it is there, a revocation is answered once it holds and is   *)
(* never taken back, and a request is cleared at a moment at which its key *)
(* is active, although looking a key up takes several steps.               *)
(***************************************************************************)
CONSTANTS Keys, Sessions

VARIABLES
  state,    \* per key: unmade, active or revoked
  shown,    \* keys somebody was given
  closed,   \* keys whose revocation was answered
  session   \* per session: the key it uses and how far it is

vars == <<state, shown, closed, session>>

NoSession == [phase |-> "idle"]

Becomes(k, from, to) ==
  state[k] = from /\ state' = [state EXCEPT ![k] = to] /\ UNCHANGED <<shown, closed, session>>

Make(k) == Becomes(k, "unmade", "active")
Revoke(k) == Becomes(k, "active", "revoked")

Goes(s, from, to) ==
  /\ session[s] # NoSession /\ session[s].phase = from
  /\ session' = [session EXCEPT ![s].phase = to]

\* An answer ends the session it is for, when that uses a key at all.
Answered == UNCHANGED session \/ \E s \in Sessions : Goes(s, "cleared", "over")

Show(k) ==
  /\ state[k] # "unmade" /\ shown' = shown \cup {k}
  /\ Answered /\ UNCHANGED <<state, closed>>

Confirm(k) ==
  /\ state[k] = "revoked" /\ closed' = closed \cup {k}
  /\ Answered /\ UNCHANGED <<state, shown>>

\* Whoever has been given a key may ask.
Ask(s) ==
  /\ session[s] = NoSession
  /\ \E k \in shown : session' = [session EXCEPT ![s] = [phase |-> "asking", key |-> k]]
  /\ UNCHANGED <<state, shown, closed>>

\* The moment at which the key counts.
Clear(s) ==
  /\ Goes(s, "asking", "cleared") /\ state[session[s].key] = "active"
  /\ UNCHANGED <<state, shown, closed>>

\* Turned away, or through.
End(s) ==
  /\ Goes(s, "asking", "over") \/ Goes(s, "cleared", "over")
  /\ UNCHANGED <<state, shown, closed>>

Forget(s) ==
  /\ session[s] # NoSession /\ session[s].phase = "over"
  /\ session' = [session EXCEPT ![s] = NoSession]
  /\ UNCHANGED <<state, shown, closed>>

Crash ==
  /\ session' = [s \in Sessions |-> NoSession]
  /\ UNCHANGED <<state, shown, closed>>

Init ==
  /\ state = [k \in Keys |-> "unmade"]
  /\ shown = {} /\ closed = {}
  /\ session = [s \in Sessions |-> NoSession]

Next ==
  \/ \E k \in Keys : Make(k) \/ Revoke(k) \/ Show(k) \/ Confirm(k)
  \/ \E s \in Sessions : Ask(s) \/ Clear(s) \/ End(s) \/ Forget(s)
  \/ Crash

Spec == Init /\ [][Next]_vars

=============================================================================
