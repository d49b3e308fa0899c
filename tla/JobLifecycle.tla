---------------------------- MODULE JobLifecycle ----------------------------
(***************************************************************************)
(* What a replication job promises to whoever asked for it: it starts      *)
(* once, it ends once, the events that report its end agree with it, and   *)
(* only a restart of the server makes it disappear.                        *)
(***************************************************************************)
CONSTANT Jobs

VARIABLES
  state,     \* per job
  reported   \* per job: the events written about it

vars == <<state, reported>>

State == {"absent", "accepted", "running", "done", "failed", "forgotten"}

Becomes(j, from, to) == state[j] = from /\ state' = [state EXCEPT ![j] = to]

Accept(j) == Becomes(j, "absent", "accepted") /\ UNCHANGED reported
Start(j) == Becomes(j, "accepted", "running") /\ UNCHANGED reported
Complete(j) == Becomes(j, "running", "done") /\ UNCHANGED reported

\* A job whose completion has been reported fails no more.
Fail(j) ==
  Becomes(j, "running", "failed") /\ reported[j] = {} /\ UNCHANGED reported

\* At most one report: of a completion just before it, of a failure after it.
Report(j) ==
  /\ reported[j] = {}
  /\ \/ state[j] = "running" /\ reported' = [reported EXCEPT ![j] = {"completed"}]
     \/ state[j] = "failed" /\ reported' = [reported EXCEPT ![j] = {"failed"}]
  /\ UNCHANGED state

Restart ==
  /\ state' = [j \in Jobs |-> IF state[j] = "absent" THEN "absent" ELSE "forgotten"]
  /\ UNCHANGED reported

Init == state = [j \in Jobs |-> "absent"] /\ reported = [j \in Jobs |-> {}]

Step(j) == Accept(j) \/ Start(j) \/ Complete(j) \/ Fail(j) \/ Report(j)
Next == Restart \/ \E j \in Jobs : Step(j)

Spec == Init /\ [][Next]_vars

=============================================================================
