---------------------------- MODULE Replication ----------------------------
(***************************************************************************)
(* internal/replication: handleReplicate hands a job to a goroutine, which *)
(* enters it into the manager's table, reads the snapshot with btrfs send, *)
(* calls CreateSnapshot on the target server, writes an event and sets the *)
(* status.  The goroutines of several jobs interleave; a restart of the    *)
(* server loses them and the table, which lives in memory.                 *)
(*                                                                         *)
(* The content of a snapshot or of a subvolume is named by the snapshot or *)
(* the subvolume itself.                                                   *)
(***************************************************************************)
EXTENDS Naturals

CONSTANTS
  None,
  Jobs,       \* the uuids handleReplicate gives to jobs
  Snaps,      \* snapshots the table lists
  Dests,      \* subvolumes on target nodes (target_dest_path)
  MaxFaults   \* bound: restarts of the server and failed inserts

ASSUME ReplicationAssumption ==
  /\ MaxFaults \in Nat
  /\ None \notin Snaps \cup Dests
  /\ None \notin [snap : Snaps, dest : Dests,
                  status : {"pending", "running", "done", "failed"},
                  error : {"", "send", "address", "call"}]

VARIABLES
  jobs,     \* per job: the record the goroutine and the table share, or None
  table,    \* the ids in Manager.jobs
  step,     \* per job: what its goroutine does next
  events,   \* rows of the events table: the job, and completed or failed
  replica,  \* per job: the content of the snapshot it left on the target
  faults

vars == <<jobs, table, step, events, replica, faults>>

Status == {"pending", "running", "done", "failed"}
Cause == {"", "send", "address", "call"}
Job == [snap : Snaps, dest : Dests, status : Status, error : Cause]
Steps == {"none", "spawned", "send", "call", "record", "finish", "report", "over", "lost"}

Goto(j, s) == step' = [step EXCEPT ![j] = s]

\* One more fault, within the bound.
Fault == faults < MaxFaults /\ faults' = faults + 1

----------------------------------------------------------------------------
(* The steps of a job.                                                     *)

\* The answer is 202 with the id; the job is in the table only later.
handleReplicate(j) ==
  /\ step[j] = "none"
  /\ \E snap \in Snaps, dest \in Dests :
       jobs' = [jobs EXCEPT ![j] =
                  [snap |-> snap, dest |-> dest, status |-> "pending", error |-> ""]]
  /\ Goto(j, "spawned")
  /\ UNCHANGED <<table, events, replica, faults>>

\* Seeded bug: a job in the table is still pending.
RegisterPending(j) ==
  /\ step[j] = "spawned"
  /\ table' = table \cup {j}
  /\ Goto(j, "send")
  /\ UNCHANGED <<jobs, events, replica, faults>>

\* The first critical section of Replicate.
Register(j) ==
  /\ step[j] = "spawned"
  /\ jobs' = [jobs EXCEPT ![j].status = "running"]
  /\ table' = table \cup {j}
  /\ Goto(j, "send")
  /\ UNCHANGED <<events, replica, faults>>

\* The critical section of fail; the event follows.
Fail(j, cause) ==
  /\ jobs' = [jobs EXCEPT ![j].status = "failed", ![j].error = cause]
  /\ Goto(j, "report")

\* Seeded bug: a failure starts the job again, without a bound.
SendSnapshotAgain(j) ==
  /\ step[j] = "send"
  /\ Goto(j, "call") \/ Goto(j, "spawned")
  /\ UNCHANGED <<jobs, table, events, replica, faults>>

\* btrfs send into a buffer, then grpc.NewClient, which only looks at the
\* address.
SendSnapshot(j) ==
  /\ step[j] = "send"
  /\ \/ Goto(j, "call") /\ UNCHANGED jobs
     \/ \E cause \in {"send", "address"} : Fail(j, cause)
  /\ UNCHANGED <<table, events, replica, faults>>

\* Seeded bug: the error of the call is not looked at.
CallTargetUnchecked(j) ==
  /\ step[j] = "call"
  /\ Goto(j, "record")
  /\ \/ replica' = [replica EXCEPT ![j] = jobs[j].dest]
     \/ UNCHANGED replica
  /\ UNCHANGED <<jobs, table, events, faults>>

\* CreateSnapshot on the target: a snapshot of the target's own subvolume.  The
\* buffer is not sent.  The call fails before or after the target has taken the
\* snapshot: it is refused, its insert there fails, the connection breaks, or
\* the 30 minutes are over.
CallTarget(j) ==
  /\ step[j] = "call"
  /\ \/ /\ replica' = [replica EXCEPT ![j] = jobs[j].dest]
        /\ Goto(j, "record") /\ UNCHANGED jobs
     \/ /\ replica' = [replica EXCEPT ![j] = jobs[j].dest]
        /\ Fail(j, "call")
     \/ Fail(j, "call") /\ UNCHANGED replica
  /\ UNCHANGED <<table, events, faults>>

\* CreateEvent, whose error is dropped.
CreateEvent(j, type) ==
  \/ events' = events \cup {[job |-> j, type |-> type]} /\ UNCHANGED faults
  \/ Fault /\ UNCHANGED events

RecordCompletion(j) ==
  /\ step[j] = "record"
  /\ CreateEvent(j, "completed")
  /\ Goto(j, "finish")
  /\ UNCHANGED <<jobs, table, replica>>

\* Seeded bug: the completion is recorded and then the job fails.
FinishFailed(j) ==
  /\ step[j] = "finish"
  /\ Fail(j, "call")
  /\ UNCHANGED <<table, events, replica, faults>>

\* The last critical section of Replicate.
Finish(j) ==
  /\ step[j] = "finish"
  /\ jobs' = [jobs EXCEPT ![j].status = "done"]
  /\ Goto(j, "over")
  /\ UNCHANGED <<table, events, replica, faults>>

RecordFailure(j) ==
  /\ step[j] = "report"
  /\ CreateEvent(j, "failed")
  /\ Goto(j, "over")
  /\ UNCHANGED <<jobs, table, replica>>

\* The server stops and is started again.
Crash ==
  /\ Fault
  /\ jobs' = [j \in Jobs |-> None]
  /\ table' = {}
  /\ step' = [j \in Jobs |-> IF step[j] = "none" THEN "none" ELSE "lost"]
  /\ UNCHANGED <<events, replica>>

----------------------------------------------------------------------------
Init ==
  /\ jobs = [j \in Jobs |-> None] /\ table = {}
  /\ step = [j \in Jobs |-> "none"]
  /\ events = {} /\ replica = [j \in Jobs |-> None] /\ faults = 0

Replicate(j) ==
  \/ Register(j) \/ SendSnapshot(j) \/ CallTarget(j)
  \/ RecordCompletion(j) \/ Finish(j) \/ RecordFailure(j)

Next == Crash \/ \E j \in Jobs : handleReplicate(j) \/ Replicate(j)

Spec == Init /\ [][Next]_vars

\* A goroutine keeps running; btrfs send and the call (30 minutes at most) end.
LiveSpec == Spec /\ \A j \in Jobs : WF_vars(Replicate(j))

----------------------------------------------------------------------------
(* Properties.                                                             *)

Event == [job : Jobs, type : {"completed", "failed"}]

TypeOK ==
  /\ jobs \in [Jobs -> Job \cup {None}]
  /\ table \subseteq Jobs
  /\ step \in [Jobs -> Steps]
  /\ events \subseteq Event
  /\ replica \in [Jobs -> Dests \cup {None}]
  /\ faults \in 0 .. MaxFaults

Has(j, status) == jobs[j] # None /\ jobs[j].status = status
Reported(j, type) == [job |-> j, type |-> type] \in events

\* Whatever else goes on, a job that is done, or reported as completed, has
\* left a snapshot on the target; one that failed before it called the target
\* has not.
OutcomeMatchesTarget == \A j \in Jobs :
  /\ Has(j, "done") \/ Reported(j, "completed") => replica[j] # None
  /\ Has(j, "failed") /\ jobs[j].error # "call" => replica[j] = None

\* What ListJobs shows as running has a goroutine that works on it, also after
\* a restart, and nothing is shown as pending.
ListedIsTrue == \A j \in table :
  /\ ~Has(j, "pending")
  /\ Has(j, "running") => step[j] \in {"send", "call", "record", "finish"}

\* Without faults, the event and the status of a job that is over agree, and
\* the job is in the table.
EndIsRecorded == faults = 0 => \A j \in Jobs : step[j] = "over" =>
  /\ j \in table
  /\ Has(j, "done") <=> Reported(j, "completed")
  /\ Has(j, "failed") <=> Reported(j, "failed")

\* The promise of a job, JobLifecycle, is kept.
jobState == [j \in Jobs |->
  CASE step[j] = "none" -> "absent"
    [] step[j] = "lost" -> "forgotten"
    [] Has(j, "pending") -> "accepted"
    [] OTHER -> jobs[j].status]
jobReports == [j \in Jobs |-> {e.type : e \in {f \in events : f.job = j}}]

Lifecycle == INSTANCE JobLifecycle WITH state <- jobState, reported <- jobReports
ImplementsJobs == Lifecycle!Spec

\* An accepted job ends, done or failed, unless the server is restarted.
EveryJobEnds == \A j \in Jobs : step[j] = "spawned" ~> step[j] \in {"over", "lost"}

\* replication.go:46 and the message of the event (replication.go:94): the
\* snapshot itself is sent to the other node.
DoneMeansCopied == \A j \in Jobs : Has(j, "done") => replica[j] = jobs[j].snap

=============================================================================
