------------------------- MODULE ReplicationProofs -------------------------
(***************************************************************************)
(* The safety properties of Replication and its refinement of              *)
(* JobLifecycle, for any number of jobs, snapshots, targets and faults.    *)
(*                                                                         *)
(* The invariant is stated job by job (JobInv); a step works on one job    *)
(* and leaves what JobInv says of the others alone (Frame).                *)
(***************************************************************************)
EXTENDS Replication, TLAPS

\* What the record of a job, the table and the target say at each of its steps.
RecordInv(j) ==
  /\ jobs[j] = None <=> step[j] \in {"none", "lost"}
  /\ j \in table <=> step[j] \notin {"none", "lost", "spawned"}
  /\ step[j] = "spawned" => Has(j, "pending")
  /\ step[j] \in {"send", "call", "record", "finish"} => Has(j, "running")
  /\ step[j] = "report" => Has(j, "failed")
  /\ step[j] = "over" => Has(j, "done") \/ Has(j, "failed")

TargetInv(j) ==
  /\ step[j] \in {"none", "spawned", "send", "call"} => replica[j] = None
  /\ step[j] \in {"record", "finish"} \/ Has(j, "done") => replica[j] # None
  /\ Has(j, "failed") /\ jobs[j].error # "call" => replica[j] = None

\* What the events say.
EventInv(j) ==
  /\ Reported(j, "completed") =>
       /\ step[j] \in {"finish", "over", "lost"} /\ replica[j] # None
       /\ ~Has(j, "failed") /\ ~Reported(j, "failed")
  /\ Reported(j, "failed") => step[j] \in {"over", "lost"} /\ ~Has(j, "done")
  /\ faults = 0 =>
       /\ step[j] = "finish" => Reported(j, "completed")
       /\ step[j] = "over" /\ Has(j, "done") => Reported(j, "completed")
       /\ step[j] = "over" /\ Has(j, "failed") => Reported(j, "failed")

JobInv(j) == RecordInv(j) /\ TargetInv(j) /\ EventInv(j)
IInv == TypeOK /\ \A j \in Jobs : JobInv(j)

----------------------------------------------------------------------------
(* Types.                                                                  *)

LEMMA NoneApart == None \notin Dests /\ None \notin Job
  BY ReplicationAssumption DEF ReplicationAssumption, Job, Status, Cause

LEMMA Bound == MaxFaults \in Nat
  BY ReplicationAssumption DEF ReplicationAssumption

LEMMA Counting == ASSUME NEW n \in 0 .. MaxFaults, n < MaxFaults
                  PROVE  n + 1 \in 0 .. MaxFaults /\ n + 1 # 0
  BY Bound

LEMMA FaultCounts ==
  ASSUME faults \in 0 .. MaxFaults
  PROVE  Fault => faults' \in 0 .. MaxFaults /\ faults' # 0
  BY Counting DEF Fault

\* Setting the status, and the error, of a record.
LEMMA NewStatus ==
  ASSUME TypeOK, NEW j \in Jobs, jobs[j] \in Job, NEW s \in Status,
         jobs' = [jobs EXCEPT ![j].status = s]
  PROVE  /\ jobs' \in [Jobs -> Job \cup {None}]
         /\ jobs'[j] = [jobs[j] EXCEPT !.status = s] /\ jobs'[j] \in Job
  <1>1. jobs \in [Jobs -> Job \cup {None}]
    BY DEF TypeOK
  <1>2. [jobs[j] EXCEPT !.status = s] \in Job
    BY DEF Job
  <1> QED BY <1>1, <1>2

LEMMA NewError ==
  ASSUME TypeOK, NEW j \in Jobs, jobs[j] \in Job, NEW s \in Status, NEW c \in Cause,
         jobs' = [jobs EXCEPT ![j].status = s, ![j].error = c]
  PROVE  /\ jobs' \in [Jobs -> Job \cup {None}]
         /\ jobs'[j] = [jobs[j] EXCEPT !.status = s, !.error = c] /\ jobs'[j] \in Job
  <1>1. jobs \in [Jobs -> Job \cup {None}]
    BY DEF TypeOK
  <1>2. [jobs[j] EXCEPT !.status = s, !.error = c] \in Job
    BY DEF Job
  <1> QED BY <1>1, <1>2

\* A job in the middle of its steps has a record.
LEMMA HasRecord ==
  ASSUME IInv, NEW j \in Jobs, step[j] \notin {"none", "lost"}
  PROVE  TypeOK /\ jobs[j] \in Job /\ jobs[j] # None /\ jobs[j].dest \in Dests
  BY DEF IInv, TypeOK, JobInv, RecordInv, Job

----------------------------------------------------------------------------
(* The frame of a step.                                                    *)

\* What JobInv says of job i is about its own record, step, replica and
\* events.
LEMMA Frame ==
  ASSUME NEW i, JobInv(i),
         jobs'[i] = jobs[i], step'[i] = step[i], replica'[i] = replica[i],
         i \in table' <=> i \in table,
         Reported(i, "completed")' <=> Reported(i, "completed"),
         Reported(i, "failed")' <=> Reported(i, "failed"),
         faults' = 0 => faults = 0
  PROVE  JobInv(i)'
  <1>1. \A s : Has(i, s)' <=> Has(i, s)
    BY DEF Has
  <1>2. RecordInv(i)'
    BY <1>1 DEF JobInv, RecordInv
  <1>3. TargetInv(i)'
    BY <1>1 DEF JobInv, TargetInv
  <1>4. EventInv(i)'
    BY <1>1 DEF JobInv, EventInv
  <1> QED BY <1>2, <1>3, <1>4 DEF JobInv

\* What may change when job j takes a step: nothing of the other jobs.
OnlyJob(j) ==
  /\ \A i \in Jobs \ {j} :
       /\ jobs'[i] = jobs[i] /\ step'[i] = step[i] /\ replica'[i] = replica[i]
       /\ i \in table' <=> i \in table
       /\ Reported(i, "completed")' <=> Reported(i, "completed")
       /\ Reported(i, "failed")' <=> Reported(i, "failed")
  /\ faults' = 0 => faults = 0

LEMMA StepFrame ==
  ASSUME IInv, NEW j \in Jobs, OnlyJob(j), TypeOK', JobInv(j)'
  PROVE  IInv'
  <1>1. ASSUME NEW i \in Jobs, i # j PROVE JobInv(i)'
    BY <1>1, Frame DEF IInv, OnlyJob
  <1> QED BY <1>1 DEF IInv

\* Inserting an event of type t for job j.
LEMMA CreateEventEffect ==
  ASSUME TypeOK, NEW j \in Jobs, NEW t \in {"completed", "failed"}, CreateEvent(j, t)
  PROVE  /\ events' \subseteq Event /\ faults' \in 0 .. MaxFaults
         /\ faults' = 0 => faults = 0 /\ Reported(j, t)'
         /\ \A i, u : Reported(i, u)' <=> Reported(i, u) \/ (i = j /\ u = t /\ events' # events)
  <1>1. CASE events' = events \cup {[job |-> j, type |-> t]} /\ UNCHANGED faults
    <2>1. [job |-> j, type |-> t] \in Event
      BY DEF Event
    <2>2. \A i, u : [job |-> i, type |-> u] = [job |-> j, type |-> t] <=> i = j /\ u = t
      OBVIOUS
    <2> QED BY <1>1, <2>1, <2>2 DEF TypeOK, Reported
  <1>2. CASE Fault /\ UNCHANGED events
    BY <1>2, FaultCounts DEF TypeOK, Reported
  <1> QED BY <1>1, <1>2 DEF CreateEvent

----------------------------------------------------------------------------
(* Every step keeps the invariant.                                         *)

LEMMA AcceptInvariant ==
  ASSUME IInv, NEW j \in Jobs, handleReplicate(j)
  PROVE  IInv'
  <1>1. TypeOK /\ JobInv(j) /\ step[j] = "none"
    BY DEF IInv, handleReplicate
  <1>2. PICK snap \in Snaps, dest \in Dests :
          jobs' = [jobs EXCEPT ![j] =
                     [snap |-> snap, dest |-> dest, status |-> "pending", error |-> ""]]
    BY DEF handleReplicate
  <1>3. /\ jobs'[j] \in Job /\ jobs'[j].status = "pending"
        /\ jobs' \in [Jobs -> Job \cup {None}]
    BY <1>1, <1>2 DEF TypeOK, Job, Status, Cause
  <1>4. TypeOK'
    BY <1>1, <1>3 DEF TypeOK, handleReplicate, Goto, Steps
  <1>5. OnlyJob(j)
    BY <1>1, <1>2 DEF OnlyJob, handleReplicate, Goto, TypeOK, Reported
  <1>6. step'[j] = "spawned" /\ Has(j, "pending")'
    BY <1>1, <1>3, NoneApart DEF handleReplicate, Goto, TypeOK, Has
  <1>7. JobInv(j)'
    BY <1>1, <1>3, <1>6, NoneApart
    DEF JobInv, RecordInv, TargetInv, EventInv, Has, Reported, handleReplicate
  <1> QED BY <1>4, <1>5, <1>7, StepFrame

LEMMA RegisterInvariant ==
  ASSUME IInv, NEW j \in Jobs, Register(j)
  PROVE  IInv'
  <1>1. TypeOK /\ JobInv(j) /\ step[j] = "spawned"
    BY DEF IInv, Register
  <1>2. /\ jobs' \in [Jobs -> Job \cup {None}] /\ jobs'[j] = [jobs[j] EXCEPT !.status = "running"]
        /\ jobs[j] \in Job /\ jobs'[j] \in Job
    <2>1. jobs[j] \in Job
      BY <1>1, HasRecord
    <2> QED BY <1>1, <2>1, NewStatus DEF Register, Status
  <1>3. TypeOK'
    BY <1>1, <1>2 DEF TypeOK, Register, Goto, Steps
  <1>4. OnlyJob(j)
    BY <1>1 DEF OnlyJob, Register, Goto, TypeOK, Reported
  <1>5. step'[j] = "send" /\ Has(j, "running")' /\ jobs'[j].status = "running"
    BY <1>1, <1>2, NoneApart DEF Register, Goto, TypeOK, Has, Job
  <1>6. JobInv(j)'
    BY <1>1, <1>2, <1>5, NoneApart
    DEF JobInv, RecordInv, TargetInv, EventInv, Has, Reported, Register
  <1> QED BY <1>3, <1>4, <1>6, StepFrame

\* A failure before or during the call.
LEMMA FailInvariant ==
  ASSUME IInv, NEW j \in Jobs, NEW c \in Cause, Fail(j, c),
         step[j] \in {"send", "call"}, UNCHANGED <<table, events, faults>>,
         \/ UNCHANGED replica
         \/ replica' = [replica EXCEPT ![j] = jobs[j].dest] /\ c = "call"
  PROVE  IInv'
  <1>1. TypeOK /\ JobInv(j) /\ jobs[j].dest \in Dests
    BY HasRecord DEF IInv
  <1>2. /\ jobs' \in [Jobs -> Job \cup {None}]
        /\ jobs'[j] = [jobs[j] EXCEPT !.status = "failed", !.error = c]
        /\ jobs[j] \in Job /\ jobs'[j] \in Job
    <2>1. jobs[j] \in Job
      BY HasRecord
    <2> QED BY <1>1, <2>1, NewError DEF Fail, Status
  <1>3. TypeOK'
    BY <1>1, <1>2 DEF TypeOK, Fail, Goto, Steps
  <1>4. OnlyJob(j)
    BY <1>1 DEF OnlyJob, Fail, Goto, TypeOK, Reported
  <1>5. step'[j] = "report" /\ Has(j, "failed")' /\ jobs'[j].status = "failed"
        /\ jobs'[j].error = c
    BY <1>1, <1>2, NoneApart DEF Fail, Goto, TypeOK, Has, Job
  <1>6. RecordInv(j)'
    BY <1>1, <1>2, <1>5, NoneApart DEF JobInv, RecordInv, Has
  <1>7. TargetInv(j)'
    BY <1>1, <1>5, NoneApart DEF JobInv, TargetInv, Has, TypeOK
  <1>8. EventInv(j)'
    BY <1>1, <1>5 DEF JobInv, EventInv, Has, Reported
  <1> QED BY <1>3, <1>4, <1>6, <1>7, <1>8, StepFrame DEF JobInv

LEMMA SendInvariant ==
  ASSUME IInv, NEW j \in Jobs, SendSnapshot(j)
  PROVE  IInv'
  <1>1. TypeOK /\ JobInv(j) /\ step[j] = "send"
    BY DEF IInv, SendSnapshot
  <1>2. CASE Goto(j, "call") /\ UNCHANGED jobs
    <2>1. TypeOK'
      BY <1>1, <1>2 DEF TypeOK, SendSnapshot, Goto, Steps
    <2>2. OnlyJob(j)
      BY <1>1, <1>2 DEF OnlyJob, SendSnapshot, Goto, TypeOK, Reported
    <2>3. step'[j] = "call"
      BY <1>1, <1>2 DEF Goto, TypeOK
    <2>4. JobInv(j)'
      BY <1>1, <1>2, <2>3
      DEF JobInv, RecordInv, TargetInv, EventInv, Has, Reported, SendSnapshot
    <2> QED BY <2>1, <2>2, <2>4, StepFrame
  <1>3. CASE \E cause \in {"send", "address"} : Fail(j, cause)
    BY <1>1, <1>3, FailInvariant DEF SendSnapshot, Cause
  <1> QED BY <1>2, <1>3 DEF SendSnapshot

LEMMA CallInvariant ==
  ASSUME IInv, NEW j \in Jobs, CallTarget(j)
  PROVE  IInv'
  <1>1. TypeOK /\ JobInv(j) /\ step[j] = "call" /\ jobs[j].dest \in Dests
    BY HasRecord DEF IInv, CallTarget
  <1>2. CASE /\ replica' = [replica EXCEPT ![j] = jobs[j].dest]
             /\ Goto(j, "record") /\ UNCHANGED jobs
    <2>1. TypeOK'
      BY <1>1, <1>2 DEF TypeOK, CallTarget, Goto, Steps
    <2>2. OnlyJob(j)
      BY <1>1, <1>2 DEF OnlyJob, CallTarget, Goto, TypeOK, Reported
    <2>3. step'[j] = "record" /\ replica'[j] # None
      BY <1>1, <1>2, NoneApart DEF Goto, TypeOK
    <2>4. JobInv(j)'
      BY <1>1, <1>2, <2>3
      DEF JobInv, RecordInv, TargetInv, EventInv, Has, Reported, CallTarget
    <2> QED BY <2>1, <2>2, <2>4, StepFrame
  <1>3. CASE replica' = [replica EXCEPT ![j] = jobs[j].dest] /\ Fail(j, "call")
    BY <1>1, <1>3, FailInvariant DEF CallTarget, Cause
  <1>4. CASE Fail(j, "call") /\ UNCHANGED replica
    BY <1>1, <1>4, FailInvariant DEF CallTarget, Cause
  <1> QED BY <1>2, <1>3, <1>4 DEF CallTarget

LEMMA RecordCompletionInvariant ==
  ASSUME IInv, NEW j \in Jobs, RecordCompletion(j)
  PROVE  IInv'
  <1>1. TypeOK /\ JobInv(j) /\ step[j] = "record"
    BY DEF IInv, RecordCompletion
  <1>2. /\ events' \subseteq Event /\ faults' \in 0 .. MaxFaults
        /\ faults' = 0 => faults = 0 /\ Reported(j, "completed")'
        /\ \A i, u : Reported(i, u)' <=> Reported(i, u) \/ (i = j /\ u = "completed" /\ events' # events)
    BY <1>1, CreateEventEffect DEF RecordCompletion
  <1>3. TypeOK'
    BY <1>1, <1>2 DEF TypeOK, RecordCompletion, Goto, Steps
  <1>4. OnlyJob(j)
    BY <1>1, <1>2 DEF OnlyJob, RecordCompletion, Goto, TypeOK
  <1>5. step'[j] = "finish"
    BY <1>1 DEF RecordCompletion, Goto, TypeOK
  <1>6. Has(j, "running")' /\ ~Has(j, "failed")' /\ ~Has(j, "done")' /\ Has(j, "running")
    BY <1>1 DEF JobInv, RecordInv, Has, RecordCompletion
  <1>7. RecordInv(j)' /\ TargetInv(j)'
    BY <1>1, <1>5, <1>6 DEF JobInv, RecordInv, TargetInv, RecordCompletion
  <1>8. EventInv(j)'
    BY <1>1, <1>2, <1>5, <1>6 DEF JobInv, EventInv, TargetInv, RecordCompletion
  <1> QED BY <1>3, <1>4, <1>7, <1>8, StepFrame DEF JobInv

LEMMA FinishInvariant ==
  ASSUME IInv, NEW j \in Jobs, Finish(j)
  PROVE  IInv'
  <1>1. TypeOK /\ JobInv(j) /\ step[j] = "finish"
    BY DEF IInv, Finish
  <1>2. /\ jobs' \in [Jobs -> Job \cup {None}] /\ jobs'[j] = [jobs[j] EXCEPT !.status = "done"]
        /\ jobs[j] \in Job /\ jobs'[j] \in Job
    <2>1. jobs[j] \in Job
      BY <1>1, HasRecord
    <2> QED BY <1>1, <2>1, NewStatus DEF Finish, Status
  <1>3. TypeOK'
    BY <1>1, <1>2 DEF TypeOK, Finish, Goto, Steps
  <1>4. OnlyJob(j)
    BY <1>1 DEF OnlyJob, Finish, Goto, TypeOK, Reported
  <1>5. step'[j] = "over" /\ Has(j, "done")' /\ jobs'[j].status = "done"
    BY <1>1, <1>2, NoneApart DEF Finish, Goto, TypeOK, Has, Job
  <1>6. JobInv(j)'
    BY <1>1, <1>2, <1>5, NoneApart
    DEF JobInv, RecordInv, TargetInv, EventInv, Has, Reported, Finish
  <1> QED BY <1>3, <1>4, <1>6, StepFrame

LEMMA RecordFailureInvariant ==
  ASSUME IInv, NEW j \in Jobs, RecordFailure(j)
  PROVE  IInv'
  <1>1. TypeOK /\ JobInv(j) /\ step[j] = "report"
    BY DEF IInv, RecordFailure
  <1>2. /\ events' \subseteq Event /\ faults' \in 0 .. MaxFaults
        /\ faults' = 0 => faults = 0 /\ Reported(j, "failed")'
        /\ \A i, u : Reported(i, u)' <=> Reported(i, u) \/ (i = j /\ u = "failed" /\ events' # events)
    BY <1>1, CreateEventEffect DEF RecordFailure
  <1>3. TypeOK'
    BY <1>1, <1>2 DEF TypeOK, RecordFailure, Goto, Steps
  <1>4. OnlyJob(j)
    BY <1>1, <1>2 DEF OnlyJob, RecordFailure, Goto, TypeOK
  <1>5. step'[j] = "over"
    BY <1>1 DEF RecordFailure, Goto, TypeOK
  <1>6. Has(j, "failed")' /\ ~Has(j, "done")' /\ Has(j, "failed")
    BY <1>1 DEF JobInv, RecordInv, Has, RecordFailure
  <1>7. RecordInv(j)' /\ TargetInv(j)'
    BY <1>1, <1>5, <1>6 DEF JobInv, RecordInv, TargetInv, Has, RecordFailure
  <1>8. EventInv(j)'
    BY <1>1, <1>2, <1>5, <1>6 DEF JobInv, EventInv, RecordFailure
  <1> QED BY <1>3, <1>4, <1>7, <1>8, StepFrame DEF JobInv

LEMMA CrashInvariant ==
  ASSUME IInv, Crash
  PROVE  IInv'
  <1>1. TypeOK /\ faults' \in 0 .. MaxFaults /\ faults' # 0
    BY FaultCounts DEF IInv, Crash, TypeOK
  <1>2. TypeOK'
    BY <1>1 DEF TypeOK, Crash, Steps
  <1>3. ASSUME NEW j \in Jobs PROVE JobInv(j)'
    <2>1. JobInv(j)
      BY DEF IInv
    <2>2. /\ jobs'[j] = None /\ table' = {} /\ replica' = replica /\ events' = events
          /\ step'[j] = IF step[j] = "none" THEN "none" ELSE "lost"
      BY DEF Crash
    <2>3. RecordInv(j)'
      BY <2>2 DEF RecordInv, Has
    <2>4. TargetInv(j)'
      BY <2>1, <2>2 DEF JobInv, TargetInv, Has
    <2>5. EventInv(j)'
      BY <1>1, <2>1, <2>2 DEF JobInv, EventInv, Has, Reported
    <2> QED BY <2>3, <2>4, <2>5 DEF JobInv
  <1> QED BY <1>2, <1>3 DEF IInv

----------------------------------------------------------------------------
(* The theorems.                                                           *)

LEMMA InitInvariant == Init => IInv
  <1> SUFFICES ASSUME Init PROVE IInv
    OBVIOUS
  <1>1. TypeOK
    BY Bound DEF Init, TypeOK, Steps
  <1>2. \A j \in Jobs : JobInv(j)
    BY DEF Init, JobInv, RecordInv, TargetInv, EventInv, Has, Reported
  <1> QED BY <1>1, <1>2 DEF IInv

LEMMA NextInvariant == IInv /\ [Next]_vars => IInv'
  <1> SUFFICES ASSUME IInv, [Next]_vars PROVE IInv'
    OBVIOUS
  <1>1. CASE UNCHANGED vars
    <2>1. TypeOK'
      BY <1>1 DEF IInv, TypeOK, vars
    <2>2. ASSUME NEW j \in Jobs PROVE JobInv(j)'
      BY <1>1, Frame DEF IInv, vars, Reported
    <2> QED BY <2>1, <2>2 DEF IInv
  <1>2. CASE Crash
    BY <1>2, CrashInvariant
  <1>3. ASSUME NEW j \in Jobs, handleReplicate(j) \/ Replicate(j) PROVE IInv'
    BY <1>3, AcceptInvariant, RegisterInvariant, SendInvariant, CallInvariant,
       RecordCompletionInvariant, FinishInvariant, RecordFailureInvariant
    DEF Replicate
  <1> QED BY <1>1, <1>2, <1>3 DEF Next

\* Record, table, target and events agree at every step of every job.
THEOREM JobsInvariant == Spec => []IInv
  BY InitInvariant, NextInvariant, PTL DEF Spec

\* The three safety properties follow from it job by job.
THEOREM JobsSafety == Spec => [](TypeOK /\ OutcomeMatchesTarget /\ ListedIsTrue /\ EndIsRecorded)
  <1>1. IInv => TypeOK /\ OutcomeMatchesTarget /\ ListedIsTrue /\ EndIsRecorded
    <2> SUFFICES ASSUME IInv
                 PROVE  TypeOK /\ OutcomeMatchesTarget /\ ListedIsTrue /\ EndIsRecorded
      OBVIOUS
    <2>1. TypeOK /\ \A j \in Jobs : JobInv(j)
      BY DEF IInv
    <2>2. OutcomeMatchesTarget
      BY <2>1 DEF JobInv, TargetInv, EventInv, OutcomeMatchesTarget
    <2>3. ASSUME NEW j \in table
          PROVE  /\ ~Has(j, "pending")
                 /\ Has(j, "running") => step[j] \in {"send", "call", "record", "finish"}
      <3>1. j \in Jobs /\ JobInv(j) /\ step[j] \in Steps
        BY <2>1 DEF TypeOK
      <3> QED BY <3>1 DEF JobInv, RecordInv, Has, Steps
    <2>4. EndIsRecorded
      BY <2>1 DEF JobInv, RecordInv, EventInv, Has, EndIsRecorded
    <2> QED BY <2>1, <2>2, <2>3, <2>4 DEF ListedIsTrue
  <1> QED BY <1>1, JobsInvariant, PTL

----------------------------------------------------------------------------
(* The refinement.                                                         *)

\* The abstract state of every job, and the reports about it.
StateMap == \A j \in Jobs :
  /\ step[j] = "none" => jobState[j] = "absent"
  /\ step[j] = "lost" => jobState[j] = "forgotten"
  /\ step[j] = "spawned" => jobState[j] = "accepted"
  /\ step[j] \in {"send", "call", "record", "finish"} => jobState[j] = "running"
  /\ step[j] = "report" => jobState[j] = "failed"
  /\ step[j] = "over" => jobState[j] = jobs[j].status
  /\ \A t : t \in jobReports[j] <=> Reported(j, t)

LEMMA StateOf == IInv => StateMap
  <1> SUFFICES ASSUME IInv PROVE StateMap
    OBVIOUS
  <1>1. ASSUME NEW j \in Jobs
        PROVE  /\ step[j] = "none" => jobState[j] = "absent"
               /\ step[j] = "lost" => jobState[j] = "forgotten"
               /\ step[j] = "spawned" => jobState[j] = "accepted"
               /\ step[j] \in {"send", "call", "record", "finish"} => jobState[j] = "running"
               /\ step[j] = "report" => jobState[j] = "failed"
               /\ step[j] = "over" => jobState[j] = jobs[j].status
    <2>1. RecordInv(j)
      BY DEF IInv, JobInv
    <2> QED BY <2>1 DEF RecordInv, Has, jobState
  <1>2. ASSUME NEW j \in Jobs, NEW t
        PROVE  t \in jobReports[j] <=> Reported(j, t)
    <2>1. events \subseteq Event
      BY DEF IInv, TypeOK
    <2>2. jobReports[j] = {e.type : e \in {f \in events : f.job = j}}
      BY DEF jobReports
    <2>3. ASSUME t \in jobReports[j] PROVE Reported(j, t)
      <3>1. PICK e \in events : e.job = j /\ t = e.type
        BY <2>2, <2>3
      <3>2. e = [job |-> j, type |-> t]
        BY <2>1, <3>1 DEF Event
      <3> QED BY <3>1, <3>2 DEF Reported
    <2>4. ASSUME Reported(j, t) PROVE t \in jobReports[j]
      <3> DEFINE e == [job |-> j, type |-> t]
      <3>1. e \in events /\ e.job = j /\ e.type = t
        BY <2>4 DEF Reported
      <3> QED BY <2>2, <3>1
    <2> QED BY <2>3, <2>4
  <1> QED BY <1>1, <1>2 DEF StateMap

LEMMA StateOfNext == IInv' => StateMap'
  BY StateOf, PTL

\* Both abstract variables are functions over the jobs, so they are equal to
\* others when they agree on every job.
LEMMA AbstractFunctions ==
  /\ jobState = [j \in Jobs |-> jobState[j]] /\ jobReports = [j \in Jobs |-> jobReports[j]]
  /\ jobState' = [j \in Jobs |-> jobState'[j]] /\ jobReports' = [j \in Jobs |-> jobReports'[j]]
  BY DEF jobState, jobReports

\* A step that writes no event leaves the reports alone.
LEMMA SameReports == ASSUME UNCHANGED events PROVE UNCHANGED jobReports
  BY DEF jobReports

\* A step of job j that takes its abstract state from a to b.
LEMMA Moves ==
  ASSUME IInv, IInv', NEW j \in Jobs, OnlyJob(j), NEW b, jobState'[j] = b
  PROVE  jobState' = [jobState EXCEPT ![j] = b]
  <1>1. ASSUME NEW i \in Jobs, i # j PROVE jobState'[i] = jobState[i]
    BY <1>1 DEF OnlyJob, jobState, Has
  <1> QED BY <1>1, AbstractFunctions

\* What an inserted event, or one that could not be inserted, changes.
LEMMA Reports ==
  ASSUME IInv, IInv', NEW j \in Jobs, NEW t \in {"completed", "failed"}, CreateEvent(j, t),
         jobReports[j] = {}
  PROVE  \/ jobReports' = [jobReports EXCEPT ![j] = {t}]
         \/ UNCHANGED jobReports
  <1>1. CASE events' = events \cup {[job |-> j, type |-> t]}
    <2>1. \A i, u : [job |-> i, type |-> u] = [job |-> j, type |-> t] <=> i = j /\ u = t
      OBVIOUS
    <2>2. \A i, u : Reported(i, u)' <=> Reported(i, u) \/ (i = j /\ u = t)
      BY <1>1, <2>1 DEF Reported
    <2>3. \A i \in Jobs : \A u : /\ u \in jobReports[i] <=> Reported(i, u)
                                 /\ u \in jobReports'[i] <=> Reported(i, u)'
      BY StateOf, StateOfNext DEF StateMap
    <2>4. ASSUME NEW i \in Jobs, i # j PROVE jobReports'[i] = jobReports[i]
      <3>1. \A u : u \in jobReports'[i] <=> u \in jobReports[i]
        BY <2>2, <2>3, <2>4
      <3> QED BY <3>1
    <2>5. jobReports'[j] = {t}
      <3>1. \A u : u \in jobReports'[j] <=> u = t
        BY <2>2, <2>3
      <3> QED BY <3>1
    <2> QED BY <2>4, <2>5, AbstractFunctions
  <1>2. CASE UNCHANGED events
    BY <1>2, SameReports
  <1> QED BY <1>1, <1>2 DEF CreateEvent

\* Every step of the code is a step of the abstract lifecycle or changes nothing
\* in it.
LEMMA StepRefines ==
  ASSUME IInv, IInv', [Next]_vars
  PROVE  [Lifecycle!Next]_(Lifecycle!vars)
  <1> USE DEF Lifecycle!vars
  <1>1. StateMap /\ StateMap' /\ TypeOK
    BY StateOf, StateOfNext DEF IInv
  <1>2. CASE UNCHANGED vars
    BY <1>2 DEF vars, jobState, jobReports, Has
  <1>3. CASE Crash
    <2>1. UNCHANGED jobReports
      BY <1>3, SameReports DEF Crash
    <2>2. \A j \in Jobs : step[j] = "none" <=> jobState[j] = "absent"
      BY DEF jobState, Has, IInv, JobInv, RecordInv, TypeOK, Job, Status
    <2>3. \A j \in Jobs : jobState'[j] = IF jobState[j] = "absent" THEN "absent" ELSE "forgotten"
      BY <1>1, <1>3, <2>2 DEF Crash, StateMap
    <2> QED BY <2>1, <2>3, AbstractFunctions DEF Lifecycle!Next, Lifecycle!Restart
  <1>4. ASSUME NEW j \in Jobs, handleReplicate(j) PROVE Lifecycle!Next
    <2>1. step[j] = "none" /\ step'[j] = "spawned" /\ OnlyJob(j) /\ UNCHANGED events
      BY <1>1, <1>4 DEF handleReplicate, Goto, OnlyJob, Reported, TypeOK
    <2>2. jobState[j] = "absent" /\ jobState'[j] = "accepted"
      BY <1>1, <2>1 DEF StateMap
    <2>3. Lifecycle!Accept(j)
      BY <2>1, <2>2, Moves, SameReports DEF Lifecycle!Accept, Lifecycle!Becomes
    <2> QED BY <2>3 DEF Lifecycle!Next, Lifecycle!Step
  <1>5. ASSUME NEW j \in Jobs, Register(j) PROVE Lifecycle!Next
    <2>1. step[j] = "spawned" /\ step'[j] = "send" /\ OnlyJob(j) /\ UNCHANGED events
      BY <1>1, <1>5 DEF Register, Goto, OnlyJob, Reported, TypeOK
    <2>2. jobState[j] = "accepted" /\ jobState'[j] = "running"
      BY <1>1, <2>1 DEF StateMap
    <2>3. Lifecycle!Start(j)
      BY <2>1, <2>2, Moves, SameReports DEF Lifecycle!Start, Lifecycle!Becomes
    <2> QED BY <2>3 DEF Lifecycle!Next, Lifecycle!Step
  <1>6. ASSUME NEW j \in Jobs, NEW c \in Cause, Fail(j, c), step[j] \in {"send", "call"},
               OnlyJob(j), UNCHANGED events
        PROVE  Lifecycle!Next
    <2>1. step'[j] = "report"
      BY <1>1, <1>6 DEF Fail, Goto, TypeOK
    <2>2. jobState[j] = "running" /\ jobState'[j] = "failed"
      BY <1>1, <1>6, <2>1 DEF StateMap
    <2>3. \A t : ~Reported(j, t)
      <3>1. EventInv(j) /\ events \subseteq Event
        BY DEF IInv, JobInv, TypeOK
      <3> QED BY <1>6, <3>1 DEF EventInv, Reported, Event
    <2>4. jobReports[j] = {}
      BY <1>1, <2>3 DEF StateMap
    <2>5. Lifecycle!Fail(j)
      BY <1>6, <2>2, <2>4, Moves, SameReports DEF Lifecycle!Fail, Lifecycle!Becomes
    <2> QED BY <2>5 DEF Lifecycle!Next, Lifecycle!Step
  <1>7. ASSUME NEW j \in Jobs, SendSnapshot(j) PROVE [Lifecycle!Next]_(Lifecycle!vars)
    <2>1. step[j] = "send" /\ UNCHANGED events
      BY <1>7 DEF SendSnapshot
    <2>2. OnlyJob(j)
      BY <1>1, <1>7 DEF SendSnapshot, Fail, Goto, OnlyJob, Reported, TypeOK
    <2>3. CASE Goto(j, "call") /\ UNCHANGED jobs
      <3>1. step'[j] = "call"
        BY <1>1, <2>3 DEF Goto, TypeOK
      <3>2. jobState[j] = "running" /\ jobState'[j] = "running"
        BY <1>1, <2>1, <3>1 DEF StateMap
      <3>3. UNCHANGED jobState
        BY <2>2, <3>2, Moves, AbstractFunctions
      <3> QED BY <2>1, <3>3, SameReports
    <2>4. CASE \E c \in {"send", "address"} : Fail(j, c)
      BY <1>6, <2>1, <2>2, <2>4 DEF Cause
    <2> QED BY <1>7, <2>3, <2>4 DEF SendSnapshot
  <1>8. ASSUME NEW j \in Jobs, CallTarget(j) PROVE [Lifecycle!Next]_(Lifecycle!vars)
    <2>1. step[j] = "call" /\ UNCHANGED events
      BY <1>8 DEF CallTarget
    <2>2. OnlyJob(j)
      BY <1>1, <1>8 DEF CallTarget, Fail, Goto, OnlyJob, Reported, TypeOK
    <2>3. CASE Goto(j, "record") /\ UNCHANGED jobs
      <3>1. step'[j] = "record"
        BY <1>1, <2>3 DEF Goto, TypeOK
      <3>2. jobState[j] = "running" /\ jobState'[j] = "running"
        BY <1>1, <2>1, <3>1 DEF StateMap
      <3>3. UNCHANGED jobState
        BY <2>2, <3>2, Moves, AbstractFunctions
      <3> QED BY <2>1, <3>3, SameReports
    <2>4. CASE Fail(j, "call")
      BY <1>6, <2>1, <2>2, <2>4 DEF Cause
    <2> QED BY <1>8, <2>3, <2>4 DEF CallTarget
  <1>9. ASSUME NEW j \in Jobs, RecordCompletion(j) PROVE [Lifecycle!Next]_(Lifecycle!vars)
    <2>1. step[j] = "record" /\ step'[j] = "finish" /\ CreateEvent(j, "completed")
      BY <1>1, <1>9 DEF RecordCompletion, Goto, TypeOK
    <2>2. OnlyJob(j)
      <3>1. faults' = 0 => faults = 0
        BY <1>1, <2>1, CreateEventEffect
      <3>2. \A i, u : Reported(i, u)' <=> Reported(i, u) \/ (i = j /\ u = "completed" /\ events' # events)
        BY <1>1, <2>1, CreateEventEffect
      <3> QED BY <1>1, <1>9, <3>1, <3>2 DEF RecordCompletion, Goto, OnlyJob, TypeOK
    <2>3. jobState[j] = "running" /\ jobState'[j] = "running"
      BY <1>1, <2>1 DEF StateMap
    <2>4. UNCHANGED jobState
      BY <2>2, <2>3, Moves, AbstractFunctions
    <2>5. jobReports[j] = {}
      <3>1. EventInv(j) /\ events \subseteq Event
        BY DEF IInv, JobInv, TypeOK
      <3>2. \A t : ~Reported(j, t)
        BY <2>1, <3>1 DEF EventInv, Reported, Event
      <3> QED BY <1>1, <3>2 DEF StateMap
    <2>6. CASE jobReports' = [jobReports EXCEPT ![j] = {"completed"}]
      <3>1. Lifecycle!Report(j)
        BY <2>3, <2>4, <2>5, <2>6 DEF Lifecycle!Report
      <3> QED BY <3>1 DEF Lifecycle!Next, Lifecycle!Step
    <2>7. CASE UNCHANGED jobReports
      BY <2>4, <2>7
    <2> QED BY <2>1, <2>5, <2>6, <2>7, Reports
  <1>10. ASSUME NEW j \in Jobs, Finish(j) PROVE Lifecycle!Next
    <2>1. step[j] = "finish" /\ step'[j] = "over" /\ OnlyJob(j) /\ UNCHANGED events
      BY <1>1, <1>10 DEF Finish, Goto, OnlyJob, Reported, TypeOK
    <2>2. jobs'[j].status = "done"
      <3>1. jobs[j] \in Job
        BY <2>1, HasRecord
      <3> QED BY <1>1, <1>10, <3>1 DEF Finish, TypeOK, Job
    <2>3. jobState[j] = "running" /\ jobState'[j] = "done"
      BY <1>1, <2>1, <2>2 DEF StateMap
    <2>4. Lifecycle!Complete(j)
      BY <2>1, <2>3, Moves, SameReports DEF Lifecycle!Complete, Lifecycle!Becomes
    <2> QED BY <2>4 DEF Lifecycle!Next, Lifecycle!Step
  <1>11. ASSUME NEW j \in Jobs, RecordFailure(j) PROVE [Lifecycle!Next]_(Lifecycle!vars)
    <2>1. step[j] = "report" /\ step'[j] = "over" /\ CreateEvent(j, "failed") /\ UNCHANGED jobs
      BY <1>1, <1>11 DEF RecordFailure, Goto, TypeOK
    <2>2. OnlyJob(j)
      <3>1. faults' = 0 => faults = 0
        BY <1>1, <2>1, CreateEventEffect
      <3>2. \A i, u : Reported(i, u)' <=> Reported(i, u) \/ (i = j /\ u = "failed" /\ events' # events)
        BY <1>1, <2>1, CreateEventEffect
      <3> QED BY <1>1, <1>11, <3>1, <3>2 DEF RecordFailure, Goto, OnlyJob, TypeOK
    <2>3. jobs[j].status = "failed"
      BY <2>1 DEF IInv, JobInv, RecordInv, Has
    <2>4. jobState[j] = "failed" /\ jobState'[j] = "failed"
      BY <1>1, <2>1, <2>3 DEF StateMap
    <2>5. UNCHANGED jobState
      BY <2>2, <2>4, Moves, AbstractFunctions
    <2>6. jobReports[j] = {}
      <3>1. EventInv(j) /\ events \subseteq Event
        BY DEF IInv, JobInv, TypeOK
      <3>2. \A t : ~Reported(j, t)
        BY <2>1, <3>1 DEF EventInv, Reported, Event
      <3> QED BY <1>1, <3>2 DEF StateMap
    <2>7. CASE jobReports' = [jobReports EXCEPT ![j] = {"failed"}]
      <3>1. Lifecycle!Report(j)
        BY <2>4, <2>5, <2>6, <2>7 DEF Lifecycle!Report
      <3> QED BY <3>1 DEF Lifecycle!Next, Lifecycle!Step
    <2>8. CASE UNCHANGED jobReports
      BY <2>5, <2>8
    <2> QED BY <2>1, <2>6, <2>7, <2>8, Reports
  <1> QED BY <1>2, <1>3, <1>4, <1>5, <1>7, <1>8, <1>9, <1>10, <1>11 DEF Next, Replicate

\* The replication manager implements the lifecycle of a job: every status a
\* job shows, and every event about it, is one the lifecycle allows.
THEOREM Refinement == Spec => ImplementsJobs
  <1>1. Init => Lifecycle!Init
    <2> SUFFICES ASSUME Init PROVE Lifecycle!Init
      OBVIOUS
    <2>1. jobState = [j \in Jobs |-> "absent"]
      <3>1. \A j \in Jobs : step[j] = "none" /\ ~Has(j, "pending")
        BY DEF Init, Has
      <3>2. \A j \in Jobs : jobState[j] = "absent"
        BY <3>1 DEF jobState
      <3> QED BY <3>2, AbstractFunctions
    <2>2. jobReports = [j \in Jobs |-> {}]
      BY DEF Init, jobReports
    <2> QED BY <2>1, <2>2 DEF Lifecycle!Init
  <1> QED BY <1>1, StepRefines, JobsInvariant, PTL DEF Spec, ImplementsJobs, Lifecycle!Spec

\* Every reachable state of jobs, records and the table is well typed.
THEOREM TypeCorrect == Spec => []TypeOK
  BY JobsSafety, PTL

\* A job that is done, or reported as completed, has left a snapshot on the
\* target; one that failed before its call has not (replication.go:63-119).
THEOREM Outcomes == Spec => []OutcomeMatchesTarget
  BY JobsSafety, PTL

\* What is listed as running has a goroutine at work, restarts included.
THEOREM Listed == Spec => []ListedIsTrue
  BY JobsSafety, PTL

\* Without faults, the status and the event of a job that is over agree.
THEOREM Ends == Spec => []EndIsRecorded
  BY JobsSafety, PTL

----------------------------------------------------------------------------
(* Every job ends.                                                         *)

\* The steps at which the goroutine of a job can go on by itself, and where each
\* of them leads.
After == [s \in {"spawned", "send", "call", "record", "finish", "report"} |->
  CASE s = "spawned" -> {"send"}
    [] s = "send" -> {"call", "report"}
    [] s = "call" -> {"record", "report"}
    [] s = "record" -> {"finish"}
    [] s \in {"finish", "report"} -> {"over"}]
Busy(j) == step[j] \in DOMAIN After

\* The fairness of LiveSpec, WF_vars(Replicate(j)) for every job, with the guard
\* of the goroutine written out: one that can always go on takes a step.
GoroutineRuns(j) == []Busy(j) => <><<Replicate(j)>>_vars
GoroutinesRun == \A j \in Jobs : GoroutineRuns(j)

LEMMA RunsEach == ASSUME NEW j \in Jobs PROVE GoroutinesRun => GoroutineRuns(j)
  BY DEF GoroutinesRun

LEMMA AfterIs ==
  /\ DOMAIN After = {"spawned", "send", "call", "record", "finish", "report"}
  /\ After["spawned"] = {"send"}
  /\ After["send"] = {"call", "report"}
  /\ After["call"] = {"record", "report"}
  /\ After["record"] = {"finish"}
  /\ After["finish"] = {"over"} /\ After["report"] = {"over"}
  BY DEF After

\* A step of the job's own goroutine takes it on to the next step.
LEMMA OwnStep ==
  ASSUME TypeOK, NEW j \in Jobs, Replicate(j)
  PROVE  Busy(j) /\ step'[j] \in After[step[j]]
  <1>1. step \in [Jobs -> Steps]
    BY DEF TypeOK
  <1>2. CASE Register(j)
    BY <1>1, <1>2, AfterIs DEF Register, Goto, Busy
  <1>3. CASE SendSnapshot(j)
    BY <1>1, <1>3, AfterIs DEF SendSnapshot, Goto, Fail, Busy
  <1>4. CASE CallTarget(j)
    BY <1>1, <1>4, AfterIs DEF CallTarget, Goto, Fail, Busy
  <1>5. CASE RecordCompletion(j)
    BY <1>1, <1>5, AfterIs DEF RecordCompletion, Goto, Busy
  <1>6. CASE Finish(j)
    BY <1>1, <1>6, AfterIs DEF Finish, Goto, Busy
  <1>7. CASE RecordFailure(j)
    BY <1>1, <1>7, AfterIs DEF RecordFailure, Goto, Busy
  <1> QED BY <1>2, <1>3, <1>4, <1>5, <1>6, <1>7 DEF Replicate

\* Any other step leaves it where it is, unless the server is restarted.
LEMMA AnyStep ==
  ASSUME TypeOK, NEW j \in Jobs, Busy(j), [Next]_vars
  PROVE  step'[j] \in {step[j], "lost"} \cup After[step[j]]
  <1>1. step \in [Jobs -> Steps] /\ step[j] # "none"
    BY AfterIs DEF TypeOK, Busy
  <1>2. CASE Crash
    BY <1>1, <1>2 DEF Crash
  <1>3. CASE UNCHANGED vars
    BY <1>3 DEF vars
  <1>4. ASSUME NEW i \in Jobs, handleReplicate(i) PROVE step'[j] = step[j]
    BY <1>1, <1>4 DEF handleReplicate, Goto
  <1>5. ASSUME NEW i \in Jobs, Replicate(i), i # j PROVE step'[j] = step[j]
    BY <1>1, <1>5 DEF Replicate, Register, SendSnapshot, CallTarget, RecordCompletion,
                      Finish, RecordFailure, Fail, Goto
  <1>6. ASSUME Replicate(j) PROVE step'[j] \in After[step[j]]
    BY <1>6, OwnStep
  <1> QED BY <1>2, <1>3, <1>4, <1>5, <1>6 DEF Next

\* Hence each step comes to its end.
MovesOn(j, s) == step[j] = s ~> step[j] \in After[s] \cup {"lost"}

LEMMA StepEnds ==
  ASSUME NEW j \in Jobs, NEW s \in DOMAIN After
  PROVE  Spec /\ []GoroutinesRun => MovesOn(j, s)
  <1> DEFINE P == step[j] = s
             Q == step[j] \in After[s] \cup {"lost"}
  <1>1. TypeOK /\ P /\ [Next]_vars => P' \/ Q'
    BY AnyStep DEF Busy
  <1>2. TypeOK /\ P /\ <<Replicate(j)>>_vars => Q'
    BY OwnStep
  <1>3. P => Busy(j)
    BY DEF Busy
  <1>4. GoroutinesRun => GoroutineRuns(j)
    BY RunsEach
  <1> HIDE DEF P, Q
  <1>5. []GoroutinesRun => []GoroutineRuns(j)
    BY <1>4, PTL
  <1>6. GoroutineRuns(j) => ([]Busy(j) => <><<Replicate(j)>>_vars)
    BY PTL DEF GoroutineRuns
  <1>7. Spec /\ []GoroutinesRun => (P ~> Q)
    BY <1>1, <1>2, <1>3, <1>5, <1>6, TypeCorrect, PTL DEF Spec
  <1> QED BY <1>7 DEF P, Q, MovesOn

\* A job that was accepted ends, done or failed, or is lost with the server: no
\* failure of btrfs or of the call, and no other job, leaves it "running" for
\* ever (replication.go:51-119).
THEOREM JobsEnd == Spec /\ []GoroutinesRun => EveryJobEnds
  <1>1. ASSUME NEW j \in Jobs
        PROVE  Spec /\ []GoroutinesRun =>
                 (step[j] = "spawned" ~> step[j] \in {"over", "lost"})
    <2> DEFINE S(s) == step[j] = s
               To(T) == step[j] \in T
    <2>1. /\ To(After["spawned"] \cup {"lost"}) => S("send") \/ To({"over", "lost"})
          /\ To(After["send"] \cup {"lost"}) => S("call") \/ S("report") \/ To({"over", "lost"})
          /\ To(After["call"] \cup {"lost"}) => S("record") \/ S("report") \/ To({"over", "lost"})
          /\ To(After["record"] \cup {"lost"}) => S("finish") \/ To({"over", "lost"})
          /\ To(After["finish"] \cup {"lost"}) => To({"over", "lost"})
          /\ To(After["report"] \cup {"lost"}) => To({"over", "lost"})
      BY AfterIs
    <2>2. Spec /\ []GoroutinesRun =>
            /\ MovesOn(j, "spawned") /\ MovesOn(j, "send") /\ MovesOn(j, "call")
            /\ MovesOn(j, "record") /\ MovesOn(j, "finish") /\ MovesOn(j, "report")
      BY StepEnds, AfterIs
    <2>3. Spec /\ []GoroutinesRun => (S("spawned") ~> To({"over", "lost"}))
      BY <2>1, <2>2, PTL DEF MovesOn
    <2> QED BY <2>3
  <1> QED BY <1>1 DEF EveryJobEnds

=============================================================================
