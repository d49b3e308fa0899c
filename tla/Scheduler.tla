----------------------------- MODULE Scheduler -----------------------------
(***************************************************************************)
(* internal/scheduler and the handler that feeds it (handlePolicies): a    *)
(* policy is stored and handed to cron, cron runs it in a goroutine of its *)
(* own each time it is due, and a run takes a snapshot and then deletes    *)
(* what retention says.  Runs overlap with each other and with requests.   *)
(*                                                                         *)
(* Snapshots live in base/.snapshots, so btrfs refuses to delete a base    *)
(* that still has one.  The only thing kept of a schedule is whether the   *)
(* parser of cron.WithSeconds takes it: six fields or a descriptor.        *)
(***************************************************************************)
EXTENDS Naturals, Sequences, FiniteSets

CONSTANTS
  None,
  Ids,          \* the uuids handlePolicies gives to policies
  Bases,        \* subvolumes that policies name
  Names,        \* policy names
  Wordy,        \* names of five words or more
  Schedules,    \* a subset of "six", "five" fields, and "" for none given
  Keeps,        \* retention_daily, 0 when not given
  DefaultKeep,  \* 7 (scheduler.go:127)
  Others,       \* how many other subvolumes have paths of five words or more
  MaxClock,     \* bound: the clock runs from 0 to MaxClock
  MaxFaults     \* bound: restarts of the server and commands that fail

ASSUME SchedulerAssumption ==
  /\ Wordy \subseteq Names
  /\ Schedules \subseteq {"six", "five", ""}
  /\ Keeps \subseteq Nat /\ DefaultKeep \in Nat \ {0}
  /\ Others \in Nat /\ MaxClock \in Nat /\ MaxFaults \in Nat
  /\ None \notin [base : Bases, name : Names, schedule : Schedules,
                  keep : Keeps, ro : BOOLEAN, enabled : BOOLEAN]
  /\ None \notin [base : Bases, name : Names, sec : Nat, ro : BOOLEAN]

VARIABLES
  now,      \* the wall clock, in seconds
  rows,     \* per id: its row in the policies table, or None
  handler,  \* per id: how far handlePolicies is with it
  entries,  \* ids with an entry in cron
  runs,     \* runs of policies, those that are over included
  disk,     \* snapshots in the order btrfs lists them: oldest first
  bases,    \* the bases that exist
  faults

vars == <<now, rows, handler, entries, runs, disk, bases, faults>>

Policy == [base : Bases, name : Names, schedule : Schedules, keep : Keeps,
           ro : BOOLEAN, enabled : BOOLEAN]
Snapshot == [base : Bases, name : Names, sec : 0 .. MaxClock, ro : BOOLEAN]
Run == [id : Ids, fired : 0 .. MaxClock,
        step : {"snapshot", "list", "delete", "over"},
        made : Snapshot \cup {None}, left : Seq(Bases \cup Snapshot)]

\* One more fault, within the bound.
Fault == faults < MaxFaults /\ faults' = faults + 1

----------------------------------------------------------------------------
(* Policies.                                                               *)

\* The row is stored; when that fails the answer is 500 and no row is left.
CreatePolicy(id) ==
  /\ handler[id] = "none"
  /\ \/ /\ \E p \in Policy : rows' = [rows EXCEPT ![id] = p]
        /\ handler' = [handler EXCEPT ![id] = "add"]
        /\ UNCHANGED faults
     \/ /\ Fault
        /\ handler' = [handler EXCEPT ![id] = "refused"]
        /\ UNCHANGED rows
  /\ UNCHANGED <<now, entries, runs, disk, bases>>

\* No schedule becomes "0 * * * *", which has five fields.
Parses(schedule) == schedule = "six"

\* Seeded bug: every policy gets a cron of its own.
AddPolicyAlone(id) ==
  /\ handler[id] = "add"
  /\ entries' = IF rows[id].enabled /\ Parses(rows[id].schedule)
                THEN {id} ELSE entries
  /\ handler' = [handler EXCEPT ![id] = "created"]
  /\ UNCHANGED <<now, rows, runs, disk, bases, faults>>

\* The error of AddPolicy is dropped; the answer is 201 whatever became of it.
AddPolicy(id) ==
  /\ handler[id] = "add"
  /\ entries' = IF rows[id].enabled /\ Parses(rows[id].schedule)
                THEN entries \cup {id} ELSE entries
  /\ handler' = [handler EXCEPT ![id] = "created"]
  /\ UNCHANGED <<now, rows, runs, disk, bases, faults>>

----------------------------------------------------------------------------
(* Runs.                                                                   *)

\* cron starts a goroutine for a policy that is due, once in a second at most.
Fire(id) ==
  /\ id \in entries
  /\ \A r \in runs : ~(r.id = id /\ r.fired = now)
  /\ runs' = runs \cup {[id |-> id, fired |-> now, step |-> "snapshot",
                         made |-> None, left |-> <<>>]}
  /\ UNCHANGED <<now, rows, handler, entries, disk, bases, faults>>

Becomes(r, new) == runs' = (runs \ {r}) \cup {new}

\* btrfs.SnapshotPath and the arguments of CreateSnapshot.
SnapshotOf(p) == [base |-> p.base, name |-> p.name, sec |-> now, ro |-> p.ro]

\* The snapshots already at that path.
At(s) == {i \in DOMAIN disk : /\ disk[i].base = s.base
                              /\ disk[i].name = s.name /\ disk[i].sec = s.sec}

\* Seeded bug: retention follows a snapshot that failed.
TakeSnapshotUnchecked(r) ==
  LET s == SnapshotOf(rows[r.id]) IN
  /\ r.step = "snapshot"
  /\ \/ /\ s.base \in bases /\ At(s) = {}
        /\ disk' = Append(disk, s)
        /\ Becomes(r, [r EXCEPT !.step = "list", !.made = s])
        /\ UNCHANGED faults
     \/ Fault /\ Becomes(r, [r EXCEPT !.step = "list"]) /\ UNCHANGED disk
  /\ UNCHANGED <<now, rows, handler, entries, bases>>

\* execute: when the path is taken, the command fails on a read-only snapshot
\* and nests the new one inside a writable one.
TakeSnapshot(r) ==
  LET s == SnapshotOf(rows[r.id]) IN
  /\ r.step = "snapshot"
  /\ \/ /\ s.base \in bases /\ At(s) = {}
        /\ disk' = Append(disk, s)
        /\ Becomes(r, [r EXCEPT !.step = "list", !.made = s])
        /\ UNCHANGED faults
     \/ /\ s.base \in bases /\ \E i \in At(s) : ~disk[i].ro
        /\ Becomes(r, [r EXCEPT !.step = "list"])
        /\ UNCHANGED <<disk, faults>>
     \/ /\ s.base \notin bases \/ \E i \in At(s) : disk[i].ro
        /\ Becomes(r, [r EXCEPT !.step = "over"])
        /\ UNCHANGED <<disk, faults>>
     \/ Fault /\ Becomes(r, [r EXCEPT !.step = "over"]) /\ UNCHANGED disk
  /\ UNCHANGED <<now, rows, handler, entries, bases>>

\* Seeded bug: what a corrected parser would hand to the loop of applyRetention.
ParseListCorrected(base) == SelectSeq(disk, LAMBDA s : s.base = base)

\* A row of `btrfs subvolume list -t -u` has four columns before the path.
\* parseList skips rows of fewer than nine fields, so it takes those whose path
\* has five words, and finds no "path " in them: what is left is the base.
ParseList(base) ==
  LET taken == {i \in DOMAIN disk : disk[i].name \in Wordy}
  IN  [i \in 1 .. Others + Cardinality(taken) |-> base]

Keep(p) == IF p.keep = 0 THEN DefaultKeep ELSE p.keep

\* applyRetention up to its loop: all but the first Keep rows go.
ApplyRetention(r) ==
  LET p == rows[r.id]
      snapshots == ParseList(p.base)
  IN
  /\ r.step = "list"
  /\ \/ /\ IF Len(snapshots) <= Keep(p)
           THEN Becomes(r, [r EXCEPT !.step = "over"])
           ELSE Becomes(r, [r EXCEPT !.step = "delete",
                                     !.left = SubSeq(snapshots, Keep(p) + 1, Len(snapshots))])
        /\ UNCHANGED faults
     \/ Fault /\ Becomes(r, [r EXCEPT !.step = "over"])
  /\ UNCHANGED <<now, rows, handler, entries, disk, bases>>

\* One round of the loop; errors are logged and the loop goes on.  A base with
\* snapshots inside is not deleted.
DeleteNext(r) ==
  LET path == Head(r.left)
      empty == \A i \in DOMAIN disk : disk[i].base # path
  IN
  /\ r.step = "delete"
  /\ \/ /\ bases' = IF empty THEN bases \ {path} ELSE bases
        /\ disk' = IF path \in Bases THEN disk ELSE SelectSeq(disk, LAMBDA s : s # path)
        /\ UNCHANGED faults
     \/ Fault /\ UNCHANGED <<disk, bases>>
  /\ Becomes(r, IF Len(r.left) = 1 THEN [r EXCEPT !.step = "over", !.left = <<>>]
                                   ELSE [r EXCEPT !.left = Tail(@)])
  /\ UNCHANGED <<now, rows, handler, entries>>

----------------------------------------------------------------------------
Tick ==
  /\ now < MaxClock /\ now' = now + 1
  /\ UNCHANGED <<rows, handler, entries, runs, disk, bases, faults>>

\* The server stops and is started again.  Nothing reads the policies table
\* into the scheduler.
Crash ==
  /\ Fault
  /\ entries' = {}
  /\ runs' = {r \in runs : r.step = "over"}
  /\ handler' = [id \in Ids |-> IF handler[id] = "add" THEN "lost" ELSE handler[id]]
  /\ UNCHANGED <<now, rows, disk, bases>>

Init ==
  /\ now = 0
  /\ rows = [id \in Ids |-> None] /\ handler = [id \in Ids |-> "none"]
  /\ entries = {} /\ runs = {} /\ disk = <<>> /\ bases = Bases /\ faults = 0

Next ==
  \/ Tick \/ Crash
  \/ \E id \in Ids : CreatePolicy(id) \/ AddPolicy(id) \/ Fire(id)
  \/ \E r \in runs : TakeSnapshot(r) \/ ApplyRetention(r) \/ DeleteNext(r)

Spec == Init /\ [][Next]_vars

----------------------------------------------------------------------------
(* Properties.                                                             *)

Handler == {"none", "add", "created", "refused", "lost"}

TypeOK ==
  /\ now \in 0 .. MaxClock
  /\ rows \in [Ids -> Policy \cup {None}]
  /\ handler \in [Ids -> Handler]
  /\ entries \subseteq Ids
  /\ \A r \in runs : r \in Run
  /\ disk \in Seq(Snapshot)
  /\ bases \subseteq Bases
  /\ faults \in 0 .. MaxFaults

\* Retention asks btrfs to delete the base itself (its rows lose their paths),
\* yet the subvolume a policy protects is never deleted: a run comes to its
\* retention only with a snapshot in the base.
BaseSurvives == bases = Bases

\* What a run has taken survives the retention of this and of every other run.
OwnSnapshotKept == \A r \in runs :
  r.made # None => \E i \in DOMAIN disk : disk[i] = r.made

Accepted == {id \in Ids :
  handler[id] = "created" /\ rows[id].enabled /\ Parses(rows[id].schedule)}

\* cron runs only policies that were answered with 201, are enabled and have a
\* schedule it can parse, and until the server is restarted it runs all of
\* them, whatever other policies are added meanwhile.  Other schedules are
\* dropped without a word (main.go:353, scheduler.go:47-66).
CronRunsAccepted ==
  entries \subseteq Accepted /\ (faults = 0 => entries = Accepted)

=============================================================================
