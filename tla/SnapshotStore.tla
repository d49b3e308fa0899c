--------------------------- MODULE SnapshotStore ---------------------------
(***************************************************************************)
(* The server's snapshot handlers (cmd/server/main.go: CreateSnapshot,     *)
(* DeleteSnapshot, handleRestore) over the two stores they keep in step by *)
(* hand: the btrfs filesystem and the snapshots table.                     *)
(*                                                                         *)
(* A handler is a goroutine that serves one request.  It is cut into one   *)
(* action per call to btrfs or to the database, since any number of other  *)
(* handlers, or a crash of the server, may come between two such calls.    *)
(***************************************************************************)
EXTENDS Naturals, FiniteSets, Btrfs

CONSTANTS
  Handlers,      \* the requests served at the same time
  Ids,           \* the uuids generateID returns, one per create request
  Subvolumes,    \* the subvolumes that requests snapshot
  RestorePaths,  \* paths a restore may name where nothing exists at first
  Names,         \* the snapshot_name values of requests
  MaxSecond,     \* bound: the clock runs from 0 to MaxSecond
  MaxFaults,     \* bound: crashes and failed database statements in a run
  FreshPaths     \* TRUE: clients never ask for one path twice

Places == Subvolumes \cup RestorePaths
Seconds == 0 .. MaxSecond

\* The paths SnapshotPath can return: <base>/.snapshots/<name>_<second>.
SnapPath == [base : Subvolumes, name : Names, sec : Seconds]
Path == Places \cup SnapPath

VARIABLES
  clock,     \* the wall clock, in the seconds SnapshotPath prints
  fs,        \* the btrfs filesystem
  request,   \* per id: the path and read-only flag its create request chose
  row,       \* per id: its row in the snapshots table
  handler,   \* per handler: where it is and what it works on
  faults,    \* crashes and failed statements so far
  wiped,     \* ids whose subvolume a delete handler has removed
  restored   \* restores answered with success: the id and the place

vars == <<clock, fs, request, row, handler, faults, wiped, restored>>

Request == [path : SnapPath, ro : BOOLEAN]
RowState == {"none", "active", "soft_deleted"}
Steps == {"idle", "snapshot", "insert", "delete", "erase", "restore", "record"}

\* Base names: of a source subvolume, and of a snapshot of it.
Leaf == Subvolumes \cup (Names \X Seconds)
Subvolume == [origin : Ids \cup {None}, ro : BOOLEAN, inside : SUBSET Leaf]

ASSUME StoreAssumption ==
  /\ MaxSecond \in Nat /\ MaxFaults \in Nat
  /\ FreshPaths \in BOOLEAN /\ IsFiniteSet(Handlers)
  /\ Places \cap SnapPath = {}
  /\ None \notin Ids \cup Places \cup Request \cup Subvolume

Task == [step : Steps, id : Ids \cup {None}, dest : Places \cup {None}]
Idle == [step |-> "idle", id |-> None, dest |-> None]

----------------------------------------------------------------------------
(* Helpers.                                                                *)

At(h, step) == handler[h].step = step
Become(h, task) == handler' = [handler EXCEPT ![h] = task]
Advance(h, step) == handler' = [handler EXCEPT ![h].step = step]
PathOf(id) == request[id].path

\* Seeded bug: the second is rounded up.
SnapshotPathRoundedUp(base, name) == [base |-> base, name |-> name, sec |-> clock + 1]

\* Local time cut to the second, so two calls in a second agree.
SnapshotPath(base, name) == [base |-> base, name |-> name, sec |-> clock]

\* The unique index on snapshot_path.  It covers soft-deleted rows as well.
PathTaken(path) == \E j \in Ids : row[j] # "none" /\ PathOf(j) = path

\* GetSnapshot finds the row of id: gorm hides soft-deleted rows.
Listed(id) == row[id] = "active"

\* A database statement that fails, within the bound.
StatementFails == faults < MaxFaults /\ faults' = faults + 1

----------------------------------------------------------------------------
(* CreateSnapshot: compute the path, snapshot, insert the row.             *)

BeginCreate(h, id, base, name, ro) ==
  /\ At(h, "idle") /\ request[id] = None
  /\ FreshPaths =>
       \A j \in Ids : request[j] # None => PathOf(j) # SnapshotPath(base, name)
  /\ request' = [request EXCEPT ![id] = [path |-> SnapshotPath(base, name), ro |-> ro]]
  /\ Become(h, [step |-> "snapshot", id |-> id, dest |-> None])
  /\ UNCHANGED <<clock, fs, row, faults, wiped, restored>>

\* Seeded bug: the read-only flag of the request is lost.
SnapshotSourceWritable(h) ==
  LET id == handler[h].id
      base == PathOf(id).base
  IN
  /\ At(h, "snapshot")
  /\ CanSnapshot(fs, base, PathOf(id), base)
  /\ fs' = AfterSnapshot(fs, PathOf(id), base, NewSubvolume(id, FALSE))
  /\ Advance(h, "insert")
  /\ UNCHANGED <<clock, request, row, faults, wiped, restored>>

\* Seeded bug: the error of btrfs is dropped, the row is stored regardless.
SnapshotSourceUnchecked(h) ==
  LET id == handler[h].id
      base == PathOf(id).base
  IN
  /\ At(h, "snapshot")
  /\ \/ /\ CanSnapshot(fs, base, PathOf(id), base)
        /\ fs' = AfterSnapshot(fs, PathOf(id), base, NewSubvolume(id, request[id].ro))
     \/ UNCHANGED fs
  /\ Advance(h, "insert")
  /\ UNCHANGED <<clock, request, row, faults, wiped, restored>>

SnapshotSource(h) ==
  LET id == handler[h].id
      base == PathOf(id).base
  IN
  /\ At(h, "snapshot")
  /\ \/ /\ CanSnapshot(fs, base, PathOf(id), base)
        /\ fs' = AfterSnapshot(fs, PathOf(id), base, NewSubvolume(id, request[id].ro))
        /\ Advance(h, "insert")
     \/ Become(h, Idle) /\ UNCHANGED fs   \* btrfs failed, for this or any other reason
  /\ UNCHANGED <<clock, request, row, faults, wiped, restored>>

\* Seeded bug: the handler answers without storing the row.
InsertRowForgotten(h) ==
  /\ At(h, "insert")
  /\ Become(h, Idle)
  /\ UNCHANGED <<clock, fs, request, row, faults, wiped, restored>>

\* A failed insert returns the error and leaves the subvolume where it is.
InsertRow(h) ==
  LET id == handler[h].id IN
  /\ At(h, "insert")
  /\ \/ /\ ~PathTaken(PathOf(id))
        /\ row' = [row EXCEPT ![id] = "active"]
        /\ UNCHANGED faults
     \/ PathTaken(PathOf(id)) /\ UNCHANGED <<row, faults>>
     \/ StatementFails /\ UNCHANGED row
  /\ Become(h, Idle)
  /\ UNCHANGED <<clock, fs, request, wiped, restored>>

----------------------------------------------------------------------------
(* DeleteSnapshot: read the row, delete the subvolume, erase the row.      *)

BeginDelete(h, id) ==
  /\ At(h, "idle") /\ Listed(id)
  /\ Become(h, [step |-> "delete", id |-> id, dest |-> None])
  /\ UNCHANGED <<clock, fs, request, row, faults, wiped, restored>>

\* Seeded bug: the error of btrfs is dropped, the row is erased regardless.
DeleteSubvolumeUnchecked(h) ==
  LET id == handler[h].id IN
  /\ At(h, "delete")
  /\ \/ CanDelete(fs, PathOf(id)) /\ fs' = AfterDelete(fs, PathOf(id))
     \/ UNCHANGED fs
  /\ wiped' = wiped \cup {id}
  /\ Advance(h, "erase")
  /\ UNCHANGED <<clock, request, row, faults, restored>>

\* Seeded bug: every snapshot of that subvolume and name goes.
DeleteSubvolumeAndSiblings(h) ==
  LET path == PathOf(handler[h].id) IN
  /\ At(h, "delete")
  /\ CanDelete(fs, path)
  /\ fs' = [p \in Path |->
              IF p \in SnapPath /\ p.base = path.base /\ p.name = path.name
              THEN None ELSE fs[p]]
  /\ wiped' = wiped \cup {handler[h].id}
  /\ Advance(h, "erase")
  /\ UNCHANGED <<clock, request, row, faults, restored>>

DeleteSubvolume(h) ==
  LET id == handler[h].id IN
  /\ At(h, "delete")
  /\ \/ /\ CanDelete(fs, PathOf(id))
        /\ fs' = AfterDelete(fs, PathOf(id))
        /\ wiped' = wiped \cup {id}
        /\ Advance(h, "erase")
     \/ Become(h, Idle) /\ UNCHANGED <<fs, wiped>>
  /\ UNCHANGED <<clock, request, row, faults, restored>>

\* Seeded bug: the handler answers without erasing the row.
EraseRowForgotten(h) ==
  /\ At(h, "erase")
  /\ Become(h, Idle)
  /\ UNCHANGED <<clock, fs, request, row, faults, wiped, restored>>

\* The error of the database call is dropped: the answer is "deleted" anyway.
EraseRow(h) ==
  LET id == handler[h].id IN
  /\ At(h, "erase")
  /\ \/ row' = [row EXCEPT ![id] = "soft_deleted"] /\ UNCHANGED faults
     \/ StatementFails /\ UNCHANGED row
  /\ Become(h, Idle)
  /\ UNCHANGED <<clock, fs, request, wiped, restored>>

----------------------------------------------------------------------------
(* handleRestore: read the row, snapshot the snapshot, record the event.   *)

BeginRestore(h, id, dest) ==
  /\ At(h, "idle") /\ Listed(id)
  /\ Become(h, [step |-> "restore", id |-> id, dest |-> dest])
  /\ UNCHANGED <<clock, fs, request, row, faults, wiped, restored>>

\* Seeded bug: the error of btrfs is dropped, success is answered regardless.
RestoreSubvolumeUnchecked(h) ==
  LET source == PathOf(handler[h].id)
      dest == handler[h].dest
      leaf == <<source.name, source.sec>>
  IN
  /\ At(h, "restore")
  /\ \/ /\ CanSnapshot(fs, source, dest, leaf)
        /\ fs' = AfterSnapshot(fs, dest, leaf, NewSubvolume(fs[source].origin, FALSE))
     \/ UNCHANGED fs
  /\ Advance(h, "record")
  /\ UNCHANGED <<clock, request, row, faults, wiped, restored>>

RestoreSubvolume(h) ==
  LET source == PathOf(handler[h].id)
      dest == handler[h].dest
      leaf == <<source.name, source.sec>>
  IN
  /\ At(h, "restore")
  /\ \/ /\ CanSnapshot(fs, source, dest, leaf)
        /\ fs' = AfterSnapshot(fs, dest, leaf, NewSubvolume(fs[source].origin, FALSE))
        /\ Advance(h, "record")
     \/ Become(h, Idle) /\ UNCHANGED fs
  /\ UNCHANGED <<clock, request, row, faults, wiped, restored>>

RecordRestore(h) ==
  /\ At(h, "record")
  /\ restored' = restored \cup {[id |-> handler[h].id, dest |-> handler[h].dest]}
  /\ Become(h, Idle)
  /\ UNCHANGED <<clock, fs, request, row, faults, wiped>>

\* "snapshot not found": DeleteSnapshot and handleRestore change nothing.
NotFound(h, id) == At(h, "idle") /\ ~Listed(id) /\ UNCHANGED vars

----------------------------------------------------------------------------
(* The environment.                                                        *)

Tick ==
  /\ clock < MaxSecond /\ clock' = clock + 1
  /\ UNCHANGED <<fs, request, row, handler, faults, wiped, restored>>

\* The process dies and is started again: handlers are gone, both stores stay.
Crash ==
  /\ StatementFails
  /\ handler' = [h \in Handlers |-> Idle]
  /\ UNCHANGED <<clock, fs, request, row, wiped, restored>>

Init ==
  /\ clock = 0
  /\ fs = [p \in Path |-> IF p \in Subvolumes THEN NewSubvolume(None, FALSE) ELSE None]
  /\ request = [id \in Ids |-> None]
  /\ row = [id \in Ids |-> "none"]
  /\ handler = [h \in Handlers |-> Idle]
  /\ faults = 0
  /\ wiped = {} /\ restored = {}

\* One request being served, after its first action.
Serve(h) ==
  \/ SnapshotSource(h) \/ InsertRow(h)
  \/ DeleteSubvolume(h) \/ EraseRow(h)
  \/ RestoreSubvolume(h) \/ RecordRestore(h)

Accept(h, id) ==
  \/ \E base \in Subvolumes, name \in Names, ro \in BOOLEAN :
       BeginCreate(h, id, base, name, ro)
  \/ BeginDelete(h, id)
  \/ NotFound(h, id)
  \/ \E dest \in Places : BeginRestore(h, id, dest)

Next ==
  \/ \E h \in Handlers : Serve(h) \/ \E id \in Ids : Accept(h, id)
  \/ Tick
  \/ Crash

Spec == Init /\ [][Next]_vars

\* A goroutine that is not blocked keeps running, whatever the others do.
FairSpec == Spec /\ \A h \in Handlers : WF_vars(Serve(h))

----------------------------------------------------------------------------
(* Invariants.                                                             *)

\* Every variable keeps its type; a busy handler works on a requested id and,
\* when it restores, on a place.
TypeOK ==
  /\ clock \in Seconds /\ faults \in 0 .. MaxFaults
  /\ fs \in [Path -> Subvolume \cup {None}]
  /\ request \in [Ids -> Request \cup {None}]
  /\ row \in [Ids -> RowState]
  /\ handler \in [Handlers -> Task]
  /\ wiped \subseteq Ids
  /\ restored \subseteq [id : Ids, dest : Places]
  /\ \A h \in Handlers :
       /\ At(h, "idle") \/ handler[h].id \in Ids
       /\ handler[h].step \in {"restore", "record"} => handler[h].dest \in Places
       /\ At(h, "idle") \/ request[handler[h].id] # None
  /\ \A id \in Ids : row[id] # "none" => request[id] # None

Working(id, step) == \E h \in Handlers : At(h, step) /\ handler[h].id = id

\* What a restore leaves when dest already exists: a snapshot inside it.
LeafOf(id) == <<PathOf(id).name, PathOf(id).sec>>

\* A listed snapshot without a subvolume is one whose DeleteSnapshot call is
\* between btrfs and the database; only a crash or a failed statement makes
\* that last (main.go erases the row after the data, never before).
DanglingOnlyWhileDeleting ==
  \A id \in Ids :
    Listed(id) /\ ~Exists(fs, PathOf(id)) =>
      id \in wiped /\ (faults = 0 => Working(id, "erase"))

\* The database knows the subvolume at p, or the CreateSnapshot call that made it
\* is about to store it.
Known(p) ==
  \E id \in Ids :
    request[id] # None /\ PathOf(id) = p /\ (Listed(id) \/ Working(id, "insert"))

Orphans == {p \in SnapPath : Exists(fs, p) /\ ~Known(p)}

\* While nothing fails, every subvolume under .snapshots is known.
NoOrphans == FreshPaths /\ faults = 0 => Orphans = {}

\* Space leaks only through faults, and no fault leaks more than one subvolume per
\* request being served: concurrent creates, deletes and restores never do.
OrphansCostFaults ==
  FreshPaths => Cardinality(Orphans) <= faults * Cardinality(Handlers)

\* A snapshot the API has stopped listing takes no more space, crashes and
\* concurrent deletes of the same id included.
DeletedMeansGone ==
  FreshPaths =>
    \A id \in Ids : row[id] = "soft_deleted" => ~Exists(fs, PathOf(id))

\* What lies at the path of a listed snapshot was made by its own create
\* request, and is read-only exactly when the row says so.
ListedNamesOwnSubvolume ==
  FreshPaths =>
    \A id \in Ids :
      Listed(id) /\ Exists(fs, PathOf(id)) =>
        /\ fs[PathOf(id)].origin = id
        /\ fs[PathOf(id)].ro = request[id].ro

Delivered(id, dest) ==
  /\ Exists(fs, dest) /\ ~fs[dest].ro
  /\ fs[dest].origin = id \/ LeafOf(id) \in fs[dest].inside

\* Once handleRestore has answered success, the place holds a writable copy of
\* that snapshot, at the path itself or nested in what was there before, even
\* when the snapshot was deleted while the restore ran.
RestoreDelivers == FreshPaths => \A r \in restored : Delivered(r.id, r.dest)

\* Two requests that chose one path never both get a row, however their calls
\* interleave (the unique index, the only guard the handlers have).
OneRowPerPath ==
  \A i, j \in Ids :
    row[i] # "none" /\ row[j] # "none" /\ PathOf(i) = PathOf(j) => i = j

----------------------------------------------------------------------------
(* The inductive strengthenings of these invariants.                       *)

Creating(h) == handler[h].step \in {"snapshot", "insert"}
Using(h) == handler[h].step \in {"delete", "erase", "restore", "record"}

\* With or without fresh paths: one CreateSnapshot call per id, only before the
\* row exists; whoever is about to insert has made a subvolume, and once that
\* can be gone, another row holds the path.
StoreInv ==
  /\ \A h \in Handlers : Creating(h) => row[handler[h].id] = "none"
  /\ \A g, h \in Handlers :
       Creating(g) /\ Creating(h) /\ handler[g].id = handler[h].id => g = h
  /\ \A h \in Handlers : Using(h) => row[handler[h].id] # "none"
  /\ \A h \in Handlers :
       At(h, "insert") =>
         \/ Exists(fs, PathOf(handler[h].id))
         \/ PathTaken(PathOf(handler[h].id))
  /\ \A h \in Handlers : At(h, "erase") => handler[h].id \in wiped
  /\ OneRowPerPath
  /\ DanglingOnlyWhileDeleting

\* With fresh paths: a path belongs to one request, and only a subvolume made
\* for that request is ever found there.
OwnerInv ==
  FreshPaths =>
    /\ \A i, j \in Ids :
         request[i] # None /\ request[j] # None /\ PathOf(i) = PathOf(j) => i = j
    /\ \A p \in SnapPath : Exists(fs, p) =>
         /\ fs[p].origin \in Ids /\ request[fs[p].origin] # None
         /\ PathOf(fs[p].origin) = p
         /\ fs[p].ro = request[fs[p].origin].ro
    /\ \A h \in Handlers : At(h, "snapshot") => ~Exists(fs, PathOf(handler[h].id))
    /\ \A h \in Handlers : At(h, "insert") => Exists(fs, PathOf(handler[h].id))
    /\ \A h \in Handlers : At(h, "erase") => ~Exists(fs, PathOf(handler[h].id))
    /\ DeletedMeansGone
    /\ NoOrphans

\* Restored places are writable, and a restore about to answer has delivered.
RestoreInv ==
  /\ \A q \in Places : Exists(fs, q) => ~fs[q].ro
  /\ \A r \in restored : request[r.id] # None
  /\ FreshPaths =>
       \A h \in Handlers :
         At(h, "record") => Delivered(handler[h].id, handler[h].dest)
  /\ RestoreDelivers

----------------------------------------------------------------------------
(* Action, refinement and liveness properties.                             *)

\* A subvolume disappears only through a DeleteSnapshot call for the very
\* snapshot it was made for; subvolumes outside .snapshots never do.
LosesOnlyWhatWasDeleted ==
  \A p \in Path : Exists(fs, p) /\ fs'[p] = None =>
    /\ p \in SnapPath
    /\ \E id \in Ids :
         Working(id, "delete") /\ PathOf(id) = p /\ fs[p].origin = id

DeletesOwnData == [][FreshPaths => LosesOnlyWhatWasDeleted]_vars

\* The phase of an id, for SnapshotLifecycle.  "astray" is no phase of it:
\* unlisted with the data still there, or listed with the data of another.
PhaseOf(id) ==
  CASE row[id] = "none" -> "unborn"
    [] Listed(id) /\ ~Exists(fs, PathOf(id)) -> "dangling"
    [] Listed(id) /\ Exists(fs, PathOf(id)) /\ fs[PathOf(id)].origin = id -> "available"
    [] row[id] = "soft_deleted" /\ ~Exists(fs, PathOf(id)) -> "removed"
    [] OTHER -> "astray"

Lifecycle == INSTANCE SnapshotLifecycle WITH phase <- [id \in Ids |-> PhaseOf(id)]

\* The handlers implement the promise of SnapshotLifecycle when no path is
\* asked for twice.
ImplementsLifecycle == Lifecycle!Spec

\* Unless something fails, a snapshot whose data a delete has removed is
\* unlisted in the end, even when two requests chose its path.
DanglingIsCleared ==
  \A id \in Ids : Listed(id) /\ id \in wiped ~> ~Listed(id) \/ faults > 0

=============================================================================
