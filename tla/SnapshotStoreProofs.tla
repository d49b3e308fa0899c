------------------------ MODULE SnapshotStoreProofs ------------------------
(***************************************************************************)
(* What SnapshotStore guarantees for any number of handlers, ids, paths,   *)
(* seconds and faults.                                                     *)
(***************************************************************************)
EXTENDS SnapshotStore, FiniteSetTheorems, TLAPS

\* A path that a request may have chosen is a path, and its subvolume is not
\* one of the places restores write to.
LEMMA PathTypes ==
  ASSUME TypeOK, NEW id \in Ids, request[id] # None
  PROVE  /\ request[id] \in Request
         /\ PathOf(id) \in SnapPath /\ PathOf(id) \in Path
         /\ PathOf(id).base \in Subvolumes /\ PathOf(id).name \in Names
         /\ PathOf(id).sec \in Seconds
         /\ PathOf(id) \notin Places
BY StoreAssumption DEF TypeOK, PathOf, Request, SnapPath, Path

LEMMA NewSubvolumeType ==
  ASSUME NEW origin \in Ids \cup {None}, NEW ro \in BOOLEAN
  PROVE  /\ NewSubvolume(origin, ro) \in Subvolume
         /\ NewSubvolume(origin, ro).origin = origin
         /\ NewSubvolume(origin, ro).ro = ro
BY DEF NewSubvolume, Subvolume

\* Subvolume a is b, except that more may be nested inside it.
SameData(a, b) == a.origin = b.origin /\ a.ro = b.ro /\ b.inside \subseteq a.inside

\* A snapshot command leaves a well-formed filesystem, touches its destination
\* only, never makes anything disappear, and only adds a nested subvolume where
\* there already was one.
LEMMA SnapshotKeeps ==
  ASSUME fs \in [Path -> Subvolume \cup {None}],
         NEW dest \in Path, NEW leaf \in Leaf, NEW subvol \in Subvolume,
         NEW after, after = AfterSnapshot(fs, dest, leaf, subvol)
  PROVE  /\ after \in [Path -> Subvolume \cup {None}]
         /\ \A p \in Path : p # dest => after[p] = fs[p]
         /\ \A p \in Path : Exists(fs, p) => Exists(after, p) /\ SameData(after[p], fs[p])
         /\ Exists(after, dest)
         /\ Exists(fs, dest) => leaf \in after[dest].inside
         /\ ~Exists(fs, dest) => after[dest] = subvol
<1>1. CASE Exists(fs, dest)
  <2>1. fs[dest] \in Subvolume
    BY <1>1 DEF Exists
  <2>2. after = [fs EXCEPT ![dest] = [fs[dest] EXCEPT !.inside = @ \cup {leaf}]]
    BY <1>1, <2>1 DEF AfterSnapshot
  <2>3. after[dest] = [fs[dest] EXCEPT !.inside = @ \cup {leaf}]
    BY <2>2
  <2>4. /\ after[dest].origin = fs[dest].origin /\ after[dest].ro = fs[dest].ro
        /\ after[dest].inside = fs[dest].inside \cup {leaf}
        /\ after[dest] \in Subvolume
    BY <2>1, <2>3 DEF Subvolume
  <2>5. Exists(after, dest)
    BY <2>4, StoreAssumption DEF Exists
  <2> QED BY <1>1, <2>2, <2>4, <2>5 DEF Exists, SameData
<1>2. CASE ~Exists(fs, dest)
  <2>1. after = [fs EXCEPT ![dest] = subvol]
    BY <1>2 DEF AfterSnapshot
  <2> QED BY <1>2, <2>1, StoreAssumption DEF Exists, SameData
<1> QED BY <1>1, <1>2

\* A delete command touches its argument only.
LEMMA DeleteKeeps ==
  ASSUME fs \in [Path -> Subvolume \cup {None}], NEW path \in Path,
         NEW after, after = AfterDelete(fs, path)
  PROVE  /\ ~Exists(after, path)
         /\ \A p \in Path : p # path => after[p] = fs[p]
BY DEF AfterDelete, Exists

\* The type invariant: every action keeps every variable in its type.
THEOREM TypeCorrect == Spec => []TypeOK
<1>1. Init => TypeOK
  <2> SUFFICES ASSUME Init PROVE TypeOK
    OBVIOUS
  <2>1. NewSubvolume(None, FALSE) \in Subvolume
    BY NewSubvolumeType
  <2>2. fs \in [Path -> Subvolume \cup {None}]
    BY <2>1 DEF Init
  <2>3. handler \in [Handlers -> Task] /\ \A h \in Handlers : At(h, "idle")
    BY DEF Init, Task, Idle, Steps, At
  <2>4. \A h \in Handlers : handler[h].step \notin {"restore", "record"}
    BY <2>3 DEF At
  <2>5. clock \in Seconds /\ faults \in 0 .. MaxFaults
    BY StoreAssumption DEF Init, Seconds
  <2>6. row \in [Ids -> RowState] /\ \A id \in Ids : row[id] = "none"
    BY DEF Init, RowState
  <2> QED
    BY <2>2, <2>3, <2>4, <2>5, <2>6 DEF Init, TypeOK
<1>2. TypeOK /\ [Next]_vars => TypeOK'
  <2> SUFFICES ASSUME TypeOK, [Next]_vars PROVE TypeOK'
    OBVIOUS
  <2> USE StoreAssumption
  <2>1. ASSUME NEW h \in Handlers, NEW id \in Ids, NEW base \in Subvolumes,
               NEW name \in Names, NEW ro \in BOOLEAN, BeginCreate(h, id, base, name, ro)
        PROVE  TypeOK'
    <3>1. [path |-> SnapshotPath(base, name), ro |-> ro] \in Request
      BY DEF SnapshotPath, Request, SnapPath, TypeOK
    <3>2. [path |-> SnapshotPath(base, name), ro |-> ro] # None
      BY <3>1
    <3> QED
      BY <2>1, <3>1, <3>2 DEF BeginCreate, TypeOK, Become, Task, Steps, At
  <2>2. ASSUME NEW h \in Handlers, SnapshotSource(h) PROVE TypeOK'
    <3> DEFINE id == handler[h].id
    <3>1. id \in Ids /\ request[id] # None
      BY <2>2 DEF SnapshotSource, TypeOK, At
    <3>2. PathOf(id) \in Path /\ PathOf(id).base \in Leaf /\ request[id].ro \in BOOLEAN
      BY <3>1, PathTypes DEF Leaf, Request
    <3>3. AfterSnapshot(fs, PathOf(id), PathOf(id).base, NewSubvolume(id, request[id].ro))
            \in [Path -> Subvolume \cup {None}]
      BY <3>1, <3>2, NewSubvolumeType, SnapshotKeeps DEF TypeOK
    <3> QED
      BY <2>2, <3>3 DEF SnapshotSource, TypeOK, Become, Advance, Task, Steps, At, Idle
  <2>3. ASSUME NEW h \in Handlers, InsertRow(h) PROVE TypeOK'
    BY <2>3 DEF InsertRow, StatementFails, TypeOK, Become, Task, Steps, At, Idle, RowState
  <2>4. ASSUME NEW h \in Handlers, NEW id \in Ids, BeginDelete(h, id) PROVE TypeOK'
    BY <2>4 DEF BeginDelete, Listed, TypeOK, Become, Task, Steps, At
  <2>5. ASSUME NEW h \in Handlers, DeleteSubvolume(h) PROVE TypeOK'
    BY <2>5 DEF DeleteSubvolume, AfterDelete, TypeOK, Become, Advance, Task, Steps, At, Idle
  <2>6. ASSUME NEW h \in Handlers, EraseRow(h) PROVE TypeOK'
    BY <2>6 DEF EraseRow, StatementFails, TypeOK, Become, Task, Steps, At, Idle, RowState
  <2>7. ASSUME NEW h \in Handlers, NEW id \in Ids, NEW dest \in Places,
               BeginRestore(h, id, dest)
        PROVE  TypeOK'
    BY <2>7 DEF BeginRestore, Listed, TypeOK, Become, Task, Steps, At
  <2>8. ASSUME NEW h \in Handlers, RestoreSubvolume(h) PROVE TypeOK'
    <3> DEFINE id == handler[h].id
               dest == handler[h].dest
               source == PathOf(id)
    <3>1. id \in Ids /\ request[id] # None /\ dest \in Places
      BY <2>8 DEF RestoreSubvolume, TypeOK, At
    <3>2. /\ dest \in Path /\ source \in Path
          /\ <<source.name, source.sec>> \in Leaf
      BY <3>1, PathTypes DEF Leaf, Path
    <3>3. Exists(fs, source) => fs[source].origin \in Ids \cup {None}
      BY <3>2 DEF Exists, TypeOK, Subvolume
    <3>4. Exists(fs, source) =>
            AfterSnapshot(fs, dest, <<source.name, source.sec>>,
                          NewSubvolume(fs[source].origin, FALSE))
              \in [Path -> Subvolume \cup {None}]
      BY <3>2, <3>3, NewSubvolumeType, SnapshotKeeps DEF TypeOK
    <3>5. fs' \in [Path -> Subvolume \cup {None}]
      BY <2>8, <3>4 DEF RestoreSubvolume, CanSnapshot, TypeOK
    <3>6. \/ handler' = [handler EXCEPT ![h].step = "record"]
          \/ handler' = [handler EXCEPT ![h] = Idle]
      BY <2>8 DEF RestoreSubvolume, Advance, Become
    <3> QED
      BY <2>8, <3>5, <3>6 DEF RestoreSubvolume, TypeOK, Task, Steps, At, Idle
  <2>9. ASSUME NEW h \in Handlers, RecordRestore(h) PROVE TypeOK'
    BY <2>9 DEF RecordRestore, TypeOK, Become, Task, Steps, At, Idle
  <2>10. CASE Tick
    BY <2>10 DEF Tick, TypeOK, Seconds, At
  <2>11. CASE Crash
    BY <2>11 DEF Crash, StatementFails, TypeOK, Task, Steps, At, Idle
  <2>12. CASE UNCHANGED vars
    BY <2>12 DEF vars, TypeOK, At
  <2> QED
    BY <2>1, <2>2, <2>3, <2>4, <2>5, <2>6, <2>7, <2>8, <2>9, <2>10, <2>11, <2>12
    DEF Next, Serve, Accept, NotFound
<1> QED BY <1>1, <1>2, PTL DEF Spec

----------------------------------------------------------------------------
(* StoreInv, with or without fresh paths.                                  *)

\* What SnapshotSource does to the filesystem: its path is there afterwards if
\* the handler goes on, and nothing else changes.
LEMMA SourceEffect ==
  ASSUME TypeOK, NEW h \in Handlers, SnapshotSource(h), NEW path,
         path = PathOf(handler[h].id)
  PROVE  /\ path \in SnapPath /\ path \in Path
         /\ handler[h].id \in Ids /\ request[handler[h].id] # None
         /\ \A p \in Path : p # path => fs'[p] = fs[p]
         /\ \A p \in Path : Exists(fs, p) => Exists(fs', p) /\ SameData(fs'[p], fs[p])
         /\ \/ At(h, "insert")' /\ Exists(fs', path)
            \/ At(h, "idle")' /\ UNCHANGED fs
         /\ ~Exists(fs, path) /\ Exists(fs', path) =>
              /\ At(h, "insert")'
              /\ fs'[path].origin = handler[h].id
              /\ fs'[path].ro = request[handler[h].id].ro
<1> DEFINE id == handler[h].id
           subvol == NewSubvolume(id, request[id].ro)
<1>1. id \in Ids /\ request[id] # None
  BY DEF SnapshotSource, TypeOK, At
<1>2. /\ path \in SnapPath /\ path \in Path /\ path.base \in Leaf
      /\ request[id].ro \in BOOLEAN
  BY <1>1, PathTypes DEF Leaf, Request
<1>3. CASE fs' = AfterSnapshot(fs, path, path.base, subvol) /\ Advance(h, "insert")
  <2>1. At(h, "insert")'
    BY <1>3 DEF Advance, At, TypeOK, Task
  <2>2. /\ subvol \in Subvolume /\ subvol.origin = id /\ subvol.ro = request[id].ro
    BY <1>1, <1>2, NewSubvolumeType
  <2> HIDE DEF subvol
  <2> QED BY <1>1, <1>2, <1>3, <2>1, <2>2, SnapshotKeeps DEF TypeOK
<1>4. CASE Become(h, Idle) /\ UNCHANGED fs
  <2>1. At(h, "idle")'
    BY <1>4 DEF Become, At, Idle, TypeOK
  <2> QED BY <1>1, <1>2, <1>4, <2>1 DEF Exists, SameData
<1> QED BY <1>3, <1>4 DEF SnapshotSource

\* What RestoreSubvolume does to the filesystem: only its destination changes,
\* and it has delivered if the handler goes on.
LEMMA RestoreEffect ==
  ASSUME TypeOK, NEW h \in Handlers, RestoreSubvolume(h), NEW dest,
         dest = handler[h].dest
  PROVE  /\ dest \in Places /\ dest \in Path
         /\ handler[h].id \in Ids /\ request[handler[h].id] # None
         /\ \A p \in Path : p # dest => fs'[p] = fs[p]
         /\ \A p \in Path : Exists(fs, p) => Exists(fs', p) /\ SameData(fs'[p], fs[p])
         /\ \/ /\ At(h, "record")'
               /\ Exists(fs', dest)
               /\ Exists(fs, PathOf(handler[h].id))
               /\ Exists(fs, dest) => LeafOf(handler[h].id) \in fs'[dest].inside
               /\ ~Exists(fs, dest) =>
                    /\ fs'[dest].origin = fs[PathOf(handler[h].id)].origin
                    /\ ~fs'[dest].ro
            \/ At(h, "idle")' /\ UNCHANGED fs
<1> DEFINE id == handler[h].id
           source == PathOf(id)
           subvol == NewSubvolume(fs[source].origin, FALSE)
<1>1. id \in Ids /\ request[id] # None /\ dest \in Places
  BY DEF RestoreSubvolume, TypeOK, At
<1>2. dest \in Path /\ source \in Path /\ LeafOf(id) \in Leaf
  BY <1>1, PathTypes DEF Leaf, LeafOf, Path
<1>3. CASE /\ CanSnapshot(fs, source, dest, LeafOf(id))
           /\ fs' = AfterSnapshot(fs, dest, LeafOf(id), subvol)
           /\ Advance(h, "record")
  <2>1. At(h, "record")'
    BY <1>3 DEF Advance, At, TypeOK, Task
  <2>2. Exists(fs, source)
    BY <1>3 DEF CanSnapshot
  <2>3. fs[source].origin \in Ids \cup {None}
    BY <1>2, <2>2 DEF Exists, TypeOK, Subvolume
  <2>4. subvol \in Subvolume /\ subvol.origin = fs[source].origin /\ ~subvol.ro
    BY <2>3, NewSubvolumeType
  <2>5. /\ \A p \in Path : p # dest => fs'[p] = fs[p]
        /\ \A p \in Path : Exists(fs, p) => Exists(fs', p) /\ SameData(fs'[p], fs[p])
        /\ Exists(fs', dest)
        /\ Exists(fs, dest) => LeafOf(id) \in fs'[dest].inside
        /\ ~Exists(fs, dest) => fs'[dest] = subvol
    <3> HIDE DEF subvol
    <3> QED BY <1>2, <1>3, <2>4, SnapshotKeeps DEF TypeOK
  <2> QED BY <1>1, <1>2, <2>1, <2>2, <2>4, <2>5
<1>4. CASE Become(h, Idle) /\ UNCHANGED fs
  <2>1. At(h, "idle")'
    BY <1>4 DEF Become, At, Idle, TypeOK
  <2> QED BY <1>1, <1>2, <1>4, <2>1 DEF Exists, SameData
<1> QED BY <1>3, <1>4 DEF RestoreSubvolume, LeafOf

\* A handler that starts to use a stored id disturbs nothing.
LEMMA HandlerStarts ==
  ASSUME TypeOK, StoreInv, NEW h \in Handlers, NEW id \in Ids,
         handler[h].step = "idle", row[id] # "none",
         handler'[h].step \in {"delete", "restore"}, handler'[h].id = id,
         \A g \in Handlers : g # h => handler'[g] = handler[g],
         UNCHANGED <<fs, request, row, faults, wiped>>
  PROVE  StoreInv'
<1>1. DanglingOnlyWhileDeleting' /\ OneRowPerPath'
  BY DEF StoreInv, DanglingOnlyWhileDeleting, OneRowPerPath, Working, At, Exists, PathOf, Listed
<1>2. \A g \in Handlers : At(g, "insert")' =>
        Exists(fs, PathOf(handler[g].id))' \/ PathTaken(PathOf(handler[g].id))'
  BY DEF StoreInv, PathTaken, Exists, PathOf, At
<1> QED BY <1>1, <1>2 DEF StoreInv, Creating, Using, At

\* A handler other than one in the middle of a delete may stop at any time.
LEMMA HandlerStops ==
  ASSUME TypeOK, StoreInv, NEW h \in Handlers,
         handler[h].step # "erase", handler'[h].step = "idle",
         \A g \in Handlers : g # h => handler'[g] = handler[g],
         UNCHANGED <<fs, request, row, faults, wiped>>
  PROVE  StoreInv'
<1>1. DanglingOnlyWhileDeleting' /\ OneRowPerPath'
  BY DEF StoreInv, DanglingOnlyWhileDeleting, OneRowPerPath, Working, At, Exists, PathOf, Listed
<1>2. \A g \in Handlers : At(g, "insert")' =>
        Exists(fs, PathOf(handler[g].id))' \/ PathTaken(PathOf(handler[g].id))'
  BY DEF StoreInv, PathTaken, Exists, PathOf, At
<1> QED BY <1>1, <1>2 DEF StoreInv, Creating, Using, At

\* Every listed snapshot whose subvolume is gone has its delete call between
\* btrfs and the database, unless something failed; no two rows share a path.
THEOREM StoreInvariant == Spec => []StoreInv
<1>1. Init => StoreInv
  <2> SUFFICES ASSUME Init PROVE StoreInv
    OBVIOUS
  <2>1. \A h \in Handlers :
          ~Creating(h) /\ ~Using(h) /\ ~At(h, "insert") /\ ~At(h, "erase")
    BY DEF Init, Idle, At, Creating, Using
  <2>2. \A id \in Ids : row[id] = "none" /\ ~Listed(id)
    BY DEF Init, Listed
  <2>3. OneRowPerPath /\ DanglingOnlyWhileDeleting
    BY <2>2 DEF OneRowPerPath, DanglingOnlyWhileDeleting
  <2> QED
    BY <2>1, <2>3 DEF StoreInv
<1>2. TypeOK /\ TypeOK' /\ StoreInv /\ [Next]_vars => StoreInv'
  <2> SUFFICES ASSUME TypeOK, TypeOK', StoreInv, [Next]_vars PROVE StoreInv'
    OBVIOUS
  <2> USE DEF Creating, Using, At, PathOf, Listed
  <2>1. ASSUME NEW h \in Handlers, NEW id \in Ids, NEW base \in Subvolumes,
               NEW name \in Names, NEW ro \in BOOLEAN, BeginCreate(h, id, base, name, ro)
        PROVE  StoreInv'
    <3>1. row[id] = "none" /\ \A g \in Handlers : At(g, "idle") \/ handler[g].id # id
      BY <2>1 DEF BeginCreate, TypeOK
    <3>2. \A j \in Ids : j # id => request'[j] = request[j]
      BY <2>1 DEF BeginCreate, TypeOK
    <3>3. \A g \in Handlers : g # h => handler'[g] = handler[g]
      BY <2>1 DEF BeginCreate, Become, TypeOK
    <3>4. handler'[h].step = "snapshot" /\ handler'[h].id = id
      BY <2>1 DEF BeginCreate, Become, TypeOK
    <3>5. UNCHANGED <<fs, row, faults, wiped>>
      BY <2>1 DEF BeginCreate
    <3>6. DanglingOnlyWhileDeleting'
      BY <2>1, <3>1, <3>2, <3>3, <3>5
      DEF StoreInv, DanglingOnlyWhileDeleting, Working, Exists, TypeOK, BeginCreate
    <3>7. OneRowPerPath'
      BY <3>1, <3>2, <3>5 DEF StoreInv, OneRowPerPath
    <3>8. \A g \in Handlers : At(g, "insert")' =>
            Exists(fs, PathOf(handler[g].id))' \/ PathTaken(PathOf(handler[g].id))'
      BY <3>1, <3>2, <3>3, <3>4, <3>5 DEF StoreInv, PathTaken, Exists, TypeOK
    <3> QED
      BY <3>1, <3>3, <3>4, <3>5, <3>6, <3>7, <3>8 DEF StoreInv, TypeOK
  <2>2. ASSUME NEW h \in Handlers, SnapshotSource(h) PROVE StoreInv'
    <3> DEFINE id == handler[h].id
    <3>1. \A g \in Handlers : g # h => handler'[g] = handler[g]
      BY <2>2 DEF SnapshotSource, Become, Advance, TypeOK
    <3>2. UNCHANGED <<request, row, faults, wiped>>
      BY <2>2 DEF SnapshotSource
    <3>3. \A p \in Path : Exists(fs, p) => Exists(fs', p)
      BY <2>2, SourceEffect
    <3>4. /\ id \in Ids
          /\ At(h, "insert")' \/ At(h, "idle")'
          /\ At(h, "insert")' => Exists(fs', PathOf(id)) /\ handler'[h].id = id
      BY <2>2, SourceEffect DEF SnapshotSource, Advance, Become, TypeOK, Task, Idle
    <3>5. DanglingOnlyWhileDeleting'
      <4>1. \A j \in Ids : row[j] # "none" => PathOf(j) \in Path
        BY PathTypes DEF TypeOK
      <4>2. \A j \in Ids : Working(j, "erase") => Working(j, "erase")'
        BY <2>2, <3>1 DEF Working, SnapshotSource
      <4> QED BY <3>2, <3>3, <4>1, <4>2 DEF StoreInv, DanglingOnlyWhileDeleting
    <3>6. \A g \in Handlers : At(g, "insert")' =>
            Exists(fs, PathOf(handler[g].id))' \/ PathTaken(PathOf(handler[g].id))'
      <4>1. \A g \in Handlers : At(g, "insert") => PathOf(handler[g].id) \in Path
        BY PathTypes DEF TypeOK
      <4> QED BY <3>1, <3>2, <3>3, <3>4, <4>1 DEF StoreInv, PathTaken, Exists
    <3>7. OneRowPerPath'
      BY <3>2 DEF StoreInv, OneRowPerPath
    <3> QED
      BY <2>2, <3>1, <3>2, <3>4, <3>5, <3>6, <3>7 DEF StoreInv, SnapshotSource
  <2>3. ASSUME NEW h \in Handlers, InsertRow(h) PROVE StoreInv'
    <3> DEFINE id == handler[h].id
    <3>1. /\ \A g \in Handlers : g # h => handler'[g] = handler[g]
          /\ handler'[h].step = "idle"
      BY <2>3 DEF InsertRow, Become, Idle, TypeOK
    <3>2. UNCHANGED <<fs, request, wiped>> /\ id \in Ids /\ row[id] = "none"
      BY <2>3 DEF InsertRow, TypeOK, StoreInv
    <3>3. \/ ~PathTaken(PathOf(id)) /\ row' = [row EXCEPT ![id] = "active"] /\ faults' = faults
          \/ row' = row /\ faults' \in {faults, faults + 1}
      BY <2>3 DEF InsertRow, StatementFails
    <3>4. \A j \in Ids : row[j] # "none" => row'[j] # "none"
      BY <3>2, <3>3 DEF TypeOK
    <3>5. OneRowPerPath'
      BY <3>2, <3>3 DEF StoreInv, OneRowPerPath, PathTaken, TypeOK
    <3>6. DanglingOnlyWhileDeleting'
      <4>1. \A j \in Ids : Working(j, "erase") => Working(j, "erase")'
        BY <2>3, <3>1 DEF Working, InsertRow
      <4>2. faults' = 0 => faults = 0
        BY <3>3 DEF TypeOK
      <4>3. row' # row => Exists(fs, PathOf(id))
        BY <2>3, <3>3 DEF StoreInv, InsertRow
      <4>4. \A j \in Ids : Listed(j)' /\ ~Exists(fs, PathOf(j)) => Listed(j)
        BY <3>2, <3>3, <4>3 DEF TypeOK
      <4> QED BY <3>2, <4>1, <4>2, <4>4 DEF StoreInv, DanglingOnlyWhileDeleting, Exists
    <3>7. \A g \in Handlers : Creating(g)' => row'[handler'[g].id] = "none"
      BY <2>3, <3>1, <3>2, <3>3 DEF StoreInv, InsertRow, TypeOK
    <3>8. \A g \in Handlers : At(g, "insert")' =>
            Exists(fs, PathOf(handler[g].id))' \/ PathTaken(PathOf(handler[g].id))'
      BY <3>1, <3>2, <3>4 DEF StoreInv, PathTaken, Exists
    <3> QED
      BY <3>1, <3>2, <3>4, <3>5, <3>6, <3>7, <3>8 DEF StoreInv, TypeOK
  <2>4. ASSUME NEW h \in Handlers, NEW id \in Ids, BeginDelete(h, id) PROVE StoreInv'
    <3>1. /\ \A g \in Handlers : g # h => handler'[g] = handler[g]
          /\ handler'[h].step = "delete" /\ handler'[h].id = id /\ handler[h].step = "idle"
      BY <2>4 DEF BeginDelete, Become, TypeOK
    <3>2. UNCHANGED <<fs, request, row, faults, wiped>> /\ row[id] # "none"
      BY <2>4 DEF BeginDelete
    <3> QED BY <3>1, <3>2, HandlerStarts
  <2>5. ASSUME NEW h \in Handlers, DeleteSubvolume(h) PROVE StoreInv'
    <3> DEFINE id == handler[h].id
    <3>1. /\ \A g \in Handlers : g # h => handler'[g] = handler[g]
          /\ UNCHANGED <<request, row, faults>>
          /\ id \in Ids /\ row[id] # "none" /\ request[id] # None
          /\ handler[h].step = "delete"
      BY <2>5 DEF DeleteSubvolume, Become, Advance, TypeOK, StoreInv
    <3>2. CASE CanDelete(fs, PathOf(id)) /\ fs' = AfterDelete(fs, PathOf(id))
               /\ wiped' = wiped \cup {id} /\ Advance(h, "erase")
      <4>1. handler'[h].step = "erase" /\ handler'[h].id = id
        BY <3>2 DEF Advance, TypeOK, Task
      <4>2. \A j \in Ids : row[j] # "none" => PathOf(j) \in Path
        BY PathTypes DEF TypeOK
      <4>3. \A j \in Ids : row[j] # "none" /\ PathOf(j) # PathOf(id)
                            => fs'[PathOf(j)] = fs[PathOf(j)]
        BY <3>1, <3>2, <4>2, DeleteKeeps DEF TypeOK
      <4>4. \A j \in Ids : row[j] # "none" /\ PathOf(j) = PathOf(id) => j = id
        BY <3>1 DEF StoreInv, OneRowPerPath
      <4>5. Working(id, "erase")'
        BY <4>1 DEF Working
      <4>6. \A j \in Ids : Working(j, "erase") => Working(j, "erase")'
        BY <3>1 DEF Working
      <4>7. DanglingOnlyWhileDeleting'
        <5> SUFFICES ASSUME NEW j \in Ids, Listed(j)', ~Exists(fs', PathOf(j))
                     PROVE  j \in wiped' /\ (faults = 0 => Working(j, "erase")')
          BY <3>1 DEF DanglingOnlyWhileDeleting, Exists
        <5>1. CASE j = id
          BY <3>2, <4>1, <4>5, <5>1
        <5>2. CASE j # id
          <6>1. Listed(j) /\ ~Exists(fs, PathOf(j))
            BY <3>1, <4>3, <4>4, <5>2 DEF Exists
          <6> QED BY <3>2, <4>6, <6>1 DEF StoreInv, DanglingOnlyWhileDeleting
        <5> QED BY <5>1, <5>2
      <4>8. \A g \in Handlers : At(g, "insert")' =>
              Exists(fs, PathOf(handler[g].id))' \/ PathTaken(PathOf(handler[g].id))'
        <5> SUFFICES ASSUME NEW g \in Handlers, At(g, "insert")'
                     PROVE  \/ Exists(fs', PathOf(handler[g].id))
                            \/ PathTaken(PathOf(handler[g].id))
          BY <3>1, <4>1 DEF PathTaken, Exists
        <5>1. At(g, "insert") /\ handler[g].id \in Ids /\ request[handler[g].id] # None
          BY <3>1, <4>1 DEF TypeOK
        <5>2. PathOf(handler[g].id) \in Path
          BY <5>1, PathTypes
        <5>3. CASE PathOf(handler[g].id) = PathOf(id)
          BY <3>1, <5>3 DEF PathTaken
        <5>4. CASE PathOf(handler[g].id) # PathOf(id)
          <6>1. fs'[PathOf(handler[g].id)] = fs[PathOf(handler[g].id)]
            BY <3>1, <3>2, <5>2, <5>4, PathTypes, DeleteKeeps DEF TypeOK
          <6> QED BY <5>1, <6>1 DEF StoreInv, Exists
        <5> QED BY <5>3, <5>4
      <4>9. OneRowPerPath'
        BY <3>1 DEF StoreInv, OneRowPerPath
      <4> QED BY <3>1, <3>2, <4>1, <4>7, <4>8, <4>9 DEF StoreInv
    <3>3. CASE Become(h, Idle) /\ UNCHANGED <<fs, wiped>>
      <4>1. handler'[h].step = "idle"
        BY <3>3 DEF Become, Idle, TypeOK
      <4> QED BY <3>1, <3>3, <4>1, HandlerStops
    <3> QED BY <2>5, <3>2, <3>3 DEF DeleteSubvolume
  <2>6. ASSUME NEW h \in Handlers, EraseRow(h) PROVE StoreInv'
    <3> DEFINE id == handler[h].id
    <3>1. /\ \A g \in Handlers : g # h => handler'[g] = handler[g]
          /\ handler'[h].step = "idle" /\ handler[h].step = "erase"
      BY <2>6 DEF EraseRow, Become, Idle, TypeOK
    <3>2. UNCHANGED <<fs, request, wiped>> /\ id \in Ids /\ row[id] # "none"
      BY <2>6 DEF EraseRow, TypeOK, StoreInv
    <3>3. \/ row' = [row EXCEPT ![id] = "soft_deleted"] /\ faults' = faults
          \/ row' = row /\ faults' = faults + 1
      BY <2>6 DEF EraseRow, StatementFails
    <3>4. \A j \in Ids : (row[j] = "none" <=> row'[j] = "none") /\ (Listed(j)' => Listed(j))
      <4>1. CASE row' = row
        BY <4>1
      <4>2. CASE row' = [row EXCEPT ![id] = "soft_deleted"]
        BY <3>2, <4>2 DEF TypeOK
      <4> QED BY <3>3, <4>1, <4>2
    <3>5. OneRowPerPath'
      BY <3>2, <3>4 DEF StoreInv, OneRowPerPath
    <3>6. DanglingOnlyWhileDeleting'
      <4>1. \A j \in Ids : j # id /\ Working(j, "erase") => Working(j, "erase")'
        BY <3>1 DEF Working
      <4>2. CASE row' = [row EXCEPT ![id] = "soft_deleted"] /\ faults' = faults
        <5>1. row'[id] # "active"
          BY <3>2, <4>2 DEF TypeOK
        <5> QED BY <3>2, <3>4, <4>1, <4>2, <5>1 DEF StoreInv, DanglingOnlyWhileDeleting, Exists
      <4>3. CASE row' = row /\ faults' = faults + 1
        <5>1. faults' # 0
          BY <4>3 DEF TypeOK
        <5> QED BY <3>2, <3>4, <5>1 DEF StoreInv, DanglingOnlyWhileDeleting, Exists
      <4> QED BY <3>3, <4>2, <4>3
    <3>7. \A g \in Handlers : At(g, "insert")' =>
            Exists(fs, PathOf(handler[g].id))' \/ PathTaken(PathOf(handler[g].id))'
      BY <3>1, <3>2, <3>4 DEF StoreInv, PathTaken, Exists
    <3> QED
      BY <3>1, <3>2, <3>4, <3>5, <3>6, <3>7 DEF StoreInv, TypeOK
  <2>7. ASSUME NEW h \in Handlers, NEW id \in Ids, NEW dest \in Places,
               BeginRestore(h, id, dest)
        PROVE  StoreInv'
    <3>1. /\ \A g \in Handlers : g # h => handler'[g] = handler[g]
          /\ handler'[h].step = "restore" /\ handler'[h].id = id /\ handler[h].step = "idle"
      BY <2>7 DEF BeginRestore, Become, TypeOK
    <3>2. UNCHANGED <<fs, request, row, faults, wiped>> /\ row[id] # "none"
      BY <2>7 DEF BeginRestore
    <3> QED BY <3>1, <3>2, HandlerStarts
  <2>8. ASSUME NEW h \in Handlers, RestoreSubvolume(h) PROVE StoreInv'
    <3>1. /\ \A g \in Handlers : g # h => handler'[g] = handler[g]
          /\ handler[h].step = "restore"
          /\ UNCHANGED <<request, row, faults, wiped>>
      BY <2>8 DEF RestoreSubvolume, Become, Advance, TypeOK
    <3>2. /\ \A p \in Path : Exists(fs, p) => Exists(fs', p)
          /\ At(h, "record")' \/ At(h, "idle")'
      BY <2>8, RestoreEffect
    <3>3. At(h, "record")' => handler'[h].id = handler[h].id
      <4>1. CASE Advance(h, "record")
        BY <4>1 DEF Advance, TypeOK, Task
      <4>2. CASE Become(h, Idle)
        BY <4>2 DEF Become, Idle, TypeOK
      <4> QED BY <2>8, <4>1, <4>2 DEF RestoreSubvolume
    <3>4. row[handler[h].id] # "none"
      BY <3>1 DEF StoreInv
    <3>5. DanglingOnlyWhileDeleting'
      <4>1. \A j \in Ids : row[j] # "none" => PathOf(j) \in Path
        BY PathTypes DEF TypeOK
      <4>2. \A j \in Ids : Working(j, "erase") => Working(j, "erase")'
        BY <3>1 DEF Working
      <4> QED BY <3>1, <3>2, <4>1, <4>2 DEF StoreInv, DanglingOnlyWhileDeleting
    <3>6. \A g \in Handlers : At(g, "insert")' =>
            Exists(fs, PathOf(handler[g].id))' \/ PathTaken(PathOf(handler[g].id))'
      <4>1. \A g \in Handlers : At(g, "insert") => PathOf(handler[g].id) \in Path
        BY PathTypes DEF TypeOK
      <4> QED BY <3>1, <3>2, <4>1 DEF StoreInv, PathTaken, Exists
    <3>7. OneRowPerPath'
      BY <3>1 DEF StoreInv, OneRowPerPath
    <3> QED BY <3>1, <3>2, <3>3, <3>4, <3>5, <3>6, <3>7 DEF StoreInv
  <2>9. ASSUME NEW h \in Handlers, RecordRestore(h) PROVE StoreInv'
    <3>1. /\ \A g \in Handlers : g # h => handler'[g] = handler[g]
          /\ handler'[h].step = "idle" /\ handler[h].step = "record"
          /\ UNCHANGED <<fs, request, row, faults, wiped>>
      BY <2>9 DEF RecordRestore, Become, Idle, TypeOK
    <3> QED BY <3>1, HandlerStops
  <2>10. CASE Tick
    BY <2>10 DEF Tick, StoreInv, OneRowPerPath, DanglingOnlyWhileDeleting, Working,
                 Exists, PathTaken
  <2>11. CASE Crash
    <3>1. \A h \in Handlers : handler'[h].step = "idle"
      BY <2>11 DEF Crash, Idle
    <3>2. UNCHANGED <<fs, request, row, wiped>> /\ faults' # 0
      BY <2>11 DEF Crash, StatementFails, TypeOK
    <3>3. DanglingOnlyWhileDeleting' /\ OneRowPerPath'
      BY <3>2 DEF StoreInv, DanglingOnlyWhileDeleting, OneRowPerPath, Exists
    <3> QED BY <3>1, <3>3 DEF StoreInv
  <2>12. CASE UNCHANGED vars
    BY <2>12 DEF vars, StoreInv, OneRowPerPath, DanglingOnlyWhileDeleting, Working,
                 Exists, PathTaken
  <2> QED
    BY <2>1, <2>2, <2>3, <2>4, <2>5, <2>6, <2>7, <2>8, <2>9, <2>10, <2>11, <2>12
    DEF Next, Serve, Accept, NotFound
<1> QED BY <1>1, <1>2, TypeCorrect, PTL DEF Spec

----------------------------------------------------------------------------
(* OwnerInv: what fresh paths add.                                         *)

\* Neither store changes and a handler other than one about to insert moves to
\* a step OwnerInv says nothing of.
LEMMA OwnerQuiet ==
  ASSUME OwnerInv, FreshPaths, NEW h \in Handlers,
         handler[h].step # "insert",
         handler'[h].step \notin {"snapshot", "insert", "erase"},
         \A g \in Handlers : g # h => handler'[g] = handler[g],
         UNCHANGED <<fs, request, row, faults>>
  PROVE  OwnerInv'
<1>1. NoOrphans'
  BY DEF OwnerInv, NoOrphans, Known, Orphans, Working, At, Exists, PathOf, Listed
<1>2. DeletedMeansGone'
  BY DEF OwnerInv, DeletedMeansGone, Exists, PathOf
<1> QED BY <1>1, <1>2 DEF OwnerInv, At, Exists, PathOf

\* A path under .snapshots only ever holds the subvolume of the one request
\* that chose it; a deleted snapshot is gone; orphans need a failure.
THEOREM OwnerInvariant == Spec => []OwnerInv
<1>1. Init => OwnerInv
  <2> SUFFICES ASSUME Init PROVE OwnerInv
    OBVIOUS
  <2>1. \A h \in Handlers : At(h, "idle")
    BY DEF Init, Idle, At
  <2>2. \A id \in Ids : request[id] = None /\ row[id] = "none"
    BY DEF Init
  <2>3. \A p \in SnapPath : ~Exists(fs, p)
    BY StoreAssumption DEF Init, Exists, Path, Places
  <2>4. NoOrphans /\ DeletedMeansGone
    BY <2>2, <2>3 DEF NoOrphans, Known, Orphans, DeletedMeansGone
  <2> QED
    BY <2>1, <2>2, <2>3, <2>4 DEF OwnerInv, At
<1>2. TypeOK /\ TypeOK' /\ StoreInv /\ OwnerInv /\ [Next]_vars => OwnerInv'
  <2> SUFFICES ASSUME TypeOK, TypeOK', StoreInv, OwnerInv, [Next]_vars, FreshPaths
               PROVE  OwnerInv'
    BY DEF OwnerInv
  <2> USE DEF At, Listed
  <2>1. ASSUME NEW h \in Handlers, NEW id \in Ids, NEW base \in Subvolumes,
               NEW name \in Names, NEW ro \in BOOLEAN, BeginCreate(h, id, base, name, ro)
        PROVE  OwnerInv'
    <3> DEFINE path == SnapshotPath(base, name)
    <3>1. /\ request[id] = None /\ request'[id] = [path |-> path, ro |-> ro]
          /\ \A j \in Ids : j # id => request'[j] = request[j]
          /\ \A j \in Ids : request[j] # None => PathOf(j) # path
      BY <2>1 DEF BeginCreate, TypeOK
    <3>2. /\ \A g \in Handlers : g # h => handler'[g] = handler[g]
          /\ handler'[h].step = "snapshot" /\ handler'[h].id = id
          /\ UNCHANGED <<fs, row, faults>> /\ handler[h].step = "idle"
      BY <2>1 DEF BeginCreate, Become, TypeOK
    <3>3. path \in SnapPath
      BY DEF SnapshotPath, SnapPath, TypeOK
    <3>4. ~Exists(fs, path)
      BY <3>1, <3>3 DEF OwnerInv
    <3>5. \A j \in Ids : request[j] # None => PathOf(j)' = PathOf(j) /\ j # id
      BY <3>1 DEF PathOf
    <3>6. PathOf(id)' = path
      BY <3>1 DEF PathOf
    <3>7. row[id] = "none"
      BY <3>1 DEF TypeOK
    <3>8. \A i, j \in Ids : request'[i] # None /\ request'[j] # None
                            /\ PathOf(i)' = PathOf(j)' => i = j
      <4>1. \A j \in Ids : j # id /\ request'[j] # None => request[j] # None
        BY <3>1
      <4> QED BY <3>1, <3>5, <3>6, <4>1 DEF OwnerInv
    <3>9. \A p \in SnapPath : Exists(fs, p) =>
            /\ fs[p].origin \in Ids /\ request'[fs[p].origin] # None
            /\ PathOf(fs[p].origin)' = p
            /\ fs[p].ro = request'[fs[p].origin].ro
      <4> SUFFICES ASSUME NEW p \in SnapPath, Exists(fs, p), NEW o, o = fs[p].origin
                   PROVE  /\ o \in Ids /\ request'[o] # None
                          /\ request'[o].path = p /\ fs[p].ro = request'[o].ro
        BY <3>2 DEF PathOf
      <4>1. o \in Ids /\ request[o] # None /\ PathOf(o) = p /\ fs[p].ro = request[o].ro
        BY DEF OwnerInv
      <4> QED BY <3>1, <4>1 DEF PathOf
    <3>10. \A g \in Handlers :
             /\ At(g, "snapshot")' => ~Exists(fs, PathOf(handler[g].id))'
             /\ At(g, "insert")' => Exists(fs, PathOf(handler[g].id))'
             /\ At(g, "erase")' => ~Exists(fs, PathOf(handler[g].id))'
      <4> SUFFICES ASSUME NEW g \in Handlers
                   PROVE  /\ At(g, "snapshot")' => ~Exists(fs, PathOf(handler[g].id))'
                          /\ At(g, "insert")' => Exists(fs, PathOf(handler[g].id))'
                          /\ At(g, "erase")' => ~Exists(fs, PathOf(handler[g].id))'
        OBVIOUS
      <4>1. CASE g = h
        BY <3>2, <3>4, <3>6, <4>1 DEF PathOf, Exists
      <4>2. CASE g # h /\ handler[g].step # "idle"
        <5>1. handler'[g] = handler[g] /\ request'[handler[g].id] = request[handler[g].id]
          BY <3>1, <3>2, <4>2 DEF TypeOK
        <5> QED BY <3>2, <5>1 DEF OwnerInv, PathOf, Exists
      <4>3. CASE g # h /\ handler[g].step = "idle"
        BY <3>2, <4>3
      <4> QED BY <4>1, <4>2, <4>3
    <3>11. DeletedMeansGone'
      <4>1. \A j \in Ids : row[j] = "soft_deleted" => request'[j] = request[j]
        BY <3>1, <3>7
      <4> QED BY <3>2, <4>1 DEF OwnerInv, DeletedMeansGone, Exists, PathOf
    <3>12. NoOrphans'
      <4>1. \A j \in Ids : Working(j, "insert") => Working(j, "insert")'
        BY <3>2 DEF Working
      <4> QED BY <3>1, <3>2, <3>5, <4>1 DEF OwnerInv, NoOrphans, Known, Orphans, Exists
    <3> QED
      BY <3>2, <3>8, <3>9, <3>10, <3>11, <3>12 DEF OwnerInv, Exists
  <2>2. ASSUME NEW h \in Handlers, SnapshotSource(h) PROVE OwnerInv'
    <3> DEFINE id == handler[h].id
               path == PathOf(id)
    <3>1. /\ \A g \in Handlers : g # h => handler'[g] = handler[g]
          /\ UNCHANGED <<request, row, faults>> /\ handler[h].step = "snapshot"
      BY <2>2 DEF SnapshotSource, Become, Advance, TypeOK
    <3>2. /\ path \in SnapPath /\ path \in Path /\ id \in Ids /\ request[id] # None
          /\ \A p \in Path : p # path => fs'[p] = fs[p]
          /\ \/ At(h, "insert")' /\ Exists(fs', path)
             \/ At(h, "idle")' /\ UNCHANGED fs
          /\ ~Exists(fs, path) /\ Exists(fs', path) =>
               /\ At(h, "insert")'
               /\ fs'[path].origin = id
               /\ fs'[path].ro = request[id].ro
      BY <2>2, SourceEffect
    <3>3. ~Exists(fs, path)
      BY <3>1 DEF OwnerInv
    <3>4. CASE At(h, "idle")' /\ UNCHANGED fs
      BY <3>1, <3>4, OwnerQuiet
    <3>5. CASE At(h, "insert")' /\ Exists(fs', path)
      <4>1. handler'[h].id = id
        BY <2>2, <3>5 DEF SnapshotSource, Advance, Become, Idle, TypeOK, Task
      <4>2. row[id] = "none"
        BY <3>1 DEF StoreInv, Creating
      <4>3. \A j \in Ids : j # id /\ request[j] # None =>
              PathOf(j) # path /\ fs'[PathOf(j)] = fs[PathOf(j)]
        BY <3>2, PathTypes DEF OwnerInv
      <4>4. \A p \in SnapPath : Exists(fs', p) =>
              /\ fs'[p].origin \in Ids /\ request[fs'[p].origin] # None
              /\ PathOf(fs'[p].origin) = p
              /\ fs'[p].ro = request[fs'[p].origin].ro
        <5> SUFFICES ASSUME NEW p \in SnapPath, Exists(fs', p)
                     PROVE  /\ fs'[p].origin \in Ids /\ request[fs'[p].origin] # None
                            /\ PathOf(fs'[p].origin) = p
                            /\ fs'[p].ro = request[fs'[p].origin].ro
          OBVIOUS
        <5>1. CASE p = path
          BY <3>2, <3>3, <5>1
        <5>2. CASE p # path
          BY <3>2, <5>2 DEF OwnerInv, Exists, Path
        <5> QED BY <5>1, <5>2
      <4>5. \A g \in Handlers : g # h /\ handler[g].step \in {"snapshot", "insert", "erase"} =>
              handler[g].id # id /\ handler[g].id \in Ids /\ request[handler[g].id] # None
        BY <3>1, <4>2 DEF StoreInv, Creating, Using, TypeOK
      <4>6. \A g \in Handlers :
             /\ At(g, "snapshot")' => ~Exists(fs', PathOf(handler'[g].id))
             /\ At(g, "insert")' => Exists(fs', PathOf(handler'[g].id))
             /\ At(g, "erase")' => ~Exists(fs', PathOf(handler'[g].id))
        BY <3>1, <3>5, <4>1, <4>3, <4>5 DEF OwnerInv, Exists
      <4>7. DeletedMeansGone'
        <5>1. \A j \in Ids : row[j] = "soft_deleted" => j # id /\ request[j] # None
          BY <4>2 DEF TypeOK
        <5> QED BY <3>1, <4>3, <5>1 DEF OwnerInv, DeletedMeansGone, Exists, PathOf
      <4>8. NoOrphans'
        <5> SUFFICES ASSUME faults = 0, NEW p \in SnapPath, Exists(fs', p)
                     PROVE  \E j \in Ids :
                              /\ request[j] # None /\ PathOf(j) = p
                              /\ Listed(j) \/ Working(j, "insert")'
          BY <3>1 DEF NoOrphans, Known, Orphans, Exists, PathOf
        <5>1. CASE p = path
          <6>1. \E g \in Handlers : handler'[g].step = "insert" /\ handler'[g].id = id
            BY <3>5, <4>1
          <6> QED BY <3>2, <5>1, <6>1 DEF Working
        <5>2. CASE p # path
          <6>1. Exists(fs, p)
            BY <3>2, <5>2 DEF Exists, Path
          <6>2. \A j \in Ids : Working(j, "insert") => Working(j, "insert")'
            BY <3>1 DEF Working
          <6> QED BY <6>1, <6>2 DEF OwnerInv, NoOrphans, Known, Orphans
        <5> QED BY <5>1, <5>2
      <4> QED BY <3>1, <4>4, <4>6, <4>7, <4>8 DEF OwnerInv, PathOf, Exists
    <3> QED BY <3>2, <3>4, <3>5
  <2>3. ASSUME NEW h \in Handlers, InsertRow(h) PROVE OwnerInv'
    <3> DEFINE id == handler[h].id
    <3>1. /\ \A g \in Handlers : g # h => handler'[g] = handler[g]
          /\ handler'[h].step = "idle" /\ handler[h].step = "insert"
          /\ UNCHANGED <<fs, request>> /\ id \in Ids
          /\ row[id] = "none" /\ request[id] # None
      BY <2>3 DEF InsertRow, Become, Idle, TypeOK, StoreInv, Creating
    <3>2. ~PathTaken(PathOf(id))
      BY <3>1 DEF PathTaken, OwnerInv, TypeOK
    <3>3. \/ row' = [row EXCEPT ![id] = "active"] /\ faults' = faults
          \/ row' = row /\ faults' = faults + 1
      BY <2>3, <3>2 DEF InsertRow, StatementFails
    <3>4. DeletedMeansGone'
      <4>1. \A j \in Ids : row'[j] = "soft_deleted" => row[j] = "soft_deleted"
        BY <3>1, <3>3 DEF TypeOK
      <4> QED BY <3>1, <4>1 DEF OwnerInv, DeletedMeansGone, Exists, PathOf
    <3>5. NoOrphans'
      <4>1. CASE row' = row /\ faults' = faults + 1
        BY <4>1 DEF NoOrphans, Known, Orphans, TypeOK
      <4>2. CASE row' = [row EXCEPT ![id] = "active"] /\ faults' = faults
        <5>1. \A j \in Ids : Working(j, "insert") => j = id \/ Working(j, "insert")'
          BY <3>1 DEF Working
        <5>2. \A j \in Ids : Listed(j) \/ j = id => Listed(j)'
          BY <3>1, <4>2 DEF TypeOK
        <5> QED BY <3>1, <4>2, <5>1, <5>2 DEF OwnerInv, NoOrphans, Known, Orphans, Exists, PathOf
      <4> QED BY <3>3, <4>1, <4>2
    <3> QED BY <3>1, <3>4, <3>5 DEF OwnerInv, PathOf, Exists
  <2>4. ASSUME NEW h \in Handlers, NEW id \in Ids, BeginDelete(h, id) PROVE OwnerInv'
    <3>1. /\ \A g \in Handlers : g # h => handler'[g] = handler[g]
          /\ handler'[h].step = "delete" /\ handler[h].step = "idle"
          /\ UNCHANGED <<fs, request, row, faults>>
      BY <2>4 DEF BeginDelete, Become, TypeOK
    <3> QED BY <3>1, OwnerQuiet
  <2>5. ASSUME NEW h \in Handlers, DeleteSubvolume(h) PROVE OwnerInv'
    <3> DEFINE id == handler[h].id
               path == PathOf(id)
    <3>1. /\ \A g \in Handlers : g # h => handler'[g] = handler[g]
          /\ UNCHANGED <<request, row, faults>>
          /\ id \in Ids /\ row[id] # "none" /\ request[id] # None
          /\ handler[h].step = "delete"
      BY <2>5 DEF DeleteSubvolume, Become, Advance, TypeOK, StoreInv, Using
    <3>2. CASE fs' = AfterDelete(fs, path) /\ Advance(h, "erase")
      <4>1. handler'[h].step = "erase" /\ handler'[h].id = id
        BY <3>2 DEF Advance, TypeOK, Task
      <4>2. path \in Path
        BY <3>1, PathTypes
      <4>3. ~Exists(fs', path) /\ \A p \in Path : p # path => fs'[p] = fs[p]
        BY <3>2, <4>2, DeleteKeeps DEF TypeOK
      <4>4. \A p \in Path : Exists(fs', p) => p # path /\ fs'[p] = fs[p] /\ Exists(fs, p)
        BY <4>3 DEF Exists
      <4>5. \A g \in Handlers :
              handler'[g].step \in {"snapshot", "insert", "erase"} =>
                /\ handler'[g].id = handler[g].id /\ handler[g].id \in Ids
                /\ PathOf(handler[g].id) \in Path /\ request[handler[g].id] # None
        BY <3>1, <4>1, PathTypes DEF TypeOK
      <4>6. \A g \in Handlers : At(g, "insert")' => PathOf(handler[g].id) # path
        <5>1. \A g \in Handlers : At(g, "insert")' => row[handler[g].id] = "none"
          BY <3>1, <4>1 DEF StoreInv, Creating
        <5> QED BY <3>1, <4>5, <5>1 DEF OwnerInv
      <4>7. \A g \in Handlers :
             /\ At(g, "snapshot")' => ~Exists(fs', PathOf(handler'[g].id))
             /\ At(g, "insert")' => Exists(fs', PathOf(handler'[g].id))
             /\ At(g, "erase")' => ~Exists(fs', PathOf(handler'[g].id))
        <5> SUFFICES ASSUME NEW g \in Handlers
             PROVE /\ At(g, "snapshot")' => ~Exists(fs', PathOf(handler'[g].id))
                   /\ At(g, "insert")' => Exists(fs', PathOf(handler'[g].id))
                   /\ At(g, "erase")' => ~Exists(fs', PathOf(handler'[g].id))
          OBVIOUS
        <5>1. CASE g = h
          BY <4>1, <4>3, <5>1
        <5>2. CASE g # h
          BY <3>1, <4>3, <4>4, <4>5, <4>6, <5>2 DEF OwnerInv, Exists
        <5> QED BY <5>1, <5>2
      <4>8. \A p \in SnapPath : Exists(fs', p) =>
              /\ fs'[p].origin \in Ids /\ request[fs'[p].origin] # None
              /\ PathOf(fs'[p].origin) = p
              /\ fs'[p].ro = request[fs'[p].origin].ro
        BY <4>4 DEF OwnerInv, Path
      <4>9. DeletedMeansGone'
        <5>1. \A j \in Ids : row[j] = "soft_deleted" => PathOf(j) \in Path
          BY PathTypes DEF TypeOK
        <5> QED BY <3>1, <4>4, <5>1 DEF OwnerInv, DeletedMeansGone, Exists, PathOf
      <4>10. NoOrphans'
        <5>1. \A j \in Ids : Working(j, "insert") => Working(j, "insert")'
          BY <3>1 DEF Working
        <5> QED BY <3>1, <4>4, <5>1 DEF OwnerInv, NoOrphans, Known, Orphans, PathOf, Path
      <4> QED BY <3>1, <4>7, <4>8, <4>9, <4>10 DEF OwnerInv, PathOf, Exists
    <3>3. CASE Become(h, Idle) /\ UNCHANGED <<fs, wiped>>
      <4>1. handler'[h].step = "idle"
        BY <3>3 DEF Become, Idle, TypeOK
      <4> QED BY <3>1, <3>3, <4>1, OwnerQuiet
    <3> QED BY <2>5, <3>2, <3>3 DEF DeleteSubvolume
  <2>6. ASSUME NEW h \in Handlers, EraseRow(h) PROVE OwnerInv'
    <3> DEFINE id == handler[h].id
    <3>1. /\ \A g \in Handlers : g # h => handler'[g] = handler[g]
          /\ handler'[h].step = "idle" /\ handler[h].step = "erase"
          /\ UNCHANGED <<fs, request>> /\ id \in Ids /\ request[id] # None
          /\ ~Exists(fs, PathOf(id))
      BY <2>6 DEF EraseRow, Become, Idle, TypeOK, OwnerInv
    <3>2. \/ row' = [row EXCEPT ![id] = "soft_deleted"] /\ faults' = faults
          \/ row' = row /\ faults' = faults + 1
      BY <2>6 DEF EraseRow, StatementFails
    <3>3. \A j \in Ids : j # id => row'[j] = row[j]
      BY <3>1, <3>2 DEF TypeOK
    <3>4. DeletedMeansGone'
      BY <3>1, <3>3 DEF OwnerInv, DeletedMeansGone, Exists, PathOf
    <3>5. NoOrphans'
      <4>1. CASE faults' = faults + 1
        BY <4>1 DEF NoOrphans, Known, Orphans, TypeOK
      <4>2. CASE faults' = faults
        <5>1. \A j \in Ids : Working(j, "insert") => Working(j, "insert")'
          BY <3>1 DEF Working
        <5>2. \A j \in Ids : Exists(fs, PathOf(j)) /\ Listed(j) => Listed(j)'
          BY <3>1, <3>3
        <5> QED BY <3>1, <4>2, <5>1, <5>2 DEF OwnerInv, NoOrphans, Known, Orphans, Exists, PathOf
      <4> QED BY <3>2, <4>1, <4>2
    <3> QED BY <3>1, <3>4, <3>5 DEF OwnerInv, PathOf, Exists
  <2>7. ASSUME NEW h \in Handlers, NEW id \in Ids, NEW dest \in Places,
               BeginRestore(h, id, dest)
        PROVE  OwnerInv'
    <3>1. /\ \A g \in Handlers : g # h => handler'[g] = handler[g]
          /\ handler'[h].step = "restore" /\ handler[h].step = "idle"
          /\ UNCHANGED <<fs, request, row, faults>>
      BY <2>7 DEF BeginRestore, Become, TypeOK
    <3> QED BY <3>1, OwnerQuiet
  <2>8. ASSUME NEW h \in Handlers, RestoreSubvolume(h) PROVE OwnerInv'
    <3>1. /\ \A g \in Handlers : g # h => handler'[g] = handler[g]
          /\ handler[h].step = "restore"
          /\ UNCHANGED <<request, row, faults>>
      BY <2>8 DEF RestoreSubvolume, Become, Advance, TypeOK
    <3>2. At(h, "record")' \/ At(h, "idle")'
      BY <2>8, RestoreEffect
    <3>3. \A p \in SnapPath : fs'[p] = fs[p]
      BY <2>8, RestoreEffect, StoreAssumption DEF Path
    <3>4. \A j \in Ids : request[j] # None => fs'[PathOf(j)] = fs[PathOf(j)]
      BY <3>3, PathTypes
    <3>5. DeletedMeansGone'
      BY <3>1, <3>4 DEF OwnerInv, DeletedMeansGone, Exists, PathOf, TypeOK
    <3>6. NoOrphans'
      <4>1. \A j \in Ids : Working(j, "insert") => Working(j, "insert")'
        BY <3>1 DEF Working
      <4> QED BY <3>1, <3>3, <4>1 DEF OwnerInv, NoOrphans, Known, Orphans, Exists, PathOf
    <3>7. \A g \in Handlers :
            handler'[g].step \in {"snapshot", "insert", "erase"} =>
              /\ handler'[g] = handler[g]
              /\ fs'[PathOf(handler[g].id)] = fs[PathOf(handler[g].id)]
      BY <3>1, <3>2, <3>4 DEF TypeOK
    <3> QED BY <3>1, <3>3, <3>5, <3>6, <3>7 DEF OwnerInv, PathOf, Exists
  <2>9. ASSUME NEW h \in Handlers, RecordRestore(h) PROVE OwnerInv'
    <3>1. /\ \A g \in Handlers : g # h => handler'[g] = handler[g]
          /\ handler'[h].step = "idle" /\ handler[h].step = "record"
          /\ UNCHANGED <<fs, request, row, faults>>
      BY <2>9 DEF RecordRestore, Become, Idle, TypeOK
    <3> QED BY <3>1, OwnerQuiet
  <2>10. CASE Tick
    BY <2>10 DEF Tick, OwnerInv, DeletedMeansGone, NoOrphans, Known, Orphans, Working, Exists, PathOf
  <2>11. CASE Crash
    <3>1. \A h \in Handlers : handler'[h].step = "idle"
      BY <2>11 DEF Crash, Idle
    <3>2. UNCHANGED <<fs, request, row>> /\ faults' # 0
      BY <2>11 DEF Crash, StatementFails, TypeOK
    <3>3. NoOrphans' /\ DeletedMeansGone'
      BY <3>2 DEF OwnerInv, NoOrphans, Known, Orphans, DeletedMeansGone, Exists, PathOf
    <3> QED BY <3>1, <3>2, <3>3 DEF OwnerInv, PathOf, Exists
  <2>12. CASE UNCHANGED vars
    BY <2>12 DEF vars, OwnerInv, DeletedMeansGone, NoOrphans, Known, Orphans, Working, Exists, PathOf
  <2> QED
    BY <2>1, <2>2, <2>3, <2>4, <2>5, <2>6, <2>7, <2>8, <2>9, <2>10, <2>11, <2>12
    DEF Next, Serve, Accept, NotFound
<1> QED BY <1>1, <1>2, TypeCorrect, StoreInvariant, PTL DEF Spec

----------------------------------------------------------------------------
(* RestoreInv: what an answered restore has left.                          *)

\* A step that keeps every place, and after which its handler is not about to
\* answer a restore, disturbs nothing.
LEMMA PlacesKept ==
  ASSUME TypeOK, RestoreInv, NEW h \in Handlers,
         \A p \in Places : fs'[p] = fs[p],
         handler'[h].step # "record",
         \A g \in Handlers : g # h => handler'[g] = handler[g],
         \A j \in Ids : request[j] # None => request'[j] = request[j],
         UNCHANGED restored
  PROVE  RestoreInv'
<1>1. RestoreDelivers' /\ \A r \in restored : request'[r.id] # None
  <2>1. \A r \in restored : r.id \in Ids /\ r.dest \in Places /\ request[r.id] # None
    BY DEF TypeOK, RestoreInv
  <2> QED BY <2>1 DEF RestoreInv, RestoreDelivers, Delivered, Exists, LeafOf, PathOf
<1>2. FreshPaths => \A g \in Handlers :
        handler'[g].step = "record" =>
          /\ handler'[g] = handler[g] /\ handler[g].dest \in Places
          /\ request'[handler[g].id] = request[handler[g].id]
          /\ Delivered(handler[g].id, handler[g].dest)
  BY DEF TypeOK, RestoreInv, At
<1>3. FreshPaths => \A g \in Handlers : At(g, "record")' =>
        /\ handler'[g] = handler[g]
        /\ Exists(fs', handler[g].dest) /\ ~fs'[handler[g].dest].ro
        /\ \/ fs'[handler[g].dest].origin = handler[g].id
           \/ <<request'[handler[g].id].path.name, request'[handler[g].id].path.sec>>
                \in fs'[handler[g].dest].inside
  BY <1>2 DEF Delivered, Exists, LeafOf, PathOf, At
<1>4. FreshPaths => (\A g \in Handlers :
        At(g, "record") => Delivered(handler[g].id, handler[g].dest))'
  BY <1>3 DEF Delivered, Exists, LeafOf, PathOf
<1>5. \A q \in Places : Exists(fs', q) => ~fs'[q].ro
  BY DEF RestoreInv, Exists
<1> QED BY <1>1, <1>4, <1>5 DEF RestoreInv, Exists

\* Places restores write to stay writable, and a restore that answered success
\* left a copy of its own snapshot.
THEOREM RestoreInvariant == Spec => []RestoreInv
<1>1. Init => RestoreInv
  <2> SUFFICES ASSUME Init PROVE RestoreInv
    OBVIOUS
  <2>1. \A h \in Handlers : ~At(h, "record")
    BY DEF Init, Idle, At
  <2>2. \A q \in Places : Exists(fs, q) => ~fs[q].ro
    BY NewSubvolumeType DEF Init, Exists, Path
  <2> QED BY <2>1, <2>2 DEF Init, RestoreInv, RestoreDelivers
<1>2. TypeOK /\ TypeOK' /\ OwnerInv /\ RestoreInv /\ [Next]_vars => RestoreInv'
  <2> SUFFICES ASSUME TypeOK, TypeOK', OwnerInv, RestoreInv, [Next]_vars
               PROVE  RestoreInv'
    OBVIOUS
  <2> USE DEF At
  <2>1. ASSUME NEW h \in Handlers, SnapshotSource(h) PROVE RestoreInv'
    <3>1. /\ \A p \in Places : fs'[p] = fs[p]
          /\ At(h, "insert")' \/ At(h, "idle")'
      BY <2>1, SourceEffect, StoreAssumption DEF Path
    <3>2. /\ \A g \in Handlers : g # h => handler'[g] = handler[g]
          /\ UNCHANGED <<request, restored>>
      BY <2>1 DEF SnapshotSource, Become, Advance, TypeOK
    <3> QED BY <3>1, <3>2, PlacesKept
  <2>2. ASSUME NEW h \in Handlers, DeleteSubvolume(h) PROVE RestoreInv'
    <3> DEFINE path == PathOf(handler[h].id)
    <3>1. path \in Path /\ path \notin Places
      BY <2>2, PathTypes DEF DeleteSubvolume, TypeOK
    <3>2. fs' = fs \/ fs' = AfterDelete(fs, path)
      BY <2>2 DEF DeleteSubvolume
    <3>3. \A p \in Places : fs'[p] = fs[p]
      BY <3>1, <3>2, DeleteKeeps DEF TypeOK, Path
    <3>4. /\ \A g \in Handlers : g # h => handler'[g] = handler[g]
          /\ handler'[h].step \in {"erase", "idle"}
          /\ UNCHANGED <<request, restored>>
      <4>1. CASE Advance(h, "erase")
        BY <2>2, <4>1 DEF DeleteSubvolume, Advance, TypeOK, Task
      <4>2. CASE Become(h, Idle)
        BY <2>2, <4>2 DEF DeleteSubvolume, Become, Idle, TypeOK
      <4> QED BY <2>2, <4>1, <4>2 DEF DeleteSubvolume
    <3> QED BY <3>3, <3>4, PlacesKept
  <2>3. ASSUME NEW h \in Handlers, RestoreSubvolume(h) PROVE RestoreInv'
    <3> DEFINE id == handler[h].id
               dest == handler[h].dest
               source == PathOf(id)
    <3>1. /\ dest \in Places /\ id \in Ids /\ request[id] # None
          /\ \A p \in Places : p # dest => fs'[p] = fs[p]
          /\ \A p \in Places : Exists(fs, p) => Exists(fs', p) /\ SameData(fs'[p], fs[p])
          /\ \/ /\ At(h, "record")'
                /\ Exists(fs', dest)
                /\ Exists(fs, source)
                /\ Exists(fs, dest) => LeafOf(id) \in fs'[dest].inside
                /\ ~Exists(fs, dest) => fs'[dest].origin = fs[source].origin /\ ~fs'[dest].ro
             \/ At(h, "idle")' /\ UNCHANGED fs
      BY <2>3, RestoreEffect DEF Path
    <3>2. /\ \A g \in Handlers : g # h => handler'[g] = handler[g]
          /\ UNCHANGED <<request, restored>>
      BY <2>3 DEF RestoreSubvolume, Become, Advance, TypeOK
    <3>3. CASE At(h, "idle")' /\ UNCHANGED fs
      BY <3>2, <3>3, PlacesKept
    <3>4. CASE At(h, "record")'
      <4>1. handler'[h].id = id /\ handler'[h].dest = dest
        <5>1. CASE Advance(h, "record")
          BY <5>1 DEF Advance, TypeOK, Task
        <5>2. CASE Become(h, Idle)
          BY <3>4, <5>2 DEF Become, Idle, TypeOK
        <5> QED BY <2>3, <5>1, <5>2 DEF RestoreSubvolume
      <4>2. \A p \in Places : Exists(fs', p) => ~fs'[p].ro
        BY <3>1, <3>4 DEF RestoreInv, SameData, Exists
      <4>3. FreshPaths => LeafOf(id) \in fs'[dest].inside \/ fs'[dest].origin = id
        <5> SUFFICES ASSUME FreshPaths, ~Exists(fs, dest) PROVE fs'[dest].origin = id
          BY <3>1, <3>4
        <5>1. source \in SnapPath
          BY <3>1, PathTypes
        <5>2. fs[source].origin = id
          BY <3>1, <3>4, <5>1 DEF OwnerInv
        <5> QED BY <3>1, <3>4, <5>2
      <4>4. FreshPaths => \A g \in Handlers :
              handler'[g].step = "record" =>
                /\ Exists(fs', handler'[g].dest) /\ ~fs'[handler'[g].dest].ro
                /\ \/ fs'[handler'[g].dest].origin = handler'[g].id
                   \/ <<request[handler'[g].id].path.name, request[handler'[g].id].path.sec>>
                        \in fs'[handler'[g].dest].inside
        <5> SUFFICES ASSUME FreshPaths, NEW g \in Handlers, handler'[g].step = "record"
                     PROVE  /\ Exists(fs', handler'[g].dest) /\ ~fs'[handler'[g].dest].ro
                            /\ \/ fs'[handler'[g].dest].origin = handler'[g].id
                               \/ LeafOf(handler'[g].id) \in fs'[handler'[g].dest].inside
          BY DEF LeafOf, PathOf
        <5>1. CASE g = h
          BY <3>1, <3>4, <4>1, <4>2, <4>3, <5>1
        <5>2. CASE g # h
          <6>1. handler'[g] = handler[g] /\ handler[g].dest \in Places
            BY <3>2, <5>2 DEF TypeOK
          <6>2. Delivered(handler[g].id, handler[g].dest)
            BY <6>1 DEF RestoreInv
          <6> QED BY <3>1, <4>2, <6>1, <6>2 DEF Delivered, SameData
        <5> QED BY <5>1, <5>2
      <4>5. FreshPaths => \A r \in restored :
              /\ Exists(fs', r.dest) /\ ~fs'[r.dest].ro
              /\ \/ fs'[r.dest].origin = r.id
                 \/ LeafOf(r.id) \in fs'[r.dest].inside
        <5> SUFFICES ASSUME FreshPaths, NEW r \in restored
                     PROVE  /\ Exists(fs', r.dest) /\ ~fs'[r.dest].ro
                            /\ \/ fs'[r.dest].origin = r.id
                               \/ LeafOf(r.id) \in fs'[r.dest].inside
          OBVIOUS
        <5>1. Delivered(r.id, r.dest) /\ r.dest \in Places
          BY DEF RestoreInv, RestoreDelivers, TypeOK
        <5> QED BY <3>1, <4>2, <5>1 DEF Delivered, SameData
      <4> QED BY <3>2, <4>2, <4>4, <4>5
              DEF RestoreInv, RestoreDelivers, Delivered, Exists, LeafOf, PathOf
    <3> QED BY <3>1, <3>3, <3>4
  <2>4. ASSUME NEW h \in Handlers, RecordRestore(h) PROVE RestoreInv'
    <3>1. /\ \A g \in Handlers : g # h => handler'[g] = handler[g]
          /\ handler'[h].step = "idle" /\ handler[h].step = "record"
          /\ UNCHANGED <<fs, request>>
          /\ restored' = restored \cup {[id |-> handler[h].id, dest |-> handler[h].dest]}
      BY <2>4 DEF RecordRestore, Become, Idle, TypeOK
    <3>2. FreshPaths => Delivered(handler[h].id, handler[h].dest)
      BY <3>1 DEF RestoreInv
    <3>3. request[handler[h].id] # None
      BY <3>1 DEF TypeOK
    <3> QED BY <3>1, <3>2, <3>3
            DEF RestoreInv, RestoreDelivers, Delivered, Exists, LeafOf, PathOf
  <2>5. ASSUME NEW h \in Handlers, NEW id \in Ids, NEW base \in Subvolumes,
               NEW name \in Names, NEW ro \in BOOLEAN, BeginCreate(h, id, base, name, ro)
        PROVE  RestoreInv'
    <3>1. /\ \A g \in Handlers : g # h => handler'[g] = handler[g]
          /\ handler'[h].step = "snapshot" /\ UNCHANGED <<fs, restored>>
          /\ \A j \in Ids : request[j] # None => request'[j] = request[j]
      BY <2>5 DEF BeginCreate, Become, TypeOK
    <3> QED BY <3>1, PlacesKept
  <2>6. ASSUME NEW h \in Handlers,
               InsertRow(h) \/ EraseRow(h) \/ \E id \in Ids :
                 BeginDelete(h, id) \/ \E dest \in Places : BeginRestore(h, id, dest)
        PROVE  RestoreInv'
    <3>1. /\ \A g \in Handlers : g # h => handler'[g] = handler[g]
          /\ handler'[h].step # "record" /\ UNCHANGED <<fs, request, restored>>
      BY <2>6 DEF InsertRow, EraseRow, BeginDelete, BeginRestore, Become, Idle, TypeOK
    <3> QED BY <3>1, PlacesKept
  <2>7. CASE Crash
    <3>1. /\ \A g \in Handlers : handler'[g].step = "idle"
          /\ UNCHANGED <<fs, request, restored>>
      BY <2>7 DEF Crash, Idle
    <3> QED BY <3>1 DEF RestoreInv, RestoreDelivers, Delivered, Exists, LeafOf, PathOf
  <2>8. CASE Tick \/ UNCHANGED vars
    BY <2>8 DEF Tick, vars, RestoreInv, RestoreDelivers, Delivered, Exists, LeafOf, PathOf
  <2> QED
    BY <2>1, <2>2, <2>3, <2>4, <2>5, <2>6, <2>7, <2>8 DEF Next, Serve, Accept, NotFound
<1> QED BY <1>1, <1>2, TypeCorrect, OwnerInvariant, PTL DEF Spec

----------------------------------------------------------------------------
(* The properties the runs check, for every value of the constants.        *)

\* What the database lists and what btrfs holds agree up to the calls in
\* progress: the invariants of SnapshotStore, from their strengthenings.
THEOREM StoreSafety ==
  Spec => [](/\ DanglingOnlyWhileDeleting /\ OneRowPerPath /\ NoOrphans
             /\ DeletedMeansGone /\ ListedNamesOwnSubvolume /\ RestoreDelivers)
<1>1. TypeOK /\ OwnerInv => ListedNamesOwnSubvolume
  <2> SUFFICES ASSUME TypeOK, OwnerInv, FreshPaths,
                      NEW id \in Ids, Listed(id), Exists(fs, PathOf(id))
               PROVE  fs[PathOf(id)].origin = id /\ fs[PathOf(id)].ro = request[id].ro
    BY DEF ListedNamesOwnSubvolume
  <2>1. request[id] # None /\ PathOf(id) \in SnapPath
    BY PathTypes DEF Listed, TypeOK
  <2> QED BY <2>1 DEF OwnerInv
<1>2. OwnerInv => NoOrphans /\ DeletedMeansGone
  BY DEF OwnerInv, NoOrphans, Known, Orphans, DeletedMeansGone
<1>3. StoreInv => DanglingOnlyWhileDeleting /\ OneRowPerPath
  BY DEF StoreInv
<1>4. RestoreInv => RestoreDelivers
  BY DEF RestoreInv
<1> QED
  BY <1>1, <1>2, <1>3, <1>4, TypeCorrect, StoreInvariant, OwnerInvariant, RestoreInvariant, PTL

\* Only the delete of a snapshot removes its subvolume, and nothing removes a
\* subvolume outside .snapshots.
THEOREM DeletesOwn == Spec => DeletesOwnData
<1>1. TypeOK /\ OwnerInv /\ [Next]_vars => [FreshPaths => LosesOnlyWhatWasDeleted]_vars
  <2> SUFFICES ASSUME TypeOK, OwnerInv, Next, FreshPaths,
                      NEW p \in Path, Exists(fs, p), fs'[p] = None
               PROVE  /\ p \in SnapPath
                      /\ \E id \in Ids : /\ Working(id, "delete") /\ PathOf(id) = p
                                         /\ fs[p].origin = id
    BY DEF LosesOnlyWhatWasDeleted
  <2>1. ASSUME NEW h \in Handlers, DeleteSubvolume(h)
        PROVE  /\ p \in SnapPath
               /\ \E id \in Ids : /\ Working(id, "delete") /\ PathOf(id) = p
                                  /\ fs[p].origin = id
    <3> DEFINE id == handler[h].id
    <3>1. id \in Ids /\ request[id] # None /\ Working(id, "delete")
      BY <2>1 DEF DeleteSubvolume, TypeOK, At, Working
    <3>2. PathOf(id) \in Path /\ PathOf(id) \in SnapPath
      BY <3>1, PathTypes
    <3>3. fs' = AfterDelete(fs, PathOf(id)) \/ fs' = fs
      BY <2>1 DEF DeleteSubvolume
    <3>4. p = PathOf(id)
      BY <3>2, <3>3, DeleteKeeps DEF TypeOK, Exists
    <3>5. fs[p].origin = id
      BY <3>1, <3>2, <3>4 DEF OwnerInv
    <3> QED BY <3>1, <3>2, <3>4, <3>5
  <2>2. ASSUME NEW h \in Handlers, SnapshotSource(h) \/ RestoreSubvolume(h) PROVE FALSE
    <3>1. Exists(fs', p)
      BY <2>2, SourceEffect, RestoreEffect
    <3> QED BY <3>1 DEF Exists
  <2>3. ASSUME UNCHANGED fs PROVE FALSE
    BY <2>3 DEF Exists
  <2> QED
    BY <2>1, <2>2, <2>3
    DEF Next, Serve, Accept, NotFound, InsertRow, EraseRow, RecordRestore, BeginCreate,
        BeginDelete, BeginRestore, Tick, Crash, vars
<1> QED BY <1>1, TypeCorrect, OwnerInvariant, PTL DEF Spec, DeletesOwnData

----------------------------------------------------------------------------
(* Refinement of SnapshotLifecycle.                                        *)

\* With fresh paths no id is astray, and the row and the subvolume say which
\* phase it is in.
LEMMA PhaseCases ==
  ASSUME TypeOK, OwnerInv, FreshPaths, NEW id \in Ids
  PROVE  /\ row[id] = "none" => PhaseOf(id) = "unborn"
         /\ row[id] = "active" /\ ~Exists(fs, PathOf(id)) => PhaseOf(id) = "dangling"
         /\ row[id] = "active" /\ Exists(fs, PathOf(id)) => PhaseOf(id) = "available"
         /\ row[id] = "soft_deleted" => PhaseOf(id) = "removed" /\ ~Exists(fs, PathOf(id))
<1>1. row[id] # "none" => PathOf(id) \in SnapPath /\ request[id] # None
  BY PathTypes DEF TypeOK
<1>2. row[id] = "active" /\ Exists(fs, PathOf(id)) => fs[PathOf(id)].origin = id
  BY <1>1 DEF OwnerInv
<1>3. row[id] = "soft_deleted" => ~Exists(fs, PathOf(id))
  BY DEF OwnerInv, DeletedMeansGone
<1> QED BY <1>1, <1>2, <1>3 DEF PhaseOf, Listed

\* The handlers implement SnapshotLifecycle: every call to btrfs or to the
\* database moves one id to its next phase, or none.
THEOREM Refinement == FreshPaths => (Spec => ImplementsLifecycle)
<1> SUFFICES ASSUME FreshPaths PROVE Spec => ImplementsLifecycle
  OBVIOUS
<1> DEFINE Phase == [id \in Ids |-> PhaseOf(id)]
<1>1. TypeOK /\ OwnerInv /\ Init => Lifecycle!Init
  BY PhaseCases DEF Init, Lifecycle!Init
<1>2. TypeOK /\ TypeOK' /\ StoreInv /\ OwnerInv /\ OwnerInv' /\ [Next]_vars
        => [Lifecycle!Next]_Phase
  <2> SUFFICES ASSUME TypeOK, TypeOK', StoreInv, OwnerInv, OwnerInv', [Next]_vars
               PROVE  Lifecycle!Next \/ Phase' = Phase
    OBVIOUS
  <2>1. ASSUME NEW id \in Ids,
               \A j \in Ids : j # id => PhaseOf(j)' = PhaseOf(j),
               NEW from, NEW to, PhaseOf(id) = from, PhaseOf(id)' = to,
               \/ from = to
               \/ from = "unborn" /\ to = "available"
               \/ from = "available" /\ to = "dangling"
               \/ from = "dangling" /\ to = "removed"
        PROVE  Lifecycle!Next \/ Phase' = Phase
    <3>1. Phase[id] = from /\ Phase' = [Phase EXCEPT ![id] = to]
      BY <2>1
    <3>2. CASE from = to
      <4>1. Phase' = Phase
        BY <2>1, <3>2
      <4> QED BY <4>1
    <3>3. CASE from # to
      <4> HIDE DEF Phase
      <4>1. Lifecycle!Move(id, from, to)
        BY <3>1 DEF Lifecycle!Move, Phase
      <4> QED BY <2>1, <3>3, <4>1 DEF Lifecycle!Next
    <3> QED BY <3>2, <3>3
  <2>2. ASSUME UNCHANGED <<row, fs>>,
               \A j \in Ids : row[j] # "none" => request'[j] = request[j]
        PROVE  Phase' = Phase
    <3>1. \A j \in Ids : PhaseOf(j)' = PhaseOf(j)
      BY <2>2 DEF PhaseOf, Exists, PathOf, Listed, TypeOK, RowState
    <3> QED BY <3>1
  <2>3. ASSUME NEW h \in Handlers, SnapshotSource(h) PROVE Phase' = Phase
    <3> DEFINE path == PathOf(handler[h].id)
    <3>1. /\ row[handler[h].id] = "none" /\ UNCHANGED <<row, request>>
          /\ request[handler[h].id] # None /\ handler[h].id \in Ids
      BY <2>3 DEF SnapshotSource, StoreInv, Creating, At, TypeOK
    <3>2. \A p \in Path : p # path => fs'[p] = fs[p]
      BY <2>3, SourceEffect
    <3>3. \A j \in Ids : row[j] # "none" =>
            PathOf(j) # path /\ PathOf(j) \in Path /\ fs'[PathOf(j)] = fs[PathOf(j)]
      BY <3>1, <3>2, PathTypes DEF OwnerInv, TypeOK
    <3>4. \A j \in Ids : PhaseOf(j)' = PhaseOf(j)
      BY <3>1, <3>3 DEF PhaseOf, Exists, PathOf, Listed, TypeOK, RowState
    <3> QED BY <3>4
  <2>4. ASSUME NEW h \in Handlers, RestoreSubvolume(h) PROVE Phase' = Phase
    <3>1. UNCHANGED <<row, request>>
      BY <2>4 DEF RestoreSubvolume
    <3>2. \A j \in Ids : row[j] # "none" => fs'[PathOf(j)] = fs[PathOf(j)]
      BY <2>4, RestoreEffect, PathTypes DEF TypeOK
    <3>3. \A j \in Ids : PhaseOf(j)' = PhaseOf(j)
      BY <3>1, <3>2 DEF PhaseOf, Exists, PathOf, Listed, TypeOK, RowState
    <3> QED BY <3>3
  <2>5. ASSUME NEW h \in Handlers, InsertRow(h) PROVE Lifecycle!Next \/ Phase' = Phase
    <3>1. PICK id \in Ids : id = handler[h].id
      BY <2>5 DEF InsertRow, TypeOK, At
    <3>2. /\ row[id] = "none" /\ request[id] # None
          /\ Exists(fs, PathOf(id)) /\ UNCHANGED <<fs, request>>
      BY <2>5, <3>1 DEF InsertRow, TypeOK, StoreInv, Creating, OwnerInv, At
    <3>3. CASE row' = row
      BY <2>2, <3>2, <3>3
    <3>4. CASE row' = [row EXCEPT ![id] = "active"]
      <4>1. row'[id] = "active" /\ \A j \in Ids : j # id => row'[j] = row[j]
        BY <3>4 DEF TypeOK
      <4>2. \A j \in Ids : j # id => PhaseOf(j)' = PhaseOf(j)
        BY <3>2, <4>1 DEF PhaseOf, Exists, PathOf, Listed
      <4>3. PhaseOf(id) = "unborn"
        BY <3>2, PhaseCases
      <4>4. fs[PathOf(id)].origin = id
        BY <3>2, PathTypes DEF OwnerInv
      <4>5. PhaseOf(id)' = "available"
        BY <3>2, <4>1, <4>4 DEF PhaseOf, Exists, PathOf, Listed
      <4> HIDE DEF Phase
      <4> QED BY <2>1, <4>2, <4>3, <4>5
    <3> QED BY <2>5, <3>1, <3>3, <3>4 DEF InsertRow
  <2>6. ASSUME NEW h \in Handlers, DeleteSubvolume(h)
        PROVE  Lifecycle!Next \/ Phase' = Phase
    <3>1. PICK id \in Ids : id = handler[h].id
      BY <2>6 DEF DeleteSubvolume, TypeOK, At
    <3>2. row[id] # "none" /\ request[id] # None /\ UNCHANGED <<row, request>>
      BY <2>6, <3>1 DEF DeleteSubvolume, TypeOK, StoreInv, Using, At
    <3>3. CASE UNCHANGED fs
      BY <2>2, <3>2, <3>3
    <3>4. CASE CanDelete(fs, PathOf(id)) /\ fs' = AfterDelete(fs, PathOf(id))
      <4>1. PathOf(id) \in Path
        BY <3>2, PathTypes
      <4>2. ~Exists(fs', PathOf(id)) /\ \A p \in Path : p # PathOf(id) => fs'[p] = fs[p]
        BY <3>4, <4>1, DeleteKeeps DEF TypeOK
      <4>3. \A j \in Ids : j # id /\ row[j] # "none" => fs'[PathOf(j)] = fs[PathOf(j)]
        BY <3>2, <4>2, PathTypes DEF OwnerInv, TypeOK
      <4>4. \A j \in Ids : j # id => PhaseOf(j)' = PhaseOf(j)
        BY <3>2, <4>3 DEF PhaseOf, Exists, PathOf, Listed, TypeOK, RowState
      <4>5. row[id] = "active" /\ Exists(fs, PathOf(id))
        BY <3>2, <3>4 DEF CanDelete, OwnerInv, DeletedMeansGone, TypeOK, RowState
      <4>6. PhaseOf(id) = "available"
        BY <4>5, PhaseCases
      <4>7. PhaseOf(id)' = "dangling"
        BY <3>2, <4>2, <4>5 DEF PhaseOf, Exists, PathOf, Listed
      <4> HIDE DEF Phase
      <4> QED BY <2>1, <4>4, <4>6, <4>7
    <3> QED BY <2>6, <3>1, <3>3, <3>4 DEF DeleteSubvolume
  <2>7. ASSUME NEW h \in Handlers, EraseRow(h) PROVE Lifecycle!Next \/ Phase' = Phase
    <3>1. PICK id \in Ids : id = handler[h].id
      BY <2>7 DEF EraseRow, TypeOK, At
    <3>2. /\ row[id] # "none" /\ ~Exists(fs, PathOf(id)) /\ UNCHANGED <<fs, request>>
      BY <2>7, <3>1 DEF EraseRow, TypeOK, StoreInv, Using, OwnerInv, At
    <3>3. CASE row' = row
      BY <2>2, <3>2, <3>3
    <3>4. CASE row' = [row EXCEPT ![id] = "soft_deleted"]
      <4>1. row'[id] = "soft_deleted" /\ \A j \in Ids : j # id => row'[j] = row[j]
        BY <3>4 DEF TypeOK
      <4>2. \A j \in Ids : j # id => PhaseOf(j)' = PhaseOf(j)
        BY <3>2, <4>1 DEF PhaseOf, Exists, PathOf, Listed
      <4>3. PhaseOf(id) \in {"dangling", "removed"}
        BY <3>2, PhaseCases DEF TypeOK, RowState
      <4>4. PhaseOf(id)' = "removed"
        BY <3>2, <4>1 DEF PhaseOf, Exists, PathOf, Listed
      <4> HIDE DEF Phase
      <4> QED BY <2>1, <4>2, <4>3, <4>4
    <3> QED BY <2>7, <3>1, <3>3, <3>4 DEF EraseRow
  <2>8. ASSUME NEW h \in Handlers, NEW id \in Ids, NEW base \in Subvolumes,
               NEW name \in Names, NEW ro \in BOOLEAN, BeginCreate(h, id, base, name, ro)
        PROVE  Phase' = Phase
    <3>1. \A j \in Ids : row[j] # "none" => request'[j] = request[j]
      BY <2>8 DEF BeginCreate, TypeOK
    <3>2. UNCHANGED <<row, fs>>
      BY <2>8 DEF BeginCreate
    <3> QED BY <2>2, <3>1, <3>2
  <2>9. ASSUME UNCHANGED <<row, fs, request>> PROVE Phase' = Phase
    BY <2>2, <2>9
  <2> HIDE DEF Phase
  <2> QED
    BY <2>3, <2>4, <2>5, <2>6, <2>7, <2>8, <2>9
    DEF Next, Serve, Accept, NotFound, RecordRestore, BeginDelete, BeginRestore,
        Tick, Crash, vars
<1> QED BY <1>1, <1>2, TypeCorrect, StoreInvariant, OwnerInvariant, PTL
        DEF Spec, ImplementsLifecycle, Lifecycle!Spec

\* The same, property by property.

\* With fresh paths, nothing but the request that is making or deleting a
\* subvolume knows one without a row.
THEOREM NothingLeaks == Spec => []NoOrphans
  BY StoreSafety, PTL

\* With fresh paths, a snapshot that was answered deleted has no subvolume.
THEOREM Deleted == Spec => []DeletedMeansGone
  BY StoreSafety, PTL

\* With fresh paths, the subvolume at a listed path is the one of that row.
THEOREM ListedOwn == Spec => []ListedNamesOwnSubvolume
  BY StoreSafety, PTL

\* A restore that was answered with success has left its writable copy.
THEOREM Delivers == Spec => []RestoreDelivers
  BY StoreSafety, PTL

\* No two listed snapshots share a path, fresh or not.
THEOREM OneRow == Spec => []OneRowPerPath
  BY StoreSafety, PTL

----------------------------------------------------------------------------
(* Every delete that has removed the data unlists the snapshot.            *)

\* Unless something failed, whoever has removed the subvolume of a listed
\* snapshot is about to erase its row.
WipedInv ==
  \A id \in wiped :
    row[id] # "none" /\ (Listed(id) /\ faults = 0 => Working(id, "erase"))

\* A step that leaves the handlers about to erase and what was wiped alone.
LEMMA WipedFrame ==
  ASSUME WipedInv, wiped' = wiped, faults' = 0 => faults = 0,
         \A id \in wiped : row'[id] # "none" /\ (Listed(id)' => Listed(id)),
         \A h \in Handlers : At(h, "erase") => handler'[h] = handler[h]
  PROVE  WipedInv'
  BY DEF WipedInv, Working, At

LEMMA WipedSteps ==
  ASSUME TypeOK, StoreInv, WipedInv, [Next]_vars PROVE WipedInv'
  <1>1. ASSUME NEW h \in Handlers, InsertRow(h) PROVE WipedInv'
    <2>1. /\ handler[h].id \in Ids /\ row[handler[h].id] = "none" /\ wiped' = wiped
          /\ \A g \in Handlers : g # h => handler'[g] = handler[g]
      BY <1>1 DEF InsertRow, StoreInv, Creating, TypeOK, At, Become
    <2>2. /\ faults' = 0 => faults = 0
          /\ \A id \in Ids : row[id] # "none" => row'[id] = row[id]
      BY <1>1, <2>1 DEF InsertRow, StatementFails, TypeOK
    <2>3. \A id \in wiped : id \in Ids /\ row[id] # "none"
      BY DEF WipedInv, TypeOK
    <2> QED BY <1>1, <2>1, <2>2, <2>3, WipedFrame DEF InsertRow, At, Listed
  <1>2. ASSUME NEW h \in Handlers, DeleteSubvolume(h) PROVE WipedInv'
    <2> DEFINE id == handler[h].id
    <2>1. /\ row[id] # "none" /\ id \in Ids /\ UNCHANGED <<row, faults>> /\ At(h, "delete")
          /\ \A g \in Handlers : g # h => handler'[g] = handler[g]
      BY <1>2 DEF DeleteSubvolume, StoreInv, Using, TypeOK, At, Become, Advance
    <2>2. CASE wiped' = wiped \cup {id} /\ Advance(h, "erase")
      <3>1. handler'[h].step = "erase" /\ handler'[h].id = id
        BY <2>2 DEF Advance, TypeOK, Task
      <3> QED BY <2>1, <2>2, <3>1 DEF WipedInv, Working, At, Listed
    <2>3. CASE UNCHANGED wiped
      BY <2>1, <2>3, WipedFrame DEF At, Listed, WipedInv
    <2> QED BY <1>2, <2>2, <2>3 DEF DeleteSubvolume
  <1>3. ASSUME NEW h \in Handlers, EraseRow(h) PROVE WipedInv'
    <2> DEFINE id == handler[h].id
    <2>1. /\ id \in Ids /\ UNCHANGED wiped
          /\ \A g \in Handlers : g # h => handler'[g] = handler[g]
      BY <1>3 DEF EraseRow, TypeOK, At, Become
    <2>2. CASE row' = [row EXCEPT ![id] = "soft_deleted"] /\ UNCHANGED faults
      <3>1. row'[id] = "soft_deleted" /\ \A j \in Ids : j # id => row'[j] = row[j]
        BY <2>1, <2>2 DEF TypeOK
      <3>2. ASSUME NEW j \in wiped', Listed(j)', faults' = 0 PROVE Working(j, "erase")'
        <4>1. j \in wiped /\ j \in Ids /\ j # id /\ Listed(j) /\ faults = 0
          BY <2>1, <2>2, <3>1, <3>2 DEF TypeOK, Listed
        <4> QED BY <2>1, <4>1 DEF WipedInv, Working, At
      <3> QED BY <2>1, <3>1, <3>2 DEF WipedInv, TypeOK
    <2>3. CASE StatementFails /\ UNCHANGED row
      BY <2>1, <2>3 DEF StatementFails, WipedInv, TypeOK
    <2> QED BY <1>3, <2>2, <2>3 DEF EraseRow
  <1>4. CASE Crash
    BY <1>4 DEF Crash, StatementFails, WipedInv, TypeOK
  <1>5. ASSUME NEW h \in Handlers,
               \/ SnapshotSource(h) \/ RestoreSubvolume(h) \/ RecordRestore(h)
               \/ \E id \in Ids : Accept(h, id)
        PROVE  WipedInv'
    <2>1. /\ UNCHANGED <<row, faults, wiped>>
          /\ \A g \in Handlers : g # h => handler'[g] = handler[g]
          /\ At(h, "erase") => handler'[h] = handler[h]
      BY <1>5 DEF SnapshotSource, RestoreSubvolume, RecordRestore, Accept, BeginCreate,
                  BeginDelete, BeginRestore, NotFound, vars, At, Become, Advance, TypeOK
    <2> QED BY <2>1, WipedFrame DEF Listed, WipedInv
  <1>6. CASE Tick \/ UNCHANGED vars
    BY <1>6, WipedFrame DEF Tick, vars, Listed, WipedInv
  <1> QED BY <1>1, <1>2, <1>3, <1>4, <1>5, <1>6 DEF Next, Serve

THEOREM WipedInvariant == Spec => []WipedInv
  <1>1. Init => WipedInv
    BY DEF Init, WipedInv
  <1> QED BY <1>1, WipedSteps, TypeCorrect, StoreInvariant, PTL DEF Spec

\* The fairness of FairSpec, WF_vars(Serve(h)) for every handler, with the guard
\* of Serve written out: a goroutine that serves a request goes on.
Serving(h) == ~At(h, "idle")
HandlerRuns(h) == []Serving(h) => <><<Serve(h)>>_vars
HandlersRun == \A h \in Handlers : HandlerRuns(h)

\* Handler h is about to erase the row of id, and nothing has failed so far.
AboutToErase(h, id) == At(h, "erase") /\ handler[h].id = id /\ faults = 0
Cleared(id) == ~Listed(id) \/ faults > 0

LEMMA EraseClears ==
  ASSUME TypeOK, NEW h \in Handlers, NEW id \in Ids, AboutToErase(h, id), Serve(h)
  PROVE  Cleared(id)'
  <1>1. EraseRow(h)
    BY DEF AboutToErase, Serve, SnapshotSource, InsertRow, DeleteSubvolume, RestoreSubvolume,
           RecordRestore, At
  <1>2. CASE row' = [row EXCEPT ![id] = "soft_deleted"]
    BY <1>2 DEF TypeOK, Cleared, Listed
  <1>3. CASE StatementFails
    BY <1>3 DEF StatementFails, AboutToErase, Cleared
  <1> QED BY <1>1, <1>2, <1>3 DEF EraseRow, AboutToErase

LEMMA StillAboutToErase ==
  ASSUME TypeOK, NEW h \in Handlers, NEW id \in Ids, AboutToErase(h, id), [Next]_vars
  PROVE  AboutToErase(h, id)' \/ Cleared(id)'
  <1>1. faults' # 0 => Cleared(id)'
    <2>1. faults' \in {faults, faults + 1}
      BY DEF Next, Serve, Accept, SnapshotSource, InsertRow, DeleteSubvolume, EraseRow,
             RestoreSubvolume, RecordRestore, BeginCreate, BeginDelete, BeginRestore, NotFound,
             Tick, Crash, StatementFails, vars
    <2> QED BY <2>1 DEF AboutToErase, Cleared
  <1>2. CASE Serve(h)
    BY <1>2, EraseClears
  <1>3. ASSUME NEW g \in Handlers, Serve(g), g # h PROVE handler'[h] = handler[h]
    BY <1>3 DEF Serve, SnapshotSource, InsertRow, DeleteSubvolume, EraseRow, RestoreSubvolume,
                RecordRestore, Become, Advance, TypeOK
  <1>4. ASSUME NEW g \in Handlers, NEW i \in Ids, Accept(g, i) PROVE handler'[h] = handler[h]
    BY <1>4 DEF Accept, BeginCreate, BeginDelete, BeginRestore, NotFound, vars, Become, At,
                AboutToErase, TypeOK
  <1>5. CASE Tick \/ UNCHANGED vars
    BY <1>5 DEF Tick, vars, AboutToErase, At
  <1>6. CASE Crash
    BY <1>1, <1>6 DEF Crash, StatementFails, AboutToErase
  <1>7. handler'[h] = handler[h] => AboutToErase(h, id)' \/ Cleared(id)'
    BY <1>1 DEF AboutToErase, At
  <1> QED BY <1>2, <1>3, <1>4, <1>5, <1>6, <1>7 DEF Next

\* Unless something fails, a snapshot whose data a delete has removed is
\* unlisted in the end, also when two requests chose its path (DeleteSnapshot
\* in main.go erases the row only after btrfs has answered).
THEOREM DanglingCleared == Spec /\ []HandlersRun => DanglingIsCleared
  <1> SUFFICES ASSUME []TypeOK, []WipedInv, [][Next]_vars, []HandlersRun
               PROVE  DanglingIsCleared
    BY TypeCorrect, WipedInvariant, PTL DEF Spec
  <1>1. ASSUME NEW id \in Ids
        PROVE  Listed(id) /\ id \in wiped ~> ~Listed(id) \/ faults > 0
    <2>1. ASSUME NEW h \in Handlers
          PROVE  AboutToErase(h, id) => <>Cleared(id)
      <3>1. TypeOK /\ AboutToErase(h, id) /\ [Next]_vars => AboutToErase(h, id)' \/ Cleared(id)'
        BY StillAboutToErase
      <3>2. TypeOK /\ AboutToErase(h, id) /\ <<Serve(h)>>_vars => Cleared(id)'
        BY EraseClears
      <3>3. AboutToErase(h, id) => Serving(h)
        BY DEF AboutToErase, Serving, At
      <3>4. HandlersRun => HandlerRuns(h)
        BY DEF HandlersRun
      <3>5. []HandlerRuns(h)
        BY <3>4, PTL
      <3>6. HandlerRuns(h) => ([]Serving(h) => <><<Serve(h)>>_vars)
        BY PTL DEF HandlerRuns
      <3> QED BY <3>1, <3>2, <3>3, <3>5, <3>6, PTL
    <2>2. (\E h \in Handlers : AboutToErase(h, id)) => <>Cleared(id)
      BY <2>1
    <2>3. TypeOK /\ WipedInv /\ Listed(id) /\ id \in wiped =>
            Cleared(id) \/ \E h \in Handlers : AboutToErase(h, id)
      BY DEF TypeOK, WipedInv, Working, Cleared, AboutToErase
    <2>4. Cleared(id) => ~Listed(id) \/ faults > 0
      BY DEF Cleared
    <2> QED BY <2>2, <2>3, <2>4, PTL
  <1> QED BY <1>1 DEF DanglingIsCleared

----------------------------------------------------------------------------
(* What a fault can leak.                                                  *)

Abandoned == {PathOf(handler[h].id) : h \in Handlers}

\* A step keeps what the requests chose; a row leaves the list only through a
\* handler that erases it; an insert that is due is done, unless there is a fault.
StepKeeps ==
  /\ faults' \in {faults, faults + 1}
  /\ \A id \in Ids : request[id] # None => request'[id] = request[id]
  /\ \A id \in Ids : Listed(id) => Listed(id)' \/ Working(id, "erase")
  /\ \A id \in Ids : Working(id, "insert") =>
       Working(id, "insert")' \/ Listed(id)' \/ faults' = faults + 1

LEMMA QuietStep ==
  ASSUME UNCHANGED <<row, faults>>,
         \A id \in Ids : request[id] # None => request'[id] = request[id],
         \A h \in Handlers : At(h, "insert") => handler'[h] = handler[h]
  PROVE  StepKeeps
  BY DEF StepKeeps, Listed, Working, At

LEMMA KeepsInsert ==
  ASSUME TypeOK, StoreInv, OwnerInv, FreshPaths, NEW h \in Handlers, InsertRow(h)
  PROVE  StepKeeps
  <1> DEFINE id == handler[h].id
  <1>1. /\ id \in Ids /\ row[id] = "none" /\ request[id] # None /\ UNCHANGED request
        /\ \A g \in Handlers : g # h => handler'[g] = handler[g]
    BY DEF InsertRow, StoreInv, Creating, TypeOK, At, Become
  <1>2. ~PathTaken(PathOf(id))
    BY <1>1 DEF PathTaken, OwnerInv, TypeOK
  <1>3. CASE row' = [row EXCEPT ![id] = "active"] /\ UNCHANGED faults
    <2>1. row'[id] = "active" /\ \A j \in Ids : j # id => row'[j] = row[j]
      BY <1>1, <1>3 DEF TypeOK
    <2>2. \A j \in Ids : Listed(j) \/ j = id => Listed(j)'
      BY <2>1 DEF Listed
    <2> QED BY <1>1, <1>3, <2>2 DEF StepKeeps, Working, At
  <1>4. CASE StatementFails /\ UNCHANGED row
    BY <1>1, <1>4 DEF StepKeeps, StatementFails, Listed
  <1> QED BY <1>2, <1>3, <1>4 DEF InsertRow

LEMMA KeepsErase ==
  ASSUME TypeOK, NEW h \in Handlers, EraseRow(h) PROVE StepKeeps
  <1> DEFINE id == handler[h].id
  <1>1. /\ id \in Ids /\ UNCHANGED request /\ At(h, "erase")
        /\ \A g \in Handlers : g # h => handler'[g] = handler[g]
    BY DEF EraseRow, TypeOK, At, Become
  <1>2. \A j \in Ids : j # id => row'[j] = row[j]
    BY <1>1 DEF EraseRow, TypeOK
  <1>3. faults' \in {faults, faults + 1}
    BY DEF EraseRow, StatementFails
  <1> QED BY <1>1, <1>2, <1>3 DEF StepKeeps, Working, Listed, At

LEMMA AnyStepKeeps ==
  ASSUME TypeOK, StoreInv, OwnerInv, FreshPaths, [Next]_vars PROVE StepKeeps
  <1>1. ASSUME NEW h \in Handlers, NEW id \in Ids, Accept(h, id) PROVE StepKeeps
    <2>1. /\ UNCHANGED <<row, faults>> /\ (At(h, "insert") => handler'[h] = handler[h])
          /\ \A g \in Handlers : g # h => handler'[g] = handler[g]
          /\ \A j \in Ids : request[j] # None => request'[j] = request[j]
      BY <1>1 DEF Accept, BeginCreate, BeginDelete, BeginRestore, NotFound, vars, At, Become,
                  TypeOK
    <2> QED BY <2>1, QuietStep
  <1>2. ASSUME NEW h \in Handlers,
               \/ SnapshotSource(h) \/ DeleteSubvolume(h) \/ RestoreSubvolume(h)
               \/ RecordRestore(h)
        PROVE  StepKeeps
    <2>1. /\ UNCHANGED <<request, row, faults>> /\ ~At(h, "insert")
          /\ \A g \in Handlers : g # h => handler'[g] = handler[g]
      BY <1>2 DEF SnapshotSource, DeleteSubvolume, RestoreSubvolume, RecordRestore, At, Become,
                  Advance, TypeOK
    <2> QED BY <2>1, QuietStep
  <1>3. CASE Crash
    BY <1>3 DEF Crash, StatementFails, StepKeeps, Listed
  <1>4. CASE Tick \/ UNCHANGED vars
    BY <1>4, QuietStep DEF Tick, vars
  <1> QED BY <1>1, <1>2, <1>3, <1>4, KeepsInsert, KeepsErase DEF Next, Serve

\* A subvolume under .snapshots that was not there before is about to be stored.
LEMMA NewIsKnown ==
  ASSUME TypeOK, [Next]_vars, NEW p \in SnapPath, ~Exists(fs, p), Exists(fs', p)
  PROVE  Known(p)'
  <1>1. fs' # fs
    BY DEF Exists
  <1>2. PICK h \in Handlers : SnapshotSource(h) \/ DeleteSubvolume(h) \/ RestoreSubvolume(h)
    BY <1>1 DEF Next, Serve, Accept, InsertRow, EraseRow, RecordRestore, BeginCreate, BeginDelete,
               BeginRestore, NotFound, Tick, Crash, vars
  <1>3. p \in Path /\ p \notin Places
    BY StoreAssumption DEF Path
  <1>4. CASE SnapshotSource(h)
    <2> DEFINE id == handler[h].id
    <2>1. /\ id \in Ids /\ request[id] # None /\ PathOf(id) = p /\ At(h, "insert")'
      BY <1>3, <1>4, SourceEffect DEF Exists
    <2>2. handler'[h].id = id /\ UNCHANGED request
      BY <1>4, <2>1 DEF SnapshotSource, Advance, Become, Idle, At, TypeOK, Task
    <2> QED BY <2>1, <2>2 DEF Known, Working, PathOf
  <1>5. CASE RestoreSubvolume(h)
    BY <1>3, <1>5, RestoreEffect DEF Exists
  <1>6. CASE DeleteSubvolume(h)
    <2>1. PathOf(handler[h].id) \in Path
      BY <1>6, PathTypes DEF DeleteSubvolume, TypeOK, At
    <2> QED BY <1>1, <1>3, <1>6, <2>1, DeleteKeeps DEF DeleteSubvolume, Exists, TypeOK
  <1> QED BY <1>2, <1>4, <1>5, <1>6

\* Hence orphans come from faults only, and from the handlers a fault hits.
LEMMA OrphanSteps ==
  ASSUME TypeOK, StoreInv, OwnerInv, FreshPaths, [Next]_vars
  PROVE  /\ faults' = faults => Orphans' \subseteq Orphans
         /\ faults' \in {faults, faults + 1} /\ Orphans' \subseteq Orphans \cup Abandoned
  <1>1. StepKeeps
    BY AnyStepKeeps
  <1>2. ASSUME NEW p \in SnapPath, Exists(fs', p), ~Known(p)', Known(p)
        PROVE  p \in Abandoned /\ faults' = faults + 1
    <2>1. PICK id \in Ids : /\ request[id] # None /\ PathOf(id) = p
                            /\ Listed(id) \/ Working(id, "insert")
      BY <1>2 DEF Known
    <2>2. PathOf(id)' = p /\ request'[id] # None
      BY <1>1, <2>1 DEF StepKeeps, PathOf
    <2>3. ~Listed(id)' /\ ~Working(id, "insert")'
      BY <1>2, <2>2 DEF Known
    <2>4. Exists(fs, p)
      BY <1>2, NewIsKnown
    <2>5. ~Working(id, "erase")
      BY <2>1, <2>4 DEF Working, OwnerInv
    <2>6. Working(id, "insert") /\ faults' = faults + 1
      BY <1>1, <2>1, <2>3, <2>5 DEF StepKeeps
    <2> QED BY <2>1, <2>6 DEF Working, Abandoned
  <1>3. ASSUME NEW p \in Orphans'
        PROVE  p \in Orphans \/ (p \in Abandoned /\ faults' = faults + 1)
    <2>1. p \in SnapPath /\ Exists(fs', p) /\ ~Known(p)'
      BY DEF Orphans
    <2>2. Exists(fs, p)
      BY <2>1, NewIsKnown
    <2> QED BY <1>2, <2>1, <2>2 DEF Orphans
  <1>4. faults # faults + 1
    BY DEF TypeOK
  <1> QED BY <1>1, <1>3, <1>4 DEF StepKeeps

LeakInv == OrphansCostFaults /\ (FreshPaths => IsFiniteSet(Orphans))

\* A fault hits each handler at most once.
LEMMA AbandonedCount ==
  IsFiniteSet(Abandoned) /\ Cardinality(Abandoned) <= Cardinality(Handlers)
  /\ Cardinality(Abandoned) \in Nat /\ Cardinality(Handlers) \in Nat
  <1>1. IsFiniteSet(Handlers)
    BY StoreAssumption DEF StoreAssumption
  <1> DEFINE f == [h \in Handlers |-> PathOf(handler[h].id)]
  <1>2. Abandoned = {f[h] : h \in Handlers}
    BY DEF Abandoned
  <1>3. f \in Surjection(Handlers, Abandoned)
    BY <1>2 DEF Surjection
  <1> HIDE DEF f
  <1> QED BY <1>1, <1>3, FS_Surjection, FS_CardinalityType

\* (n + 1) * m, for the provers.
LEMMA OneMore ==
  ASSUME NEW n \in Nat, NEW m \in Nat PROVE (n + 1) * m = n * m + m /\ n * m \in Nat
  OBVIOUS

THEOREM LeakInvariant == Spec => []LeakInv
  <1>1. Init => LeakInv
    <2> SUFFICES ASSUME Init PROVE LeakInv
      OBVIOUS
    <2>1. Orphans = {}
      BY StoreAssumption DEF Init, Orphans, Exists, Path, Places
    <2>2. 0 * Cardinality(Handlers) = 0
      BY AbandonedCount
    <2> QED BY <2>1, <2>2, FS_EmptySet DEF LeakInv, OrphansCostFaults, Init
  <1>2. TypeOK /\ StoreInv /\ OwnerInv /\ LeakInv /\ [Next]_vars => LeakInv'
    <2> SUFFICES ASSUME TypeOK, StoreInv, OwnerInv, LeakInv, [Next]_vars, FreshPaths
                 PROVE  /\ IsFiniteSet(Orphans')
                        /\ Cardinality(Orphans') <= faults' * Cardinality(Handlers)
      BY DEF LeakInv, OrphansCostFaults
    <2>1. /\ IsFiniteSet(Orphans) /\ Cardinality(Orphans) \in Nat
          /\ Cardinality(Orphans) <= faults * Cardinality(Handlers)
          /\ faults \in Nat
      BY FS_CardinalityType DEF LeakInv, OrphansCostFaults, TypeOK
    <2>2. CASE faults' = faults
      <3>1. Orphans' \subseteq Orphans
        BY <2>2, OrphanSteps
      <3>2. IsFiniteSet(Orphans') /\ Cardinality(Orphans') <= Cardinality(Orphans)
            /\ Cardinality(Orphans') \in Nat
        BY <2>1, <3>1, FS_Subset, FS_CardinalityType
      <3>3. faults * Cardinality(Handlers) \in Nat
        BY <2>1, AbandonedCount, OneMore
      <3> QED BY <2>1, <2>2, <3>2, <3>3
    <2>3. CASE faults' = faults + 1
      <3> DEFINE Both == Orphans \cup Abandoned
      <3>1. Orphans' \subseteq Both
        BY OrphanSteps
      <3>2. /\ IsFiniteSet(Both) /\ Cardinality(Both) \in Nat
            /\ Cardinality(Both) <= Cardinality(Orphans) + Cardinality(Abandoned)
        <4>1. /\ IsFiniteSet(Both)
              /\ Cardinality(Both) = Cardinality(Orphans) + Cardinality(Abandoned)
                                      - Cardinality(Orphans \cap Abandoned)
          BY <2>1, AbandonedCount, FS_Union
        <4>2. IsFiniteSet(Orphans \cap Abandoned)
          BY <2>1, FS_Subset
        <4>3. Cardinality(Orphans \cap Abandoned) \in Nat /\ Cardinality(Both) \in Nat
          BY <4>1, <4>2, FS_CardinalityType
        <4> HIDE DEF Both
        <4> QED BY <2>1, <4>1, <4>3, AbandonedCount
      <3>3. /\ IsFiniteSet(Orphans') /\ Cardinality(Orphans') \in Nat
            /\ Cardinality(Orphans') <= Cardinality(Both)
        BY <3>1, <3>2, FS_Subset, FS_CardinalityType
      <3>4. /\ (faults + 1) * Cardinality(Handlers)
                 = faults * Cardinality(Handlers) + Cardinality(Handlers)
            /\ faults * Cardinality(Handlers) \in Nat
        BY <2>1, AbandonedCount, OneMore
      <3> HIDE DEF Both
      <3> QED BY <2>1, <2>3, <3>2, <3>3, <3>4, AbandonedCount
    <2> QED BY <2>2, <2>3, OrphanSteps
  <1> QED BY <1>1, <1>2, TypeCorrect, StoreInvariant, OwnerInvariant, PTL DEF Spec

\* With fresh paths, space leaks only through faults, at most one subvolume per
\* fault and request being served, for any interleaving of creates, deletes and
\* restores (main.go: CreateSnapshot stores the row of every subvolume it made).
THEOREM LeaksAreBounded == Spec => []OrphansCostFaults
  BY LeakInvariant, PTL DEF LeakInv

=============================================================================
