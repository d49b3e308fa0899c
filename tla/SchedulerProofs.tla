-------------------------- MODULE SchedulerProofs --------------------------
(***************************************************************************)
(* The safety properties of Scheduler, for any number of policies, bases,  *)
(* snapshots and faults.                                                   *)
(*                                                                         *)
(* What keeps a base alive is not in the loop that deletes: every run that *)
(* has come so far has left a snapshot in the base (RunInv), and nothing   *)
(* the loop deletes is a snapshot.                                         *)
(***************************************************************************)
EXTENDS Scheduler, SequenceTheorems, FiniteSetTheorems, TLAPS

\* A policy has a row as soon as its handler has stored it, and keeps it.
RowInv == \A id \in Ids : rows[id] # None <=> handler[id] \in {"add", "created", "lost"}

\* Whatever cron runs has a row that says so.
EntriesAreEnabled == \A id \in entries :
  handler[id] = "created" /\ rows[id] # None /\ rows[id].enabled

RunInv(r) ==
  /\ rows[r.id] # None
  /\ r.step \in {"list", "delete"} =>
       \E i \in DOMAIN disk : disk[i].base = rows[r.id].base
  /\ r.step = "delete" => r.left \in Seq({rows[r.id].base}) /\ r.left # <<>>
  /\ r.made # None => \E i \in DOMAIN disk : disk[i] = r.made

IInv ==
  /\ TypeOK /\ RowInv /\ EntriesAreEnabled /\ BaseSurvives
  /\ \A r \in runs : RunInv(r)

----------------------------------------------------------------------------
(* Types.                                                                  *)

LEMMA Numbers ==
  DefaultKeep \in Nat /\ Others \in Nat /\ MaxClock \in Nat /\ MaxFaults \in Nat /\ Keeps \subseteq Nat
  BY SchedulerAssumption DEF SchedulerAssumption

LEMMA NoneApart == None \notin Policy
  BY SchedulerAssumption DEF SchedulerAssumption, Policy

LEMMA Counting == ASSUME NEW m \in Nat, NEW n \in 0 .. m, n < m
                  PROVE  n + 1 \in 0 .. m
  OBVIOUS

LEMMA FaultCounts ==
  ASSUME TypeOK
  PROVE  Fault => faults' \in 0 .. MaxFaults
  BY Numbers, Counting DEF Fault, TypeOK

LEMMA RowOf == ASSUME TypeOK, NEW r \in runs, rows[r.id] # None
               PROVE  r \in Run /\ rows[r.id] \in Policy /\ rows[r.id].base \in Bases
                      /\ Keep(rows[r.id]) \in Nat
  <1>1. r \in Run /\ rows[r.id] \in Policy
    BY DEF TypeOK, Run
  <1> QED BY <1>1, Numbers DEF Policy, Keep

----------------------------------------------------------------------------
(* The frame of a step: runs stay right while rows are kept and snapshots  *)
(* are only added.                                                         *)

RowsKept == \A id \in Ids : rows[id] # None => rows'[id] = rows[id]
DiskKept == \A i \in DOMAIN disk : i \in DOMAIN disk' /\ disk'[i] = disk[i]

LEMMA Frame ==
  ASSUME TypeOK, NEW r \in runs, RunInv(r), RowsKept, DiskKept
  PROVE  RunInv(r)'
  <1>1. r.id \in Ids
    BY DEF TypeOK, Run
  <1>2. rows'[r.id] = rows[r.id] /\ rows[r.id] # None
    BY <1>1 DEF RunInv, RowsKept
  <1>3. r.step \in {"list", "delete"} => \E i \in DOMAIN disk' : disk'[i].base = rows'[r.id].base
    BY <1>2 DEF RunInv, DiskKept
  <1>4. r.made # None => \E i \in DOMAIN disk' : disk'[i] = r.made
    BY DEF RunInv, DiskKept
  <1> QED BY <1>2, <1>3, <1>4 DEF RunInv

\* A step that adds or replaces at most one run, new, which is right itself.
LEMMA RunsStayRight ==
  ASSUME IInv, RowsKept, DiskKept, NEW new, runs' \subseteq runs \cup {new}, RunInv(new)'
  PROVE  \A r \in runs' : RunInv(r)'
  <1> SUFFICES ASSUME NEW r \in runs' PROVE RunInv(r)'
    OBVIOUS
  <1>1. CASE r \in runs
    BY <1>1, Frame DEF IInv
  <1>2. CASE r = new
    BY <1>2
  <1> QED BY <1>1, <1>2

LEMMA RunsKept ==
  ASSUME IInv, RowsKept, DiskKept, runs' \subseteq runs
  PROVE  \A r \in runs' : RunInv(r)'
  BY Frame DEF IInv

LEMMA Unchanged == UNCHANGED rows => RowsKept
  BY DEF RowsKept

LEMMA SameDisk == UNCHANGED disk => DiskKept
  BY DEF DiskKept

----------------------------------------------------------------------------
(* Every step keeps the invariant.                                         *)

LEMMA CreateInvariant ==
  ASSUME IInv, NEW id \in Ids, CreatePolicy(id)
  PROVE  IInv'
  <1>1. TypeOK /\ RowInv /\ EntriesAreEnabled /\ BaseSurvives
    BY DEF IInv
  <1>2. rows[id] = None /\ handler[id] = "none"
    BY <1>1 DEF RowInv, CreatePolicy
  <1>3. TypeOK'
    BY <1>1, FaultCounts DEF TypeOK, CreatePolicy, Handler
  <1>4. RowsKept
    BY <1>1, <1>2 DEF RowsKept, CreatePolicy, TypeOK
  <1>5. RowInv'
    BY <1>1, <1>2, NoneApart DEF RowInv, CreatePolicy, TypeOK
  <1>6. EntriesAreEnabled'
    <2>1. \A e \in entries : e \in Ids /\ e # id
      BY <1>1, <1>2 DEF EntriesAreEnabled, TypeOK
    <2>2. \A e \in entries : rows'[e] = rows[e] /\ handler'[e] = handler[e]
      BY <1>1, <2>1 DEF CreatePolicy, TypeOK
    <2> QED BY <1>1, <2>2 DEF EntriesAreEnabled, CreatePolicy
  <1>7. DiskKept /\ UNCHANGED <<runs, bases>>
    BY DEF DiskKept, CreatePolicy
  <1> QED BY <1>1, <1>3, <1>4, <1>5, <1>6, <1>7, RunsKept DEF IInv, BaseSurvives

LEMMA AddInvariant ==
  ASSUME IInv, NEW id \in Ids, AddPolicy(id)
  PROVE  IInv'
  <1>1. TypeOK /\ RowInv /\ EntriesAreEnabled /\ BaseSurvives
    BY DEF IInv
  <1>2. TypeOK'
    BY <1>1 DEF TypeOK, AddPolicy, Handler
  <1>3. RowInv'
    BY <1>1 DEF RowInv, AddPolicy, TypeOK
  <1>4. rows[id] # None
    BY <1>1 DEF RowInv, AddPolicy
  <1>5. EntriesAreEnabled'
    <2> SUFFICES ASSUME NEW e \in entries'
                 PROVE  handler'[e] = "created" /\ rows'[e] # None /\ rows'[e].enabled
      BY DEF EntriesAreEnabled
    <2>1. CASE e = id /\ rows[id].enabled
      BY <1>1, <1>4, <2>1 DEF AddPolicy, TypeOK
    <2>2. CASE e \in entries
      BY <1>1, <2>2 DEF AddPolicy, TypeOK, EntriesAreEnabled
    <2> QED BY <2>1, <2>2 DEF AddPolicy
  <1>6. RowsKept /\ DiskKept /\ UNCHANGED <<runs, bases>>
    BY DEF RowsKept, DiskKept, AddPolicy
  <1> QED BY <1>1, <1>2, <1>3, <1>5, <1>6, RunsKept DEF IInv, BaseSurvives

LEMMA FireInvariant ==
  ASSUME IInv, NEW id \in Ids, Fire(id)
  PROVE  IInv'
  <1>1. TypeOK /\ RowInv /\ EntriesAreEnabled /\ BaseSurvives
    BY DEF IInv
  <1> PICK new : new = [id |-> id, fired |-> now, step |-> "snapshot",
                        made |-> None, left |-> <<>>]
    OBVIOUS
  <1>2. runs' = runs \cup {new} /\ UNCHANGED <<now, rows, handler, entries, disk, bases, faults>>
    BY DEF Fire
  <1>3. new \in Run
    BY <1>1 DEF TypeOK, Run
  <1>4. TypeOK'
    BY <1>1, <1>2, <1>3 DEF TypeOK
  <1>5. RowInv' /\ EntriesAreEnabled' /\ BaseSurvives'
    BY <1>1, <1>2 DEF RowInv, EntriesAreEnabled, BaseSurvives
  <1>6. rows[id] # None
    BY <1>1 DEF EntriesAreEnabled, Fire
  <1>7. RunInv(new)'
    BY <1>2, <1>6 DEF RunInv
  <1>8. RowsKept /\ DiskKept
    BY <1>2 DEF RowsKept, DiskKept
  <1>9. \A r \in runs' : RunInv(r)'
    BY <1>2, <1>7, <1>8, RunsStayRight
  <1> QED BY <1>4, <1>5, <1>9 DEF IInv

\* A step of run r that turns it into new and may add to the disk.
LEMMA RunStep ==
  ASSUME IInv, NEW r \in runs, NEW new \in Run, Becomes(r, new), RunInv(new)',
         UNCHANGED <<now, rows, handler, entries, bases>>,
         DiskKept, disk' \in Seq(Snapshot), faults' \in 0 .. MaxFaults
  PROVE  IInv'
  <1>1. TypeOK /\ RowInv /\ EntriesAreEnabled /\ BaseSurvives
    BY DEF IInv
  <1>2. TypeOK'
    BY <1>1 DEF TypeOK, Becomes
  <1>3. RowInv' /\ EntriesAreEnabled' /\ BaseSurvives'
    BY <1>1 DEF RowInv, EntriesAreEnabled, BaseSurvives
  <1>4. RowsKept /\ runs' \subseteq runs \cup {new}
    BY DEF RowsKept, Becomes
  <1>5. \A r_1 \in runs' : RunInv(r_1)'
    BY <1>4, RunsStayRight
  <1> QED BY <1>2, <1>3, <1>5 DEF IInv

\* A run that gives up.
LEMMA OverStep ==
  ASSUME IInv, NEW r \in runs, Becomes(r, [r EXCEPT !.step = "over"]),
         UNCHANGED <<now, rows, handler, entries, disk, bases>>, faults' \in 0 .. MaxFaults
  PROVE  IInv'
  <1> DEFINE new == [r EXCEPT !.step = "over"]
  <1>1. TypeOK /\ r \in Run /\ RunInv(r)
    BY DEF IInv, TypeOK
  <1>2. new \in Run /\ new.id = r.id /\ new.step = "over" /\ new.made = r.made
    BY <1>1 DEF Run
  <1>3. RunInv(new)'
    BY <1>1, <1>2 DEF RunInv
  <1>4. DiskKept /\ disk' \in Seq(Snapshot)
    BY <1>1 DEF DiskKept, TypeOK
  <1> QED BY <1>2, <1>3, <1>4, RunStep

LEMMA TakeInvariant ==
  ASSUME IInv, NEW r \in runs, TakeSnapshot(r)
  PROVE  IInv'
  <1> PICK s : s = SnapshotOf(rows[r.id])
    OBVIOUS
  <1>1. TypeOK /\ RunInv(r) /\ r.step = "snapshot"
    BY DEF IInv, TakeSnapshot
  <1>2. r \in Run /\ rows[r.id] \in Policy /\ rows[r.id] # None
    BY <1>1, RowOf DEF RunInv
  <1>3. s \in Snapshot /\ s.base = rows[r.id].base
    BY <1>1, <1>2 DEF SnapshotOf, Snapshot, Policy, TypeOK
  <1>4. UNCHANGED <<now, rows, handler, entries, bases>>
    BY DEF TakeSnapshot
  <1>5. disk \in Seq(Snapshot) /\ faults \in 0 .. MaxFaults
    BY <1>1 DEF TypeOK
  <1>6. CASE /\ disk' = Append(disk, s)
             /\ Becomes(r, [r EXCEPT !.step = "list", !.made = s])
             /\ UNCHANGED faults
    <2> PICK new : new = [r EXCEPT !.step = "list", !.made = s]
      OBVIOUS
    <2>1. new \in Run /\ new.id = r.id /\ new.step = "list" /\ new.made = s
      BY <1>2, <1>3 DEF Run
    <2>2. /\ disk' \in Seq(Snapshot) /\ DiskKept
          /\ Len(disk) + 1 \in DOMAIN disk' /\ disk'[Len(disk) + 1] = s
      BY <1>3, <1>5, <1>6 DEF DiskKept
    <2>3. RunInv(new)'
      BY <1>2, <1>3, <1>4, <2>1, <2>2 DEF RunInv
    <2> QED BY <1>4, <1>5, <1>6, <2>1, <2>2, <2>3, RunStep
  <1>7. CASE /\ \E i \in At(s) : ~disk[i].ro
             /\ Becomes(r, [r EXCEPT !.step = "list"])
             /\ UNCHANGED <<disk, faults>>
    <2> PICK new : new = [r EXCEPT !.step = "list"]
      OBVIOUS
    <2>1. new \in Run /\ new.id = r.id /\ new.step = "list" /\ new.made = r.made
      BY <1>2 DEF Run
    <2>2. \E i \in DOMAIN disk : disk[i].base = rows[r.id].base
      BY <1>3, <1>7 DEF At
    <2>3. RunInv(new)'
      BY <1>1, <1>4, <1>7, <2>1, <2>2 DEF RunInv
    <2> QED BY <1>4, <1>5, <1>7, <2>1, <2>3, SameDisk, RunStep
  <1>8. CASE Becomes(r, [r EXCEPT !.step = "over"]) /\ UNCHANGED <<disk, faults>>
    BY <1>4, <1>5, <1>8, OverStep
  <1>9. CASE Fault /\ Becomes(r, [r EXCEPT !.step = "over"]) /\ UNCHANGED disk
    BY <1>1, <1>4, <1>9, FaultCounts, OverStep
  <1> QED BY <1>6, <1>7, <1>8, <1>9 DEF TakeSnapshot

\* The rows parseList makes of the list all name the base.
LEMMA ParsedRows ==
  ASSUME TypeOK, NEW base
  PROVE  ParseList(base) \in Seq({base})
  <1> DEFINE taken == {i \in DOMAIN disk : disk[i].name \in Wordy}
  <1>1. IsFiniteSet(taken)
    <2>1. DOMAIN disk = 1 .. Len(disk) /\ Len(disk) \in Nat
      BY DEF TypeOK
    <2>2. IsFiniteSet(DOMAIN disk)
      BY <2>1, FS_Interval
    <2> QED BY <2>2, FS_Subset
  <1>2. Others + Cardinality(taken) \in Nat
    BY <1>1, FS_CardinalityType, Numbers
  <1> QED BY <1>2 DEF ParseList

LEMMA RetentionInvariant ==
  ASSUME IInv, NEW r \in runs, ApplyRetention(r)
  PROVE  IInv'
  <1> PICK p : p = rows[r.id]
    OBVIOUS
  <1> PICK list : list = ParseList(p.base)
    OBVIOUS
  <1> PICK rest : rest = SubSeq(list, Keep(p) + 1, Len(list))
    OBVIOUS
  <1>1. TypeOK /\ RunInv(r) /\ r.step = "list"
    BY DEF IInv, ApplyRetention
  <1>2. r \in Run /\ p.base \in Bases /\ Keep(p) \in Nat /\ p # None
    BY <1>1, RowOf DEF RunInv
  <1>3. UNCHANGED <<now, rows, handler, entries, disk, bases>>
    BY DEF ApplyRetention
  <1>4. disk \in Seq(Snapshot) /\ faults \in 0 .. MaxFaults
    BY <1>1 DEF TypeOK
  <1>5. CASE Len(list) <= Keep(p) /\ Becomes(r, [r EXCEPT !.step = "over"]) /\ UNCHANGED faults
    BY <1>3, <1>4, <1>5, OverStep
  <1>6. CASE /\ ~(Len(list) <= Keep(p))
             /\ Becomes(r, [r EXCEPT !.step = "delete", !.left = rest])
             /\ UNCHANGED faults
    <2> PICK new : new = [r EXCEPT !.step = "delete", !.left = rest]
      OBVIOUS
    <2>1. list \in Seq({p.base}) /\ Len(list) \in Nat
      BY <1>1, ParsedRows
    <2>2. Keep(p) + 1 \in 1 .. Len(list)
      BY <1>2, <1>6, <2>1
    <2>3. rest \in Seq({p.base}) /\ Len(rest) = Len(list) - (Keep(p) + 1) + 1
      BY <2>1, <2>2, SubSeqProperties
    <2>4. Len(rest) # 0
      BY <1>2, <2>1, <2>2, <2>3
    <2>5. rest # <<>> /\ rest \in Seq(Bases \cup Snapshot)
      <3>1. {p.base} \subseteq Bases \cup Snapshot
        BY <1>2
      <3>2. rest # <<>>
        BY <2>4, EmptySeq
      <3> QED BY <2>3, <3>1, <3>2, SeqMonotonic
    <2>6. new \in Run /\ new.id = r.id /\ new.step = "delete" /\ new.made = r.made
          /\ new.left = rest
      BY <1>2, <2>5 DEF Run
    <2>7. RunInv(new)'
      BY <1>1, <1>3, <2>3, <2>5, <2>6 DEF RunInv
    <2> QED BY <1>3, <1>4, <1>6, <2>6, <2>7, SameDisk, RunStep
  <1>7. CASE Fault /\ Becomes(r, [r EXCEPT !.step = "over"])
    BY <1>1, <1>3, <1>7, FaultCounts, OverStep
  <1> QED BY <1>5, <1>6, <1>7 DEF ApplyRetention

\* The rest of a sequence of one value.
LEMMA RestOfSeq ==
  ASSUME NEW b, NEW s \in Seq({b}), s # <<>>
  PROVE  /\ Head(s) = b /\ Tail(s) \in Seq({b})
         /\ Len(s) # 1 => Tail(s) # <<>>
  <1>1. Len(s) \in Nat /\ Len(s) # 0
    OBVIOUS
  <1>2. Head(s) = b /\ Tail(s) \in Seq({b}) /\ Len(Tail(s)) = Len(s) - 1
    BY <1>1, HeadTailProperties
  <1>3. Len(s) # 1 => Len(Tail(s)) # 0
    BY <1>1, <1>2
  <1>4. Tail(s) = <<>> => Len(Tail(s)) = 0
    BY EmptySeq
  <1> QED BY <1>2, <1>3, <1>4

LEMMA DeleteInvariant ==
  ASSUME IInv, NEW r \in runs, DeleteNext(r)
  PROVE  IInv'
  <1> PICK base : base = rows[r.id].base
    OBVIOUS
  <1> PICK path : path = Head(r.left)
    OBVIOUS
  <1> PICK rest : rest = Tail(r.left)
    OBVIOUS
  <1> PICK new : new = IF Len(r.left) = 1 THEN [r EXCEPT !.step = "over", !.left = <<>>]
                                          ELSE [r EXCEPT !.left = Tail(@)]
    OBVIOUS
  <1>1. TypeOK /\ RunInv(r) /\ r.step = "delete"
    BY DEF IInv, DeleteNext
  <1>2. r \in Run /\ base \in Bases /\ rows[r.id] # None
    BY <1>1, RowOf DEF RunInv
  <1>3. r.left \in Seq({base}) /\ r.left # <<>>
    BY <1>1 DEF RunInv
  <1>4. path = base /\ rest \in Seq({base}) /\ (Len(r.left) # 1 => rest # <<>>)
    BY <1>3, RestOfSeq
  <1>5. \E i \in DOMAIN disk : disk[i].base = base
    BY <1>1 DEF RunInv
  <1>6. UNCHANGED <<disk, bases>> /\ faults' \in 0 .. MaxFaults
    <2>1. CASE /\ bases' = IF \A i \in DOMAIN disk : disk[i].base # path
                           THEN bases \ {path} ELSE bases
               /\ disk' = IF path \in Bases
                          THEN disk ELSE SelectSeq(disk, LAMBDA s : s # path)
               /\ UNCHANGED faults
      <3>1. UNCHANGED bases
        BY <1>4, <1>5, <2>1
      <3>2. UNCHANGED disk
        BY <1>2, <1>4, <2>1
      <3> QED BY <1>1, <2>1, <3>1, <3>2 DEF TypeOK
    <2>2. CASE Fault /\ UNCHANGED <<disk, bases>>
      BY <1>1, <2>2, FaultCounts
    <2> QED BY <2>1, <2>2 DEF DeleteNext
  <1>7. rest \in Seq(Bases \cup Snapshot)
    <2>1. {base} \subseteq Bases \cup Snapshot
      BY <1>2
    <2> QED BY <1>4, <2>1, SeqMonotonic
  <1>8. /\ new \in Run /\ new.id = r.id /\ new.made = r.made
        /\ new.step = "delete" => new.left \in Seq({base}) /\ new.left # <<>>
    <2>1. CASE Len(r.left) = 1
      <3>1. new = [r EXCEPT !.step = "over", !.left = <<>>]
        BY <2>1
      <3>2. <<>> \in Seq(Bases \cup Snapshot)
        BY EmptySeq
      <3> QED BY <1>2, <3>1, <3>2 DEF Run
    <2>2. CASE Len(r.left) # 1
      <3>1. new = [r EXCEPT !.left = rest]
        BY <1>2, <2>2 DEF Run
      <3>2. new.left = rest /\ new.id = r.id /\ new.made = r.made /\ new \in Run
        BY <1>2, <1>7, <3>1 DEF Run
      <3> QED BY <1>4, <2>2, <3>2
    <2> QED BY <2>1, <2>2
  <1>9. Becomes(r, new) /\ UNCHANGED <<now, rows, handler, entries>>
    BY DEF DeleteNext
  <1>10. RunInv(new)'
    BY <1>1, <1>2, <1>5, <1>6, <1>8, <1>9 DEF RunInv
  <1>11. disk' \in Seq(Snapshot)
    BY <1>1, <1>6 DEF TypeOK
  <1> QED BY <1>6, <1>8, <1>9, <1>10, <1>11, SameDisk, RunStep

LEMMA TickInvariant ==
  ASSUME IInv, Tick
  PROVE  IInv'
  <1>1. TypeOK /\ RowInv /\ EntriesAreEnabled /\ BaseSurvives
    BY DEF IInv
  <1>2. now' \in 0 .. MaxClock
    BY <1>1, Numbers, Counting DEF Tick, TypeOK
  <1>3. TypeOK'
    BY <1>1, <1>2 DEF TypeOK, Tick
  <1>4. RowInv' /\ EntriesAreEnabled' /\ BaseSurvives'
    BY <1>1 DEF RowInv, EntriesAreEnabled, BaseSurvives, Tick
  <1>5. RowsKept /\ DiskKept /\ UNCHANGED runs
    BY DEF RowsKept, DiskKept, Tick
  <1> QED BY <1>3, <1>4, <1>5, RunsKept DEF IInv

LEMMA CrashInvariant ==
  ASSUME IInv, Crash
  PROVE  IInv'
  <1>1. TypeOK /\ RowInv /\ BaseSurvives
    BY DEF IInv
  <1>2. TypeOK'
    BY <1>1, FaultCounts DEF TypeOK, Crash, Handler
  <1>3. RowInv' /\ EntriesAreEnabled' /\ BaseSurvives'
    BY <1>1 DEF RowInv, EntriesAreEnabled, BaseSurvives, Crash
  <1>4. RowsKept /\ DiskKept /\ runs' \subseteq runs
    BY DEF RowsKept, DiskKept, Crash
  <1> QED BY <1>2, <1>3, <1>4, RunsKept DEF IInv

----------------------------------------------------------------------------
(* The theorems.                                                           *)

LEMMA InitInvariant == Init => IInv
  <1> SUFFICES ASSUME Init PROVE IInv
    OBVIOUS
  <1>1. TypeOK
    BY Numbers DEF Init, TypeOK, Handler
  <1>2. RowInv /\ EntriesAreEnabled /\ BaseSurvives /\ \A r \in runs : RunInv(r)
    BY DEF Init, RowInv, EntriesAreEnabled, BaseSurvives
  <1> QED BY <1>1, <1>2 DEF IInv

LEMMA NextInvariant == IInv /\ [Next]_vars => IInv'
  <1> SUFFICES ASSUME IInv, [Next]_vars PROVE IInv'
    OBVIOUS
  <1>1. CASE UNCHANGED vars
    <2>1. TypeOK' /\ RowInv' /\ EntriesAreEnabled' /\ BaseSurvives'
      BY <1>1 DEF IInv, TypeOK, RowInv, EntriesAreEnabled, BaseSurvives, vars
    <2>2. RowsKept /\ DiskKept /\ UNCHANGED runs
      BY <1>1 DEF RowsKept, DiskKept, vars
    <2> QED BY <2>1, <2>2, RunsKept DEF IInv
  <1>2. CASE Tick BY <1>2, TickInvariant
  <1>3. CASE Crash BY <1>3, CrashInvariant
  <1>4. ASSUME NEW id \in Ids, CreatePolicy(id) \/ AddPolicy(id) \/ Fire(id) PROVE IInv'
    BY <1>4, CreateInvariant, AddInvariant, FireInvariant
  <1>5. ASSUME NEW r \in runs, TakeSnapshot(r) \/ ApplyRetention(r) \/ DeleteNext(r) PROVE IInv'
    BY <1>5, TakeInvariant, RetentionInvariant, DeleteInvariant
  <1> QED BY <1>1, <1>2, <1>3, <1>4, <1>5 DEF Next

\* Types, rows, entries and runs agree in every reachable state.
THEOREM SchedulerInvariant == Spec => []IInv
  BY InitInvariant, NextInvariant, PTL DEF Spec

\* Retention never deletes the subvolume a policy protects.
THEOREM BasesSurvive == Spec => []BaseSurvives
  BY SchedulerInvariant, PTL DEF IInv

\* Nor the snapshot of any run.
THEOREM SnapshotsKept == Spec => []OwnSnapshotKept
  <1>1. IInv => OwnSnapshotKept
    BY DEF IInv, RunInv, OwnSnapshotKept
  <1> QED BY <1>1, SchedulerInvariant, PTL

\* Every reachable state of policies, cron and runs is well typed: what a run
\* deletes is a base or a snapshot, never another path (scheduler.go:105-160).
THEOREM TypeCorrect == Spec => []TypeOK
  BY SchedulerInvariant, PTL DEF IInv

LEMMA EntriesKept ==
  ASSUME TypeOK, CronRunsAccepted, Next PROVE CronRunsAccepted'
  <1>1. faults \in Nat
    BY Numbers DEF TypeOK
  <1>2. ASSUME UNCHANGED <<rows, handler, entries>>, faults' = 0 => faults = 0
        PROVE  CronRunsAccepted'
    BY <1>2 DEF CronRunsAccepted, Accepted
  <1>3. ASSUME UNCHANGED <<rows, handler, entries>>, faults' = faults \/ Fault
        PROVE  CronRunsAccepted'
    BY <1>1, <1>2, <1>3 DEF Fault
  <1>4. CASE Tick
    BY <1>3, <1>4 DEF Tick
  <1>5. CASE Crash
    <2>1. entries' = {} /\ faults' # 0
      BY <1>1, <1>5 DEF Crash, Fault
    <2> QED BY <2>1 DEF CronRunsAccepted
  <1>6. ASSUME NEW other \in Ids, CreatePolicy(other) PROVE CronRunsAccepted'
    <2>1. /\ handler[other] = "none" /\ handler'[other] # "created"
          /\ entries' = entries
          /\ \A id \in Ids \ {other} :
               handler'[id] = handler[id] /\ rows'[id] = rows[id]
      BY <1>6 DEF CreatePolicy, TypeOK
    <2>2. Accepted' = Accepted
      BY <2>1 DEF Accepted
    <2>3. faults' = 0 => faults = 0
      BY <1>1, <1>6 DEF CreatePolicy, Fault
    <2> QED BY <2>1, <2>2, <2>3 DEF CronRunsAccepted
  <1>7. ASSUME NEW other \in Ids, AddPolicy(other) PROVE CronRunsAccepted'
    <2>1. /\ handler[other] = "add" /\ handler'[other] = "created"
          /\ rows' = rows /\ faults' = faults
          /\ \A id \in Ids \ {other} : handler'[id] = handler[id]
      BY <1>7 DEF AddPolicy, TypeOK
    <2>2. other \notin Accepted
      BY <2>1 DEF Accepted
    <2>3. CASE rows[other].enabled /\ Parses(rows[other].schedule)
      <3>1. Accepted' = Accepted \cup {other}
        BY <2>1, <2>3 DEF Accepted
      <3>2. entries' = entries \cup {other}
        BY <1>7, <2>3 DEF AddPolicy
      <3> QED BY <2>1, <3>1, <3>2 DEF CronRunsAccepted
    <2>4. CASE ~(rows[other].enabled /\ Parses(rows[other].schedule))
      <3>1. Accepted' = Accepted
        BY <2>1, <2>2, <2>4 DEF Accepted
      <3>2. entries' = entries
        BY <1>7, <2>4 DEF AddPolicy
      <3> QED BY <2>1, <3>1, <3>2 DEF CronRunsAccepted
    <2> QED BY <2>3, <2>4
  <1>8. ASSUME NEW id \in Ids, Fire(id) PROVE CronRunsAccepted'
    BY <1>3, <1>8 DEF Fire
  <1>9. ASSUME NEW r \in runs, TakeSnapshot(r) \/ ApplyRetention(r) \/ DeleteNext(r)
        PROVE  CronRunsAccepted'
    BY <1>3, <1>9 DEF TakeSnapshot, ApplyRetention, DeleteNext
  <1> QED BY <1>4, <1>5, <1>6, <1>7, <1>8, <1>9 DEF Next

\* cron runs nothing that was not accepted, and until a restart no accepted
\* policy is without its entry (main.go:353, scheduler.go:47-66).
THEOREM OnlyAccepted == Spec => []CronRunsAccepted
  <1>1. Init => CronRunsAccepted
    BY DEF Init, CronRunsAccepted, Accepted
  <1>2. TypeOK /\ CronRunsAccepted /\ [Next]_vars => CronRunsAccepted'
    <2>1. UNCHANGED vars /\ CronRunsAccepted => CronRunsAccepted'
      BY DEF vars, CronRunsAccepted, Accepted
    <2> QED BY <2>1, EntriesKept
  <1> QED BY <1>1, <1>2, TypeCorrect, PTL DEF Spec

=============================================================================
