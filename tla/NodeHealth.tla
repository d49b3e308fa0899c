----------------------------- MODULE NodeHealth -----------------------------
(***************************************************************************)
(* Who is online: the nodes table, the agents that register in it          *)
(* (cmd/agent), the StreamEvents call that refreshes a row, and the        *)
(* watchdog (internal/alerts/watchdog.go) that judges the rows and sends   *)
(* alerts.                                                                 *)
(*                                                                         *)
(* Time is counted in units; what is kept of a row's last_seen column is   *)
(* its age.  The watchdog's ticker fires every Interval.  Its check reads  *)
(* all rows at once and then judges them one by one, so that other calls   *)
(* come between the read and a verdict; no time passes during a check,     *)
(* which takes milliseconds where Interval is a minute.                    *)
(***************************************************************************)
EXTENDS Naturals

CONSTANTS
  None,
  Agents,        \* the agent processes
  Ids,           \* the uuids RegisterNode hands out
  Streamed,      \* ids for which some client calls StreamEvents
  Interval,      \* units between two checks (main.go: a minute)
  OfflineAfter,  \* an older row is offline (watchdog.go: two minutes)
  MaxFaults      \* bound: restarts of the server and failed calls

\* Ages stop growing here; nothing the code or the properties ask of an age
\* tells larger ones apart.
MaxAge == OfflineAfter + Interval + 1
Age == 0 .. MaxAge

ASSUME HealthAssumption ==
  /\ Interval \in Nat \ {0} /\ OfflineAfter \in Nat /\ MaxFaults \in Nat
  /\ Interval <= OfflineAfter
  /\ Streamed \subseteq Ids
  /\ None \notin Ids \cup Age
  /\ None \notin [status : {"online", "offline"}, age : Age]

VARIABLES
  nodes,       \* per id: its row in the nodes table, or None
  agent,       \* per agent process: the id it registered under, or None
  lastStatus,  \* the watchdog's map; "" stands for a missing entry
  timer,       \* units until the ticker fires
  listed,      \* the check in progress: the age it read for each row to judge
  told,        \* per id: the last alert sent about it
  quiet,       \* per id: units since the node last called the server
  faults       \* restarts and failed calls so far

vars == <<nodes, agent, lastStatus, timer, listed, told, quiet, faults>>

Status == {"online", "offline"}
Row == [status : Status, age : Age]

Older(age) == IF age < MaxAge THEN age + 1 ELSE age
Registered(id) == nodes[id] # None
\* One more fault, within the bound.
Fault == faults < MaxFaults /\ faults' = faults + 1

Checking == \E id \in Ids : listed[id] # None

----------------------------------------------------------------------------
(* Calls to the server.                                                    *)

\* UpdateNodeStatus writes last_seen along with every status.
Seen(status) == [status |-> status, age |-> 0]

\* Seeded bug: only the status is written.
UpdateStatusOnly(id, status) ==
  \/ nodes' = [nodes EXCEPT ![id].status = status] /\ UNCHANGED faults
  \/ Fault /\ UNCHANGED nodes

\* UpdateNodeStatus; its callers drop the error.
Update(id, status) ==
  \/ nodes' = [nodes EXCEPT ![id] = Seen(status)] /\ UNCHANGED faults
  \/ Fault /\ UNCHANGED nodes

\* RegisterNode always creates a row.  The agent exits when the answer does
\* not arrive; the row stays.
RegisterNode(a, id) ==
  /\ agent[a] = None /\ ~Registered(id)
  /\ nodes' = [nodes EXCEPT ![id] = Seen("online")]
  /\ quiet' = [quiet EXCEPT ![id] = 0]
  /\ \/ agent' = [agent EXCEPT ![a] = id] /\ UNCHANGED faults
     \/ Fault /\ UNCHANGED agent
  /\ UNCHANGED <<lastStatus, timer, listed, told>>

\* The agent's heartbeat is a ListSnapshots call, which only reads.
Heartbeat(a) ==
  /\ agent[a] # None
  /\ quiet' = [quiet EXCEPT ![agent[a]] = 0]
  /\ UNCHANGED <<nodes, agent, lastStatus, timer, listed, told, faults>>

StopAgent(a) ==
  /\ agent[a] # None
  /\ agent' = [agent EXCEPT ![a] = None]
  /\ UNCHANGED <<nodes, lastStatus, timer, listed, told, quiet, faults>>

StreamEvents(id) ==
  /\ Registered(id)
  /\ Update(id, "online")
  /\ quiet' = [quiet EXCEPT ![id] = 0]
  /\ UNCHANGED <<agent, lastStatus, timer, listed, told>>

----------------------------------------------------------------------------
(* The watchdog.                                                           *)

\* The ticker fires: ListNodes.  When that fails the check is over.
BeginCheck ==
  /\ timer = 0 /\ ~Checking
  /\ timer' = Interval
  /\ \/ /\ listed' = [id \in Ids |-> IF Registered(id) THEN nodes[id].age ELSE None]
        /\ UNCHANGED faults
     \/ Fault /\ UNCHANGED listed
  /\ UNCHANGED <<nodes, agent, lastStatus, told, quiet>>

\* Seeded bug: only a node known to be online can go offline.
DeclareOfflineKnownOnline(id) ==
  /\ listed[id] > OfflineAfter /\ lastStatus[id] = "online"
  /\ lastStatus' = [lastStatus EXCEPT ![id] = "offline"]
  /\ told' = [told EXCEPT ![id] = "offline"]
  /\ Update(id, "offline")

\* The two verdicts that send an alert, and the one that only takes a note.
DeclareOffline(id) ==
  /\ listed[id] > OfflineAfter /\ lastStatus[id] # "offline"
  /\ lastStatus' = [lastStatus EXCEPT ![id] = "offline"]
  /\ told' = [told EXCEPT ![id] = "offline"]
  /\ Update(id, "offline")

\* Seeded bug: the map is not updated.
DeclareRecoveredForgotten(id) ==
  /\ listed[id] <= OfflineAfter /\ lastStatus[id] = "offline"
  /\ told' = [told EXCEPT ![id] = "recovered"]
  /\ Update(id, "online")
  /\ UNCHANGED lastStatus

DeclareRecovered(id) ==
  /\ listed[id] <= OfflineAfter /\ lastStatus[id] = "offline"
  /\ lastStatus' = [lastStatus EXCEPT ![id] = "online"]
  /\ told' = [told EXCEPT ![id] = "recovered"]
  /\ Update(id, "online")

FirstSight(id) ==
  /\ listed[id] <= OfflineAfter /\ lastStatus[id] = ""
  /\ lastStatus' = [lastStatus EXCEPT ![id] = "online"]
  /\ UNCHANGED <<nodes, told, faults>>

\* Offline and known to be, or online and known to be.
NoChange(id) ==
  /\ lastStatus[id] = IF listed[id] > OfflineAfter THEN "offline" ELSE "online"
  /\ UNCHANGED <<nodes, lastStatus, told, faults>>

Judge(id) ==
  /\ listed[id] # None
  /\ \/ DeclareOffline(id) \/ DeclareRecovered(id)
     \/ FirstSight(id) \/ NoChange(id)
  /\ listed' = [listed EXCEPT ![id] = None]
  /\ UNCHANGED <<agent, timer, quiet>>

----------------------------------------------------------------------------
(* The environment.                                                        *)

\* No time passes while a check is due or in progress.
Tick ==
  /\ timer > 0 /\ ~Checking
  /\ timer' = timer - 1
  /\ nodes' = [id \in Ids |->
       IF Registered(id) THEN [nodes[id] EXCEPT !.age = Older(@)] ELSE None]
  /\ quiet' = [id \in Ids |-> Older(quiet[id])]
  /\ UNCHANGED <<agent, lastStatus, listed, told, faults>>

\* The server starts again: a new watchdog with an empty map, the same table.
Restart ==
  /\ Fault
  /\ lastStatus' = [id \in Ids |-> ""]
  /\ listed' = [id \in Ids |-> None]
  /\ timer' = Interval
  /\ UNCHANGED <<nodes, agent, told, quiet>>

Init ==
  /\ nodes = [id \in Ids |-> None]
  /\ agent = [a \in Agents |-> None]
  /\ lastStatus = [id \in Ids |-> ""]
  /\ timer = Interval
  /\ listed = [id \in Ids |-> None]
  /\ told = [id \in Ids |-> "nothing"]
  /\ quiet = [id \in Ids |-> MaxAge]
  /\ faults = 0

Next ==
  \/ \E a \in Agents :
       \/ \E id \in Ids : RegisterNode(a, id)
       \/ Heartbeat(a) \/ StopAgent(a)
  \/ \E id \in Streamed : StreamEvents(id)
  \/ BeginCheck \/ \E id \in Ids : Judge(id)
  \/ Tick
  \/ Restart

Spec == Init /\ [][Next]_vars

\* Time passes, the ticker fires and a check goes on to its end.
FairSpec ==
  /\ Spec
  /\ WF_vars(Tick) /\ WF_vars(BeginCheck) /\ \A id \in Ids : WF_vars(Judge(id))

----------------------------------------------------------------------------
(* Properties.                                                             *)

\* Every variable keeps its type; an agent runs under a registered id, and a
\* check judges registered rows only.
TypeOK ==
  /\ nodes \in [Ids -> Row \cup {None}]
  /\ agent \in [Agents -> Ids \cup {None}]
  /\ lastStatus \in [Ids -> Status \cup {""}]
  /\ timer \in 0 .. Interval
  /\ listed \in [Ids -> Age \cup {None}]
  /\ told \in [Ids -> {"nothing", "offline", "recovered"}]
  /\ quiet \in [Ids -> Age]
  /\ faults \in 0 .. MaxFaults
  /\ \A a \in Agents : agent[a] # None => Registered(agent[a])
  /\ \A id \in Ids : listed[id] # None \/ lastStatus[id] # "" => Registered(id)

\* While nothing fails, no row grows older than the threshold and one interval:
\* the watchdog itself refreshes last_seen when it marks a row offline.
RowsStayYoung ==
  faults = 0 =>
    \A id \in Ids : Registered(id) => nodes[id].age <= OfflineAfter + Interval

\* What the watchdog has told, what it remembers and what the table shows: an
\* alert is never repeated nor missing, and a row shown offline was alerted,
\* although StreamEvents rewrites rows behind the watchdog's back.
VerdictsAgree ==
  faults = 0 =>
    \A id \in Ids :
      /\ told[id] = "offline" <=> lastStatus[id] = "offline"
      /\ Registered(id) /\ nodes[id].status = "offline" => lastStatus[id] = "offline"

\* While nothing fails, a node counts as offline for one interval only: by the
\* next check its row is younger than the threshold, whether it lives or not.
OfflineIsBrief ==
  faults = 0 =>
    \A id \in Ids :
      lastStatus[id] = "offline" =>
        /\ nodes[id].age <= Interval
        /\ listed[id] # None => listed[id] <= OfflineAfter

\* Why these hold: the age of a row is bounded by the time since the last check,
\* the more tightly once the row is known offline, and a check in progress
\* judges by ages that can only have shrunk since it read them.
AgesInv ==
  faults = 0 =>
    \A id \in Ids : Registered(id) =>
      IF listed[id] = None
      THEN /\ nodes[id].age <= OfflineAfter + (Interval - timer)
           /\ lastStatus[id] = "offline" => nodes[id].age <= Interval - timer
      ELSE /\ timer = Interval
           /\ nodes[id].age <= listed[id] /\ listed[id] <= OfflineAfter + Interval
           /\ lastStatus[id] = "offline" => listed[id] <= Interval

\* A node whose row nobody refreshes is reported, even across restarts of the
\* server and failed calls.
SilentNodeReported ==
  \A id \in Ids \ Streamed : Registered(id) ~> told[id] = "offline"

----------------------------------------------------------------------------
(* A statement of the repository that the code does not keep.              *)

\* watchdog.go:70, the alert: "no responde desde hace mas de 2 minutos".
OfflineMeansSilent ==
  [][\A id \in Ids :
       told[id] # "offline" /\ told'[id] = "offline" => quiet[id] > OfflineAfter]_vars

=============================================================================
