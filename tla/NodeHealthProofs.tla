-------------------------- MODULE NodeHealthProofs --------------------------
(***************************************************************************)
(* What NodeHealth guarantees for any agents, ids, interval and threshold. *)
(***************************************************************************)
EXTENDS NodeHealth, TLAPS

USE DEF Fault

LEMMA Numbers ==
  /\ Interval \in Nat /\ Interval > 0 /\ OfflineAfter \in Nat /\ MaxFaults \in Nat
  /\ Interval <= OfflineAfter
BY HealthAssumption

\* The bounded counters, apart from everything else.
LEMMA Counting ==
  /\ \A f \in 0 .. MaxFaults : f < MaxFaults => f + 1 \in 0 .. MaxFaults /\ f + 1 # 0
  /\ \A t \in 0 .. Interval : t > 0 => t - 1 \in 0 .. Interval
  /\ 0 \in 0 .. MaxFaults /\ Interval \in 0 .. Interval
  /\ 0 .. MaxFaults \subseteq Nat /\ 0 .. Interval \subseteq Nat
  /\ \A t \in 0 .. Interval : t <= Interval
BY Numbers

LEMMA NoneApart == None \notin Ids /\ None \notin Age /\ Streamed \subseteq Ids
BY HealthAssumption

LEMMA AgeFacts ==
  /\ MaxAge \in Nat /\ Age \subseteq Nat /\ {0, MaxAge} \subseteq Age /\ None \notin Age
  /\ \A age \in Age : Older(age) \in Age /\ Older(age) <= age + 1
BY HealthAssumption DEF MaxAge, Age, Older

LEMMA RowFacts ==
  /\ None \notin Row
  /\ \A status \in Status :
       Seen(status) \in Row /\ Seen(status).age = 0 /\ Seen(status).status = status
BY HealthAssumption, AgeFacts DEF Row, Status, Seen

LEMMA AgedRow ==
  ASSUME NEW row \in Row
  PROVE  /\ [row EXCEPT !.age = Older(@)] \in Row
         /\ [row EXCEPT !.age = Older(@)].age = Older(row.age)
         /\ [row EXCEPT !.age = Older(@)].status = row.status
BY AgeFacts DEF Row

\* What UpdateNodeStatus does to the row of a registered node.
LEMMA UpdateEffect ==
  ASSUME TypeOK, NEW id \in Ids, Registered(id), NEW status \in Status,
         Update(id, status)
  PROVE  /\ nodes' \in [Ids -> Row \cup {None}] /\ faults' \in 0 .. MaxFaults
         /\ \A j \in Ids : Registered(j)' = Registered(j)
         /\ \A j \in Ids : j # id => nodes'[j] = nodes[j]
         /\ faults' = 0 => faults = 0 /\ nodes'[id] = Seen(status)
<1>1. CASE nodes' = [nodes EXCEPT ![id] = Seen(status)] /\ UNCHANGED faults
  BY <1>1, RowFacts DEF TypeOK, Registered
<1>2. CASE faults < MaxFaults /\ faults' = faults + 1 /\ UNCHANGED nodes
  <2>1. faults' \in 0 .. MaxFaults /\ faults' # 0
    BY <1>2, Counting DEF TypeOK
  <2> QED BY <1>2, <2>1 DEF TypeOK, Registered
<1> QED BY <1>1, <1>2 DEF Update

\* A tick makes every row one unit older, up to MaxAge.
LEMMA TickEffect ==
  ASSUME TypeOK, Tick
  PROVE  /\ nodes' \in [Ids -> Row \cup {None}]
         /\ \A id \in Ids : Registered(id)' = Registered(id)
         /\ \A id \in Ids : Registered(id) =>
              /\ nodes'[id].age = Older(nodes[id].age)
              /\ nodes'[id].status = nodes[id].status
<1>1. \A id \in Ids : Registered(id) =>
        nodes[id] \in Row /\ nodes'[id] = [nodes[id] EXCEPT !.age = Older(@)]
  BY DEF Tick, TypeOK, Registered
<1>2. \A id \in Ids : ~Registered(id) => nodes'[id] = None
  BY DEF Tick
<1>3. \A id \in Ids : Registered(id) => nodes'[id] \in Row
  BY <1>1, AgedRow
<1>4. nodes' \in [Ids -> Row \cup {None}]
  <2>1. DOMAIN nodes' = Ids /\ nodes' = [id \in Ids |-> nodes'[id]]
    BY DEF Tick
  <2> QED BY <2>1, <1>2, <1>3
<1> QED BY <1>1, <1>2, <1>3, <1>4, AgedRow, RowFacts DEF Registered

\* Every reachable state is well typed, an agent runs under a registered id and
\* the watchdog only knows registered nodes.
THEOREM TypeCorrect == Spec => []TypeOK
<1>1. Init => TypeOK
  BY Counting, AgeFacts DEF Init, TypeOK
<1>2. TypeOK /\ [Next]_vars => TypeOK'
  <2> SUFFICES ASSUME TypeOK, [Next]_vars PROVE TypeOK'
    OBVIOUS
  <2>1. ASSUME NEW a \in Agents, NEW id \in Ids, RegisterNode(a, id) PROVE TypeOK'
    <3>1. nodes' \in [Ids -> Row \cup {None}] /\ \A j \in Ids : Registered(j)' = (Registered(j) \/ j = id)
      BY <2>1, RowFacts DEF RegisterNode, TypeOK, Registered, Status
    <3>2. quiet' \in [Ids -> Age]
      BY <2>1, AgeFacts DEF RegisterNode, TypeOK
    <3>3. /\ agent' \in [Agents -> Ids \cup {None}] /\ faults' \in 0 .. MaxFaults
          /\ \A b \in Agents : agent'[b] \in {agent[b], id}
      BY <2>1, Counting DEF RegisterNode, TypeOK
    <3> QED BY <2>1, <3>1, <3>2, <3>3, NoneApart DEF RegisterNode, TypeOK
  <2>2. ASSUME NEW a \in Agents, Heartbeat(a) PROVE TypeOK'
    BY <2>2, AgeFacts DEF Heartbeat, TypeOK, Registered
  <2>3. ASSUME NEW a \in Agents, StopAgent(a) PROVE TypeOK'
    BY <2>3 DEF StopAgent, TypeOK, Registered
  <2>4. ASSUME NEW id \in Streamed, StreamEvents(id) PROVE TypeOK'
    <3>1. /\ nodes' \in [Ids -> Row \cup {None}] /\ faults' \in 0 .. MaxFaults
          /\ \A j \in Ids : Registered(j)' = Registered(j)
      BY <2>4, UpdateEffect, NoneApart DEF StreamEvents, Status
    <3>2. quiet' \in [Ids -> Age]
      BY <2>4, AgeFacts, Numbers, NoneApart DEF StreamEvents, TypeOK
    <3> QED BY <2>4, <3>1, <3>2 DEF StreamEvents, TypeOK
  <2>5. CASE BeginCheck
    <3>1. \A id \in Ids : Registered(id) => nodes[id].age \in Age
      BY DEF TypeOK, Registered, Row
    <3>2. listed' \in [Ids -> Age \cup {None}]
      BY <2>5, <3>1 DEF BeginCheck, TypeOK
    <3>3. \A id \in Ids : listed'[id] # None => Registered(id)
      BY <2>5 DEF BeginCheck, Checking
    <3>4. faults' \in 0 .. MaxFaults
      BY <2>5, Counting DEF BeginCheck, TypeOK
    <3> QED BY <2>5, <3>2, <3>3, <3>4, Counting DEF BeginCheck, TypeOK, Registered
  <2>6. ASSUME NEW id \in Ids, Judge(id) PROVE TypeOK'
    <3>1. Registered(id)
      BY <2>6 DEF Judge, TypeOK
    <3>2. /\ nodes' \in [Ids -> Row \cup {None}] /\ faults' \in 0 .. MaxFaults
          /\ \A j \in Ids : Registered(j)' = Registered(j)
      BY <2>6, <3>1, UpdateEffect
      DEF Judge, DeclareOffline, DeclareRecovered, FirstSight, NoChange, TypeOK,
          Registered, Status
    <3>3. /\ lastStatus' \in [Ids -> Status \cup {""}]
          /\ \A j \in Ids : j # id => lastStatus'[j] = lastStatus[j]
      BY <2>6 DEF Judge, DeclareOffline, DeclareRecovered, FirstSight, NoChange,
                  TypeOK, Status
    <3>4. told' \in [Ids -> {"nothing", "offline", "recovered"}]
      BY <2>6 DEF Judge, DeclareOffline, DeclareRecovered, FirstSight, NoChange, TypeOK
    <3>5. listed' \in [Ids -> Age \cup {None}] /\ \A j \in Ids : listed'[j] \in {listed[j], None}
      BY <2>6 DEF Judge, TypeOK
    <3> QED BY <2>6, <3>1, <3>2, <3>3, <3>4, <3>5 DEF Judge, TypeOK
  <2>7. CASE Tick
    <3>1. timer' \in 0 .. Interval
      BY <2>7, Counting DEF Tick, TypeOK
    <3>2. \A id \in Ids : Older(quiet[id]) \in Age
      BY AgeFacts DEF TypeOK
    <3>3. quiet' \in [Ids -> Age]
      BY <2>7, <3>2 DEF Tick
    <3>4. nodes' \in [Ids -> Row \cup {None}] /\ \A id \in Ids : Registered(id)' = Registered(id)
      BY <2>7, TickEffect
    <3>5. UNCHANGED <<agent, lastStatus, listed, told, faults>>
      BY <2>7 DEF Tick
    <3> QED BY <3>1, <3>3, <3>4, <3>5 DEF TypeOK
  <2>8. CASE Restart
    BY <2>8, Counting DEF Restart, TypeOK, Registered
  <2>9. CASE UNCHANGED vars
    BY <2>9 DEF vars, TypeOK, Registered
  <2> QED BY <2>1, <2>2, <2>3, <2>4, <2>5, <2>6, <2>7, <2>8, <2>9 DEF Next
<1> QED BY <1>1, <1>2, PTL DEF Spec

\* The numbers in a well-typed state.
LEMMA AgesAreNumbers ==
  ASSUME TypeOK
  PROVE  /\ timer \in Nat /\ timer <= Interval
         /\ \A id \in Ids : Registered(id) => nodes[id].age \in Nat
         /\ \A id \in Ids : listed[id] # None => listed[id] \in Nat /\ Registered(id)
<1>1. timer \in Nat /\ timer <= Interval
  BY Counting DEF TypeOK
<1>2. \A id \in Ids : Registered(id) => nodes[id].age \in Nat
  BY AgeFacts DEF TypeOK, Registered, Row
<1>3. \A id \in Ids : listed[id] # None => listed[id] \in Nat /\ Registered(id)
  BY AgeFacts DEF TypeOK
<1> QED BY <1>1, <1>2, <1>3

\* A fault never goes away.
LEMMA FaultsGrow == ASSUME TypeOK, [Next]_vars, faults' = 0 PROVE faults = 0
<1>1. faults \in Nat
  BY Counting DEF TypeOK
<1>2. ASSUME NEW id \in Ids, NEW status \in Status, Update(id, status) PROVE faults = 0
  BY <1>1, <1>2 DEF Update
<1>3. ASSUME NEW id \in Ids, Judge(id) PROVE faults = 0
  BY <1>2, <1>3 DEF Judge, DeclareOffline, DeclareRecovered, FirstSight, NoChange, Status
<1>4. ASSUME NEW a \in Agents, NEW id \in Ids, RegisterNode(a, id) PROVE faults = 0
  BY <1>1, <1>4 DEF RegisterNode
<1>5. ~Fault
  BY <1>1
<1>6. ASSUME NEW id \in Streamed, StreamEvents(id) PROVE faults = 0
  BY <1>2, <1>6, NoneApart DEF StreamEvents, Status
<1>7. BeginCheck => faults = 0
  BY <1>5 DEF BeginCheck
<1>8. ~Restart
  BY <1>5 DEF Restart
<1> HIDE DEF Fault
<1> QED
  BY <1>3, <1>4, <1>6, <1>7, <1>8 DEF Next, vars, Heartbeat, StopAgent, Tick

\* What the other calls do while nothing fails.
LEMMA NoFault ==
  ASSUME TypeOK, [Next]_vars, faults' = 0
  PROVE  /\ ~Fault /\ ~Restart
         /\ \A id \in Streamed :
              StreamEvents(id) => nodes' = [nodes EXCEPT ![id] = Seen("online")]
         /\ BeginCheck =>
              listed' = [id \in Ids |-> IF Registered(id) THEN nodes[id].age ELSE None]
<1>1. ~Fault
  BY FaultsGrow
<1> QED BY <1>1 DEF StreamEvents, BeginCheck, Update, Restart

\* What a verdict does while nothing fails.
LEMMA JudgeEffect ==
  ASSUME TypeOK, NEW id \in Ids, Judge(id), faults' = 0
  PROVE  /\ Registered(id) /\ listed[id] # None /\ listed'[id] = None
         /\ \A j \in Ids : Registered(j)' = Registered(j)
         /\ \A j \in Ids : j # id =>
              /\ nodes'[j] = nodes[j] /\ listed'[j] = listed[j]
              /\ lastStatus'[j] = lastStatus[j] /\ told'[j] = told[j]
         /\ \/ /\ DeclareOffline(id) /\ nodes'[id] = Seen("offline")
               /\ lastStatus'[id] = "offline" /\ told'[id] = "offline"
            \/ /\ DeclareRecovered(id) /\ nodes'[id] = Seen("online")
               /\ lastStatus'[id] = "online" /\ told'[id] = "recovered"
            \/ /\ FirstSight(id) /\ nodes'[id] = nodes[id]
               /\ lastStatus'[id] = "online" /\ told'[id] = told[id]
            \/ /\ NoChange(id) /\ nodes'[id] = nodes[id]
               /\ lastStatus'[id] = lastStatus[id] /\ told'[id] = told[id]
<1>1. Registered(id) /\ listed[id] # None /\ listed'[id] = None
  BY DEF Judge, TypeOK
<1>2. \A j \in Ids : j # id => listed'[j] = listed[j]
  BY DEF Judge, TypeOK
<1>3. CASE DeclareOffline(id)
  <2>1. Update(id, "offline") /\ "offline" \in Status
    BY <1>3 DEF DeclareOffline, Status
  <2>2. /\ nodes'[id] = Seen("offline")
        /\ \A j \in Ids : Registered(j)' = Registered(j)
        /\ \A j \in Ids : j # id => nodes'[j] = nodes[j]
    BY <1>1, <2>1, UpdateEffect
  <2> QED BY <1>1, <1>2, <1>3, <2>2 DEF DeclareOffline, TypeOK
<1>4. CASE DeclareRecovered(id)
  <2>1. Update(id, "online") /\ "online" \in Status
    BY <1>4 DEF DeclareRecovered, Status
  <2>2. /\ nodes'[id] = Seen("online")
        /\ \A j \in Ids : Registered(j)' = Registered(j)
        /\ \A j \in Ids : j # id => nodes'[j] = nodes[j]
    BY <1>1, <2>1, UpdateEffect
  <2> QED BY <1>1, <1>2, <1>4, <2>2 DEF DeclareRecovered, TypeOK
<1>5. CASE FirstSight(id)
  BY <1>1, <1>2, <1>5 DEF FirstSight, TypeOK, Registered
<1>6. CASE NoChange(id)
  BY <1>1, <1>2, <1>6 DEF NoChange, TypeOK, Registered
<1> QED BY <1>3, <1>4, <1>5, <1>6 DEF Judge

\* While nothing fails, alerts, the map of the watchdog and the table agree,
\* whatever calls come between the listing of the rows and the verdicts.
THEOREM Verdicts == Spec => []VerdictsAgree
<1>1. Init => VerdictsAgree
  BY DEF Init, VerdictsAgree, Registered
<1>2. TypeOK /\ VerdictsAgree /\ [Next]_vars => VerdictsAgree'
  <2> SUFFICES ASSUME TypeOK, VerdictsAgree, [Next]_vars, faults' = 0 PROVE VerdictsAgree'
    BY DEF VerdictsAgree
  <2>1. faults = 0
    BY FaultsGrow
  <2>2. ASSUME NEW id \in Ids, nodes' = [nodes EXCEPT ![id] = Seen("online")],
               UNCHANGED <<told, lastStatus>>
        PROVE  VerdictsAgree'
    <3>1. \A j \in Ids : Registered(j)' /\ nodes'[j].status = "offline" =>
                           Registered(j) /\ nodes[j].status = "offline"
      BY <2>2, RowFacts DEF TypeOK, Registered, Status
    <3> QED BY <2>1, <2>2, <3>1 DEF VerdictsAgree
  <2>3. ASSUME NEW id \in Ids, Judge(id) PROVE VerdictsAgree'
    <3>1. \A j \in Ids : j # id =>
            /\ told'[j] = "offline" <=> lastStatus'[j] = "offline"
            /\ Registered(j)' /\ nodes'[j].status = "offline" => lastStatus'[j] = "offline"
      BY <2>1, <2>3, JudgeEffect DEF VerdictsAgree
    <3>2. /\ told'[id] = "offline" <=> lastStatus'[id] = "offline"
          /\ nodes'[id].status = "offline" => lastStatus'[id] = "offline"
      BY <2>1, <2>3, JudgeEffect, RowFacts DEF VerdictsAgree, FirstSight, Status
    <3> QED BY <3>1, <3>2 DEF VerdictsAgree
  <2>4. CASE Tick
    <3>1. UNCHANGED <<told, lastStatus>>
      BY <2>4 DEF Tick
    <3> QED BY <2>1, <2>4, <3>1, TickEffect DEF VerdictsAgree
  <2>5. ASSUME UNCHANGED <<nodes, told, lastStatus>> PROVE VerdictsAgree'
    BY <2>1, <2>5 DEF VerdictsAgree, Registered
  <2>6. ASSUME NEW id \in Streamed, StreamEvents(id) PROVE VerdictsAgree'
    BY <2>2, <2>6, NoFault, NoneApart DEF StreamEvents
  <2>7. BeginCheck => UNCHANGED <<nodes, told, lastStatus>>
    BY DEF BeginCheck
  <2> QED
    BY <2>2, <2>3, <2>4, <2>5, <2>6, <2>7, NoFault
    DEF Next, vars, RegisterNode, Heartbeat, StopAgent
<1> QED BY <1>1, <1>2, TypeCorrect, PTL DEF Spec

\* While nothing fails, rows are as young as the time since the last check says.
THEOREM Ages == Spec => []AgesInv
<1>1. Init => AgesInv
  BY DEF Init, AgesInv, Registered
<1>2. TypeOK /\ TypeOK' /\ AgesInv /\ [Next]_vars => AgesInv'
  <2> SUFFICES ASSUME TypeOK, TypeOK', AgesInv, [Next]_vars, faults' = 0 PROVE AgesInv'
    BY DEF AgesInv
  <2>1. faults = 0
    BY FaultsGrow
  <2>2. ASSUME NEW id \in Ids, nodes' = [nodes EXCEPT ![id] = Seen("online")],
               listed[id] # None => Registered(id),
               UNCHANGED <<listed, timer, lastStatus>>
        PROVE  AgesInv'
    <3>1. nodes'[id].age = 0
      BY <2>2, RowFacts DEF TypeOK, Status
    <3>2. \A j \in Ids : j # id => nodes'[j] = nodes[j] /\ Registered(j)' = Registered(j)
      BY <2>2 DEF TypeOK, Registered
    <3> QED BY <2>1, <2>2, <3>1, <3>2, Numbers, AgesAreNumbers DEF AgesInv
  <2>3. ASSUME NEW id \in Ids, Judge(id) PROVE AgesInv'
    <3>1. timer' = timer /\ timer = Interval
      BY <2>1, <2>3, JudgeEffect DEF Judge, AgesInv
    <3>2. /\ nodes[id].age <= listed[id] /\ listed[id] <= OfflineAfter + Interval
          /\ lastStatus[id] = "offline" => listed[id] <= Interval
      BY <2>1, <2>3, JudgeEffect DEF AgesInv
    <3>3. /\ nodes'[id].age <= OfflineAfter
          /\ lastStatus'[id] = "offline" => nodes'[id].age <= 0
      <4>1. CASE nodes'[id] = Seen("offline") \/ nodes'[id] = Seen("online")
        <5>1. nodes'[id].age = 0
          BY <4>1, RowFacts DEF Status
        <5> QED BY <5>1, Numbers
      <4>2. CASE FirstSight(id) /\ nodes'[id] = nodes[id] /\ lastStatus'[id] = "online"
        <5>1. listed[id] <= OfflineAfter /\ lastStatus'[id] # "offline"
          BY <4>2 DEF FirstSight
        <5> QED BY <2>3, <3>2, <4>2, <5>1, JudgeEffect, Numbers, AgesAreNumbers
      <4>3. CASE NoChange(id) /\ nodes'[id] = nodes[id] /\ lastStatus'[id] = lastStatus[id]
        <5>1. listed[id] <= OfflineAfter /\ lastStatus[id] = "online"
          BY <2>3, <3>2, <4>3, JudgeEffect, Numbers, AgesAreNumbers DEF NoChange
        <5> QED BY <2>3, <3>2, <4>3, <5>1, JudgeEffect, Numbers, AgesAreNumbers
      <4> QED BY <2>3, <4>1, <4>2, <4>3, JudgeEffect
    <3> QED BY <2>1, <2>3, <3>1, <3>3, JudgeEffect, Numbers DEF AgesInv
  <2>4. CASE BeginCheck
    <3>1. timer = 0 /\ timer' = Interval /\ UNCHANGED <<nodes, lastStatus>>
      BY <2>4 DEF BeginCheck
    <3>2. \A id \in Ids : listed[id] = None
      BY <2>4 DEF BeginCheck, Checking
    <3>3. \A id \in Ids : Registered(id) => listed'[id] = nodes[id].age
      BY <2>4, NoFault
    <3>4. \A id \in Ids : Registered(id) => listed'[id] # None
      <4>1. \A id \in Ids : Registered(id) => nodes[id].age \in Age
        BY DEF TypeOK, Registered, Row
      <4> QED BY <3>3, <4>1, AgeFacts
    <3> QED
      BY <2>1, <3>1, <3>2, <3>3, <3>4, Numbers, AgesAreNumbers DEF AgesInv, Registered
  <2>5. CASE Tick
    <3>1. /\ timer' = timer - 1 /\ UNCHANGED <<lastStatus, listed>>
          /\ \A id \in Ids : listed[id] = None
      BY <2>5 DEF Tick, Checking
    <3>2. \A id \in Ids : Registered(id) => nodes'[id].age <= nodes[id].age + 1
      BY <2>5, TickEffect, AgeFacts DEF TypeOK, Registered, Row
    <3>3. \A id \in Ids : Registered(id)' => Registered(id) /\ nodes'[id].age \in Nat
      BY <2>5, TickEffect, AgeFacts DEF Registered, Row
    <3> QED BY <2>1, <3>1, <3>2, <3>3, Numbers, AgesAreNumbers DEF AgesInv
  <2>6. ASSUME UNCHANGED <<nodes, listed, timer, lastStatus>> PROVE AgesInv'
    BY <2>1, <2>6 DEF AgesInv, Registered
  <2>7. ~Restart
    BY NoFault
  <2>8. ASSUME NEW a \in Agents, NEW id \in Ids, RegisterNode(a, id) PROVE AgesInv'
    BY <2>2, <2>8 DEF RegisterNode, TypeOK
  <2>9. ASSUME NEW id \in Streamed, StreamEvents(id) PROVE AgesInv'
    <3>1. listed[id] # None => Registered(id)
      BY <2>9 DEF StreamEvents
    <3> QED BY <2>2, <2>9, <3>1, NoFault, NoneApart DEF StreamEvents
  <2> QED
    BY <2>3, <2>4, <2>5, <2>6, <2>7, <2>8, <2>9
    DEF Next, vars, Heartbeat, StopAgent
<1> QED BY <1>1, <1>2, TypeCorrect, PTL DEF Spec

\* Hence no row ever grows older than threshold and interval, and a node counts
\* as offline for one interval, on every schedule without faults.
THEOREM RowsYoung == Spec => []RowsStayYoung
<1>1. TypeOK /\ AgesInv => RowsStayYoung
  <2> SUFFICES ASSUME TypeOK, AgesInv, faults = 0, NEW id \in Ids, Registered(id)
               PROVE  nodes[id].age <= OfflineAfter + Interval
    BY DEF RowsStayYoung
  <2> QED BY Numbers, AgesAreNumbers DEF AgesInv
<1> QED BY <1>1, Ages, TypeCorrect, PTL

THEOREM OfflineBrief == Spec => []OfflineIsBrief
<1>1. TypeOK /\ AgesInv => OfflineIsBrief
  <2> SUFFICES ASSUME TypeOK, AgesInv, faults = 0, NEW id \in Ids, lastStatus[id] = "offline"
               PROVE  /\ nodes[id].age <= Interval
                      /\ listed[id] # None => listed[id] <= OfflineAfter
    BY DEF OfflineIsBrief
  <2>1. Registered(id)
    BY DEF TypeOK
  <2> QED BY <2>1, Numbers, AgesAreNumbers DEF AgesInv
<1> QED BY <1>1, Ages, TypeCorrect, PTL

----------------------------------------------------------------------------
(* Why a silent node is reported.                                          *)
(*                                                                         *)
(* That it is in the end is an induction over ages and faults, which TLC   *)
(* checks; that nothing sets a node back on its way there is proved, for   *)
(* every schedule of calls, checks, restarts and failures.                 *)

\* What the watchdog remembers as offline it has told.
NotedInv == \A id \in Ids : lastStatus[id] = "offline" => told[id] = "offline"

\* The row of a node that no client streams, and of which no alert says offline,
\* stays and never gets younger before that alert; a verdict on a row older
\* than the threshold is that alert.
SilenceAdds ==
  \A id \in Ids \ Streamed : Registered(id) /\ told[id] # "offline" =>
    \/ told'[id] = "offline"
    \/ /\ Registered(id)' /\ nodes'[id].age >= nodes[id].age
       /\ listed[id] # None /\ listed[id] > OfflineAfter => ~Judge(id)

LEMMA VerdictKeeps ==
  ASSUME TypeOK, NotedInv, NEW id \in Ids, Judge(id)
  PROVE  /\ NotedInv'
         /\ \A j \in Ids : j # id => nodes'[j] = nodes[j] /\ told'[j] = told[j]
         /\ told[id] # "offline" /\ told'[id] # "offline" =>
              nodes'[id] = nodes[id] /\ ~(listed[id] > OfflineAfter)
<1>1. /\ Registered(id) /\ lastStatus' \in [Ids -> Status \cup {""}]
      /\ \A j \in Ids : j # id => lastStatus'[j] = lastStatus[j] /\ told'[j] = told[j]
  BY DEF Judge, DeclareOffline, DeclareRecovered, FirstSight, NoChange, TypeOK, Status
<1>2. CASE DeclareOffline(id)
  <2>1. told'[id] = "offline"
    BY <1>2 DEF DeclareOffline, TypeOK
  <2>2. Update(id, "offline") /\ "offline" \in Status
    BY <1>2 DEF DeclareOffline, Status
  <2> QED BY <1>1, <2>1, <2>2, UpdateEffect DEF NotedInv
<1>3. CASE DeclareRecovered(id)
  <2>1. lastStatus'[id] = "online" /\ told[id] = "offline"
    BY <1>3 DEF DeclareRecovered, TypeOK, NotedInv
  <2>2. Update(id, "online") /\ "online" \in Status
    BY <1>3 DEF DeclareRecovered, Status
  <2> QED BY <1>1, <2>1, <2>2, UpdateEffect DEF NotedInv
<1>4. CASE FirstSight(id)
  <2>1. lastStatus'[id] = "online" /\ UNCHANGED <<nodes, told>>
    BY <1>4 DEF FirstSight, TypeOK
  <2>2. listed[id] \in Nat /\ listed[id] <= OfflineAfter
    BY <1>4, AgesAreNumbers DEF FirstSight, Judge
  <2>3. ~(listed[id] > OfflineAfter)
    BY <2>2, Numbers
  <2> QED BY <1>1, <2>1, <2>3 DEF NotedInv
<1>5. CASE NoChange(id)
  BY <1>1, <1>5 DEF NoChange, NotedInv
<1> QED BY <1>2, <1>3, <1>4, <1>5 DEF Judge

LEMMA NotedSteps ==
  ASSUME TypeOK, NotedInv, [Next]_vars
  PROVE  NotedInv' /\ SilenceAdds
<1>1. ASSUME NEW id \in Ids, Registered(id) PROVE nodes[id].age >= nodes[id].age
  BY <1>1, AgesAreNumbers
<1>2. ASSUME NEW id \in Ids, Judge(id) PROVE NotedInv' /\ SilenceAdds
  <2>1. \A j \in Ids \ Streamed : Registered(j) /\ told[j] # "offline" =>
          \/ told'[j] = "offline"
          \/ nodes'[j] = nodes[j] /\ (listed[j] # None /\ listed[j] > OfflineAfter => ~Judge(j))
    <3>1. \A j \in Ids : j # id => ~Judge(j)
      BY <1>2 DEF Judge, TypeOK
    <3> QED BY <1>2, <3>1, VerdictKeeps
  <2> QED BY <1>1, <1>2, <2>1, VerdictKeeps DEF SilenceAdds, Registered
<1>3. ASSUME UNCHANGED <<told, lastStatus>>,
             \A id \in Ids \ Streamed : Registered(id) =>
               Registered(id)' /\ nodes'[id].age >= nodes[id].age,
             \A id \in Ids : ~Judge(id)
      PROVE  NotedInv' /\ SilenceAdds
  BY <1>3 DEF NotedInv, SilenceAdds
<1>4. ASSUME UNCHANGED listed PROVE \A id \in Ids : ~Judge(id)
  BY <1>4 DEF Judge, TypeOK
<1>5. ASSUME NEW a \in Agents, NEW id \in Ids, RegisterNode(a, id)
      PROVE  NotedInv' /\ SilenceAdds
  <2>1. \A j \in Ids : Registered(j) => nodes'[j] = nodes[j]
    BY <1>5 DEF RegisterNode, TypeOK, Registered
  <2> QED BY <1>1, <1>3, <1>4, <1>5, <2>1 DEF RegisterNode, Registered
<1>6. ASSUME NEW a \in Agents, Heartbeat(a) \/ StopAgent(a) PROVE NotedInv' /\ SilenceAdds
  BY <1>1, <1>3, <1>4, <1>6 DEF Heartbeat, StopAgent, Registered
<1>7. ASSUME NEW id \in Streamed, StreamEvents(id) PROVE NotedInv' /\ SilenceAdds
  <2>1. \A j \in Ids \ Streamed : nodes'[j] = nodes[j]
    BY <1>7, UpdateEffect, NoneApart DEF StreamEvents, Status
  <2> QED BY <1>1, <1>3, <1>4, <1>7, <2>1 DEF StreamEvents, Registered
<1>8. CASE BeginCheck
  <2>1. \A id \in Ids : ~Judge(id)
    BY <1>8 DEF BeginCheck, Checking, Judge
  <2> QED BY <1>1, <1>3, <1>8, <2>1 DEF BeginCheck, Registered
<1>9. CASE Tick
  <2>1. \A id \in Ids : Registered(id) => Older(nodes[id].age) >= nodes[id].age
    BY AgesAreNumbers DEF Older
  <2>2. UNCHANGED <<told, lastStatus, listed>>
    BY <1>9 DEF Tick
  <2> QED BY <1>3, <1>4, <1>9, <2>1, <2>2, TickEffect
<1>10. CASE Restart
  <2>1. /\ \A id \in Ids : lastStatus'[id] = ""
        /\ UNCHANGED <<nodes, told>>
    BY <1>10 DEF Restart
  <2>2. ASSUME NEW id \in Ids, Judge(id) PROVE FALSE
    <3>1. faults' # faults /\ lastStatus'[id] = ""
      <4>1. faults \in Nat /\ faults' = faults + 1
        BY <1>10, Counting DEF Restart, TypeOK
      <4>2. faults' # faults
        BY <4>1
      <4> QED BY <2>1, <4>2
    <3>2. lastStatus'[id] \in {"online", "offline"} \/ faults' = faults
      BY <2>2 DEF Judge, DeclareOffline, DeclareRecovered, FirstSight, NoChange, TypeOK
    <3> QED BY <3>1, <3>2
  <2> QED BY <1>1, <2>1, <2>2 DEF NotedInv, SilenceAdds, Registered
<1>11. CASE UNCHANGED vars
  BY <1>1, <1>3, <1>4, <1>11 DEF vars, Registered
<1> QED
  BY <1>2, <1>5, <1>6, <1>7, <1>8, <1>9, <1>10, <1>11 DEF Next

\* Nothing but the alert itself makes the row of a node younger that no client
\* streams, and the first verdict on an old row is the alert (watchdog.go:51-91).
THEOREM SilenceCounts == Spec => [][SilenceAdds]_vars
<1>1. Init => NotedInv
  BY DEF Init, NotedInv
<1>2. TypeOK /\ NotedInv /\ [Next]_vars => NotedInv' /\ [SilenceAdds]_vars
  BY NotedSteps
<1> QED BY <1>1, <1>2, TypeCorrect, PTL DEF Spec

=============================================================================
