----------------------------- MODULE HubProofs -----------------------------
(***************************************************************************)
(* Type correctness and the safety properties of Hub, for any number of    *)
(* clients and broadcasts and any capacity of the buffers.                 *)
(***************************************************************************)
EXTENDS Hub, FiniteSetTheorems, TLAPS

----------------------------------------------------------------------------
(* Types.                                                                  *)

\* The constants, without the rest of the assumption.
LEMMA Capacity == Buffer \in Nat /\ Buffer > 0
  BY HubAssumption

LEMMA InitTypes == Init => TypeOK
  BY HubAssumption DEF Init, TypeOK, CallSteps, HandlerSteps

\* The types of what the lock guards, after it has been held alone.
LEMMA UnlockTypes ==
  ASSUME TypeOK, NEW S \in SUBSET Clients, Unlock(S)
  PROVE  /\ clients' \subseteq Clients
         /\ locker' \in Clients \cup {None}
         /\ call' \in [Events -> CallSteps]
         /\ todo' \in [Events -> SUBSET Clients]
         /\ audience' \in [Events -> SUBSET Clients]
         /\ prior' \in [Events -> SUBSET Events]
  BY DEF TypeOK, Unlock, CallSteps

LEMMA PushTypes ==
  ASSUME TypeOK, NEW e \in Events, NEW c \in Clients, Push(e, c)
  PROVE  TypeOK'
<1>1. stream' \in [Clients -> Seq(Events)]
  BY DEF TypeOK, Push
<1>2. \A d \in Clients \ {c} : stream'[d] = stream[d]
  BY DEF TypeOK, Push
<1>3. /\ taken[c] <= Len(stream'[c])
      /\ Len(stream'[c]) <= taken[c] + Buffer
  <2>1. stream[c] \in Seq(Events) /\ taken[c] \in Nat
    BY DEF TypeOK
  <2>2. Len(Append(stream[c], e)) = Len(stream[c]) + 1
    BY <2>1
  <2>3. CASE HasRoom(c)
    <3>1. stream'[c] = Append(stream[c], e)
      BY <2>3 DEF Push, TypeOK
    <3> QED BY <2>1, <2>2, <2>3, <3>1, Capacity DEF TypeOK, HasRoom
  <2>4. CASE ~HasRoom(c)
    <3>1. stream'[c] = stream[c]
      BY <2>4 DEF Push, TypeOK
    <3> QED BY <3>1 DEF TypeOK
  <2> QED BY <2>3, <2>4
<1>4. \A d \in Clients :
        taken[d] <= Len(stream'[d]) /\ Len(stream'[d]) <= taken[d] + Buffer
  BY <1>2, <1>3 DEF TypeOK
<1>5. todo' \in [Events -> SUBSET Clients]
  BY DEF TypeOK, Push
<1> QED
  BY <1>1, <1>4, <1>5
  DEF TypeOK, Push, lockVars, peerVars

LEMMA TakeTypes ==
  ASSUME TypeOK, NEW c \in Clients, Take(c)
  PROVE  TypeOK'
<1>1. /\ taken' \in [Clients -> Nat] /\ writing' \in [Clients -> BOOLEAN]
      /\ \A d \in Clients \ {c} : taken'[d] = taken[d]
      /\ taken'[c] = taken[c] + 1
  BY DEF TypeOK, Take
<1>2. Len(stream[c]) \in Nat /\ taken[c] \in Nat
  BY DEF TypeOK
<1>3. taken'[c] <= Len(stream[c]) /\ Len(stream[c]) <= taken'[c] + Buffer
  BY <1>1, <1>2, Capacity DEF TypeOK, Take
<1>4. \A d \in Clients :
        taken'[d] <= Len(stream[d]) /\ Len(stream[d]) <= taken'[d] + Buffer
  BY <1>1, <1>3 DEF TypeOK
<1> QED
  BY <1>1, <1>4 DEF TypeOK, Take, lockVars, callVars

LEMMA NextTypes ==
  ASSUME TypeOK, [Next]_vars
  PROVE  TypeOK'
<1> USE DEF lockVars, callVars, peerVars
<1>1. ASSUME NEW e \in Events, Broadcast(e) PROVE TypeOK'
  <2>1. prior' \in [Events -> SUBSET Events]
    BY <1>1 DEF TypeOK, Broadcast
  <2>2. /\ call' \in [Events -> CallSteps]
        /\ todo' \in [Events -> SUBSET Clients]
        /\ audience' \in [Events -> SUBSET Clients]
    <3>1. CASE locker = None
      <4>1. clients \in SUBSET Clients /\ "looping" \in CallSteps
        BY DEF TypeOK, CallSteps
      <4>2. /\ call' = [call EXCEPT ![e] = "looping"]
            /\ todo' = [todo EXCEPT ![e] = clients]
            /\ audience' = [audience EXCEPT ![e] = clients]
        BY <1>1, <3>1 DEF Broadcast
      <4> QED BY <4>1, <4>2 DEF TypeOK
    <3>2. CASE locker # None
      BY <1>1, <3>2 DEF TypeOK, Broadcast, CallSteps
    <3> QED BY <3>1, <3>2
  <2> QED BY <1>1, <2>1, <2>2 DEF TypeOK, Broadcast
<1>2. ASSUME NEW e \in Events, Return(e) PROVE TypeOK'
  BY <1>2 DEF TypeOK, Return, CallSteps
<1>3. ASSUME NEW e \in Events, NEW c \in Clients, Push(e, c) PROVE TypeOK'
  BY <1>3, PushTypes
<1>4. ASSUME NEW c \in Clients, Accept(c) PROVE TypeOK'
  BY <1>4 DEF TypeOK, Accept, HandlerSteps
<1>5. ASSUME NEW c \in Clients, Announce(c) PROVE TypeOK'
  BY <1>5 DEF TypeOK, Announce
<1>6. ASSUME NEW c \in Clients, Join(c) PROVE TypeOK'
  <2>1. clients \cup {c} \in SUBSET Clients /\ Unlock(clients \cup {c})
    BY <1>6 DEF TypeOK, Join
  <2>2. /\ handler' \in [Clients -> HandlerSteps]
        /\ pinger' \in [Clients -> BOOLEAN] /\ writer' \in [Clients -> BOOLEAN]
    BY <1>6 DEF TypeOK, Join, HandlerSteps
  <2> QED BY <1>6, <2>1, <2>2, UnlockTypes DEF TypeOK, Join
<1>7. ASSUME NEW c \in Clients, ReadFails(c) PROVE TypeOK'
  BY <1>7 DEF TypeOK, ReadFails, HandlerSteps
<1>8. ASSUME NEW c \in Clients, Leave(c) PROVE TypeOK'
  <2>1. clients \ {c} \in SUBSET Clients /\ Unlock(clients \ {c})
    BY <1>8 DEF TypeOK, Leave
  <2>2. handler' \in [Clients -> HandlerSteps]
    BY <1>8 DEF TypeOK, Leave, HandlerSteps
  <2> QED BY <1>8, <2>1, <2>2, UnlockTypes DEF TypeOK, Leave
<1>9. ASSUME NEW c \in Clients, Close(c) PROVE TypeOK'
  BY <1>9 DEF TypeOK, Close, HandlerSteps
<1>10. ASSUME NEW c \in Clients, PingerEnds(c) PROVE TypeOK'
  BY <1>10 DEF TypeOK, PingerEnds
<1>11. ASSUME NEW c \in Clients, Take(c) PROVE TypeOK'
  BY <1>11, TakeTypes
<1>12. ASSUME NEW c \in Clients, Write(c) PROVE TypeOK'
  BY <1>12 DEF TypeOK, Write
<1>13. ASSUME NEW c \in Clients, WriteFails(c) PROVE TypeOK'
  BY <1>13 DEF TypeOK, WriteFails
<1>14. ASSUME NEW c \in Clients, WriterEnds(c) PROVE TypeOK'
  BY <1>14 DEF TypeOK, WriterEnds
<1>15. ASSUME NEW c \in Clients, Break(c) PROVE TypeOK'
  BY <1>15 DEF TypeOK, Break
<1>16. CASE UNCHANGED vars
  BY <1>16 DEF TypeOK, vars
<1> QED
  BY <1>1, <1>2, <1>3, <1>4, <1>5, <1>6, <1>7, <1>8, <1>9, <1>10, <1>11,
     <1>12, <1>13, <1>14, <1>15, <1>16
  DEF Next, Caller, ServeWS, Writer

\* Every variable keeps its type, and no buffer of a client ever holds more
\* than its capacity (hub.go:59).
THEOREM TypeCorrect == Spec => []TypeOK
  BY InitTypes, NextTypes, PTL DEF Spec

----------------------------------------------------------------------------
(* Calls and streams.                                                      *)

\* A call that has not begun its loop has given nothing to anybody, one that
\* has returned is through, and what came before a call has returned.
CallInv ==
  \A e \in Events :
    /\ call[e] \in {"none", "waiting"} => todo[e] = {} /\ audience[e] = {}
    /\ call[e] = "returned" => todo[e] = {}
    /\ prior[e] \subseteq {d \in Events : call[d] = "returned"}

\* Whoever has been given an event is done with by its call.
SentInv ==
  \A e \in Events, c \in Clients :
    Sent(e, c) => call[e] \in {"looping", "returned"} /\ c \notin todo[e]

\* Who has not been given the event of a call, and has not still to come, has
\* missed it for a buffer full of others.
MissedInv ==
  \A e \in Events : \A c \in audience[e] :
    c \in todo[e] \/ Sent(e, c) \/ Cardinality(Others(e)) >= Buffer

HubInv ==
  /\ NobodyLeavesMeanwhile
  /\ CallInv /\ SentInv /\ AtMostOnce /\ InOrder /\ MissedInv

\* What the properties speak of.
core == <<clients, callVars, stream>>

LEMMA InitHub == Init => HubInv
<1> SUFFICES ASSUME Init PROVE HubInv
  OBVIOUS
<1>1. \A c \in Clients : DOMAIN stream[c] = {}
  BY DEF Init
<1>2. \A e \in Events, c \in Clients : ~Sent(e, c)
  BY <1>1 DEF Sent
<1>3. AtMostOnce /\ InOrder
  BY <1>1 DEF AtMostOnce, InOrder
<1>4. NobodyLeavesMeanwhile /\ CallInv /\ MissedInv
  BY DEF Init, NobodyLeavesMeanwhile, CallInv, MissedInv
<1> QED
  BY <1>2, <1>3, <1>4 DEF HubInv, SentInv

LEMMA Untouched ==
  ASSUME HubInv, UNCHANGED core
  PROVE  HubInv'
<1>1. UNCHANGED <<clients, call, todo, audience, prior, stream>>
  BY DEF core, callVars
<1>2. \A e, c : Sent(e, c)' <=> Sent(e, c)
  BY <1>1 DEF Sent
<1>3. \A e : Others(e)' = Others(e)
  BY <1>1 DEF Others
<1> QED
  BY <1>1, <1>2, <1>3
  DEF HubInv, NobodyLeavesMeanwhile, CallInv, SentInv, AtMostOnce, InOrder,
      MissedInv

LEMMA OthersGrow ==
  ASSUME NEW e \in Events,
         \A d \in Events : call[d] # "none" => call'[d] # "none",
         Cardinality(Others(e)) >= Buffer
  PROVE  Cardinality(Others(e)') >= Buffer
<1>1. Others(e) \subseteq Others(e)' /\ Others(e)' \subseteq Events
  BY DEF Others
<1>2. IsFiniteSet(Others(e)')
  BY <1>1, HubAssumption, FS_Subset
<1>3. Cardinality(Others(e)) <= Cardinality(Others(e)')
  BY <1>1, <1>2, FS_Subset
<1>4. /\ Cardinality(Others(e)) \in Nat /\ Cardinality(Others(e)') \in Nat
  BY <1>1, <1>2, FS_Subset, FS_CardinalityType
<1> QED
  BY <1>3, <1>4, Capacity

----------------------------------------------------------------------------
(* The steps that touch the core.                                          *)

LEMMA BroadcastHub ==
  ASSUME TypeOK, HubInv, NEW e \in Events, Broadcast(e)
  PROVE  HubInv'
<1> USE DEF lockVars, callVars, peerVars
<1>1. /\ call[e] = "none" /\ todo[e] = {} /\ audience[e] = {}
      /\ \A c \in Clients : ~Sent(e, c)
  BY DEF Broadcast, HubInv, CallInv, SentInv
<1>2. /\ UNCHANGED <<clients, stream>>
      /\ call'[e] \in {"waiting", "looping"}
      /\ call'[e] = "looping" => todo'[e] = clients /\ audience'[e] = clients
      /\ call'[e] = "waiting" => todo'[e] = {} /\ audience'[e] = {}
      /\ prior'[e] = {d \in Events : call[d] = "returned"}
  <2>1. CASE locker = None
    BY <1>1, <2>1 DEF Broadcast, TypeOK
  <2>2. CASE locker # None
    BY <1>1, <2>2 DEF Broadcast, TypeOK
  <2> QED BY <2>1, <2>2
<1>3. \A d \in Events \ {e} :
        /\ call'[d] = call[d] /\ todo'[d] = todo[d]
        /\ audience'[d] = audience[d] /\ prior'[d] = prior[d]
  BY DEF Broadcast, TypeOK
<1>4. \A d, c : Sent(d, c)' <=> Sent(d, c)
  BY <1>2 DEF Sent
<1>5. \A d \in Events : call[d] # "none" => call'[d] # "none"
  BY <1>2, <1>3
<1>6. NobodyLeavesMeanwhile'
  BY <1>2, <1>3 DEF HubInv, NobodyLeavesMeanwhile
<1>7. CallInv'
  <2>1. {d \in Events : call[d] = "returned"} \subseteq
          {d \in Events : call'[d] = "returned"}
    BY <1>1, <1>3
  <2> QED BY <1>2, <1>3, <2>1 DEF HubInv, CallInv
<1>8. SentInv'
  BY <1>1, <1>3, <1>4 DEF HubInv, SentInv
<1>9. AtMostOnce'
  BY <1>2 DEF HubInv, AtMostOnce
<1>10. InOrder'
  <2> SUFFICES ASSUME NEW c \in Clients, NEW i \in DOMAIN stream[c],
                      NEW j \in DOMAIN stream[c], i < j
               PROVE  stream[c][j] \notin prior'[stream[c][i]]
    BY <1>2 DEF InOrder
  <2>1. stream[c][i] \in Events /\ stream[c][i] # e
    BY <1>1 DEF TypeOK, Sent
  <2> QED BY <1>3, <2>1 DEF HubInv, InOrder
<1>11. MissedInv'
  <2> SUFFICES ASSUME NEW d \in Events, NEW c \in audience'[d]
               PROVE  \/ c \in todo'[d] \/ Sent(d, c)'
                      \/ Cardinality(Others(d)') >= Buffer
    BY DEF MissedInv
  <2>1. CASE d = e
    BY <1>2, <2>1
  <2>2. CASE d # e
    BY <1>3, <1>4, <1>5, <2>2, OthersGrow DEF HubInv, MissedInv
  <2> QED BY <2>1, <2>2
<1> QED
  BY <1>6, <1>7, <1>8, <1>9, <1>10, <1>11 DEF HubInv

LEMMA ReturnHub ==
  ASSUME TypeOK, HubInv, NEW e \in Events, Return(e)
  PROVE  HubInv'
<1> USE DEF lockVars, callVars, peerVars
<1>1. /\ UNCHANGED <<clients, todo, audience, prior, stream>>
      /\ call[e] = "looping" /\ call'[e] = "returned" /\ todo[e] = {}
      /\ \A d \in Events \ {e} : call'[d] = call[d]
  BY DEF Return, TypeOK
<1>2. \A d, c : Sent(d, c)' <=> Sent(d, c)
  BY <1>1 DEF Sent
<1>3. \A d \in Events : call[d] # "none" => call'[d] # "none"
  BY <1>1
<1>4. NobodyLeavesMeanwhile'
  BY <1>1 DEF HubInv, NobodyLeavesMeanwhile
<1>5. CallInv'
  BY <1>1 DEF HubInv, CallInv
<1>6. SentInv'
  BY <1>1, <1>2 DEF HubInv, SentInv
<1>7. AtMostOnce' /\ InOrder'
  BY <1>1 DEF HubInv, AtMostOnce, InOrder
<1>8. MissedInv'
  BY <1>1, <1>2, <1>3, OthersGrow DEF HubInv, MissedInv
<1> QED
  BY <1>4, <1>5, <1>6, <1>7, <1>8 DEF HubInv

LEMMA UnlockHub ==
  ASSUME TypeOK, HubInv, NEW S \in SUBSET Clients, Looping = {}, Unlock(S),
         UNCHANGED stream
  PROVE  HubInv'
<1>1. \A d \in Events : call[d] # "looping"
  BY DEF Looping
<1>2. /\ clients' = S /\ UNCHANGED <<prior, stream>>
      /\ \A d \in Events :
           /\ call[d] = "waiting" =>
                /\ call'[d] = "looping" /\ todo'[d] = S /\ audience'[d] = S
           /\ call[d] # "waiting" =>
                /\ call'[d] = call[d] /\ todo'[d] = todo[d]
                /\ audience'[d] = audience[d]
  BY DEF Unlock
<1>3. \A d, c : Sent(d, c)' <=> Sent(d, c)
  BY <1>2 DEF Sent
<1>4. \A d \in Events : call[d] # "none" => call'[d] # "none"
  BY <1>2
<1>5. NobodyLeavesMeanwhile'
  BY <1>1, <1>2 DEF NobodyLeavesMeanwhile
<1>6. CallInv'
  <2>1. {d \in Events : call[d] = "returned"} \subseteq
          {d \in Events : call'[d] = "returned"}
    BY <1>2
  <2> QED BY <1>1, <1>2, <2>1 DEF HubInv, CallInv
<1>7. SentInv'
  BY <1>1, <1>2, <1>3 DEF HubInv, SentInv
<1>8. AtMostOnce' /\ InOrder'
  BY <1>2 DEF HubInv, AtMostOnce, InOrder
<1>9. MissedInv'
  <2> SUFFICES ASSUME NEW d \in Events, NEW c \in audience'[d]
               PROVE  \/ c \in todo'[d] \/ Sent(d, c)'
                      \/ Cardinality(Others(d)') >= Buffer
    BY DEF MissedInv
  <2>1. CASE call[d] = "waiting"
    BY <1>2, <2>1
  <2>2. CASE call[d] # "waiting"
    BY <1>2, <1>3, <1>4, <2>2, OthersGrow DEF HubInv, MissedInv
  <2> QED BY <2>1, <2>2
<1> QED
  BY <1>5, <1>6, <1>7, <1>8, <1>9 DEF HubInv

\* A stream holds events of calls that have begun, each once: one that lacks e
\* is no longer than there are others.
LEMMA StreamIsShort ==
  ASSUME TypeOK, HubInv, NEW e \in Events, NEW c \in Clients, ~Sent(e, c)
  PROVE  Len(stream[c]) <= Cardinality(Others(e))
<1> DEFINE s == stream[c]
           f == [i \in 1 .. Len(s) |-> s[i]]
<1>1. s \in Seq(Events) /\ Len(s) \in Nat /\ DOMAIN s = 1 .. Len(s)
  BY DEF TypeOK
<1>2. \A i \in 1 .. Len(s) : s[i] \in Others(e)
  <2> SUFFICES ASSUME NEW i \in 1 .. Len(s) PROVE s[i] \in Others(e)
    OBVIOUS
  <2>1. s[i] \in Events /\ Sent(s[i], c)
    BY <1>1 DEF Sent
  <2> QED BY <2>1 DEF HubInv, SentInv, Others
<1>3. f \in Injection(1 .. Len(s), Others(e))
  <2>1. \A i, j \in 1 .. Len(s) : i # j => s[i] # s[j]
    BY <1>1 DEF HubInv, AtMostOnce
  <2> QED BY <1>2, <2>1 DEF Injection, IsInjective
<1>4. IsFiniteSet(Others(e))
  BY HubAssumption, FS_Subset DEF Others
<1>5. Cardinality(1 .. Len(s)) <= Cardinality(Others(e))
  BY <1>3, <1>4, FS_Injection
<1>6. Cardinality(1 .. Len(s)) = Len(s)
  BY <1>1, FS_Interval
<1> QED
  BY <1>5, <1>6

LEMMA PushHub ==
  ASSUME TypeOK, HubInv, NEW e \in Events, NEW c \in Clients, Push(e, c)
  PROVE  HubInv'
<1> USE DEF lockVars, callVars, peerVars
<1>1. /\ UNCHANGED <<clients, call, audience, prior>>
      /\ c \in todo[e] /\ todo'[e] = todo[e] \ {c}
      /\ \A d \in Events \ {e} : todo'[d] = todo[d]
      /\ \A d \in Clients \ {c} : stream'[d] = stream[d]
  BY DEF Push, TypeOK
<1>2. call[e] = "looping" /\ ~Sent(e, c)
  <2>1. call[e] \in CallSteps
    BY DEF TypeOK
  <2> QED BY <1>1, <2>1 DEF HubInv, CallInv, SentInv, CallSteps
<1>3. stream[c] \in Seq(Events) /\ taken[c] \in Nat
  BY DEF TypeOK
<1>4. \A d : Others(d)' = Others(d)
  BY <1>1 DEF Others
<1>5. NobodyLeavesMeanwhile' /\ CallInv'
  BY <1>1, <1>2 DEF HubInv, NobodyLeavesMeanwhile, CallInv
<1>6. CASE ~HasRoom(c)
  <2>1. UNCHANGED stream
    BY <1>6 DEF Push, TypeOK
  <2>2. \A d, x : Sent(d, x)' <=> Sent(d, x)
    BY <2>1 DEF Sent
  <2>3. SentInv'
    BY <1>1, <2>2 DEF HubInv, SentInv
  <2>4. AtMostOnce' /\ InOrder'
    BY <1>1, <2>1 DEF HubInv, AtMostOnce, InOrder
  <2>5. Cardinality(Others(e)) >= Buffer
    <3>1. Len(stream[c]) <= Cardinality(Others(e))
      BY <1>2, StreamIsShort
    <3>2. Buffer <= Len(stream[c]) /\ Len(stream[c]) \in Nat
      BY <1>3, <1>6, Capacity DEF HasRoom
    <3>3. Cardinality(Others(e)) \in Nat
      BY HubAssumption, FS_Subset, FS_CardinalityType DEF Others
    <3> QED BY <3>1, <3>2, <3>3, Capacity
  <2>6. MissedInv'
    BY <1>1, <1>4, <2>2, <2>5 DEF HubInv, MissedInv
  <2> QED BY <1>5, <2>3, <2>4, <2>6 DEF HubInv
<1>7. CASE HasRoom(c)
  <2> DEFINE n == Len(stream[c])
  <2>1. stream'[c] = Append(stream[c], e)
    BY <1>7 DEF Push, TypeOK
  <2>2. /\ n \in Nat /\ DOMAIN stream[c] = 1 .. n
        /\ DOMAIN stream'[c] = 1 .. (n + 1)
        /\ stream'[c][n + 1] = e
        /\ \A i \in 1 .. n : stream'[c][i] = stream[c][i]
    BY <1>3, <2>1
  <2>3. \A i \in 1 .. (n + 1) : i \in 1 .. n \/ i = n + 1
    BY <2>2
  <2>4. /\ \A d : Sent(d, c)' <=> (Sent(d, c) \/ d = e)
        /\ \A d, x : x \in Clients \ {c} => (Sent(d, x)' <=> Sent(d, x))
    <3>1. \A d, x : x \in Clients \ {c} => (Sent(d, x)' <=> Sent(d, x))
      BY <1>1 DEF Sent
    <3>2. ASSUME NEW d PROVE Sent(d, c)' <=> (Sent(d, c) \/ d = e)
      <4>1. Sent(d, c)' => Sent(d, c) \/ d = e
        BY <2>2, <2>3 DEF Sent
      <4>2. Sent(d, c) => Sent(d, c)'
        BY <2>2 DEF Sent
      <4>3. Sent(e, c)'
        BY <2>2 DEF Sent
      <4> QED BY <4>1, <4>2, <4>3
    <3> QED BY <3>1, <3>2
  <2>5. SentInv'
    <3> SUFFICES ASSUME NEW d \in Events, NEW x \in Clients, Sent(d, x)'
                 PROVE  call[d] \in {"looping", "returned"} /\ x \notin todo'[d]
      BY <1>1 DEF SentInv
    <3>1. CASE d = e /\ x = c
      BY <1>1, <1>2, <3>1
    <3>2. CASE ~(d = e /\ x = c)
      <4>1. Sent(d, x)
        BY <2>4, <3>2
      <4> QED BY <1>1, <4>1 DEF HubInv, SentInv
    <3> QED BY <3>1, <3>2
  <2>6. AtMostOnce'
    <3> SUFFICES ASSUME NEW x \in Clients, NEW i \in DOMAIN stream'[x],
                        NEW j \in DOMAIN stream'[x], i # j
                 PROVE  stream'[x][i] # stream'[x][j]
      BY DEF AtMostOnce
    <3>1. CASE x # c
      BY <1>1, <3>1 DEF HubInv, AtMostOnce
    <3>2. CASE x = c
      <4>1. \A k \in 1 .. n : stream[c][k] # e
        BY <1>2, <2>2 DEF Sent
      <4> QED BY <2>2, <2>3, <3>2, <4>1 DEF HubInv, AtMostOnce
    <3> QED BY <3>1, <3>2
  <2>7. InOrder'
    <3> SUFFICES ASSUME NEW x \in Clients, NEW i \in DOMAIN stream'[x],
                        NEW j \in DOMAIN stream'[x], i < j
                 PROVE  stream'[x][j] \notin prior[stream'[x][i]]
      BY <1>1 DEF InOrder
    <3>1. CASE x # c
      BY <1>1, <3>1 DEF HubInv, InOrder
    <3>2. CASE x = c /\ j \in 1 .. n
      <4>1. i \in 1 .. n
        BY <2>2, <3>2
      <4> QED BY <2>2, <3>2, <4>1 DEF HubInv, InOrder
    <3>3. CASE x = c /\ j = n + 1
      <4>1. i \in 1 .. n /\ stream'[c][j] = e /\ stream'[c][i] = stream[c][i]
        BY <2>2, <3>3
      <4>2. stream[c][i] \in Events
        BY <1>3, <2>2, <4>1
      <4>3. e \notin prior[stream[c][i]]
        BY <1>2, <4>2 DEF HubInv, CallInv
      <4> QED BY <3>3, <4>1, <4>3
    <3> QED BY <2>2, <2>3, <3>1, <3>2, <3>3
  <2>8. MissedInv'
    <3> SUFFICES ASSUME NEW d \in Events, NEW x \in audience[d]
                 PROVE  \/ x \in todo'[d] \/ Sent(d, x)'
                        \/ Cardinality(Others(d)') >= Buffer
      BY <1>1 DEF MissedInv
    <3>1. x \in Clients
      BY DEF TypeOK
    <3>2. CASE d = e /\ x = c
      BY <2>4, <3>2
    <3>3. CASE ~(d = e /\ x = c)
      <4>1. x \in todo[d] => x \in todo'[d]
        BY <1>1, <3>3
      <4>2. Sent(d, x) => Sent(d, x)'
        BY <2>4, <3>1
      <4> QED BY <1>4, <4>1, <4>2 DEF HubInv, MissedInv
    <3> QED BY <3>2, <3>3
  <2> QED BY <1>5, <2>5, <2>6, <2>7, <2>8 DEF HubInv
<1> QED
  BY <1>6, <1>7

----------------------------------------------------------------------------
LEMMA NextHub ==
  ASSUME TypeOK, HubInv, [Next]_vars
  PROVE  HubInv'
<1>1. ASSUME NEW c \in Clients,
             \/ Accept(c) \/ Announce(c) \/ ReadFails(c) \/ Close(c)
             \/ PingerEnds(c) \/ Writer(c) \/ Break(c)
      PROVE  UNCHANGED core
  BY <1>1 DEF Accept, Announce, ReadFails, Close, PingerEnds, Writer, Take,
     Write, WriteFails, WriterEnds, Break, core, lockVars, callVars
<1>2. UNCHANGED vars => UNCHANGED core
  BY DEF vars, core, lockVars, callVars
<1>3. ASSUME NEW c \in Clients, Join(c) PROVE HubInv'
  <2>1. /\ clients \cup {c} \in SUBSET Clients /\ Looping = {}
        /\ Unlock(clients \cup {c}) /\ UNCHANGED stream
    BY <1>3 DEF TypeOK, Join, Exclusive
  <2> QED BY <2>1, UnlockHub
<1>4. ASSUME NEW c \in Clients, Leave(c) PROVE HubInv'
  <2>1. /\ clients \ {c} \in SUBSET Clients /\ Looping = {}
        /\ Unlock(clients \ {c}) /\ UNCHANGED stream
    BY <1>4 DEF TypeOK, Leave, Exclusive
  <2> QED BY <2>1, UnlockHub
<1>5. ASSUME NEW e \in Events, Broadcast(e) \/ Return(e) PROVE HubInv'
  BY <1>5, BroadcastHub, ReturnHub
<1>6. ASSUME NEW e \in Events, NEW c \in Clients, Push(e, c) PROVE HubInv'
  BY <1>6, PushHub
<1> QED
  BY <1>1, <1>2, <1>3, <1>4, <1>5, <1>6, Untouched DEF Next, Caller, ServeWS

\* Calls, their audience and what clients were given agree in every reachable
\* state (hub.go:36-48, 60-62, 109-111).
THEOREM HubInvariant == Spec => []HubInv
  BY InitHub, NextHub, TypeCorrect, PTL DEF Spec

\* No client is given an event twice (hub.go:36-48).
THEOREM NeverTwice == Spec => []AtMostOnce
  BY HubInvariant, PTL DEF HubInv

\* A broadcast that returned before another began comes first for every client
\* (hub.go:38-47, 59).
THEOREM Ordered == Spec => []InOrder
  BY HubInvariant, PTL DEF HubInv

\* A broadcast works on the clients that are registered until it returns
\* (hub.go:38-47, 109-111).
THEOREM NobodyLeaves == Spec => []NobodyLeavesMeanwhile
  BY HubInvariant, PTL DEF HubInv

\* Only a full buffer loses an event (hub.go:41-45).
THEOREM QuietLosesNothing == Spec => []QuietHubLosesNothing
<1>1. HubInv => QuietHubLosesNothing
  BY DEF HubInv, CallInv, MissedInv, QuietHubLosesNothing
<1> QED
  BY <1>1, HubInvariant, PTL


----------------------------------------------------------------------------
(* Clients come and go.                                                    *)

\* How ServeWS of a client goes on.
NextStep == [s \in HandlerSteps \ {"gone"} |->
  CASE s = "away" -> "joining" [] s = "joining" -> "reading" [] s = "reading" -> "leaving"
    [] s = "leaving" -> "closing" [] s = "closing" -> "gone"]

\* The hub knows a client exactly while its handler reads from the connection or
\* has not yet been able to unregister it.
Registered(c) == c \in clients <=> handler[c] \in {"reading", "leaving"}

\* What a step may do to client c and its three goroutines.
PeerMoves(c) ==
  /\ \/ handler'[c] = handler[c]
     \/ handler[c] # "gone" /\ handler'[c] = NextStep[handler[c]]
  /\ Registered(c)'
  /\ handler[c] # "away" /\ ~open[c] => ~open'[c]
  /\ cancelled[c] => cancelled'[c]
  /\ handler[c] # "gone" /\ handler'[c] = "gone" => cancelled'[c] /\ ~open'[c]
  /\ pinger'[c] /\ ~pinger[c] => handler'[c] = "reading"
  /\ writer'[c] /\ ~writer[c] => handler'[c] = "reading"
  /\ writing'[c] => writer'[c]
  /\ handler[c] \in {"joining", "leaving"} /\ handler'[c] # handler[c] =>
       locker = c /\ locker' = None

LEMMA Steps ==
  /\ NextStep["away"] = "joining" /\ NextStep["joining"] = "reading"
  /\ NextStep["reading"] = "leaving" /\ NextStep["leaving"] = "closing"
  /\ NextStep["closing"] = "gone"
  BY DEF NextStep, HandlerSteps

\* A step that concerns other goroutines.
LEMMA PeerStays ==
  ASSUME NEW c, writing[c] => writer[c], Registered(c),
         handler'[c] = handler[c], c \in clients' <=> c \in clients,
         cancelled'[c] = cancelled[c], open'[c] = open[c], pinger'[c] = pinger[c],
         writer'[c] = writer[c], writing'[c] = writing[c]
  PROVE  PeerMoves(c)
  BY DEF PeerMoves, Registered

LEMMA AllPeersMove ==
  ASSUME TypeOK, NEW c \in Clients, writing[c] => writer[c], Registered(c), [Next]_vars
  PROVE  PeerMoves(c)
  <1> USE DEF lockVars, callVars, peerVars
  <1>1. ASSUME NEW e \in Events, Broadcast(e) \/ Caller(e) PROVE PeerMoves(c)
    BY <1>1, PeerStays DEF Broadcast, Caller, Push, Return
  <1>2. ASSUME NEW d \in Clients, d # c,
               \/ Accept(d) \/ ServeWS(d) \/ PingerEnds(d) \/ Writer(d) \/ Break(d)
        PROVE  PeerMoves(c)
    <2>1. CASE Accept(d) \/ PingerEnds(d) \/ Writer(d) \/ Break(d)
      BY <1>2, <2>1, PeerStays DEF TypeOK, Accept, PingerEnds, Writer, Take, Write, WriteFails,
                                   WriterEnds, Break
    <2>2. CASE Announce(d) \/ ReadFails(d) \/ Close(d)
      BY <1>2, <2>2, PeerStays DEF TypeOK, Announce, ReadFails, Close
    <2>3. CASE Join(d) \/ Leave(d)
      BY <1>2, <2>3, PeerStays DEF TypeOK, Join, Leave, Unlock
    <2> QED BY <1>2, <2>1, <2>2, <2>3 DEF ServeWS
  <1>3. CASE Accept(c)
    BY <1>3, Steps DEF TypeOK, Accept, Registered, PeerMoves
  <1>4. CASE Announce(c)
    BY <1>4, PeerStays DEF Announce
  <1>5. CASE Join(c)
    BY <1>5, Steps DEF TypeOK, Join, Unlock, Exclusive, Registered, PeerMoves
  <1>6. CASE ReadFails(c)
    BY <1>6, Steps DEF TypeOK, ReadFails, Registered, PeerMoves
  <1>7. CASE Leave(c)
    BY <1>7, Steps DEF TypeOK, Leave, Unlock, Exclusive, Registered, PeerMoves
  <1>8. CASE Close(c)
    BY <1>8, Steps DEF TypeOK, Close, Registered, PeerMoves
  <1>9. CASE PingerEnds(c) \/ Break(c)
    BY <1>9 DEF TypeOK, PingerEnds, Break, Registered, PeerMoves
  <1>10. CASE Writer(c)
    BY <1>10 DEF TypeOK, Writer, Take, Write, WriteFails, WriterEnds, Registered, PeerMoves
  <1>11. CASE UNCHANGED vars
    BY <1>11, PeerStays DEF vars
  <1> QED
    BY <1>1, <1>2, <1>3, <1>4, <1>5, <1>6, <1>7, <1>8, <1>9, <1>10, <1>11 DEF Next, ServeWS

\* A handler that is through has ended its context and closed its connection; the
\* goroutines of a client start only when it is registered.
PeerInv(c) ==
  /\ Registered(c)
  /\ handler[c] = "gone" => cancelled[c] /\ ~open[c]
  /\ handler[c] \in {"away", "joining"} => ~pinger[c] /\ ~writer[c]
  /\ writing[c] => writer[c]

PeersInv == \A c \in Clients : PeerInv(c)

\* Whoever has the lock is about to change the map, and calls wait only for it.
LockInv ==
  /\ locker # None => handler[locker] \in {"joining", "leaving"}
  /\ \A e \in Events : call[e] = "waiting" => locker # None

\* Nobody waits for nothing: as long as a call waits for the lock, a loop is at
\* work or a handler can take the lock and release it (hub.go:38, 60-62, 109-111).
WaitingEnds ==
  \A e \in Events : call[e] = "waiting" =>
    \/ Looping # {}
    \/ \E c \in Clients : handler[c] \in {"joining", "leaving"} /\ Exclusive(c)

LEMMA PeerKept ==
  ASSUME TypeOK, NEW c \in Clients, PeerInv(c), [Next]_vars
  PROVE  PeerInv(c)'
<1>1. PeerMoves(c)
  BY AllPeersMove DEF PeerInv
<1>2. handler[c] \in HandlerSteps
  BY DEF TypeOK
<1>3. CASE handler'[c] = handler[c]
  BY <1>1, <1>3 DEF PeerMoves, PeerInv
<1>4. CASE handler[c] # "gone" /\ handler'[c] = NextStep[handler[c]]
  <2>1. /\ handler'[c] # "away"
        /\ handler'[c] = "joining" => handler[c] = "away"
    BY <1>2, <1>4, Steps DEF HandlerSteps
  <2> QED BY <1>1, <1>4, <2>1 DEF PeerMoves, PeerInv
<1> QED
  BY <1>1, <1>3, <1>4 DEF PeerMoves

\* The hub sends to a client exactly while its handler reads from it or has yet
\* to unregister it; when the handler is gone its context and its connection are
\* ended too (hub.go:50-113).
THEOREM ClientsAreServed == Spec => []PeersInv
<1>1. Init => PeersInv
  BY DEF Init, PeersInv, PeerInv, Registered
<1>2. TypeOK /\ PeersInv /\ [Next]_vars => PeersInv'
  BY PeerKept DEF PeersInv
<1> QED
  BY <1>1, <1>2, TypeCorrect, PTL DEF Spec

LEMMA LockKept ==
  ASSUME TypeOK, PeersInv, LockInv, [Next]_vars
  PROVE  LockInv'
<1> USE DEF lockVars, callVars, peerVars
<1>1. ASSUME NEW e \in Events, Broadcast(e) \/ Caller(e) PROVE LockInv'
  BY <1>1 DEF TypeOK, LockInv, Broadcast, Caller, Push, Return
<1>2. ASSUME NEW c \in Clients, Announce(c) PROVE LockInv'
  BY <1>2, HubAssumption DEF TypeOK, LockInv, Announce
<1>3. ASSUME NEW c \in Clients, Join(c) \/ Leave(c) PROVE LockInv'
  <2>1. locker' = None /\ \A e \in Events : call'[e] # "waiting"
    BY <1>3 DEF Join, Leave, Unlock
  <2> QED BY <2>1 DEF LockInv
<1>4. ASSUME NEW c \in Clients, Accept(c) \/ ReadFails(c) \/ Close(c) PROVE LockInv'
  BY <1>4 DEF TypeOK, LockInv, Accept, ReadFails, Close
<1>5. ASSUME NEW c \in Clients, PingerEnds(c) \/ Writer(c) \/ Break(c) PROVE LockInv'
  BY <1>5 DEF LockInv, PingerEnds, Writer, Take, Write, WriteFails, WriterEnds, Break
<1>6. CASE UNCHANGED vars
  BY <1>6 DEF vars, LockInv
<1> QED
  BY <1>1, <1>2, <1>3, <1>4, <1>5, <1>6 DEF Next, ServeWS

LEMMA LockInvariant == Spec => []LockInv
<1>1. Init => LockInv
  BY DEF Init, LockInv
<1>2. TypeOK /\ PeersInv /\ LockInv /\ [Next]_vars => LockInv'
  BY LockKept
<1> QED
  BY <1>1, <1>2, TypeCorrect, ClientsAreServed, PTL DEF Spec

\* A call that waits always waits for somebody who can go on: the lock of the
\* hub never stands still (hub.go:38, 60-62, 109-111).
THEOREM NoStandstill == Spec => []WaitingEnds
<1>1. TypeOK /\ LockInv => WaitingEnds
  BY DEF TypeOK, LockInv, WaitingEnds, Exclusive
<1> QED
  BY <1>1, TypeCorrect, LockInvariant, PTL

----------------------------------------------------------------------------
(* A broken connection is forgotten.                                       *)
(*                                                                         *)
(* The fairness of Hub with the guards of its actions written out, and one *)
(* assumption in place of that of the lock: a handler does not wait for    *)
(* ever.                                                                   *)

Handling(c) ==
  \/ handler[c] \in {"joining", "leaving"} /\ (locker = None \/ Exclusive(c))
  \/ handler[c] = "reading" /\ (~open[c] \/ cancelled[c])
  \/ handler[c] = "closing"

Pinging(c) == pinger[c] /\ (~open[c] \/ cancelled[c])
Idling(c) == writer[c] /\ ~writing[c] /\ cancelled[c]
Stuck(c) == writing[c] /\ ~open[c]

HandlerRuns(c) == []Handling(c) => <><<ServeWS(c)>>_vars
PingerRuns(c) == []Pinging(c) => <><<PingerEnds(c)>>_vars
WriterRuns(c) == []Idling(c) => <><<WriterEnds(c)>>_vars
WriteGivesUp(c) == []Stuck(c) => <><<~open[c] /\ WriteFails(c)>>_vars
LockComes(c) == <>(handler[c] # "joining") /\ <>(handler[c] # "leaving")

PeersRun ==
  \A c \in Clients :
    HandlerRuns(c) /\ PingerRuns(c) /\ WriterRuns(c) /\ WriteGivesUp(c) /\ LockComes(c)

Broken(c, s) == handler[c] = s /\ ~open[c]
PingerOver(c) == handler[c] = "gone" /\ ~pinger[c]
WriterOver(c) == handler[c] = "gone" /\ ~writer[c]
LastWrite(c) == handler[c] = "gone" /\ writing[c]
LastWait(c) == handler[c] = "gone" /\ writer[c] /\ ~writing[c]

LEMMA BrokenMoves ==
  ASSUME TypeOK, PeersInv, NEW c \in Clients, [Next]_vars,
         NEW s \in {"joining", "reading", "leaving", "closing"}, Broken(c, s)
  PROVE  Broken(c, s)' \/ Broken(c, NextStep[s])'
  BY AllPeersMove DEF PeersInv, PeerInv, PeerMoves, Broken

LEMMA HandlerMoves ==
  ASSUME TypeOK, NEW c \in Clients, ServeWS(c), NEW s \in {"reading", "closing"}, Broken(c, s)
  PROVE  Broken(c, NextStep[s])'
  BY Steps DEF TypeOK, Broken, ServeWS, Announce, Join, ReadFails, Leave, Close

\* One step of ServeWS after another, however the connection broke.
LEMMA HandlerGoes ==
  ASSUME NEW c \in Clients
  PROVE  []TypeOK /\ []PeersInv /\ [][Next]_vars /\ []HandlerRuns(c) /\ []LockComes(c)
           => /\ Broken(c, "joining") ~> Broken(c, "gone")
              /\ Broken(c, "reading") ~> Broken(c, "gone")
              /\ Broken(c, "leaving") ~> Broken(c, "gone")
              /\ Broken(c, "closing") ~> Broken(c, "gone")
<1>1. TypeOK /\ PeersInv /\ Broken(c, "joining") /\ [Next]_vars
        => Broken(c, "joining")' \/ Broken(c, "reading")'
  BY BrokenMoves, Steps
<1>2. TypeOK /\ PeersInv /\ Broken(c, "reading") /\ [Next]_vars
        => Broken(c, "reading")' \/ Broken(c, "leaving")'
  BY BrokenMoves, Steps
<1>3. TypeOK /\ PeersInv /\ Broken(c, "leaving") /\ [Next]_vars
        => Broken(c, "leaving")' \/ Broken(c, "closing")'
  BY BrokenMoves, Steps
<1>4. TypeOK /\ PeersInv /\ Broken(c, "closing") /\ [Next]_vars
        => Broken(c, "closing")' \/ Broken(c, "gone")'
  BY BrokenMoves, Steps
<1>5. TypeOK /\ Broken(c, "reading") /\ <<ServeWS(c)>>_vars => Broken(c, "leaving")'
  BY HandlerMoves, Steps
<1>6. TypeOK /\ Broken(c, "closing") /\ <<ServeWS(c)>>_vars => Broken(c, "gone")'
  BY HandlerMoves, Steps
<1>7. Broken(c, "reading") \/ Broken(c, "closing") => Handling(c)
  BY DEF Broken, Handling
<1>8. /\ Broken(c, "joining") => ~(handler[c] # "joining")
      /\ Broken(c, "leaving") => ~(handler[c] # "leaving")
  BY DEF Broken
<1>9. HandlerRuns(c) => ([]Handling(c) => <><<ServeWS(c)>>_vars)
  BY PTL DEF HandlerRuns
<1>10. LockComes(c) => <>(handler[c] # "joining") /\ <>(handler[c] # "leaving")
  BY PTL DEF LockComes
<1> QED
  BY <1>1, <1>2, <1>3, <1>4, <1>5, <1>6, <1>7, <1>8, <1>9, <1>10, PTL

LEMMA GoneStays ==
  ASSUME TypeOK, PeersInv, NEW c \in Clients, [Next]_vars, Broken(c, "gone")
  PROVE  /\ Broken(c, "gone")'
         /\ pinger'[c] => pinger[c]
         /\ writer'[c] => writer[c]
  BY AllPeersMove DEF PeersInv, PeerInv, PeerMoves, Broken

\* Each goroutine sees that the context is done, or its write fails.
LEMMA GoroutinesGo ==
  ASSUME NEW c \in Clients
  PROVE  (/\ []TypeOK /\ []PeersInv /\ [][Next]_vars
          /\ []PingerRuns(c) /\ []WriterRuns(c) /\ []WriteGivesUp(c))
           => Broken(c, "gone") ~> PingerOver(c) /\ WriterOver(c)
<1>1. TypeOK /\ PeersInv /\ Broken(c, "gone") /\ [Next]_vars => Broken(c, "gone")'
  BY GoneStays
<1>2. TypeOK /\ PeersInv /\ PingerOver(c) /\ [Next]_vars => PingerOver(c)'
  BY GoneStays DEF PingerOver, Broken, PeersInv, PeerInv
<1>3. TypeOK /\ PeersInv /\ WriterOver(c) /\ [Next]_vars => WriterOver(c)'
  BY GoneStays DEF WriterOver, Broken, PeersInv, PeerInv
<1>4. PeersInv /\ Broken(c, "gone") => PingerOver(c) \/ Pinging(c)
  BY DEF Broken, PingerOver, Pinging
<1>5. TypeOK /\ PeersInv /\ Broken(c, "gone") /\ <<PingerEnds(c)>>_vars => PingerOver(c)'
  BY DEF TypeOK, PingerEnds, PingerOver, Broken
<1>6. PeersInv /\ Broken(c, "gone") => WriterOver(c) \/ LastWrite(c) \/ LastWait(c)
  BY DEF Broken, WriterOver, LastWrite, LastWait
<1>7. PeersInv /\ LastWait(c) => Broken(c, "gone") /\ Idling(c)
  BY DEF PeersInv, PeerInv, LastWait, Idling, Broken
<1>8. PeersInv /\ LastWrite(c) => Broken(c, "gone") /\ Stuck(c)
  BY DEF PeersInv, PeerInv, LastWrite, Stuck, Broken
<1>9. TypeOK /\ PeersInv /\ LastWait(c) /\ [Next]_vars
        => LastWait(c)' \/ LastWrite(c)' \/ WriterOver(c)'
  BY <1>7, GoneStays DEF LastWait, LastWrite, WriterOver, Broken
<1>10. TypeOK /\ LastWait(c) /\ <<WriterEnds(c)>>_vars => WriterOver(c)'
  BY DEF TypeOK, LastWait, WriterEnds, WriterOver
<1>11. TypeOK /\ PeersInv /\ LastWrite(c) /\ [Next]_vars => LastWrite(c)' \/ WriterOver(c)'
  <2> SUFFICES ASSUME TypeOK, PeersInv, LastWrite(c), [Next]_vars
               PROVE  LastWrite(c)' \/ WriterOver(c)'
    OBVIOUS
  <2>1. handler'[c] = "gone" /\ ~open[c]
    BY <1>8, GoneStays DEF Broken
  <2>2. writing'[c] = writing[c] \/ WriteFails(c)
    BY <2>1 DEF LastWrite, TypeOK, Next, Caller, ServeWS, Writer, Broadcast, Push, Return, Accept,
                Announce, Join, ReadFails, Leave, Close, PingerEnds, Take, Write, WriteFails,
                WriterEnds, Break, peerVars, vars
  <2>3. WriteFails(c) => ~writer'[c]
    BY DEF TypeOK, WriteFails
  <2> QED BY <2>1, <2>2, <2>3 DEF LastWrite, WriterOver
<1>12. TypeOK /\ LastWrite(c) /\ <<~open[c] /\ WriteFails(c)>>_vars => WriterOver(c)'
  BY DEF TypeOK, LastWrite, WriteFails, WriterOver
<1>13. PingerRuns(c) => ([]Pinging(c) => <><<PingerEnds(c)>>_vars)
  BY PTL DEF PingerRuns
<1>14. WriterRuns(c) => ([]Idling(c) => <><<WriterEnds(c)>>_vars)
  BY PTL DEF WriterRuns
<1>15. WriteGivesUp(c) => ([]Stuck(c) => <><<~open[c] /\ WriteFails(c)>>_vars)
  BY PTL DEF WriteGivesUp
<1>16. []TypeOK /\ []PeersInv /\ [][Next]_vars /\ []PingerRuns(c)
         => (Broken(c, "gone") ~> PingerOver(c))
  BY <1>1, <1>4, <1>5, <1>13, PTL
<1>17. []TypeOK /\ []PeersInv /\ [][Next]_vars /\ []WriteGivesUp(c)
         => (LastWrite(c) ~> WriterOver(c))
  BY <1>8, <1>11, <1>12, <1>15, PTL
<1>18. []TypeOK /\ []PeersInv /\ [][Next]_vars /\ []WriterRuns(c)
         => (LastWait(c) ~> LastWrite(c) \/ WriterOver(c))
  BY <1>7, <1>9, <1>10, <1>14, PTL
<1>19. []TypeOK /\ []PeersInv /\ [][Next]_vars /\ []WriterRuns(c) /\ []WriteGivesUp(c)
         => (Broken(c, "gone") ~> WriterOver(c))
  BY <1>6, <1>17, <1>18, PTL
<1>20. []TypeOK /\ []PeersInv /\ [][Next]_vars
         => [](PingerOver(c) => []PingerOver(c)) /\ [](WriterOver(c) => []WriterOver(c))
  BY <1>2, <1>3, PTL
<1> QED
  BY <1>16, <1>19, <1>20, PTL

\* After a connection breaks its client is forgotten and its goroutines end, as
\* long as no handler waits for the lock for ever (hub.go:66-112).
THEOREM BrokenForgotten == Spec /\ []PeersRun => BrokenIsForgotten
<1> SUFFICES ASSUME []TypeOK, []PeersInv, [][Next]_vars, []PeersRun
             PROVE  BrokenIsForgotten
  BY TypeCorrect, ClientsAreServed, PTL DEF Spec
<1>1. ASSUME NEW c \in Clients
      PROVE  (handler[c] # "away" /\ ~open[c])
               ~> (c \notin clients /\ handler[c] = "gone" /\ ~pinger[c] /\ ~writer[c])
  <2>1. PeersRun => HandlerRuns(c) /\ PingerRuns(c) /\ WriterRuns(c) /\ WriteGivesUp(c)
                      /\ LockComes(c)
    BY DEF PeersRun
  <2>2. /\ []HandlerRuns(c) /\ []LockComes(c)
        /\ []PingerRuns(c) /\ []WriterRuns(c) /\ []WriteGivesUp(c)
    BY <2>1, PTL
  <2>3. /\ Broken(c, "joining") ~> Broken(c, "gone")
        /\ Broken(c, "reading") ~> Broken(c, "gone")
        /\ Broken(c, "leaving") ~> Broken(c, "gone")
        /\ Broken(c, "closing") ~> Broken(c, "gone")
    BY <2>2, HandlerGoes
  <2>4. Broken(c, "gone") ~> PingerOver(c) /\ WriterOver(c)
    BY <2>2, GoroutinesGo
  <2>5. TypeOK => ((handler[c] # "away" /\ ~open[c]) =>
          \/ Broken(c, "joining") \/ Broken(c, "reading") \/ Broken(c, "leaving")
          \/ Broken(c, "closing") \/ Broken(c, "gone"))
    BY DEF TypeOK, Broken, HandlerSteps
  <2>6. PeersInv /\ PingerOver(c) /\ WriterOver(c) =>
          c \notin clients /\ handler[c] = "gone" /\ ~pinger[c] /\ ~writer[c]
    BY DEF PeersInv, PeerInv, Registered, PingerOver, WriterOver
  <2> QED BY <2>3, <2>4, <2>5, <2>6, PTL
<1> QED BY <1>1 DEF BrokenIsForgotten

----------------------------------------------------------------------------
(* Why broadcasts return.                                                  *)
(*                                                                         *)
(* That they do is an induction over the clients left, which TLC checks;   *)
(* that each turn of a loop leaves fewer of them, and that no loop begins  *)
(* while a handler waits for the lock, is proved.                          *)

LoopsShrink ==
  /\ \A e \in Looping :
       \/ call'[e] = "returned" /\ todo[e] = {}
       \/ /\ call'[e] = "looping" /\ todo'[e] \subseteq todo[e]
          /\ Caller(e) => todo'[e] # todo[e]
  /\ locker # None => Looping' \subseteq Looping \/ (Looping = {} /\ locker' = None)

LEMMA LoopStep ==
  ASSUME TypeOK, [Next]_vars
  PROVE  LoopsShrink
<1> USE DEF lockVars, callVars, peerVars
<1>1. ASSUME NEW e \in Events, Broadcast(e) PROVE LoopsShrink
  <2>1. \A d \in Looping : d # e /\ call'[d] = "looping" /\ todo'[d] = todo[d] /\ ~Caller(d)
    BY <1>1 DEF TypeOK, Broadcast, Looping, Caller, Return, Push
  <2>2. locker # None => Looping' \subseteq Looping
    BY <1>1 DEF TypeOK, Broadcast, Looping
  <2> QED BY <2>1, <2>2 DEF LoopsShrink
<1>2. ASSUME NEW e \in Events, Return(e) PROVE LoopsShrink
  <2>1. /\ call'[e] = "returned" /\ todo[e] = {} /\ UNCHANGED todo
        /\ \A d \in Events \ {e} : call'[d] = call[d]
    BY <1>2 DEF TypeOK, Return
  <2>2. \A d \in Looping \ {e} : ~Caller(d)
    BY <2>1, <1>2 DEF TypeOK, Looping, Caller, Return, Push
  <2> QED BY <2>1, <2>2 DEF LoopsShrink, Looping
<1>3. ASSUME NEW e \in Events, NEW c \in Clients, Push(e, c) PROVE LoopsShrink
  <2>1. /\ c \in todo[e] /\ todo'[e] = todo[e] \ {c} /\ UNCHANGED call
        /\ \A d \in Events \ {e} : todo'[d] = todo[d]
    BY <1>3 DEF TypeOK, Push
  <2>2. \A d \in Looping \ {e} : ~Caller(d)
    BY <2>1, <1>3 DEF TypeOK, Looping, Caller, Return, Push
  <2> QED BY <2>1, <2>2 DEF LoopsShrink, Looping
<1>4. ASSUME NEW c \in Clients, Join(c) \/ Leave(c) PROVE LoopsShrink
  BY <1>4 DEF Join, Leave, Exclusive, Unlock, LoopsShrink
<1>5. ASSUME UNCHANGED callVars PROVE LoopsShrink
  <2>1. \A d \in Looping : ~Caller(d)
    BY <1>5 DEF TypeOK, Looping, Caller, Return, Push
  <2> QED BY <1>5, <2>1 DEF LoopsShrink, Looping
<1>6. ASSUME NEW c \in Clients,
             \/ Accept(c) \/ Announce(c) \/ ReadFails(c) \/ Close(c)
             \/ PingerEnds(c) \/ Writer(c) \/ Break(c)
      PROVE  UNCHANGED callVars
  BY <1>6 DEF Accept, Announce, ReadFails, Close, PingerEnds, Writer, Take, Write, WriteFails,
              WriterEnds, Break
<1>7. UNCHANGED vars => UNCHANGED callVars
  BY DEF vars
<1> QED
  BY <1>1, <1>2, <1>3, <1>4, <1>5, <1>6, <1>7 DEF Next, Caller, ServeWS

\* Every turn of a loop leaves fewer clients to send to, no step gives it more,
\* and once a handler waits for the lock no loop begins before it has had it
\* (hub.go:38-47).
THEOREM LoopsEndSoon == Spec => [][LoopsShrink]_vars
<1>1. TypeOK /\ [Next]_vars => [LoopsShrink]_vars
  BY LoopStep
<1> QED
  BY <1>1, TypeCorrect, PTL DEF Spec

Waits(e) == call[e] = "waiting"
Loops(e) == call[e] = "looping"
Through(e) == call[e] = "returned"
LastTurn(e) == todo[e] = {}
NoLoops == Looping = {}
Locked == locker # None

\* What is left to the induction: a loop gets to its last client, and when a
\* handler waits for the loops under way, all of them end.
TurnsEnd(e) == Loops(e) => <>(~Loops(e) \/ LastTurn(e))
LoopsEnd == Locked => <>(~Locked \/ NoLoops)

CallerRuns(e) == []Loops(e) => <><<Caller(e)>>_vars

CallersRun ==
  /\ LoopsEnd
  /\ \A e \in Events : CallerRuns(e) /\ TurnsEnd(e)
  /\ \A c \in Clients : HandlerRuns(c)

\* The call waits for handler c.
Held(e, c) ==
  call[e] = "waiting" /\ locker = c /\ handler[c] \in {"joining", "leaving"}

LEMMA HeldMoves ==
  ASSUME TypeOK, NEW e \in Events, NEW c \in Clients, Held(e, c), [Next]_vars
  PROVE  /\ Held(e, c)' \/ call'[e] = "looping"
         /\ Looping = {} => Looping' = {} \/ call'[e] = "looping"
         /\ ServeWS(c) => call'[e] = "looping"
<1> USE DEF lockVars, callVars, peerVars
<1>1. locker = c /\ c # None /\ call[e] = "waiting"
  BY HubAssumption DEF Held
<1>2. \A S : Unlock(S) => call'[e] = "looping"
  BY <1>1 DEF Unlock
<1>3. Looping = {} => Looping' = {} \/ call'[e] = "looping"
  <2>1. LoopsShrink
    BY LoopStep
  <2>2. CASE locker' # None
    BY <1>1, <2>1, <2>2 DEF LoopsShrink
  <2>3. CASE locker' = None
    <3>1. \E S : Unlock(S)
      BY <1>1, <2>3 DEF Next, Broadcast, Caller, Push, Return, Accept, ServeWS, Announce, Join,
                        ReadFails, Leave, Close, PingerEnds, Writer, Take, Write, WriteFails,
                        WriterEnds, Break, vars
    <3> QED BY <1>2, <3>1
  <2> QED BY <2>2, <2>3
<1>4. ServeWS(c) => call'[e] = "looping"
  BY <1>1, <1>2 DEF Held, ServeWS, Announce, Join, ReadFails, Leave, Close
<1>5. Held(e, c)' \/ call'[e] = "looping"
  <2>1. ASSUME NEW d \in Events, Broadcast(d) \/ Caller(d) PROVE Held(e, c)'
    BY <1>1, <2>1 DEF TypeOK, Held, Broadcast, Caller, Push, Return
  <2>2. ASSUME NEW d \in Clients, d # c, ServeWS(d) PROVE Held(e, c)'
    BY <1>1, <2>2 DEF TypeOK, Held, ServeWS, Announce, Join, ReadFails, Leave, Close, Exclusive
  <2>3. ASSUME NEW d \in Clients, Accept(d) PROVE Held(e, c)'
    BY <1>1, <2>3 DEF TypeOK, Held, Accept
  <2>4. ASSUME NEW d \in Clients, PingerEnds(d) \/ Writer(d) \/ Break(d) PROVE Held(e, c)'
    BY <2>4 DEF Held, PingerEnds, Writer, Take, Write, WriteFails, WriterEnds, Break
  <2>5. CASE UNCHANGED vars
    BY <2>5 DEF vars, Held
  <2> QED BY <1>4, <2>1, <2>2, <2>3, <2>4, <2>5 DEF Next
<1> QED
  BY <1>3, <1>4, <1>5

\* Every broadcast returns, whatever the clients do, once every loop comes to
\* the last of its clients (hub.go:36-48).
THEOREM Returned == Spec /\ []CallersRun => BroadcastReturns
<1> SUFFICES ASSUME []TypeOK, []LockInv, [][Next]_vars, []CallersRun
             PROVE  BroadcastReturns
  BY TypeCorrect, LockInvariant, PTL DEF Spec
<1>1. ASSUME NEW e \in Events
      PROVE  (call[e] # "none") ~> (call[e] = "returned")
  <2>1. CallersRun => LoopsEnd /\ CallerRuns(e) /\ TurnsEnd(e)
    BY DEF CallersRun
  <2>2. []LoopsEnd /\ []CallerRuns(e) /\ []TurnsEnd(e)
    BY <2>1, PTL
  <2>3. LoopsEnd => (Locked => <>(~Locked \/ NoLoops))
    BY PTL DEF LoopsEnd
  <2>4. TurnsEnd(e) => (Loops(e) => <>(~Loops(e) \/ LastTurn(e)))
    BY PTL DEF TurnsEnd
  <2>5. CallerRuns(e) => ([]Loops(e) => <><<Caller(e)>>_vars)
    BY PTL DEF CallerRuns
  <2>6. ASSUME NEW c \in Clients
        PROVE  Held(e, c) => <>Loops(e)
    <3>1. TypeOK /\ Held(e, c) /\ [Next]_vars => Held(e, c)' \/ Loops(e)'
      BY HeldMoves DEF Loops
    <3>2. TypeOK /\ Held(e, c) /\ NoLoops /\ [Next]_vars => NoLoops' \/ Loops(e)'
      BY HeldMoves DEF Loops, NoLoops
    <3>3. TypeOK /\ Held(e, c) /\ [Next]_vars /\ <<ServeWS(c)>>_vars => Loops(e)'
      BY HeldMoves DEF Loops
    <3>4. Held(e, c) => Locked
      BY HubAssumption DEF Held, Locked
    <3>5. Held(e, c) /\ NoLoops => Handling(c)
      BY DEF Held, NoLoops, Handling, Exclusive
    <3>6. CallersRun => HandlerRuns(c)
      BY DEF CallersRun
    <3>7. []HandlerRuns(c)
      BY <3>6, PTL
    <3>8. HandlerRuns(c) => ([]Handling(c) => <><<ServeWS(c)>>_vars)
      BY PTL DEF HandlerRuns
    <3> QED BY <2>2, <2>3, <3>1, <3>2, <3>3, <3>4, <3>5, <3>7, <3>8, PTL
  <2>7. (\E c \in Clients : Held(e, c)) => <>Loops(e)
    BY <2>6
  <2>8. TypeOK /\ LockInv /\ Waits(e) => \E c \in Clients : Held(e, c)
    BY DEF TypeOK, LockInv, Held, Waits
  <2>9. TypeOK /\ Loops(e) /\ [Next]_vars => Loops(e)' \/ Through(e)'
    BY LoopStep DEF LoopsShrink, Looping, Loops, Through
  <2>10. TypeOK /\ Loops(e) /\ LastTurn(e) /\ [Next]_vars => LastTurn(e)' \/ Through(e)'
    BY LoopStep DEF LoopsShrink, Looping, Loops, LastTurn, Through
  <2>11. TypeOK /\ Loops(e) /\ LastTurn(e) /\ <<Caller(e)>>_vars => Through(e)'
    BY DEF TypeOK, Caller, Push, Return, Loops, LastTurn, Through
  <2>12. Loops(e) ~> Through(e)
    BY <2>2, <2>4, <2>5, <2>9, <2>10, <2>11, PTL
  <2>13. TypeOK /\ call[e] # "none" => Waits(e) \/ Loops(e) \/ Through(e)
    BY DEF TypeOK, CallSteps, Waits, Loops, Through
  <2>14. Through(e) => call[e] = "returned"
    BY DEF Through
  <2> QED BY <2>7, <2>8, <2>12, <2>13, <2>14, PTL
<1> QED BY <1>1 DEF BroadcastReturns

=============================================================================
