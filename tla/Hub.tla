-------------------------------- MODULE Hub --------------------------------
(***************************************************************************)
(* internal/hub: events broadcast to the WebSocket clients.  A client is   *)
(* one connection: ServeWS runs in the goroutine of its request and starts *)
(* two more, one that pings and one that writes.  Broadcast may be called  *)
(* by any goroutine; a call is known by the event it sends.                *)
(*                                                                         *)
(* The set of clients is guarded by a sync.RWMutex: calls to Broadcast     *)
(* hold it together, a handler holds it alone, and once a handler waits    *)
(* for it no further call gets in.  What a handler does under the lock is  *)
(* one assignment, so locking, assigning and unlocking are one step.       *)
(*                                                                         *)
(* A buffered channel is kept with its past: stream is all that was put    *)
(* into it, taken how much the writer has taken out.  What is written to   *)
(* the connection is thus a prefix of stream.  audience and prior are      *)
(* history too.                                                            *)
(***************************************************************************)
EXTENDS Integers, Sequences, FiniteSets

CONSTANTS
  None,
  Clients,
  Events,   \* calls of Broadcast in a run, each with an event of its own
  Buffer    \* capacity of client.send, 32 in the code

ASSUME HubAssumption ==
  Buffer \in Nat \ {0} /\ None \notin Clients /\ IsFiniteSet(Events)

VARIABLES
  clients,    \* h.clients
  locker,     \* the handler that has h.mu or waits for its readers, or None
  call,       \* per event: how far its Broadcast is
  todo,       \* per event: the clients the loop has not come to
  handler,    \* per client: how far ServeWS is
  cancelled,  \* per client: ctx is done
  open,       \* per client: the connection works
  pinger,     \* per client: the goroutine that pings is running
  writer,     \* per client: the goroutine that writes is running
  writing,    \* per client: it is writing the last event taken
  stream,     \* per client: the events put into client.send so far
  taken,      \* per client: how many of them the writer has taken
  audience,   \* per event: h.clients when its loop began
  prior       \* per event: the events whose Broadcast had returned by then

lockVars == <<clients, locker>>
callVars == <<call, todo, audience, prior>>
peerVars == <<cancelled, open, pinger, writer, writing, taken>>
vars == <<lockVars, callVars, handler, peerVars, stream>>

CallSteps == {"none", "waiting", "looping", "returned"}
HandlerSteps == {"away", "joining", "reading", "leaving", "closing", "gone"}

----------------------------------------------------------------------------
(* The lock.                                                               *)

Looping == {e \in Events : call[e] = "looping"}

\* mu.Lock of handler c has returned: no call holds the lock for reading.
Exclusive(c) == locker = c /\ Looping = {}

\* mu.Lock: behind other handlers; from here on new calls wait.
Announce(c) ==
  /\ handler[c] \in {"joining", "leaving"}
  /\ locker = None
  /\ locker' = c
  /\ UNCHANGED <<clients, callVars, handler, peerVars, stream>>

\* mu.Unlock: the calls that waited meanwhile go ahead, over the new map.
Unlock(newClients) ==
  /\ clients' = newClients
  /\ locker' = None
  /\ call' = [e \in Events |-> IF call[e] = "waiting" THEN "looping" ELSE call[e]]
  /\ todo' = [e \in Events |-> IF call[e] = "waiting" THEN newClients ELSE todo[e]]
  /\ audience' =
       [e \in Events |-> IF call[e] = "waiting" THEN newClients ELSE audience[e]]
  /\ UNCHANGED prior

----------------------------------------------------------------------------
(* Broadcast.                                                              *)

Broadcast(e) ==
  /\ call[e] = "none"
  /\ prior' = [prior EXCEPT ![e] = {d \in Events : call[d] = "returned"}]
  /\ IF locker = None
     THEN /\ call' = [call EXCEPT ![e] = "looping"]
          /\ todo' = [todo EXCEPT ![e] = clients]
          /\ audience' = [audience EXCEPT ![e] = clients]
     ELSE /\ call' = [call EXCEPT ![e] = "waiting"]
          /\ UNCHANGED <<todo, audience>>
  /\ UNCHANGED <<lockVars, handler, peerVars, stream>>

\* Seeded bug: the last place of the buffer is never used.
HasRoomForTwo(c) == Len(stream[c]) + 1 < taken[c] + Buffer

HasRoom(c) == Len(stream[c]) < taken[c] + Buffer

\* Seeded bug: the send has no default, so the loop waits for a slow client.
PushBlocking(e, c) ==
  /\ c \in todo[e] /\ HasRoom(c)
  /\ stream' = [stream EXCEPT ![c] = Append(@, e)]
  /\ todo' = [todo EXCEPT ![e] = @ \ {c}]
  /\ UNCHANGED <<lockVars, call, audience, prior, handler, peerVars>>

\* Seeded bug: the client is not marked as served.
PushAgain(e, c) ==
  /\ c \in todo[e]
  /\ stream' = [stream EXCEPT ![c] = IF HasRoom(c) THEN Append(@, e) ELSE @]
  /\ UNCHANGED <<lockVars, callVars, handler, peerVars>>

\* One turn of the loop, in the order of the map: any.  A full buffer loses e.
Push(e, c) ==
  /\ c \in todo[e]
  /\ stream' = [stream EXCEPT ![c] = IF HasRoom(c) THEN Append(@, e) ELSE @]
  /\ todo' = [todo EXCEPT ![e] = @ \ {c}]
  /\ UNCHANGED <<lockVars, call, audience, prior, handler, peerVars>>

\* Seeded bug: the sends are left to goroutines of their own.
ReturnEarly(e) ==
  /\ call[e] = "looping"
  /\ call' = [call EXCEPT ![e] = "returned"]
  /\ UNCHANGED <<lockVars, todo, audience, prior, handler, peerVars, stream>>

Return(e) ==
  /\ call[e] = "looping" /\ todo[e] = {}
  /\ call' = [call EXCEPT ![e] = "returned"]
  /\ UNCHANGED <<lockVars, todo, audience, prior, handler, peerVars, stream>>

----------------------------------------------------------------------------
(* ServeWS.                                                                *)

\* websocket.Accept succeeded; a request it refuses stays "away".
Accept(c) ==
  /\ handler[c] = "away"
  /\ handler' = [handler EXCEPT ![c] = "joining"]
  /\ open' = [open EXCEPT ![c] = TRUE]
  /\ UNCHANGED <<lockVars, callVars, cancelled, pinger, writer, writing,
                 taken, stream>>

\* The client is registered; then its two goroutines are started.
Join(c) ==
  /\ handler[c] = "joining" /\ Exclusive(c)
  /\ Unlock(clients \cup {c})
  /\ handler' = [handler EXCEPT ![c] = "reading"]
  /\ pinger' = [pinger EXCEPT ![c] = TRUE]
  /\ writer' = [writer EXCEPT ![c] = TRUE]
  /\ UNCHANGED <<cancelled, open, writing, taken, stream>>

\* conn.Read returns an error; a cancelled ctx closes the connection.
ReadFails(c) ==
  /\ handler[c] = "reading"
  /\ ~open[c] \/ cancelled[c]
  /\ handler' = [handler EXCEPT ![c] = "leaving"]
  /\ open' = [open EXCEPT ![c] = FALSE]
  /\ UNCHANGED <<lockVars, callVars, cancelled, pinger, writer, writing,
                 taken, stream>>

\* Seeded bug: the handler ends without the delete.
LeaveForgotten(c) ==
  /\ handler[c] = "leaving" /\ Exclusive(c)
  /\ Unlock(clients)
  /\ handler' = [handler EXCEPT ![c] = "closing"]
  /\ UNCHANGED <<peerVars, stream>>

Leave(c) ==
  /\ handler[c] = "leaving" /\ Exclusive(c)
  /\ Unlock(clients \ {c})
  /\ handler' = [handler EXCEPT ![c] = "closing"]
  /\ UNCHANGED <<peerVars, stream>>

\* conn.Close, then the deferred cancel.
Close(c) ==
  /\ handler[c] = "closing"
  /\ handler' = [handler EXCEPT ![c] = "gone"]
  /\ open' = [open EXCEPT ![c] = FALSE]
  /\ cancelled' = [cancelled EXCEPT ![c] = TRUE]
  /\ UNCHANGED <<lockVars, callVars, pinger, writer, writing, taken, stream>>

----------------------------------------------------------------------------
(* The goroutines of a client.                                             *)

\* The ping fails, which cancels ctx, or ctx is done.
PingerEnds(c) ==
  /\ pinger[c]
  /\ ~open[c] \/ cancelled[c]
  /\ pinger' = [pinger EXCEPT ![c] = FALSE]
  /\ cancelled' = [cancelled EXCEPT ![c] = TRUE]
  /\ UNCHANGED <<lockVars, callVars, handler, open, writer, writing,
                 taken, stream>>

\* evt := <-c.send; the select may choose it although ctx is done.
Take(c) ==
  /\ writer[c] /\ ~writing[c] /\ taken[c] < Len(stream[c])
  /\ writing' = [writing EXCEPT ![c] = TRUE]
  /\ taken' = [taken EXCEPT ![c] = @ + 1]
  /\ UNCHANGED <<lockVars, callVars, handler, cancelled, open, pinger, writer,
                 stream>>

Write(c) ==
  /\ writing[c] /\ open[c] /\ ~cancelled[c]
  /\ writing' = [writing EXCEPT ![c] = FALSE]
  /\ UNCHANGED <<lockVars, callVars, handler, cancelled, open, pinger, writer,
                 taken, stream>>

\* The write fails, for the connection, for ctx or for the encoding.
WriteFails(c) ==
  /\ writing[c]
  /\ writing' = [writing EXCEPT ![c] = FALSE]
  /\ writer' = [writer EXCEPT ![c] = FALSE]
  /\ cancelled' = [cancelled EXCEPT ![c] = TRUE]
  /\ UNCHANGED <<lockVars, callVars, handler, open, pinger, taken, stream>>

WriterEnds(c) ==
  /\ writer[c] /\ ~writing[c] /\ cancelled[c]
  /\ writer' = [writer EXCEPT ![c] = FALSE]
  /\ UNCHANGED <<lockVars, callVars, handler, cancelled, open, pinger, writing,
                 taken, stream>>

----------------------------------------------------------------------------
\* The browser goes away, or the network does.
Break(c) ==
  /\ open[c]
  /\ open' = [open EXCEPT ![c] = FALSE]
  /\ UNCHANGED <<lockVars, callVars, handler, cancelled, pinger, writer,
                 writing, taken, stream>>

Init ==
  /\ clients = {} /\ locker = None
  /\ call = [e \in Events |-> "none"]
  /\ todo = [e \in Events |-> {}]
  /\ audience = [e \in Events |-> {}]
  /\ prior = [e \in Events |-> {}]
  /\ handler = [c \in Clients |-> "away"]
  /\ cancelled = [c \in Clients |-> FALSE]
  /\ open = [c \in Clients |-> FALSE]
  /\ pinger = [c \in Clients |-> FALSE]
  /\ writer = [c \in Clients |-> FALSE]
  /\ writing = [c \in Clients |-> FALSE]
  /\ stream = [c \in Clients |-> <<>>]
  /\ taken = [c \in Clients |-> 0]

\* What the goroutine of a call does by itself.
Caller(e) == Return(e) \/ \E c \in Clients : Push(e, c)

\* What the goroutine of a request does by itself.
ServeWS(c) ==
  Announce(c) \/ Join(c) \/ ReadFails(c) \/ Leave(c) \/ Close(c)

\* The goroutine that writes.
Writer(c) == Take(c) \/ Write(c) \/ WriteFails(c) \/ WriterEnds(c)

Next ==
  \/ \E e \in Events : Broadcast(e) \/ Caller(e)
  \/ \E c \in Clients :
       Accept(c) \/ ServeWS(c) \/ PingerEnds(c) \/ Writer(c) \/ Break(c)

Spec == Init /\ [][Next]_vars

\* A goroutine that can go on does; nothing is asked of the browsers, and
\* nothing of the writes that wait for them while the connection works.
GoroutinesRun ==
  /\ \A e \in Events : WF_vars(Caller(e))
  /\ \A c \in Clients :
       /\ WF_vars(ServeWS(c)) /\ WF_vars(PingerEnds(c))
       /\ WF_vars(WriterEnds(c)) /\ WF_vars(~open[c] /\ WriteFails(c))

FairSpec == Spec /\ GoroutinesRun

----------------------------------------------------------------------------
(* Properties.                                                             *)

\* Every variable has its type; no buffer holds more than its capacity.
TypeOK ==
  /\ clients \subseteq Clients
  /\ locker \in Clients \cup {None}
  /\ call \in [Events -> CallSteps]
  /\ todo \in [Events -> SUBSET Clients]
  /\ audience \in [Events -> SUBSET Clients]
  /\ prior \in [Events -> SUBSET Events]
  /\ handler \in [Clients -> HandlerSteps]
  /\ cancelled \in [Clients -> BOOLEAN]
  /\ open \in [Clients -> BOOLEAN]
  /\ pinger \in [Clients -> BOOLEAN]
  /\ writer \in [Clients -> BOOLEAN]
  /\ writing \in [Clients -> BOOLEAN]
  /\ stream \in [Clients -> Seq(Events)]
  /\ taken \in [Clients -> Nat]
  /\ \A c \in Clients :
       taken[c] <= Len(stream[c]) /\ Len(stream[c]) <= taken[c] + Buffer

Sent(e, c) == \E i \in DOMAIN stream[c] : stream[c][i] = e

\* No client is given an event twice, however broadcasts overlap (Broadcast
\* and the goroutine that writes, hub.go:36-48, 87-100).
AtMostOnce ==
  \A c \in Clients : \A i, j \in DOMAIN stream[c] :
    i # j => stream[c][i] # stream[c][j]

\* A broadcast that returned before another began comes first for every
\* client (the buffered channel and the lock, hub.go:38-47, 59).
InOrder ==
  \A c \in Clients : \A i, j \in DOMAIN stream[c] :
    i < j => stream[c][j] \notin prior[stream[c][i]]

\* A broadcast works on the very clients that are registered: none of them
\* leaves or is forgotten while the loop runs (hub.go:38-47, 109-111).
NobodyLeavesMeanwhile ==
  \A e \in Events : call[e] = "looping" => audience[e] = clients

Others(e) == {d \in Events \ {e} : call[d] # "none"}

\* A client misses an event only when the buffer was full of others: as long
\* as fewer than Buffer others were sent, everyone who was there gets it, also
\* when its writer is stuck or gone (the select with default, hub.go:41-45).
QuietHubLosesNothing ==
  \A e \in Events : \A c \in audience[e] :
    call[e] = "returned" /\ ~Sent(e, c) => Cardinality(Others(e)) >= Buffer

\* Every broadcast returns, whatever the clients do: a slow one, whose
\* connection takes nothing, delays nobody (hub.go:44, "cliente lento").
BroadcastReturns ==
  \A e \in Events : (call[e] # "none") ~> (call[e] = "returned")

\* After a connection breaks its client is forgotten and both goroutines of it
\* end, whatever they were waiting for (hub.go:66-112: each of the three
\* goroutines ends the other two through ctx).
BrokenIsForgotten ==
  \A c \in Clients :
    (handler[c] # "away" /\ ~open[c])
      ~> (c \notin clients /\ handler[c] = "gone" /\ ~pinger[c] /\ ~writer[c])

=============================================================================
