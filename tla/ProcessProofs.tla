--------------------------- MODULE ProcessProofs ---------------------------
(***************************************************************************)
(* What the two programs guarantee as processes: the terminal client       *)
(* (Tui), for any number of overlapping requests, and the server from its  *)
(* start to its stop (Lifecycle), for any number of calls, streams and     *)
(* requests and any grace.                                                 *)
(***************************************************************************)
EXTENDS Tui, Lifecycle, TLAPS

\* Arithmetic on the number of requests under way.
LEMMA Counting ==
  ASSUME NEW n \in 0 .. MaxPending
  PROVE  /\ n > 0 => n - 1 \in 0 .. MaxPending
         /\ n < MaxPending => n + 1 \in 0 .. MaxPending /\ n + 1 > 0
  BY TuiAssumption DEF TuiAssumption

\* What a request that is sent changes.
LEMMA SendEffect ==
  ASSUME TypeOK, NEW r \in Requests, Send(r)
  PROVE  /\ pending' \in [Requests -> 0 .. MaxPending]
         /\ pending'[r] > 0
         /\ \A q \in Requests : pending'[q] > 0 => q = r \/ pending[q] > 0
  <1>1. pending \in [Requests -> 0 .. MaxPending] /\ pending[r] \in 0 .. MaxPending
    BY DEF TypeOK
  <1>2. pending[r] + 1 \in 0 .. MaxPending /\ pending[r] + 1 > 0
    BY <1>1, Counting DEF Send
  <1> QED BY <1>1, <1>2 DEF Send

\* What a reply changes: nothing is under way that was not.
LEMMA ReplyEffect ==
  ASSUME TypeOK, NEW r \in Requests, Reply(r)
  PROVE  /\ pending' \in [Requests -> 0 .. MaxPending]
         /\ pending[r] > 0
         /\ \A q \in Requests : pending'[q] > 0 => pending[q] > 0
  <1>1. pending \in [Requests -> 0 .. MaxPending] /\ pending[r] \in 0 .. MaxPending
    BY DEF TypeOK
  <1>2. pending[r] - 1 \in 0 .. MaxPending
    BY <1>1, Counting DEF Reply
  <1> QED BY <1>1, <1>2 DEF Reply

\* A menu item above "Salir" names a table.
LEMMA MenuTables == \A i \in 0 .. Quit : i # Quit => MenuItem[i] \in Tables
  <1> SUFFICES ASSUME NEW i \in 0 .. Quit, i # Quit
               PROVE  MenuItem[i] \in Tables
    OBVIOUS
  <1>1. i \in 0 .. 3 BY DEF Quit
  <1>2. i = 0 \/ i = 1 \/ i = 2 \/ i = 3 BY <1>1
  <1> QED BY <1>1, <1>2 DEF MenuItem, Tables

IInv == TypeOK /\ LoadingMeansPending /\ ScreenIsEarned

LEMMA TablesAreRequests == Tables \subseteq Requests /\ "login" \in Requests
                           /\ Tables \subseteq Screens /\ "login" \in Screens
                           /\ "menu" \in Screens /\ "login" \notin Tables
                           /\ "menu" \notin Tables
  BY DEF Tables, Requests, Screens

\* Initially nothing is under way and nothing has been built.
LEMMA InitInvariant == Init => IInv
  <1> SUFFICES ASSUME Init PROVE IInv
    OBVIOUS
  <1>1. 0 \in 0 .. MaxPending /\ 0 \in 0 .. Quit /\ 0 \in 0 .. 1
    BY TuiAssumption DEF TuiAssumption, Quit
  <1>2. TypeOK
    BY <1>1, TablesAreRequests DEF Init, TypeOK, Contents
  <1>3. LoadingMeansPending
    BY DEF Init, LoadingMeansPending, View
  <1>4. \A r \in Requests : ~(pending[r] > 0)
    BY DEF Init
  <1>5. ScreenIsEarned
    BY <1>4, TablesAreRequests DEF Init, ScreenIsEarned
  <1> QED BY <1>2, <1>3, <1>5 DEF IInv

\* Every reply keeps the invariant.
LEMMA AnswerInvariant ==
  ASSUME IInv, NEW r \in Requests, Answer(r)
  PROVE  IInv'
  <1>1. TypeOK /\ ScreenIsEarned
    BY DEF IInv
  <1>2. CASE ErrMsg(r)
    <2>1. /\ pending' \in [Requests -> 0 .. MaxPending]
          /\ \A q \in Requests : pending'[q] > 0 => pending[q] > 0
      BY <1>1, <1>2, ReplyEffect DEF ErrMsg
    <2>2. TypeOK'
      BY <1>1, <1>2, <2>1 DEF TypeOK, ErrMsg, Reply
    <2>3. LoadingMeansPending'
      BY <1>2, <2>2 DEF ErrMsg, Reply, LoadingMeansPending, View, TypeOK, Screens, Tables
    <2>4. ScreenIsEarned'
      BY <1>1, <1>2, <2>1, TablesAreRequests DEF ScreenIsEarned, ErrMsg
    <2> QED BY <2>2, <2>3, <2>4 DEF IInv
  <1>3. CASE r = "login" /\ LoginDone
    <2>1. pending' \in [Requests -> 0 .. MaxPending]
      BY <1>1, <1>3, ReplyEffect DEF LoginDone
    <2>2. cursor' \in 0 .. Quit
      BY <1>3 DEF LoginDone, Quit
    <2>3. TypeOK'
      BY <1>1, <1>3, <2>1, <2>2, TablesAreRequests DEF TypeOK, LoginDone, Reply
    <2>4. LoadingMeansPending'
      BY <1>3 DEF LoginDone, Reply, LoadingMeansPending, View
    <2>5. ScreenIsEarned'
      BY <1>3, TablesAreRequests DEF ScreenIsEarned, LoginDone
    <2> QED BY <2>3, <2>4, <2>5 DEF IInv
  <1>4. CASE r \in Tables /\ TableDone(r)
    <2>1. /\ pending' \in [Requests -> 0 .. MaxPending]
          /\ pending[r] > 0
          /\ \A q \in Requests : pending'[q] > 0 => pending[q] > 0
      BY <1>1, <1>4, ReplyEffect DEF TableDone
    <2>2. PICK shown \in Fetched(r) : table' = [table EXCEPT ![r] = shown]
      BY <1>4 DEF TableDone
    <2>3. shown \in Contents /\ shown # "unbuilt"
      BY <2>2 DEF Fetched, Contents
    <2>4. table' \in [Tables -> Contents] /\ table'[r] = shown
      BY <1>1, <1>4, <2>2, <2>3 DEF TypeOK
    <2>5. TypeOK'
      BY <1>1, <1>4, <2>1, <2>4, TablesAreRequests DEF TypeOK, TableDone, Reply
    <2>6. LoadingMeansPending'
      BY <1>4, <2>5 DEF TableDone, Reply, LoadingMeansPending, View, TypeOK, Screens, Tables
    <2>7. loggedIn
      BY <1>1, <1>4, <2>1 DEF ScreenIsEarned
    <2>8. ScreenIsEarned'
      BY <1>4, <2>3, <2>4, <2>7, TablesAreRequests DEF ScreenIsEarned, TableDone
    <2> QED BY <2>5, <2>6, <2>8 DEF IInv
  <1> QED BY <1>2, <1>3, <1>4 DEF Answer

\* Every key keeps it.
LEMMA KeyInvariant ==
  ASSUME IInv, Key
  PROVE  IInv'
  <1>1. TypeOK /\ LoadingMeansPending /\ ScreenIsEarned
    BY DEF IInv
  <1>2. CASE QuitKey
    <2>1. TypeOK' BY <1>1, <1>2 DEF TypeOK, QuitKey
    <2>2. LoadingMeansPending' BY <1>2 DEF QuitKey, LoadingMeansPending, View
    <2>3. ScreenIsEarned' BY <1>1, <1>2 DEF QuitKey, ScreenIsEarned
    <2> QED BY <2>1, <2>2, <2>3 DEF IInv
  <1>3. CASE NextField
    <2>1. focused' \in 0 .. 1 BY <1>1, <1>3 DEF TypeOK, NextField
    <2>2. TypeOK' BY <1>1, <1>3, <2>1 DEF TypeOK, NextField
    <2>3. LoadingMeansPending' BY <1>1, <1>3 DEF NextField, LoadingMeansPending, View
    <2>4. ScreenIsEarned' BY <1>1, <1>3 DEF NextField, ScreenIsEarned
    <2> QED BY <2>2, <2>3, <2>4 DEF IInv
  <1>4. CASE LoginEnter
    <2>1. CASE focused = 0 /\ focused' = 1 /\ UNCHANGED <<loading, err, pending>>
      <3>1. TypeOK' BY <1>1, <1>4, <2>1 DEF TypeOK, LoginEnter
      <3>2. LoadingMeansPending' BY <1>1, <1>4, <2>1 DEF LoginEnter, LoadingMeansPending, View
      <3>3. ScreenIsEarned' BY <1>1, <1>4, <2>1 DEF LoginEnter, ScreenIsEarned
      <3> QED BY <3>1, <3>2, <3>3 DEF IInv
    <2>2. CASE focused = 1 /\ Send("login") /\ err' = FALSE /\ UNCHANGED focused
      <3>1. /\ pending' \in [Requests -> 0 .. MaxPending]
            /\ pending'["login"] > 0
            /\ \A q \in Requests : pending'[q] > 0 => q = "login" \/ pending[q] > 0
        BY <1>1, <2>2, SendEffect, TablesAreRequests
      <3>2. TypeOK' BY <1>1, <1>4, <2>2, <3>1 DEF TypeOK, LoginEnter, Send
      <3>3. LoadingMeansPending'
        BY <3>1, TablesAreRequests DEF LoadingMeansPending, View
      <3>4. ScreenIsEarned'
        BY <1>1, <1>4, <3>1, TablesAreRequests DEF LoginEnter, ScreenIsEarned
      <3> QED BY <3>2, <3>3, <3>4 DEF IInv
    <2> QED BY <1>4, <2>1, <2>2 DEF LoginEnter
  <1>5. CASE MenuMove
    <2>1. cursor' \in 0 .. Quit BY <1>1, <1>5 DEF TypeOK, MenuMove, Quit
    <2>2. TypeOK' BY <1>1, <1>5, <2>1 DEF TypeOK, MenuMove
    <2>3. LoadingMeansPending' BY <1>1, <1>5 DEF MenuMove, LoadingMeansPending, View
    <2>4. ScreenIsEarned' BY <1>1, <1>5 DEF MenuMove, ScreenIsEarned
    <2> QED BY <2>2, <2>3, <2>4 DEF IInv
  <1>6. CASE MenuEnter
    <2>1. CASE cursor # Quit /\ Send(MenuItem[cursor]) /\ UNCHANGED running
      <3>1. MenuItem[cursor] \in Tables
        BY <1>1, <2>1, MenuTables DEF TypeOK
      <3>2. /\ pending' \in [Requests -> 0 .. MaxPending]
            /\ pending'[MenuItem[cursor]] > 0
            /\ \A q \in Requests :
                 pending'[q] > 0 => q = MenuItem[cursor] \/ pending[q] > 0
        BY <1>1, <2>1, <3>1, SendEffect, TablesAreRequests
      <3>3. TypeOK' BY <1>1, <1>6, <2>1, <3>2 DEF TypeOK, MenuEnter, Send
      <3>4. LoadingMeansPending'
        BY <3>1, <3>2, TablesAreRequests DEF LoadingMeansPending, View
      <3>5. loggedIn
        BY <1>1, <1>6 DEF MenuEnter, ScreenIsEarned
      <3>6. ScreenIsEarned'
        BY <1>1, <1>6, <3>5 DEF MenuEnter, ScreenIsEarned
      <3> QED BY <3>3, <3>4, <3>6 DEF IInv
    <2>2. CASE cursor = Quit /\ running' = FALSE /\ UNCHANGED <<loading, pending>>
      <3>1. TypeOK' BY <1>1, <1>6, <2>2 DEF TypeOK, MenuEnter
      <3>2. LoadingMeansPending' BY <2>2 DEF LoadingMeansPending, View
      <3>3. ScreenIsEarned' BY <1>1, <1>6, <2>2 DEF MenuEnter, ScreenIsEarned
      <3> QED BY <3>1, <3>2, <3>3 DEF IInv
    <2> QED BY <1>6, <2>1, <2>2 DEF MenuEnter
  <1>7. CASE Back
    <2>1. 0 \in 0 .. Quit BY DEF Quit
    <2>2. TypeOK' BY <1>1, <1>7, <2>1, TablesAreRequests DEF TypeOK, Back
    <2>3. LoadingMeansPending' BY <1>1, <1>7 DEF Back, LoadingMeansPending, View
    <2>4. ScreenIsEarned'
      BY <1>1, <1>7, TablesAreRequests DEF Back, ScreenIsEarned
    <2> QED BY <2>2, <2>3, <2>4 DEF IInv
  <1> QED BY <1>2, <1>3, <1>4, <1>5, <1>6, <1>7 DEF Key

\* The three safety properties, together, are kept by every step: keys while
\* something is loading and replies in any order.
THEOREM ClientInvariant == Spec => []IInv
  <1>1. Init => IInv
    BY InitInvariant
  <1>2. IInv /\ [Next]_vars => IInv'
    <2> SUFFICES ASSUME IInv, [Next]_vars PROVE IInv'
      OBVIOUS
    <2>1. CASE UNCHANGED vars
      BY <2>1 DEF IInv, TypeOK, LoadingMeansPending, View, ScreenIsEarned, vars
    <2>2. CASE Next
      BY <2>2, KeyInvariant, AnswerInvariant DEF Next
    <2> QED BY <2>1, <2>2
  <1> QED BY <1>1, <1>2, PTL DEF Spec

\* "cargando..." is only ever shown while a request is under way.
THEOREM Loading == Spec => []LoadingMeansPending
  BY ClientInvariant, PTL DEF IInv

\* Neither a late reply nor a key leads to a screen that has not been earned.
THEOREM Earned == Spec => []ScreenIsEarned
  BY ClientInvariant, PTL DEF IInv

\* Every reachable state of the client is well typed: the cursor never leaves
\* the menu and every screen is one the client draws (cmd/cli/main.go).
THEOREM TypeCorrect == Spec => []TypeOK
  BY ClientInvariant, PTL DEF IInv

----------------------------------------------------------------------------
(* Loading ends.                                                           *)

\* The fairness of LiveSpec, WF_vars(Answer(r)) for every kind of request, with
\* the guard of Answer written out: while the client runs, a request that is
\* under way is answered, or fails.
UnderWay(r) == running /\ pending[r] > 0
AnswerComes(r) == []UnderWay(r) => <><<Answer(r)>>_vars
AnswersCome == \A r \in Requests : AnswerComes(r)

\* "cargando..." is on the screen, and a request of kind r will take it away.
Awaits(r) == loading /\ UnderWay(r)
Shown == View = screen \/ ~running

LEMMA AnswerShows ==
  ASSUME NEW r \in Requests, Answer(r) PROVE Shown'
  <1>1. loading' = FALSE
    BY DEF Answer, ErrMsg, LoginDone, TableDone, Reply
  <1> QED BY <1>1 DEF Shown, View

LEMMA StillAwaits ==
  ASSUME TypeOK, NEW r \in Requests, Awaits(r), [Next]_vars
  PROVE  Awaits(r)' \/ Shown'
  <1>1. CASE \E q \in Requests : Answer(q)
    BY <1>1, AnswerShows
  <1>2. CASE QuitKey
    BY <1>2 DEF QuitKey, Shown
  <1>3. CASE NextField \/ MenuMove \/ Back \/ UNCHANGED vars
    BY <1>3 DEF NextField, MenuMove, Back, vars, Awaits, UnderWay
  <1>4. ASSUME NEW q \in Requests, Send(q), UNCHANGED running PROVE Awaits(r)'
    <2>1. pending'[r] > 0
      BY <1>4, SendEffect DEF TypeOK, Send, Awaits, UnderWay
    <2> QED BY <1>4, <2>1 DEF Send, Awaits, UnderWay
  <1>5. CASE LoginEnter
    <2>1. CASE UNCHANGED <<loading, err, pending>>
      BY <1>5, <2>1 DEF LoginEnter, Awaits, UnderWay
    <2>2. CASE Send("login")
      BY <1>4, <1>5, <2>2, TablesAreRequests DEF LoginEnter
    <2> QED BY <1>5, <2>1, <2>2 DEF LoginEnter
  <1>6. CASE MenuEnter
    <2>1. CASE running' = FALSE
      BY <2>1 DEF Shown
    <2>2. CASE cursor # Quit /\ Send(MenuItem[cursor]) /\ UNCHANGED running
      BY <1>4, <2>2, MenuTables, TablesAreRequests DEF TypeOK
    <2> QED BY <1>6, <2>1, <2>2 DEF MenuEnter
  <1> QED BY <1>1, <1>2, <1>3, <1>5, <1>6 DEF Next, Key

\* "cargando..." goes away whatever keys are pressed and however requests
\* overlap, once every request is answered or fails (cmd/cli/main.go: each of
\* the replies of Update resets the flag).
THEOREM LoadingGoes == Spec /\ []AnswersCome => LoadingEnds
  <1> SUFFICES ASSUME []IInv, [][Next]_vars, []AnswersCome PROVE LoadingEnds
    BY ClientInvariant, PTL DEF Spec
  <1>1. ASSUME NEW r \in Requests
        PROVE  Awaits(r) => <>Shown
    <2>1. IInv /\ Awaits(r) /\ [Next]_vars => Awaits(r)' \/ Shown'
      BY StillAwaits DEF IInv
    <2>2. <<Answer(r)>>_vars => Shown'
      BY AnswerShows
    <2>3. Awaits(r) => UnderWay(r)
      BY DEF Awaits
    <2>4. AnswersCome => AnswerComes(r)
      BY DEF AnswersCome
    <2>5. []AnswerComes(r)
      BY <2>4, PTL
    <2>6. AnswerComes(r) => ([]UnderWay(r) => <><<Answer(r)>>_vars)
      BY PTL DEF AnswerComes
    <2> QED BY <2>1, <2>2, <2>3, <2>5, <2>6, PTL
  <1>2. (\E r \in Requests : Awaits(r)) => <>Shown
    BY <1>1
  <1>3. IInv /\ View = "cargando" => Shown \/ \E r \in Requests : Awaits(r)
    BY DEF IInv, LoadingMeansPending, View, Shown, Awaits, UnderWay, TypeOK, Screens, Tables
  <1> QED BY <1>2, <1>3, PTL DEF LoadingEnds, Shown

----------------------------------------------------------------------------
(* The server.                                                             *)

AllCalls == Calls \cup Streams

\* Until a signal comes, nothing is stopped and nothing cut; from the signal on
\* no call gets in, and once Shutdown is called none is under way.
StopInv ==
  /\ main = "starting" => grpc = "new" /\ http = "new" /\ \A c \in AllCalls : call[c] = "none"
  /\ main \in {"draining", "closing"} => grpc = "stopped"
  /\ main = "closing" => http = "stopped" /\ \A c \in AllCalls : call[c] # "running"
  /\ main # "killed" => \A c \in AllCalls : call[c] # "cut"
  /\ main \notin {"exited", "killed"} => \A r \in HttpRequests : request[r] # "cut"
  /\ main = "exited" => timer = Grace \/ \A r \in HttpRequests : request[r] # "cut"

ServerInv == ServerTypeOK /\ StopInv

LEMMA ServerBegins == ServerInit => ServerInv
  <1> SUFFICES ASSUME ServerInit PROVE ServerInv
    OBVIOUS
  <1> USE LifecycleAssumption DEF LifecycleAssumption
  <1>1. ServerTypeOK
    BY DEF ServerInit, ServerTypeOK, MainSteps
  <1>2. StopInv
    BY DEF ServerInit, StopInv, AllCalls
  <1> QED BY <1>1, <1>2 DEF ServerInv

LEMMA Types ==
  ASSUME ServerTypeOK
  PROVE  /\ call \in [AllCalls -> {"none", "running", "ended", "cut"}]
         /\ request \in [HttpRequests -> {"none", "running", "ended", "cut"}]
         /\ DOMAIN call = AllCalls /\ DOMAIN request = HttpRequests
  BY DEF ServerTypeOK, AllCalls

\* What the end of the process does to calls and requests: it cuts exactly those
\* that are running.
LEMMA GoneEffect ==
  ASSUME ServerTypeOK, Gone
  PROVE  /\ call' \in [AllCalls -> {"none", "running", "ended", "cut"}]
         /\ request' \in [HttpRequests -> {"none", "running", "ended", "cut"}]
         /\ \A c \in AllCalls : call'[c] # "running" /\ (call'[c] = "cut" => call[c] \in {"running", "cut"})
         /\ \A r \in HttpRequests : request'[r] = "cut" => request[r] \in {"running", "cut"}
  BY Types DEF Gone

LEMMA ServerSteps ==
  ASSUME ServerInv, [ServerNext]_serverVars PROVE ServerInv'
  <1> USE LifecycleAssumption DEF LifecycleAssumption, ServerInv
  <1>1. CASE Fatal \/ Start
    BY <1>1 DEF Fatal, Start, ServerTypeOK, MainSteps, StopInv
  <1>2. CASE ServeGrpc \/ ServeHttp
    BY <1>2 DEF ServeGrpc, ServeHttp, ServerTypeOK, StopInv
  <1>3. CASE Signal
    BY <1>3 DEF Signal, ServerTypeOK, MainSteps, StopInv
  <1>4. CASE Shutdown
    <2>1. \A c \in AllCalls : call[c] # "running"
      BY <1>4, Types DEF Shutdown, Drained, Running
    <2>2. ServerTypeOK'
      BY <1>4 DEF Shutdown, ServerTypeOK, MainSteps
    <2> QED BY <1>4, <2>1, <2>2 DEF Shutdown, StopInv
  <1>5. CASE Exit
    <2>1. timer = Grace \/ \A r \in HttpRequests : request[r] # "running"
      BY <1>5, Types DEF Exit, Closed, Running
    <2>2. ServerTypeOK'
      BY <1>5, GoneEffect DEF Exit, ServerTypeOK, MainSteps, AllCalls
    <2> QED BY <1>5, <2>1, <2>2, GoneEffect DEF Exit, StopInv
  <1>6. CASE Kill
    <2>1. ServerTypeOK'
      BY <1>6, GoneEffect DEF Kill, ServerTypeOK, MainSteps, AllCalls
    <2> QED BY <1>6, <2>1 DEF Kill, StopInv
  <1>7. CASE Tick
    <2>1. timer' \in 0 .. Grace
      BY <1>7 DEF Tick, ServerTypeOK
    <2> QED BY <1>7, <2>1 DEF Tick, ServerTypeOK, StopInv
  <1>8. ASSUME NEW c \in AllCalls, BeginCall(c) \/ EndCall(c) PROVE ServerInv'
    <2>1. ServerTypeOK' /\ main' = main
      BY <1>8 DEF BeginCall, EndCall, ServerTypeOK, AllCalls
    <2>2. \A d \in AllCalls : call'[d] # call[d] => d = c /\ call'[c] \in {"running", "ended"}
      BY <1>8, Types DEF BeginCall, EndCall
    <2>3. main # "starting" /\ (main = "closing" => call'[c] # "running")
      BY <1>8, Types DEF BeginCall, EndCall, StopInv
    <2> QED BY <1>8, <2>1, <2>2, <2>3 DEF BeginCall, EndCall, StopInv
  <1>9. ASSUME NEW r \in HttpRequests, BeginRequest(r) \/ EndRequest(r)
        PROVE  ServerInv'
    <2>1. ServerTypeOK' /\ UNCHANGED <<main, grpc, http, timer, call>>
      BY <1>9 DEF BeginRequest, EndRequest, ServerTypeOK
    <2>2. \A q \in HttpRequests : request'[q] = "cut" => request[q] = "cut"
      BY <1>9, Types DEF BeginRequest, EndRequest
    <2> QED BY <2>1, <2>2 DEF StopInv
  <1>10. CASE UNCHANGED serverVars
    BY <1>10 DEF serverVars, ServerTypeOK, StopInv
  <1> QED
    BY <1>1, <1>2, <1>3, <1>4, <1>5, <1>6, <1>7, <1>8, <1>9, <1>10
    DEF ServerNext, StartUp, Stop, AllCalls

THEOREM ServerInvariant == ServerSpec => []ServerInv
  <1>1. ServerInit => ServerInv
    BY ServerBegins
  <1>2. ServerInv /\ [ServerNext]_serverVars => ServerInv'
    BY ServerSteps
  <1> QED BY <1>1, <1>2, PTL DEF ServerSpec

\* Every reachable state of the server is well typed; in particular Shutdown
\* never waits longer than its grace (main.go:723-725).
THEOREM ServerTypes == ServerSpec => []ServerTypeOK
  BY ServerInvariant, PTL DEF ServerInv

\* A signal cuts no gRPC call and no stream short: GracefulStop comes first and
\* waits for all of them (main.go:722).
THEOREM NoCallCut == ServerSpec => []StopCutsNoCall
  <1>1. ServerInv => StopCutsNoCall
    BY Types DEF ServerInv, StopInv, StopCutsNoCall
  <1> QED BY <1>1, ServerInvariant, PTL

\* An HTTP request is cut short by a stop only after the whole grace
\* (main.go:723-725).
THEOREM FullGrace == ServerSpec => []RequestsGetTheirGrace
  <1>1. ServerInv => RequestsGetTheirGrace
    BY DEF ServerInv, StopInv, ServerTypeOK, MainSteps, RequestsGetTheirGrace
  <1> QED BY <1>1, ServerInvariant, PTL

----------------------------------------------------------------------------
(* The stop comes to its end.                                              *)
(*                                                                         *)
(* The fairness of Lifecycle with the guards written out.  That each call  *)
(* ends and each unit of time passes is used in the form that all calls    *)
(* end, and the grace does: from one to the other is an induction.         *)

Draining == main = "draining"
Closing == main = "closing"
Over == main \in {"exited", "killed"}
Timeout == Closing /\ timer = Grace
CallsOver == Running(call) \cap Calls = {}
StreamsOver == Running(call) \cap Streams = {}

Stoppable == (Draining /\ Drained) \/ (Closing /\ Closed)
MainRuns == []Stoppable => <><<Stop>>_serverVars
CallsEnd == Draining => <>(~Draining \/ CallsOver)
GraceEnds == Closing => <>(~Closing \/ timer = Grace)

\* From the signal on, a step leaves no more calls under way than there were, and
\* the server does not go back; once the grace is over it can only exit.
LEMMA StopGoesOn ==
  ASSUME ServerInv, [ServerNext]_serverVars
  PROVE  /\ Draining => Draining' \/ Closing' \/ Over'
         /\ Closing => Closing' \/ Over'
         /\ Draining => Running(call)' \subseteq Running(call) \/ Over'
         /\ Timeout => Timeout' \/ Over'
  <1> USE LifecycleAssumption DEF LifecycleAssumption, Draining, Closing, Over, Timeout
  <1>1. CASE StartUp \/ Signal
    BY <1>1 DEF StartUp, Fatal, Start, ServeGrpc, ServeHttp,
                Signal, Running
  <1>2. CASE Stop \/ Kill
    BY <1>2 DEF Stop, Shutdown, Exit, Kill, Running
  <1>3. CASE Tick
    BY <1>3 DEF Tick, Running, ServerInv, ServerTypeOK
  <1>4. ASSUME NEW c \in AllCalls, BeginCall(c)
        PROVE  ~Draining /\ UNCHANGED <<main, timer>>
    BY <1>4 DEF BeginCall, ServerInv, StopInv
  <1>5. ASSUME NEW c \in AllCalls, EndCall(c)
        PROVE  /\ Running(call)' \subseteq Running(call)
               /\ UNCHANGED <<main, timer>>
    BY <1>5, Types DEF EndCall, Running, ServerInv
  <1>6. ASSUME NEW r \in HttpRequests, BeginRequest(r) \/ EndRequest(r)
        PROVE  UNCHANGED <<main, timer, call>>
    BY <1>6 DEF BeginRequest, EndRequest
  <1>7. UNCHANGED serverVars => UNCHANGED <<main, timer, call>>
    BY DEF serverVars
  <1>8. UNCHANGED call => Running(call)' = Running(call)
    BY DEF Running
  <1> QED
    BY <1>1, <1>2, <1>3, <1>4, <1>5, <1>6, <1>7, <1>8 DEF ServerNext, AllCalls

\* A stop that hangs is held up by a stream whose client stays, and by nothing
\* else, for any number of calls, streams and requests and any grace
\* (main.go:722-725).
THEOREM StopEnds ==
  ServerSpec /\ []MainRuns /\ []CallsEnd /\ []GraceEnds => OnlyStreamsHoldUp
  <1>1. ServerInv /\ Draining /\ [ServerNext]_serverVars => Draining' \/ Closing' \/ Over'
    BY StopGoesOn
  <1>2. ServerInv /\ Closing /\ [ServerNext]_serverVars => Closing' \/ Over'
    BY StopGoesOn
  <1>3. ServerInv /\ Draining /\ CallsOver /\ [ServerNext]_serverVars => CallsOver' \/ Over'
    BY StopGoesOn DEF CallsOver
  <1>4. ServerInv /\ Draining /\ StreamsOver /\ [ServerNext]_serverVars
          => StreamsOver' \/ Over'
    BY StopGoesOn DEF StreamsOver
  <1>5. ServerInv /\ Timeout /\ [ServerNext]_serverVars => Timeout' \/ Over'
    BY StopGoesOn
  <1>6. ServerInv /\ Draining /\ CallsOver /\ StreamsOver => Stoppable
    BY Types DEF ServerInv, CallsOver, StreamsOver, AllCalls, Stoppable, Drained,
                 Running
  <1>7. Timeout => Stoppable
    BY DEF Timeout, Stoppable, Closed
  <1>8. Draining /\ <<Stop>>_serverVars => Closing'
    BY DEF Draining, Closing, Stop, Shutdown, Exit
  <1>9. Closing /\ <<Stop>>_serverVars => Over'
    BY DEF Closing, Over, Stop, Shutdown, Exit
  <1>10. /\ Timeout <=> Closing /\ timer = Grace
         /\ ~StreamsOver => Running(call) \cap Streams # {}
         /\ Draining <=> main = "draining"
         /\ Over <=> main \in {"exited", "killed"}
         /\ Draining => ~Closing /\ ~Over
    BY DEF Timeout, StreamsOver, Draining, Closing, Over
  <1>11. MainRuns => ([]Stoppable => <><<Stop>>_serverVars)
    BY PTL DEF MainRuns
  <1>12. /\ CallsEnd => (Draining => <>(~Draining \/ CallsOver))
         /\ GraceEnds => (Closing => <>(~Closing \/ timer = Grace))
    BY PTL DEF CallsEnd, GraceEnds
  <1>13. []ServerInv /\ [][ServerNext]_serverVars /\ []MainRuns /\ []GraceEnds
         => (Closing ~> Over)
    BY <1>2, <1>5, <1>7, <1>9, <1>10, <1>11, <1>12, PTL
  <1>14. []ServerInv /\ [][ServerNext]_serverVars /\ []MainRuns /\ []CallsEnd
         => <>[]~StreamsOver \/ (Draining ~> Closing \/ Over)
    BY <1>1, <1>3, <1>4, <1>6, <1>8, <1>10, <1>11, <1>12, PTL
  <1>15. []ServerInv /\ [][ServerNext]_serverVars /\ []MainRuns /\ []CallsEnd /\ []GraceEnds
         => <>[](Running(call) \cap Streams # {})
            \/ (main = "draining" ~> main \in {"exited", "killed"})
    BY <1>10, <1>13, <1>14, PTL
  <1>16. ServerSpec => []ServerInv
    BY ServerInvariant
  <1>17. ServerSpec => [][ServerNext]_serverVars
    BY PTL DEF ServerSpec
  <1> QED BY <1>15, <1>16, <1>17, PTL DEF OnlyStreamsHoldUp

=============================================================================
