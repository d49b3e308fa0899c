----------------------------- MODULE Lifecycle -----------------------------
(***************************************************************************)
(* cmd/server/main.go: start-up and stop of the server process, with the   *)
(* gRPC calls and HTTP requests it is handling meanwhile.                  *)
(*                                                                         *)
(* Two goroutines serve, the main one waits for a signal and then stops    *)
(* the two servers one after the other: GracefulStop waits for every call  *)
(* without a limit, Shutdown for every request for ten seconds at most.    *)
(* The process then ends, whatever else is running: cron jobs, replication *)
(* jobs and WebSockets are waited for by nobody and are no variables here. *)
(* A stream is a StreamEvents call: it ends when its client leaves.        *)
(***************************************************************************)
EXTENDS Naturals

CONSTANTS
  Calls,      \* gRPC calls that end by themselves
  Streams,    \* StreamEvents calls
  HttpRequests,   \* HTTP requests
  Grace       \* the ten seconds of Shutdown, in units

ASSUME LifecycleAssumption == Grace \in Nat /\ Calls \cap Streams = {}

VARIABLES
  main,      \* how far the main goroutine is
  grpc,      \* the gRPC server: its goroutine has not begun, serves, is stopped
  http,      \* the HTTP server, likewise, or its port was taken
  timer,     \* since Shutdown was called
  call,      \* per gRPC call
  request    \* per HTTP request

serverVars == <<main, grpc, http, timer, call, request>>

MainSteps == {"starting", "serving", "draining", "closing", "exited", "killed"}
Running(state) == {x \in DOMAIN state : state[x] = "running"}
Up == main \in {"starting", "serving", "draining", "closing"}

----------------------------------------------------------------------------
(* Start-up.                                                               *)

\* net.Listen for gRPC failed: log.Fatalf.
Fatal ==
  /\ main = "starting"
  /\ main' = "exited"
  /\ UNCHANGED <<grpc, http, timer, call, request>>

\* Both goroutines are started; main waits for a signal.
Start ==
  /\ main = "starting"
  /\ main' = "serving"
  /\ UNCHANGED <<grpc, http, timer, call, request>>

\* grpcServer.Serve; it returns at once when the server has been stopped.
ServeGrpc ==
  /\ main = "serving" /\ grpc = "new"
  /\ grpc' = "open"
  /\ UNCHANGED <<main, http, timer, call, request>>

\* httpServer.ListenAndServe: an error is logged and the process goes on.
ServeHttp ==
  /\ main \in {"serving", "draining"} /\ http = "new"
  /\ http' \in {"open", "failed"}
  /\ UNCHANGED <<main, grpc, timer, call, request>>

----------------------------------------------------------------------------
(* Calls and requests.                                                     *)

BeginCall(c) ==
  /\ Up /\ grpc = "open" /\ call[c] = "none"
  /\ call' = [call EXCEPT ![c] = "running"]
  /\ UNCHANGED <<main, grpc, http, timer, request>>

EndCall(c) ==
  /\ Up /\ call[c] = "running"
  /\ call' = [call EXCEPT ![c] = "ended"]
  /\ UNCHANGED <<main, grpc, http, timer, request>>

BeginRequest(r) ==
  /\ Up /\ http = "open" /\ request[r] = "none"
  /\ request' = [request EXCEPT ![r] = "running"]
  /\ UNCHANGED <<main, grpc, http, timer, call>>

EndRequest(r) ==
  /\ Up /\ request[r] = "running"
  /\ request' = [request EXCEPT ![r] = "ended"]
  /\ UNCHANGED <<main, grpc, http, timer, call>>

----------------------------------------------------------------------------
(* Stop.                                                                   *)

\* The first signal; later ones stay in the channel and change nothing.
\* GracefulStop closes the listener, and a Serve that comes late does nothing.
Signal ==
  /\ main = "serving"
  /\ main' = "draining" /\ grpc' = "stopped"
  /\ UNCHANGED <<http, timer, call, request>>

\* Seeded bug: Stop in place of GracefulStop.
DrainedAnyway == TRUE

\* GracefulStop returns: no call is running.
Drained == Running(call) = {}

\* httpServer.Shutdown: no request gets in any more.
Shutdown ==
  /\ main = "draining" /\ Drained
  /\ main' = "closing" /\ http' = "stopped" /\ timer' = 0
  /\ UNCHANGED <<grpc, call, request>>

\* Seeded bug: the wait goes on past the timeout.
TickOn ==
  /\ main = "closing"
  /\ timer' = timer + 1
  /\ UNCHANGED <<main, grpc, http, call, request>>

Tick ==
  /\ main = "closing" /\ timer < Grace
  /\ timer' = timer + 1
  /\ UNCHANGED <<main, grpc, http, call, request>>

\* Seeded bug: Close in place of Shutdown.
ClosedAtOnce == TRUE

\* Seeded bug: the context has no timeout.
ClosedWhenIdle == Running(request) = {}

\* Shutdown returns: nothing runs, or the context has expired.
Closed == Running(request) = {} \/ timer = Grace

\* The process is no more, and nothing that was running in it.
Gone ==
  /\ call' = [c \in DOMAIN call |-> IF call[c] = "running" THEN "cut" ELSE call[c]]
  /\ request' =
       [r \in DOMAIN request |-> IF request[r] = "running" THEN "cut" ELSE request[r]]

Exit ==
  /\ main = "closing" /\ Closed
  /\ main' = "exited"
  /\ Gone
  /\ UNCHANGED <<grpc, http, timer>>

\* The process dies or is killed.
Kill ==
  /\ Up
  /\ main' = "killed"
  /\ Gone
  /\ UNCHANGED <<grpc, http, timer>>

ServerInit ==
  /\ main = "starting"
  /\ grpc = "new" /\ http = "new"
  /\ timer = 0
  /\ call = [c \in Calls \cup Streams |-> "none"]
  /\ request = [r \in HttpRequests |-> "none"]

StartUp == Fatal \/ Start \/ ServeGrpc \/ ServeHttp

\* What the main goroutine does after the signal.
Stop == Shutdown \/ Exit

ServerNext ==
  \/ StartUp \/ Signal \/ Stop \/ Tick \/ Kill
  \/ \E c \in Calls \cup Streams : BeginCall(c) \/ EndCall(c)
  \/ \E r \in HttpRequests : BeginRequest(r) \/ EndRequest(r)

ServerSpec == ServerInit /\ [][ServerNext]_serverVars

\* The main goroutine runs, time passes, and a call that is not a stream
\* ends.  Nothing is asked of streams and of HTTP requests.
ServerRuns ==
  /\ WF_serverVars(Stop) /\ WF_serverVars(Tick)
  /\ \A c \in Calls : WF_serverVars(EndCall(c))

FairSpec == ServerSpec /\ ServerRuns

----------------------------------------------------------------------------
(* Properties.                                                             *)

ServerTypeOK ==
  /\ main \in MainSteps
  /\ grpc \in {"new", "open", "stopped"}
  /\ http \in {"new", "open", "failed", "stopped"}
  /\ timer \in 0 .. Grace
  /\ call \in [Calls \cup Streams -> {"none", "running", "ended", "cut"}]
  /\ request \in [HttpRequests -> {"none", "running", "ended", "cut"}]

\* A signal cuts no gRPC call short, stream or not, in whatever order servers
\* come up, calls begin and the signal arrives (main.go:722): an agent is
\* never left without the answer to a call that was let in.
StopCutsNoCall ==
  \A c \in DOMAIN call : call[c] = "cut" => main = "killed"

\* An HTTP request is cut short only after the full ten seconds, however long
\* the calls before took to end (main.go:723-725: the context is made after
\* GracefulStop has returned).
RequestsGetTheirGrace ==
  \A r \in HttpRequests : request[r] = "cut" => main = "killed" \/ timer = Grace

\* A stop that does not come to its end is held up by streams whose clients
\* stay, and by nothing else: a request that hangs, a server that never came
\* up and calls under way do not hold it up (main.go:722-725).
OnlyStreamsHoldUp ==
  \/ <>[](Running(call) \cap Streams # {})
  \/ (main = "draining") ~> (main \in {"exited", "killed"})

=============================================================================
