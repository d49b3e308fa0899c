# Snapah Pow: specifications and proofs

A TLA+ model of the snapshot manager in this repository: a Go server
(`cmd/server`) that takes, lists, deletes, restores and replicates btrfs
snapshots on request and on schedule, the agents that register with it
(`cmd/agent`), and a terminal client (`cmd/cli`). The modules are translated
from the Go sources; where a document says something else, the module follows
the code and the difference is listed in section 6.

## 1. The system

| Component | Source | State it keeps | Operations |
|---|---|---|---|
| Snapshot handlers | `cmd/server/main.go:132-184, 246-311, 369-424` | rows of `snapshots`, subvolumes on disk | create, list, delete, restore |
| btrfs wrapper | `internal/btrfs` | the filesystem | snapshot, delete, list, send, receive |
| Node registry, watchdog | `main.go:100-130, 186-205`, `internal/alerts/watchdog.go`, `cmd/agent` | rows of `nodes`, the map `lastStatus` | register, heartbeat, stream, check |
| Rate limiter | `internal/ratelimit` | visitors: a count and a time per client | allow, sweep |
| Scheduler, retention | `internal/scheduler`, `main.go:326-366` | policies, cron entries | add policy, execute, apply retention |
| Replication | `internal/replication`, `main.go:551-600` | the job table, rows of `events` | replicate, list jobs |
| WebSocket hub | `internal/hub` | connected clients, their buffers, the lock | connect, broadcast, write, disconnect |
| API keys, tokens | `internal/apikeys`, `internal/auth`, `main.go:210-240, 427-504` | rows of `api_key_records` | log in, generate, validate, revoke |
| Terminal client | `cmd/cli` | screen, token, requests in flight | keys and replies |
| Server lifecycle | `main.go:604-727` | listeners, open streams | start, signal, stop |
| Alerts, metrics, config, TLS | `internal/...` | constant after start-up | |

How they interact. HTTP handlers pass the limiter and the token check, then
call the gRPC methods of the same process directly. Every handler runs in its
own goroutine; what they share is the database (each statement atomic, no
transaction spans two), the filesystem (each `btrfs` command atomic, nothing
ties it to the database) and a few maps. The scheduler, the watchdog, the
limiter and the replication manager run goroutines of their own over the same
database and filesystem. Agents and the terminal client are other processes.

What is hard, and what makes each part correct:

- **Snapshot handlers.** Two stores kept in step by hand, by any number of
  goroutines, any of which may die between two calls. Correct means: no listed
  snapshot without data and no data without a row, except where a call is under
  way or something failed; a delete touches nothing but its own snapshot; a
  restore that answers success has delivered.
- **Node registry and watchdog.** Three writers of `last_seen`, one reader that
  judges from a copy. Correct means: a silent node is reported, alerts agree
  with what the watchdog remembers and with the table.
- **Rate limiter.** A count that must be right in every window, and a sweep that
  must not be noticed.
- **Scheduler and retention.** A policy that was accepted runs; retention deletes
  what exceeds the limit, and neither the protected subvolume nor the snapshot
  that was just taken.
- **Replication.** A job ends once; its event, its status and what is on the
  target agree, whatever other jobs and restarts do.
- **Hub.** Three goroutines per client, any number of broadcasts, one lock and a
  bounded buffer. Correct means: no client is sent an event twice or out of
  order; one is lost only to a full buffer; a slow client delays nobody, and a
  broken one leaves no goroutine behind.
- **API keys.** A request works on a copy of a row that others may change.
  Correct means: a revoked key is refused from then on and never comes back; a
  good one is not refused; what a client was told of a key stays true.
- **Terminal client.** The client always returns from "cargando..."; no table is
  drawn before its data has arrived.
- **Lifecycle.** After a signal the server stops, unless a stream holds it up,
  and cuts no more short than it announced.

## 2. Plan

Done, the most important behaviour first:

1. `Btrfs`, `SnapshotStore`, `SnapshotLifecycle`, `SnapshotStoreProofs`
2. `NodeHealth`, `NodeHealthProofs`
3. `RateLimiter`, `RateLimiterProofs`
4. `Scheduler`, `SchedulerProofs` (policies, cron entries, overlapping runs, retention)
5. `Replication`, `JobLifecycle`, `ReplicationProofs`
6. `Tui`, whose theorems open `ProcessProofs`
7. `Hub`, `HubProofs` (connect, broadcast into bounded buffers, write, disconnect)
8. `Access`, `KeyLifecycle`, `AccessProofs` (keys and tokens: generate, validate, revoke)
9. `Lifecycle` (start-up, signal, `GracefulStop`, `Shutdown`), proved in `ProcessProofs`

Left: `SnapahServer`, `SnapshotStore` and `Scheduler` over one filesystem, since a
policy and a request may choose one path within a second, and deletes of one
meet the retention of the other; the delivery of alerts; an abstract quota that
the limiter refines.

Each component has one module, an `MC` module that TLC runs, and a `...Proofs`
module (`ProcessProofs` serves the two processes, `Tui` and `Lifecycle`);
parameters are constants with named assumptions, every operation is one action,
and no module declares a recursive operator. Operators headed "Seeded bug" are not part of a specification: each
is the form the definition below it would take after a plausible mistake, kept
to show that some property notices.

## 3. The modules

### SnapshotStore (over Btrfs, refining SnapshotLifecycle)

State: `fs` (the filesystem: a subvolume, with its origin, flag and nested
subvolumes, or nothing at each path), `request` and `row` (per id: what its
create request asked for, and its row in `snapshots`: none, active or
soft-deleted, as gorm deletes), `handler` (per goroutine: the call it makes
next). `wiped` and `restored` are history for the properties.

`CreateSnapshot`, `DeleteSnapshot` and `handleRestore` are cut at every call to
btrfs or the database: `BeginCreate`, `SnapshotSource`, `InsertRow`;
`BeginDelete`, `DeleteSubvolume`, `EraseRow`; `BeginRestore`,
`RestoreSubvolume`, `RecordRestore`. Each call has its error branch, with what
the code does then (return the error, or drop it). `Crash` ends all handlers
and keeps both stores. `Btrfs` says what a command needs and leaves: a snapshot
to a path that exists is nested inside it, a read-only destination is refused,
a subvolume with another inside is not deleted. A path is base, name and
second, because `SnapshotPath` prints whole seconds.

`SnapshotLifecycle` is what a user is promised about one id: available, then
dangling (listed without data), then removed, never back and never another's
data. `ImplementsLifecycle` maps the two stores to that phase.

`FreshPaths` is the only assumption on clients: no two create requests choose
one path, that is, no two with the same subvolume and name within one second.
Without it (run `snapshot_store_reuse`) most ownership properties are false of
the code, since the second request nests its snapshot inside the first one's
and then fails on the unique index; what still holds is checked there.

### NodeHealth

State: `nodes` (status and age of `last_seen` per row), `agent`, the
watchdog's `lastStatus`, its ticker (`timer`), the check in progress (`listed`:
the ages it read and has not judged yet). `told` (last alert) and `quiet` (time
since the node last called) are history. A check is one read of all rows
(`BeginCheck`) and one verdict per row (`DeclareOffline`, `DeclareRecovered`,
`FirstSight`, `NoChange`), so that `RegisterNode` and `StreamEvents` rewrite
rows in between. `Update` is `UpdateNodeStatus`: it writes `last_seen` with
every status and its callers drop the error. `Restart` empties the map.

### RateLimiter

State: `visitors` and the clock; `log` is history: every request with its time,
count and answer. `Allow` and `Sweep` hold the mutex throughout, so they are
single actions. `Allow` reads the clock twice within the mutex; the model reads
it once. The sweep may run at any moment, not only every minute.

### Scheduler

State: policy rows, how far `handlePolicies` is with each, cron's `entries`,
`runs` (a record per goroutine cron started, the finished ones included), `disk`
(the snapshots, oldest first, as btrfs lists them) and `bases` (the protected
subvolumes). A run is `TakeSnapshot`, `ApplyRetention` (list and parse), and one
`DeleteNext` per row of the loop; runs of several policies overlap. `ParseList`
does what `parseList` does to the rows of `btrfs subvolume list -t -u`, which
have four columns before the path: rows of fewer than nine fields are skipped,
and in the others `path ` is looked for and not found (no name in the model has
that word), so what is left of the path is the base itself. Of a schedule only one thing is kept: whether the
parser of `cron.WithSeconds` accepts it. The `policies` map of the scheduler is
written and never read (its readers have no caller), so it is not a variable;
concurrent writes to it can stop the process, which `Crash` covers.

### Replication (refining JobLifecycle)

State: the job records (shared by the goroutine and the table), `table`, the
`step` of each goroutine, the `events` rows, and `replica`: what each job left
on the target. One action per critical section or external call: `Register`,
`SendSnapshot`, `CallTarget`, `RecordCompletion`, `Finish`, and on failure
`RecordFailure`. `CallTarget` may fail before or after the target has done its
part. `Crash` loses records, table and goroutines and keeps events and
replicas. `JobLifecycle` promises that a job starts once, ends once, is
reported at most once and in agreement with its end, and disappears only in a
restart.

### Tui

State: screen, `loggedIn`, the `loading` flag, cursor, focus, per table what it
shows, and `pending`: how many requests of each kind are under way. Keys and
replies are the messages `Update` handles, in any order. Left out: the text in
the login fields and the selected line of a table, which no guard reads.

### Hub

State: `clients` and the read-write lock (`locker`: the handler that holds it or
waits for its readers), per event how far its `Broadcast` is and which clients
its loop has not come to, per client its handler, its two goroutines, its `ctx`
and connection, and the channel. The channel is kept with its past (`stream`,
`taken`), so that what a client was sent can be talked about; what is in the
buffer is the difference. `audience` and `prior` are history. Go's lock lets no
new reader in once a writer waits, so a `Broadcast` that begins then waits for
the handler; that is what `Announce`, `Exclusive` and `Unlock` say. What a
handler does under the lock is one assignment, one step. Writes to a connection
may take forever while it works. `main.go` has one caller of `Broadcast`
(`broadcastEvent`, line 313), which nothing calls: the module says what the
package promises to whoever will.

### Access (refining KeyLifecycle)

State: the rows of keys, what each token says, and per goroutine its request,
the copy of the row it works on and how far it is. `Validate` is cut into
`Lookup`, `CheckExpiry` and `Touch` (the update of `last_used_at`, whose error
is dropped), the handlers into the statement and the answer (`SaveKey`,
`AnswerKey`; `Revoke`, `AnswerRevoke`), so that a revocation may come between any
two. Any statement may fail and the server may die; clients keep their keys and
tokens. Who is told what, what was asked for and when requests passed is history.
Keys are looked at by `CombinedMiddleware`, which `main.go` does not use: its
routes check tokens alone, and refuse a key (`KeyAsToken`). The model has routes
of both kinds, so the properties about keys speak of what the package promises
to a route that uses it. The second of the two clock readings of `Validate` is
taken together with the first.

`KeyLifecycle` is what a key promises: it is unmade, then active, then revoked,
and never goes back; it is shown only when it is there and a revocation is
answered only when it holds; a session that uses it asks, is cleared or turned
away, and is over, and `Clear` is one step, taken while the key is active. In
`Access` the phase of a key is read off its row (`keyState`) and the session of
a goroutine off the request it serves (`keySession`; a request with a token
uses no key and maps to none). The lookup is the step that clears.

### Lifecycle

State: how far the main goroutine is, the two servers, the time since `Shutdown`
was called, and each call, stream and request. `GracefulStop` waits for all calls
(`Drained`); only then does `Shutdown` begin, with its ten seconds (`Closed`). An
HTTP port that is taken is logged and the process goes on without HTTP
(`ServeHttp`). WebSockets, cron runs, replication jobs, the watchdog and the
metrics server are waited for by nobody and end with the process: what that
leaves behind is the `Crash` action of the other modules. Only the first signal
is read from its channel.

## 4. The runs

| Run | Bounds | What it shows |
|---|---|---|
| `snapshot_store` | 2 handlers, 2 ids, 1 subvolume, 1 further restore path, 2 seconds, 1 fault, fresh paths | a fault leaves at most one subvolume per request at work behind, and nothing else leaves any; an unlisted id has no data; a listed path holds its own data with its own flag; a restore that answered success has delivered; nothing disappears but by its own delete; the lifecycle is implemented |
| `snapshot_store_reuse` | the same, two requests may choose one path | no listed id without data except during its delete or after a fault, and under fairness a wiped id is unlisted unless something fails |
| `node_health` | 1 agent, 2 ids of which one is streamed, interval 2, threshold 4, 1 fault | alerts, map and table agree; a node is offline for one interval at most; under fairness a silent node is reported |
| `rate_limiter` | 2 clients, limit 2, window 2, clock to 6, 6 requests | the limit holds in every window; who rests is granted; refusals come only after `Limit` grants; the sweep changes no later answer |
| `scheduler` | 2 policies over 1 base, 2 names, 2 seconds, retention 0, 1 (default 2), 2 other long paths, 1 fault | no base is deleted although retention asks for it; no run loses its snapshot; only accepted and enabled policies run, and until a restart all of them whose schedule parses |
| `replication` | 3 jobs, 2 faults | status, table and target agree; jobs implement the lifecycle; under fairness each job ends |
| `hub` | 2 clients, 2 broadcasts, buffer 1 | no event twice or out of order; an event is lost only to a full buffer; under fairness every broadcast returns and a broken client leaves nothing behind |
| `access` | 2 requests, 1 key, 1 token, lifetimes -1, 0 and 1, clock to 2, 1 fault | a revoked key stays out; refusals have a cause; `last_used_at` is real; answers are true, also after a crash; keys and sessions implement `KeyLifecycle`, so a revocation is never undone |
| `lifecycle` | 1 call, 2 streams, 2 requests, 2 units for ten seconds | a signal cuts no call; requests get their ten seconds; under fairness nothing but a stream holds the stop up |
| `tui` | 2 requests of each kind overlap | "cargando..." means something is under way, and goes away; no screen that was not earned |

The other two runs end in a counterexample; see section 6.

Where a theorem of section 5 says more than an instance could, the run leaves the
property out: the type invariants of all modules but `SnapshotStore` and
`Lifecycle`, `OneRowPerPath`, `NoOrphans`, `RowsStayYoung`, `EndIsRecorded`,
`RevocationSticks` and `NobodyLeavesMeanwhile`. `DanglingOnlyWhileDeleting` is checked with reused paths
only, which include the fresh ones.

Why these bounds are enough. Two handlers are the least that interleave, and
no handler looks at more than one id; two ids make a collision of paths
possible. Two seconds separate a colliding pair from one that does not collide.
One fault reaches every partial state, since each operation has at most two
writes. In NodeHealth a unit is half a minute, so interval and threshold have
the ratio of the code (one and two minutes), and ages saturate one unit beyond
the largest value any guard tells apart. In RateLimiter, six requests are three
times the limit and six units three windows, enough for a window that begins
anywhere and a refusal in the next. In the scheduler two runs overlap at every
step, and two long paths and the names of five words make the loop delete; a
smaller `DefaultKeep` stands for 7. In the client two requests of one kind are
the least whose replies can be confused. In the hub two broadcasts are the least
that overlap or follow each other, a buffer of one is full after the first of
them, and two clients let one join or leave while another is served. In Access
every row is written by the requests that name it and no step reads two rows, so
one key is enough; the second credential is the token the key is made with, and
two requests are a revocation and the validation it meets. Two days reach the end
of a lifetime of one. In Lifecycle two streams let one end while another stays.
The theorems of section 5 hold without these bounds.

Fairness, and why the code justifies it:

- `SnapshotStore`: `WF(Serve(h))` for each handler: a goroutine that is not
  blocked keeps running, and btrfs and database calls return.
- `NodeHealth`: `WF` of `Tick`, `BeginCheck` and each `Judge(id)`: time passes,
  the ticker fires, the loop of the check goes on. No fairness for agents.
- `Replication`: `WF(Replicate(j))`: the goroutine runs, `btrfs send` ends and
  the call to the target ends within its 30 minutes.
- `Hub`: `WF` of each goroutine of the package (`Caller`, `ServeWS`, `PingerEnds`,
  `WriterEnds`), and of a failing write once the connection is broken. No
  fairness for browsers, nor for a write to a connection that works.
- `Lifecycle`: `WF` of the main goroutine, of time and of calls that are no
  streams (each handler is a few commands and statements). None for streams,
  which end when their clients leave, and none for HTTP requests.
- `Tui`: `WF(Answer(r))` for each kind of request: the server answers or the
  connection breaks. The client sets no timeout, so this is an assumption on
  the other end and not a property of the client.

Deadlock is checked where the system runs on. It is not checked for
`Replication` (finitely many jobs come to an end), `Scheduler` (the bounded
clock stops), `Hub` (each client connects once and each event is sent once),
`Access` (requests that make keys find none left once the `Keys` of the instance
are used), `Lifecycle` (the process ends) and `Tui` (the program quits).

## 5. What is proved

tlapm checks every theorem for all values of the constants that satisfy the
named assumption of the module (`StoreAssumption`, `HealthAssumption`,
`LimiterAssumption`, `SchedulerAssumption`, `ReplicationAssumption`,
`TuiAssumption`, `LifecycleAssumption`, `HubAssumption`, `AccessAssumption` with `NoRowIsNoRow`:
bounds are naturals, the hub's buffer has room for one event at least,
keys are no tokens, `None` is not one of the values it is
mixed with, and for NodeHealth the interval is at most the threshold).
`ProcessProofs` extends `Tui` and `Lifecycle`, whose definitions are therefore
named after the server (`ServerInit`, `ServerSpec`, ...).

- **SnapshotStoreProofs.** `TypeCorrect`. `StoreInvariant`: with or without
  fresh paths, who works on an id and what rows and paths agree on (`StoreInv`);
  it carries `OneRowPerPath` and `DanglingOnlyWhileDeleting`. The invariants
  alone are not inductive: that a dangling row is being deleted rests on
  `wiped`, and on each id being created by one handler. `OwnerInvariant`: with
  fresh paths a path belongs to one request, so the subvolume under it is its
  own (`OwnerInv`, with `NoOrphans` and `DeletedMeansGone`). `LeaksAreBounded`
  counts: a step that is no fault adds no subvolume that nobody lists or is at
  work on, and a fault adds one per handler at most, by an injection from what
  it leaves behind to the handlers (`LeakInvariant`, inductive with `OwnerInv`;
  `NothingLeaks` is the case of no fault). `RestoreInvariant`:
  a restore about to answer has delivered, and what was delivered stays, since
  no delete reaches a restore path. `StoreSafety` collects the invariants of the
  run (`NothingLeaks`, `Deleted`, `ListedOwn`, `Delivers` and `OneRow` state them one by
  one), `DeletesOwn` is the action property, `Refinement` the implementation of
  `SnapshotLifecycle`: each action is mapped to a move of one id or a stutter.
  `WipedInvariant` (a row without data is about to be erased by its handler, as
  long as nothing failed) is what the liveness theorem `DanglingCleared` rests on.
- **NodeHealthProofs.** `TypeCorrect`; `Verdicts` (inductive with types);
  `Ages`: `AgesInv` bounds the age of a row by the time since the last check
  and the ages a check holds by the row's age at most; `RowsYoung` and
  `OfflineBrief` follow. `SilenceCounts` is the safety half of `SilentNodeReported`:
  but for its own stream and the alert nothing makes the row of a node younger,
  and the first verdict on an old row is the alert.
- **RateLimiterProofs.** `LimiterInvariant` is the inductive one: requests are
  numbered in order (`LogInv`), the visitor accounts for all requests less than
  a window old (`VisitorInv`), counts grow within a window and a count is
  reached through all lower ones (`CountInv`). `NeverOverLimit` then maps the
  granted requests of a window injectively into `1 .. Limit`; `Rested`,
  `RefusedLate` and `Unnoticed` follow too.
- **SchedulerProofs.** `SchedulerInvariant`: rows exist exactly for the handlers
  that stored one (`RowInv`), and every run that is past its snapshot sees one in
  its base while it deletes nothing but the base (`RunInv`). That snapshot, which
  no run can delete, is what makes btrfs refuse: `BasesSurvive`. `SnapshotsKept`
  follows. `OnlyAccepted` is inductive with types: entries are only added, and
  only by the handler of their policy, until a restart.
- **ReplicationProofs.** `JobsInvariant`: `JobInv` relates step, record, table,
  target and events of one job; a step of one job leaves the others (`Frame`).
  `JobsSafety` (with `Outcomes`, `Listed` and `Ends`, its parts) and `Refinement` (of
  `JobLifecycle`, through the abstract state each step stands for) follow. `JobsEnd` takes a
  job from step to step until its record has an end or the server is gone.
- **ProcessProofs**, the client. `ClientInvariant`: types with `LoadingMeansPending`
  and `ScreenIsEarned` are inductive together; `Loading` and `Earned` are its
  parts. `LoadingGoes`: whatever keys are pressed, "cargando..." goes with the
  next reply, and one is always to come.
- **ProcessProofs**, the server. `ServerInvariant`: types with `StopInv`, that a
  stop has drained all calls before `Shutdown` counts, and only a full grace
  cuts a request. `ServerTypes`, `NoCallCut` and `FullGrace` follow. `StopEnds`:
  from the signal on, the main goroutine is at one of three stages (`Draining`,
  `Closing`, over) and each leads to the next.
- **HubProofs.** `TypeCorrect` with the bound of the buffers. `HubInvariant`: a
  client is in the loop of a call only while it has not been served, what it was
  served is in its stream once, and a handler changes the map only when no loop
  runs. `NeverTwice`, `Ordered`, `NobodyLeaves` and `QuietLosesNothing` follow;
  the last counts: what fills a buffer are events of others, all different.
  `ClientsAreServed`: the map, the handler, the context and the connection of a
  client agree at every step of its leaving. `NoStandstill` rests on the lock
  (`LockInvariant`): who waits, waits for somebody who can move. `LoopsEndSoon`
  is the variant of the broadcasts: a turn of a loop leaves fewer clients to
  send to, and none begins while a handler waits. `Returned` and
  `BrokenForgotten` are the liveness properties of the package.
- **AccessProofs.** `AccessInvariant` (`IInv`): per row, its expiry is what was
  asked for and its last use is a use; per request, what it relies on by how far
  it is (`Credited`, `Checked`, `Changed`, `Judged`). Every action also satisfies
  `Grows`: rows stay, keep their expiry, are never active again. Whatever a
  request relies on survives that (`Survives`), so each action is only looked at
  for the request that moves. `RevokedOut`, `Causes`, `UsesAreReal` and `Answers`
  follow; `Sticks` is `Grows` as an action property. `KeysRefine`: with
  `AccessInvariant`, each action is a move of `KeyLifecycle` or a stutter; most
  touch no row and move one session (`SessionMoves`), and `SaveRefines`,
  `RevokeRefines` and `AnswersRefine` are the ones that move a key.

**Liveness.** `ENABLED` is beyond tlapm 1.4.5, so these theorems do not start from
`FairSpec`. They start from `Spec` and the same fairness with the guard of the action
written out: "if from some point on the guard holds for ever, the action is taken"
(`HandlersRun`, `GoroutinesRun`, `AnswersCome`, `MainRuns`, `CallersRun`, `PeersRun`).
That each guard implies that its action is enabled is read off the action and not
proved (TLC found it true of every reachable state of the instances of section 4,
and the hypotheses named below true of their fair behaviours; these checks are not
kept as runs); the runs check the same properties under `WF`.

- `JobsEnd`, `DanglingCleared` and `LoadingGoes` assume nothing else.
- `StopEnds`, `Returned` and `BrokenForgotten` have hypotheses besides. A loop that
  ends because a number or a finite set runs out needs an induction inside a
  temporal argument, which no installed prover does. Exactly those steps
  are named and assumed: the calls in progress end (`CallsEnd`), the ten seconds
  pass (`GraceEnds`), a loop comes to its last client (`TurnsEnd`), the
  loops that run when a handler waits come to an end (`LoopsEnd`), a handler that
  waits gets the lock (`LockComes`). What makes them true is proved as
  safety where the code has something to say: `LoopsEndSoon` is the variant
  of `TurnsEnd` and `LoopsEnd`, `NoStandstill` says that the lock is never held for
  nothing, `ServerInvariant` bounds the grace. What follows is conditional on them,
  and unconditional only in TLC's runs (`hub`, `lifecycle`).

Only model-checked: `SilentNodeReported` (the ages of a row and a ticker must
meet, an induction over time; `SilenceCounts` is its safety half); `BroadcastReturns`,
`BrokenIsForgotten` and `OnlyStreamsHoldUp` without the hypotheses above; and the
counterexamples of section 6.

## 6. Where the code and its words differ

Each of these two is a run that ends in a counterexample.

| Run | What it shows |
|---|---|
| `node_offline_means_silent` | the heartbeat is a `ListSnapshots` call, which does not touch `last_seen`: a live agent "no responde" (`cmd/agent/main.go:108`, `watchdog.go:70`) |
| `replication_copies` | what `btrfs send` wrote is never transmitted; a job is done and the target has a snapshot of its own subvolume (`replication.go:46, 75`) |

Others can be read off the actions and have no run of their own: a restore to a
path that exists nests the copy inside and answers "restaurado exitosamente en"
that path (`main.go:403, 422`; `RestoreSubvolume`, and `Delivered` allows for it);
`cron.WithSeconds` takes six fields, the default schedule has five, the error is
dropped and the answer is 201 (`scheduler.go:35, 56`, `main.go:353`; `Parses` and
`AddPolicy`); `parseList` skips every row with fewer than nine fields, so retention
finds nothing to delete, against `src/README.md:160` (`btrfs.go:124`;
`ParseList`); nothing is ever broadcast to the WebSocket clients, against
`src/README.md:178` (`main.go:313` has no caller); API keys open no route
(`CombinedMiddleware` has no caller; `KeyAsToken`); a delete
answers "deleted" although the erase of the row failed (`EraseRow`); marking a
node offline refreshes its row, so the next check alerts that it is back
(`OfflineIsBrief` states the effect); refused requests move `lastSeen`, so a
client that retries stays refused although the answer says 60 seconds
(`Counted`; the window must also be exceeded, not just reached); the terminal
client shows a refusal as an empty table (`Fetched`); a failed replication is
not tried again, against `src/README.md:186` (`CallTarget`); policies are not
loaded at start-up (`Crash` of `Scheduler`).

## 7. What is not modelled

- The user map, signatures and hashes of `internal/auth`, configuration, TLS: read
  or computed from what was read at start-up, no state afterwards. Metrics:
  counters nothing in the program reads. Generated protocol code, the web page and packaging have no behaviour over time of their own.
- Delivery of alerts: each alert is handed to goroutines of its own for mail and
  webhook, which nobody waits for and whose errors are logged only. Two alerts may
  thus arrive in the other order, or twice (the webhook is posted again after an
  error), or never; nothing in the program notices, so the model stops at the
  alert (`told`).
- The composition of the handlers and the scheduler over one filesystem: each
  module lets the other side's files be absent. Paths of the two can meet only
  within one second and with one name.
- Data races. `ListJobs` hands out pointers that job goroutines still write, so
  one answer may mix two statuses; the model reads each record at once.
- The order of two replies for the same table: rows carry no version, so
  nothing in the code or the model tells an older list from a newer one.
- Contents, wording, formatting and logging.
