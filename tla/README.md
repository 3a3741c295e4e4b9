# A formal model of OpenSafari

OpenSafari is an MCP server in TypeScript: a coding agent calls its tools, and it
drives Safari and native apps in iOS simulators. This directory holds TLA+ models
of the parts of it that keep state across `await`s, processes and restarts, the
TLC runs that check them on small instances, and proofs for every size of instance.

* [The system](#the-system): inventory of the components
* [Plan](#plan): modules, in the order they are written
* [The models](#the-models): module by module, with runs, bounds and proofs
* [Fairness](#fairness), [Proofs](#proofs), [Only model-checked](#only-model-checked)
* [Where the code departs from its comments](#where-the-code-departs-from-its-comments)
* [Not modelled](#not-modelled)

To repeat a run: `tlc -workers 2 -config MCX.cfg MCX.tla`; a proof: `tlapm XProofs.tla`.
`PROJECT.json` lists runs, properties, hazards, theorems, the source lines each
definition stands for, and for each property a mutant of the code that breaks it.

All line numbers below are in `src/src/`.

## The system

JavaScript is single-threaded: what interleaves is what lies between two `await`s,
timers and socket events. Several OpenSafari processes of one machine share files.
In the table, "hard" names what a unit test would hardly reach.

| Component | State | Operations | Talks to | Hard |
|---|---|---|---|---|
| Step barrier `orchestration/step-barrier.ts`, `tools/barrier-tools.ts` | per step: arrived devices, resolvers, one timer | wait, status, clear, timeout | worker agents, by tool calls | repeated waits, timeouts against late arrivals, one timer for many waiters |
| Clone pool `simulator/sim-pool.ts` | a mutex per preset, managed clones | acquire, release, shutdown | simctl (clone, boot, delete) | failures half way, cap, barging at the mutex |
| Warm pool `simulator/warm-sim-pool.ts` | a queue of ready clones and a target per preset, in-flight flags | warmUp, setWarmTarget, acquire, replenish, release, shutdown | clone pool | background refills against shutdown |
| Simulator pool `simulator/pool.ts` | devices with their ports, next port | bootAll, bootSequential, shutdownOne, shutdownAll | simctl, session manager, registry, idle and memory monitors | batches that fail in part, monitors that shut down what is being booted |
| Circuit breaker `reliability/circuit-breaker.ts` | closed, open, half-open; counts; time | isAvailable, record…, trip, reset | batch executor, VM service client, crash watcher | outcomes that come in another state than they began in |
| Device registry `reliability/zombie-cleanup.ts` | JSON file pid → devices, lock directory | set, add, clear, partition, periodic cleanup | all OpenSafari processes of the machine | deaths between file operations, stale locks |
| Workflow engine `orchestration/workflow-engine.ts`, `workflow-persistence.ts` | workflows and workers, one file each, a mutex | init, run, update, complete, fail, retry, collect, cleanup, reload | worker agents, clone and simulator pools, disk | reports at once, reports after cleanup, restarts |
| WebKit client `webkit/client.ts`, `protocol-transport.ts`, `target-session.ts` | socket, pending requests, targets, domains, heartbeat, reconnect flag | connect, send, enable, disconnect, reconnect | ios_webkit_debug_proxy by WebSocket and HTTP | late opens, events of an old socket, reconnect loops |
| Flutter VM service client `flutter/vm-service-client.ts` | socket, pending calls, heartbeat, isolates, breaker | connect, callMethod, disconnect | Dart VM service, breaker, crash watcher | answers after timers, retries through the breaker |
| MCP server `mcp-server.ts`, `transports/http.ts` | HTTP sessions, the device's connection and each session's interceptor | POST, batch, delete; call of a tool | agent, tools | calls of several sessions over one connection |
| Device boot `tools/device-boot.ts`, `device-shutdown.ts`, `simulator/lifecycle.ts`, `proxy-manager.ts` | device, session entry, proxy process, port, connection | boot, shutdown, restart of the proxy | simctl, proxy process | a proxy that dies while it is started or stopped |
| Device network `tools/device-network.ts`, `simulator/network-blockers/` | offline devices, one rule of the host's packet filter | set, get, reconcile, cleanup | pfctl, exit handlers | commands that fail late, crashes, two calls at once |
| Input routing `input/` | probed tiers, caches, one Flutter resolution | resolve, tap, swipe, type, key | HID bridge, simctl, Safari, Dart VM | probes under way, tiers that appear and go |
| Tabs `simulator/tab-pool.ts`, `session-manager.ts` | tab, target and connection per QA session | open, close, dispose | Safari, WebKit client | two opens see the same new target |
| Logs, HAR, video `tools/network-log.ts`, `tools/console-log.ts`, `network/har-collector.ts`, `tools/app-record-video.ts` | collectors by session, captures, processes by device | start, read, stop | WebKit client, simctl | events out of order, a recording that dies, two stops |
| Tools for apps `tools/app-*.ts` | locals of the handler; the accessibility tree | taps, alerts, navigation, reading, settings, typing, launch, reset, profiles | input routing, AX bridge, simctl, Flutter VM | the app moves between look and press; what is borrowed has to be given back |
| Flutter tools `tools/flutter-*.ts` | subscriptions, trackers, breakpoints, a proxy per device | connect, logs, rebuilds, breakpoints, memory, timeline, network | VM service client, Dart VM | isolates and connections that change under what is remembered |
| Browser tools `webkit/browser-commands.ts`, `tools/*.ts`, `auth/` | locals; profiles on disk | navigate, click, type, wait, cookies, save and restore logins | WebKit client | the page turns between two scripts |
| Scenario runner, hybrid QA `orchestration/scenario-runner.ts`, `qa/hybrid-*.ts`, `tools/` | results per step and device | run, assert, compare, scan, verify | pools, tools | steps that fail on some devices |
| Evidence `tools/debug-bundle*.ts`, `app-crash-reports.ts`, `app-screenshot-native.ts`, … | sections gathered side by side | gather, list, capture | simctl, host files | parts that fail, reports that vanish |
| AX bridge recovery `native/ax-bridge-recovery.ts` | attempts, report | dumpTree | Swift bridge | a tree that is poor, late or another app's |
| Monitors, graceful shutdown, rate limiter, request queue, detectors, reports, comparison, metrics, audit | little | – | – | – |

How they meet: `cli/index.ts` wires one simulator pool, batch executor, workflow
engine, crash watcher and shutdown handler into one MCP server. Tools call the
pools, the engine, the barrier and, per device, a WebKit or VM service client. The
pools mirror what they boot into the session manager and into the registry file,
which is all that the processes of a machine share. The engine writes a file per
workflow and reads them all when it starts.

### What makes each correct

* *Barrier*: nobody waits for ever, and "all arrived" is said only when all have.
* *Pools*: no simulator is leaked or handed out twice, what is listed is alive,
  every call returns, devices do not share ports.
* *Breaker*: it stays open through its cooldown, lets a bounded number of probes
  through afterwards, and is not stuck half-open.
* *Registry*: calls of different processes do not lose each other's entries, never
  hang on what a dead process left, and cleanup kills only what is orphaned.
* *Workflow engine*: the verdict agrees with the workers' ends, the file with the
  memory, and no report is lost in the lock.
* *WebKit client*: one reconnect loop, no request waits for a socket that is gone, a
  loss is noticed, a reconnect ends.
* *VM service client*: every call settles, tells the breaker once, and no session is
  left without somebody who notices its loss.
* *Server and what calls share*: calls of several sessions leave the page with rules one
  of them set; tabs, listeners, captures and recordings belong to somebody who can end
  them; a device that is recorded as offline is, and the host is not cut off for nothing.
* *Input*: tiers are taken in their order, and what was confirmed has arrived.
* *Tools*: what a call says it did or saw is so; a refusal has touched nothing; what was
  borrowed is given back; data that a call takes away has been kept; the call ends.

## Plan

| # | Modules | State |
|---|---|---|
| 1 | StepBarrier | done, proved |
| 2 | SimPool, WarmSimPool (extends it) | done, proved |
| 3 | CircuitBreaker, SimulatorPool | done, proved |
| 4 | DeviceRegistry | done, proved |
| 5 | Mutex (abstract), WorkflowEngine (implements it) | done, proved, refinement included |
| 6 | WebKitClient | done, proved |
| 7 | VmServiceClient (extends CircuitBreaker) | done, proved |
| 8 | ToolCall, and on it TapTools, AlertTools, NavTools, ReadTools, SettingTools, AppTools | done, proved |
| 9 | ScenarioTools, FlutterTools, QaTools, BrowserTools, EvidenceTools, on ToolCall | done, proved but for the list of routes |
| 10 | McpServer, InputRouting, TabPool, Captures, NetworkBlock | done, proved (NetworkBlock for calls one at a time) |
| 11 | DeviceSession | done, its port proved |
| 12 | the crash watcher's own table; the list of routes, for every file | open |

Abstract specifications worth stating besides `Mutex`: a barrier as one atomic
"everybody or timeout" step; the registry as a map that calls change in one step; a
pending-call table that settles each call once, which both the WebKit and the VM
service client should implement. The safety invariants that the runs check are all
theorems now, `ClaimsAreTrue` but for one tool; open is a refinement of one of these.

Everything is written so that it can be proved about: no RECURSIVE operator, one
action per stretch between two awaits, invariants of named parts.

## The models

### StepBarrier

`barriers` is the private Map: per step the expected and arrived devices, the
resolver of each device and whether the timer runs. A call is one `barrier_wait`;
`verdict` is what it resolved with. Actions: `Wait` (arrive, release, or block and
arm the timer), `HandleTimeout`, `Clear`, `ClearAll`. Status is a query.

* In `host` (3 devices, 2 steps, 3 calls): no blocked call is stranded
  (`WaitersAnswerable`), every one is answered.
  Three calls are enough for a timeout, a second round and a clear to meet.
* Proved: `TypeCorrect`, `NoWaiterStranded`, `VerdictsAreHonest`. The strengthening says that a taken
  resolver slot belongs to an arrived device, so a new waiter never overwrites one,
  and that slots and waiting calls correspond. A waiter's entry is never complete, so a
  timeout or a clear, which answer waiters only, always name somebody missing.

### SimPool and WarmSimPool

A call of `acquire()` is a process: `pc[c]` names the await it is at (`queued` at
the mutex, `woken` by it, resolving a master, shutting it down, cloning, booting,
polling, `held`, …). `device[c]` is the simulator it makes, `masterUp` the
masters, `releasing` a release under way, `closing` shutdown(). simctl fails at any
await, before or after it took effect; `simctl clone` may also answer with something that is no
UDID (`Garbled`), and what the catch then deletes has no such name. A simulator that simctl made
and the pool has no name for is a `stray`. `lock` is AsyncMutex as written: `release()` clears the flag and resolves the
oldest waiter, which sets it again in a microtask of its own.

WarmSimPool extends it: each `SimPool.acquire()` that the warm pool awaits is a call
there, and `role` says which method resumes when it settles.

* `clone_pool` (1 preset, 3 calls, cap 2): no lost wakeup at the mutex, no clone is
  forgotten that the pool has a name for, acquires end. One preset
  is enough as presets share only the cap and the masters, which no checked property
  compares: `WaitersHaveAWaker`, `NoOrphan`, `AcquireSettles`. The constraint `Trimmed` lets only one of the calls, an arbitrary one,
  be kept on request or resist deletion; the other two meet it.
* `warm_pool` (1 preset, 2 calls, targets up to 2): what is ready is alive
  (`ReadyIsAlive`), refills end. That every managed clone has an owner
  (`ManagedHasOwner`) is proved only.
* Proved of SimPool: `NoLostWakeup`, `ManagedClonesBooted`, `NoCloneForgotten`, from
  a strengthening of three parts: what is queued is waiting, once, and of that
  preset; a queue that is not empty has a holder or a woken call; and what the stage
  of a call says about its device, its release and its being managed.
* Proved of WarmSimPool: `WarmClonesAlive`, `WarmClonesOwned`, `WarmOnce`, and `WarmKeepsPool`,
  that the three invariants of SimPool hold under it. A step of WarmSimPool is a step of
  SimPool with changes of its own, or a change of its own alone, so `IInv` is kept as it is;
  `WarmInv` adds, per call, which method awaits it (`RoleInv`), that a queued clone is held
  by nobody, managed until the drain begins, and queued once (`KeptInv`), that a managed
  clone has an owner until the queues are dropped (`OwnedInv`), and that what a warmUp()
  waits for is awaited by no other (`BatchInv`).

### CircuitBreaker

`state`, `failureCount`, `attempts`, and `age`, the ticks since it opened, up to the
cooldown. `op` says of every caller whether it is in an operation and whether the
current half-open episode let it in. Two kinds of callers: batch.ts and
`callMethod()` both ask, work, and report success or failure. The crash watcher
trips and resets it. Each kind has a registry of its own in the code; a breaker of the
model meets the steps of both, which allows more.

It has no run of its own: VmServiceClient extends it and takes its steps, and the run
`vm_client` checks what depends on the caller: that whatever the breaker let through is
reported, and that a half-open one is decided. What it promises is proved for any caller:

* `ClosedIsBelow`: no path into closed leaves a full count behind;
* `CooldownIsKept` (an action property): an outcome reported late never closes an
  open breaker within its cooldown, only reset() does;
* `ProbesAreBounded`: a half-open episode lets no more probes through than it may. The
  strengthening ties probes to the episode: there are none in any other state.

### VmServiceClient

`sock` is each socket ever made, `ws` the current one; `session` is the `state` object
(none yet, connected or not); `wantOpen`, `reconnecting` and `beating` are the fields of
that name and the heartbeat's timer. `reply` is a request's promise, waiting while
`pending` has it. `job` is a caller's connect() or callMethod(), or a run of
attemptReconnect(), and the await it is at. A job has one request at a time, so requests
are named after jobs, and `op` of the breaker says whether that request asked the
breaker; the heartbeat and the subscriptions do not. Actions are events (`Open`,
`Close`, `Answer`, `TimeOut`, `DialTimeOut`, `Heartbeat`, `Wake`, calls) and the
continuations of promises that a close or disconnect() settles (`Resume`, `NotOpened`,
`GetVM`); `Quiet` makes the continuations run before the next event, as microtasks
do. `Crash` and `Recovered` are the crash watcher's. After `Crash` the model goes on
with the same client where the code would make a new one when asked.

* `vm_client` (1 caller, room for 2 runs of attemptReconnect(), 2 sockets, 2 attempts,
  threshold 2, cooldown 1, 1 probe): `ReportsAreOwed`, whoever was let through reports
  once, whatever becomes of the request, and a step that drops one in silence would leave the
  breaker half-open for good; `HalfOpenIsDecided`; `WaitsAreHeard`
  (below); `CallsSettle`. Two sockets let the events of an old one meet the new
  one; a second run is there because disconnect() clears `reconnecting` under the
  first (`vm-service-client.ts:252`). `RoomForLoops` cuts where a third would begin.
  One caller is enough: callers meet in the breaker, where the runs' getVM() requests
  are the others.
* Proved: `ReportsOwed`; `ClientProbesBounded` and `ClientCooldownKept`, from the theorems
  about CircuitBreaker; `ClientTypeCorrect`; `WaitsCorrect` (a
  request that waits has a socket that can answer it or a close to come) and
  `WatchedCorrect` (a session that says "connected" is watched). The strengthening says
  that while a request waits or a session is up, the current socket has not reported
  its close, and that between a session and its heartbeat there are only the
  subscriptions of connect().

### SimulatorPool

`boot` is a bootAll() with the presets left to boot, `step` how far each device of it
is, `sequence` the bootSequential() run, `shut` a shutdownOne(), `closing`
shutdownAll(). `ports`, `nextPort`, `pool`, `sessions` (what the session manager was
told) and `registry` are what they share. A preset stands for the device it boots.

* `simulator_pool` (3 devices, batches of 2, one bootAll, one sequential run, one
  shutdownOne, one shutdownAll, in the middle of boots): no running device is forgotten;
  all calls end. Three devices and batches of two
  make a full and a partial batch. `OneMeeting` lets the sequential run meet
  bootAll() over one device only: it is a `for` loop that never handles two.
* Proved: `NoneIsForgotten`, `PoolIsTracked`, `PoolTypeCorrect`, and `PortsAreUnique` (ports
  are given out in order, so each is below the next one). A bootAll() boots only between its
  first batch and its end, the sequential run only the device it is at, and what a call has
  pooled is among the results it hands to the session manager.

### DeviceRegistry

A registry call runs synchronously in its process, so what interleaves between
processes is file operations: mkdir of the lock, its info file, reading, truncating,
writing, unlinking, rmdir. `lock`, `file` and `torn` (truncated and not yet
rewritten) are on disk and survive deaths; `mem` and `pc` do not. `claim` is a history
variable: what each process has successfully registered. `disturbed` becomes TRUE when
a lock is taken away from its holder, a call goes on without one, or its holder dies.
A lock looks stale when its owner is dead, when its info file is missing, or when it
has become old, which happens to any lock at any time.

* In `devices` (2 processes, 1 device): `EntriesKept` while
  undisturbed, and `CallsEnd` always. Two processes interleave at every file
  operation, one of them may be the remains of a dead one. `CallsOnly`: once
  disturbed, the conditional invariant says nothing and only the calls themselves
  matter to `CallsEnd`, so cleanups stop there.
* `registry_safe` (violation; 3 processes, and `LockWorks`: even when no lock is ever
  lost): a cleanup shuts down a device that a live session has registered since the
  partition (`zombie-cleanup.ts:417`).
* Proved: `LockExcludes` (mutual exclusion by the lock directory, for any number of
  processes), `NoEntryIsLost`, `NoLiveOrphan` (what a partition adds to its orphans
  never includes what a live process has registered by then). The strengthening says
  who holds the directory at each file operation, and how what a holder has read or
  is about to write relates to everybody's claims.

### WorkflowEngine and Mutex

`flow` is the object, `kept` the ids in the engine's map, `disk` the files, `run` a
sequential run and the worker it is at, `call` a completeWorker(), failWorker() or
retryWorker() and how far it is at `completionLock` (`locked`, `queue`). A run keeps
the object although cleanup has removed it from the map. A restart drops what is in
memory and reloads the files; what was running is relabelled `partial` in memory
only. Any save may fail, and leaves the old file or a torn one, which reads as none;
`persistWorkflow()` logs it and goes on (`workflow-engine.ts:139-145`). `behind` is a history
variable, the workflows whose last save failed; no action reads it. `PromiseMutex` hands the lock over without clearing its flag, unlike SimPool's.

* `workflow` (1 workflow of 2 workers, 3 calls, 2 attempts): `EndedIsJudged`, always;
  `DiskFollowsMemory`, of workflows whose last save worked, however many failed before;
  `NoFalseSuccess`, but for a restart that takes an old file at its word; and that the engine's lock implements the
  abstract `Mutex` (`LockIsFair`: one owner, in the order of asking, nobody after a
  restart), and all calls and runs end. Workflows share only the lock, so one is
  enough for the verdicts; `SomeReports` has one worker that is retried and one that
  gives up; `CrowdIsAlike` lets a third caller in to wait in line, not to do
  something new; `FewAreBehind` lets a file that is behind meet the sequential run or
  one report at a time, as calls that wait for the lock neither read nor write it.
* Proved: all four safety properties, the refinement of `Mutex` among them, and the types.

### WebKitClient

Transport, target session and client in one module, as their state is tangled: a
socket event of the transport rejects requests, clears targets and starts the
reconnect loop of the client. `sock` is each socket ever made, `ws` and `up` the
transport's current socket and `_connected`. `reply` is the promise of a request:
commands of callers, `Page.enable`-like requests of a connect, probes of heartbeats.
`known`, `active`, `announced`, `ready` and `waiter` are the target session;
`connected`, `timer`, `intervals`, `fails`, `reconnecting` the client. `job` is a
caller's or a reconnect loop's asynchronous call, and the await it is at.

* `webkit` (1 caller, room for 2 reconnect loops, 1 page, 1 domain, 2 sockets, 2
  attempts, failure threshold 2): one loop at a time, no request waits when no socket
  is left to answer it, the heartbeat is on while the client says it is connected, a
  loss is noticed, a loop ends. Two sockets are enough for the events of an old one to
  meet the new one; `Loops` has room for a second loop so that `OneLoop` can fail.
  Deadlock is checked. `CallersWait`: a caller may connect and send during a reconnect
  but not enable a domain, which would ask for what the loop asks for.
* `webkit_stuck` (violation; 3 sockets, no domain, threshold 1): a socket that is
  refused while an earlier one is open stops the connect timer and rejects nothing
  (`protocol-transport.ts:176-183`), so the attempt never settles and `reconnecting`
  stays true. The earlier socket may be one whose connect() had timed out
  before it opened, or one left open by an attempt that found no page.
* Proved: `ReconnectsOnce`, `ActiveKnown`, `WaitsEnd`, `Watched`. Inductive together
  with the types; the parts that lose a connection are lemmas of their own.

### Compositions: MCHost, MCDevices, MCToolCalls

Modules that share no state are checked by one run: `MCHost` and `MCDevices` declare
`part`, which says whose behaviour this is, and a step of one part leaves the others'
variables alone. So the states of a run are the union of its parts', not their product.
What a part does not vary is pinned by its initial states (`Poorest`: without the input
part the host has no backend but the last; outside the logs the one log tool is that of
the network). `Typical` picks the hosts that differ: those with the bridge, those
without it, and among these the ones with simctl's input, Safari, or neither.
`MCToolCalls` runs one call of any tool; the tool says whose module's steps apply.

### NetworkBlock

`mode`, `host`, `pf`, `handler` and `reconciled` are the server's, `rule` is the host's, and
`calls` the handlers, each at one of its awaits. A command takes effect in its await or
not and may fail either way (`MaxFaults`). The server crashes, or ends by a signal with its
cleanup, and starts again; the rule stays. `lapses` notes which commands of this server have
failed, and whether they took effect all the same.

* In `host` (1 call at a time, 5 in all, 2 devices, 2 ends of the server, 1 failure):
  `OfflineIsBlocked`, a device recorded as offline is, unless a flush was reported as failed
  and took effect; `BlockHasAReason`, nobody is cut off without one, whatever failed, but for
  a reconciliation that failed and a load that was reported as failed and took effect
  (`LeftBehind`). Five calls are two devices going off and on again and one look.
* `offline_race` (violation; 2 calls at once, no failure): the second call passes the
  first one's reconciling, and is answered before the flush takes its rule away.
* Proved: `OfflineBlocks` and `BlocksForAReason`, for any devices, ends of the server and
  failures, of the behaviours in which at most one call is in flight (`OneAtATime`, a
  hypothesis of the theorem, not of the model). It cannot be dropped: `offline_race` is the
  counterexample. `NetInv` says what the call has found or done by the await it is at
  (`Found`), and that what the process believes of the rule is so but for what that call
  is about to put right (`Believed`).

### McpServer

Messages of several HTTP sessions, one `handleMessage` each, and a batch of two. What
they share is the device's connection, the page that it is on, and the rules in the pages; each
session has an interceptor. Writes of a client go over one socket in order, each to the page
that the connection was on when it was sent. set_active_context and app_webview_connect make a
connection where there is none; the former moves the one there is to the page it was asked for
(`set-active-context.ts:105-123`), and the rules stay behind, as nothing injects them again. `disturbed` becomes TRUE when the two part: rules or writes are there and the page
is loaded again, a write fails, the connection or its page changes, or a session ends.

* In `host` (2 messages at once, 3 in all, 2 clients, 2 pages, 1 client made by another tool):
  `PageFollowsRules`. Between calls the page the connection is on does what one
  interceptor holds, so no answered call is undone by an older one still on its way; that the
  page keeps them after such an event is not promised, and is not so. `Undisturbed` ends
  a run there.
* Proved: `PagesFollowTheirRules`, for any sessions, messages and batches. The socket is a queue,
  so what the page will hold once it is empty is its last write (`Written`), and that is what
  one of the interceptors holds; every write has a message that waits for it, so the queue is
  empty between calls.

### InputRouting

`env` and `around` are the host, `found` the caches of the resolver, `vm` the Flutter client
and its shared resolution, `ask` the calls. Probes for the bridge end before anything
else happens (`Probing`), as they await nothing outside.

* In `host` (2 calls, 1 change of the surroundings): `InputIsRouted`. Two calls are
  enough for one to come while the other probes. A call that met another's probe is
  excepted: it goes on as if there were no bridge (`backend-resolver.ts:197`).
* Proved: `TiersKeepTheirOrder`. The invariant adds what an await stands for: a call that
  waits below the bridge has met a probe or found none, one that reconnects has seen simctl
  fail, and one that aims at the screen goes by AppleScript.

### TabPool and Captures

TabPool has the pools of one device (a shutdown ends one, the next call makes another),
Safari's targets, connections and sessions; a call is one qa_session_create or _destroy.
Captures has three systems that never meet: `log` (collectors by session, one listener
per client), `har` (captures and the hops of a request) and `film` (processes and the
entry of the device).

* In `host`: 3 calls on tabs, 2 tabs, 2 pools (`TabsAreHeld`: a connection, its session
  and its tab stay together); 2 sessions with 1 collector, buffers of 2, 2 events
  (`LogsHear`); captures of 2 entries, 2 starts (`HarIsTrue`); 4 calls of
  app_record_video, 2 starts (`FilmsAreOwned`). One more call or tab than there is room
  for is what lets the limits be met. Each has a mutant of its own. What they except is in
  the hazards of `PROJECT.json` as known not to hold.
* Proved: `TabsKept`, `LogsHeard`, `HarTold`, `FilmsOwned`, from one inductive invariant per
  system. `TabInv`: a listed session has its tab and its connection, a tab that is opened
  belongs to the call that opens it, a closed one has left. `LogInv`: what a collector hears
  are the listeners of the client it is attached to, once each. `HarInv`: which hop of a
  request each entry is of, and that a body is fetched only for an ended request that has
  an entry. `FilmInv`: unless two calls were stopping one recording, the one that runs is
  the one in the map, and one call at most waits for it; a call that stops knows its process.

### DeviceSession

One device: `dev`, its session entry `known`, its port `reserved`, the managed and the pending
proxy, proxy processes with their restart timers, the connection, and calls of
device_boot and device_shutdown (`book`).

A proxy's process ends some time after it got its signal, or by itself. stop() is over when
the process has ended, when three seconds have passed (`StopTimeout`: this stop only), or at once,
where other sessions use the process (`proxy.ts:300-330`); each stop then gives up the port and
what is managed, also when that is another proxy by now (`proxy-manager.ts:140-148`).

* In `devices` (2 calls at once, 2 in all, 1 restart, 1 crash of the proxy): `PortFollowsProxy`,
  a reserved port has a proxy that starts or is managed, and is given up under such a proxy
  only by a stop that another stop of the same proxy has overtaken;
  `BookersReturn`, every call comes back. Two calls are a boot and a shutdown, or two
  of a kind; a crash at any step meets each.
* Proved: `PortFollows`. A proxy whose first start goes on is the one
  the manager waits for, and it waits for none while it has one; a stop that has not been
  overtaken is of the proxy that is managed.

### ToolCall and the tools

A handler is a record: the tool, its options, the await it is `at`, the answer `out` and its
locals. It begins in any state of the device, with any of its options. `world` is what the
tool acts on, and goes on by itself: apps react late, drift, leave; pages turn; isolates are
replaced; mail arrives. Awaits throw where the code's can. Each module names its data
abstraction in its header; the size of the abstraction is what its property tells apart.

| Module | Tools | What is asked of them |
|---|---|---|
| TapTools | taps, double taps, swipes, scrolling | a refusal pressed nothing, and has moved the screen only by autoScroll; a verified effect was seen; putting the app into the background is told |
| AlertTools | app_handle_alert, app_alert_handle | each dismissal counted had an effect |
| NavTools | app_pop_until, app_goto_screen, app_dismiss_… | a route or an overlay is as the answer says |
| ReadTools | app_tree, _query, _inspect, _wait_for, _assert…, _context, _state_snapshot | what was found was in the app in front; "stable" was observed |
| SettingTools | dark mode, orientation, keyboard, typing and paste, the setters | what is said to be restored is |
| AppTools | launch, activate, switch, reset, deep links, push, biometrics, one-time codes, native login state | data is kept before it goes; a restore is whole; the device is given back unless a command that failed took it down or would not boot it; a code is of the newest mail |
| ScenarioTools | run_scenario, assert_all_devices, compare_devices, hybrid_qa_start | verdicts are earned on each device; no cookies stay |
| FlutterTools | flutter_connect, logs, rebuilds, breakpoints, memory, CPU, timeline, widgets | a pause that is told was one; no listener and no recording stays |
| QaTools | touch targets, semantics, audit, routes, flutter_network | findings agree with the tree, schemes with the file, one entry per request; a stopped proxy is gone |
| BrowserTools | navigate, click, type, wait, cookies, auth_save, auth_restore | what is claimed of a page, a field, a cookie or a profile is so |
| EvidenceTools | pictures, crash reports, logs, debug bundle, diagnose, the Notes link | sections tell what they got; an error stays one; the clipboard and status bar are given back |

* `tool_calls` (bounds of 2 throughout, 3 polls): `RefusedIsUntouched`, `ClaimsAreTrue`,
  `SaidIsUndone`, `StateIsNotLost` (conjunctions with a part per module, defined in
  `MCToolCalls.tla` or in the module they are of), and `ToolCallsEnd`. Two screens, pages,
  alerts, fields, reports or devices tell "the one" from "another"; two changes let
  the world turn away and back between two looks; three polls have one in between.
  One call at a time: calls meet in what the modules above share.
* Proved of `ToolsSpec`, for any devices, steps, trees, fields, cookies, listeners and
  bounds: `RefusalTouchesNothing`, `StateIsKept`, `WhatIsSaidUndoneIs`, and `ClaimsHold`, which
  says `ClaimsAreTrue` of every call but one that has answered with the list of routes. Each
  module has an inductive invariant (`TapInv`, `AlertInv`, …) which says what the call has
  noted by the await it is at; `ToolsInv` says that the invariant of the module of the called
  tool holds. A step never changes the tool (`SameTool`), and the modules' tools differ
  (`Owners`), so the steps of the other modules need nothing. To reset an app is to keep three
  things in step: what the archives hold, what the container holds, and what the device
  was when it was taken down (`KeptInv`, `PutBackInv`, `DownInv`). Of a page, what was said to be
  set must survive that the page is loaded again, or goes on by itself (`PageInv`).

## Fairness

Weak fairness only, and only on what the runtime owes: continuations of settled
promises run, timers fire, `simctl` commands and file operations return (they have
timeouts in `simctl.ts`, or are synchronous). None is given to agents' calls,
failures, deaths, crashes, restarts, Safari, the proxy, or the HTTP list of targets
(`httpGet()` has no timeout, `client.ts:559`): `LoopsEnd` and `ReconnectEnds` name the
wait for that list as an excuse. A registry call's fairness is per process while it
lives. In VmServiceClient, requests, dialling and discovery have time limits, the
delays of attemptReconnect() end, and a socket that is told to close reports it;
answers and other closes are owed by nobody.

In DeviceSession a call and a proxy's start, stop and restart timer go on; crashes need not
come. In the tool modules the handler (`ToolsStep`) goes on because each of its awaits
returns, throws or runs into a time limit (`execFile` timeouts, `withTimeout`, the VM
client's and the WebKit client's request timers, poll loops with deadlines); nothing is
owed by the app, the page or the user. One await has no such limit: the stop of the HTTP
proxy waits for connections the app may keep (`flutter-network.ts:487`), so `ToolCallsEnd`
excepts that place (`clients`). Barriers owe their timer only. A call of the barrier
blocks at most once and there are finitely many, so `EveryWaiterIsAnswered`, which says
that again and again nobody waits, says that nobody waits for ever. NetworkBlock, McpServer, InputRouting, TabPool
and Captures are checked for safety only.

`CHECK_DEADLOCK FALSE` where a bounded number of calls may be used up and the
system then rests; WebKitClient never rests and is checked for deadlock.

## Proofs

Every theorem is `Spec => []Inv` or `Spec => [][A]_vars`, for all values of the
constants under the assumptions named in the modules: bounds are positive, sets of
calls, operations or clients are finite where they are counted and not empty where one is
needed, `None` is not a call. Two theorems about NetworkBlock have a hypothesis on the
behaviour, `[]OneAtATime`. TLC checked each property first, and each inductive invariant as
an invariant of the run of its module. Those the theorems alone
still state are `BlockedVerdictIsHonest`, `ManagedHasOwner`, `PooledIsTracked`, `OneHolder`
and `PartitionIsExact`. The proof of a step goes through the actions one by one; updates of records have a lemma that says which
fields keep their type, and a step that every action of a kind takes (go on, answer, throw)
has one that says what it leaves alone.

| Module | Theorems | Inductive invariant |
|---|---|---|
| HostProofs | TypeCorrect, NoWaiterStranded, VerdictsAreHonest; OfflineBlocks, BlocksForAReason; PagesFollowTheirRules, TabsKept, LogsHeard, HarTold, FilmsOwned | IInv; NetInv; McpInv, TabInv, LogInv, HarInv, FilmInv |
| SimPoolProofs | TypeCorrect, NoLostWakeup, ManagedClonesBooted, NoCloneForgotten; WarmClonesAlive, WarmClonesOwned, WarmKeepsPool, WarmOnce | IInv; WarmInv |
| VmServiceClientProofs | TypeCorrect, ClosedIsBelow, CooldownIsKept, ProbesAreBounded; ReportsOwed, ClientTypeCorrect, WaitsCorrect, WatchedCorrect, ClientProbesBounded, ClientCooldownKept | TypeOK, ProbeInv; FieldsOK, ClientInv |
| DeviceProofs | TypeCorrect, LockExcludes, NoEntryIsLost, NoLiveOrphan; PortFollows; TiersKeepTheirOrder | LockInv, RegistryInv; PortInv; InputInv |
| WorkflowEngineProofs | TypeCorrect, EndedWorkflowsAreJudged, FilesFollow, SuccessIsReal, PromiseMutexIsMutex | IInv |
| WebKitClientProofs | TypeCorrect, ReconnectsOnce, ActiveKnown, WaitsEnd, Watched | Inv |
| ToolProofs | PoolTypeCorrect, PortsAreUnique, NoneIsForgotten, PoolIsTracked | PoolInv; TapInv, AlertInv, NavInv, ReadInv, SettingInv, AppInv, CodeInv |
| ToolCallProofs | RefusalTouchesNothing, StateIsKept, ClaimsHold, WhatIsSaidUndoneIs | ToolsInv: the above, ScenarioInv, FlutterInv, QaInv, BrowserInv, EvidenceInv |

A module of proofs may hold those of several components: of MCHost's parts; of the clone pool
and the warm one on it; of the breaker and its client; of the registry, the device session and
the input; of the simulator pool and the tools.

What the proofs changed in the models: `Captures` moves a collector to the end of its Map by
position (`ToTheEnd`), `ToolCall` builds a call field by field (`NewCall`), McpServer
assumes that there is a client, and SimulatorPool's bound is called `MaxSimulators`. None of these
changes a behaviour.

## Only model-checked

Liveness of every module: TLAPS has no ENABLED. Of `QaClaims`, that the schemes an answer of
app_list_routes lists are those of the file: that is what a recursive function over the file's
tokens computes, for every file, and needs induction over data; the run checks it on small
files. The constraints named above bound runs, not proofs.

## Where the code departs from its comments

Shown by a run: the three violation runs above. Met while modelling, kept in the models
as the code has them:

* `sim-pool.ts:163`: the cap of clones is checked before the awaits that add one, so
  overlapping acquires exceed `maxClones`, against 149-150.
* `sim-pool.ts:27-28`, 189: one master may serve two presets; the lock is per preset, so
  a clone may be taken of a master that another call boots or shuts down.
* `warm-sim-pool.ts:174-175`, 105: warmUp() and replenish may overfill a queue;
  shutdown() (210-211) does not wait for a refill, and clears its flag
  (226), so that a second one of the preset can begin beside it and both put clones back.
* `sim-pool.ts:195`: a clone command that is killed by its timeout, or prints no UDID, may
  leave a simulator behind that the pool cannot name. Nothing deletes it.
* `flutter-circuit-breakers.ts:9-11` speaks of failures within a window;
  `failureCount` is cleared by a success only.
* `pool.ts:188`: "Peak RAM = 1 simulator", but an openUrl() that rejects
  (`pool.ts:247`) leaves a booted device while the next one boots. `pool.ts:162-164`:
  the registry entry covers the last call's devices only; 166-168 adds a session
  for a device that was shut down meanwhile.
* `zombie-cleanup.ts:27-43`: the lock directory is there before its info file, so a contender
  that looks in between takes the lock away, two calls write at once, and a process can lose a
  device it had registered, against 113-114. 263-271: a process that dies while it writes
  leaves a file that the next one takes for empty. A call gives up after 5 s, a lock is stale
  after 10 s.
* `workflow-engine.ts:227`: a sequential run writes its file again after cleanup.
  139-145: a save that fails is forgotten: the file stays behind, and a restart goes on from
  it. 366-382: `retryWorker()` ignores the budget and the status. 149: ids collide
  within a millisecond (the model takes them to be distinct).
  `workflow-persistence.ts:41-44`: "most recent" is the order of readdir.
* `client.ts:400-402`: domains whose enabling fails are forgotten by later attempts.
  165-171: disconnect() does not stop a running reconnect loop. 322-328: an attempt
  that finds no page leaves its interval and socket behind.
* `vm-service-client.ts:293-298`: the heartbeat bypasses the breaker "to allow the
  breaker's half-open probe path to succeed via the lighter `getVersion`", but what
  bypasses the breaker reports nothing to it. getVM() of connect() is such a lifecycle
  call and does ask the breaker (180, 369): an open breaker makes connect() throw and
  leaves its socket open, and fails the attempts of a reconnect.
* `vm-service-client.ts:793`: a socket that closes after getVM() of a reconnect attempt
  finds `reconnecting` set, so the attempt logs "Reconnected successfully", tells its
  listeners, and nobody tries again: the heartbeat skips a client that is not open
  (814). 101-102 "prevents overlapping retries", but disconnect() (252) clears the flag
  while a run sleeps. 913: each connect() adds another listener of the Isolate stream.
* `crash-watcher.ts:42-54`: a crash does not change `knownStates`, so a device that stays
  down is recovered again every interval, beside the recovery under way; start() knows
  the devices the pool has then, and nothing calls addDevice().

Of the components added later, by place. The properties exclude these cases and say so.

*Barrier and mutex.* A device that has arrived before is told `allArrived` at once, whoever is
missing (`step-barrier.ts:70-73`, against 46-47). A third acquire enters
between release and the woken waiter's microtask (`sim-pool.ts:79`).

*Server, sessions, devices.*
* The rules of a session that is deleted stay in the page; interceptors are kept with and
  without a device id, as two; app_webview_connect takes back another call's connection.
* A device that gets down after the last poll is erased: the second shutdown fails on it, and
  any failure of it leads there (`lifecycle.ts:187-208`, against 122).
* Of two stops of one proxy the first may run into its three seconds and its caller start another
  proxy; the second then gives that one's port up (`proxy-manager.ts:140-148`, the exception of
  `PortFollowsProxy`).
* A restart timer of the proxy that fires during stop() revokes it (`proxy.ts:76`, 365). A failed `simctl delete` leaves the device routed to a closed proxy.
* The end of standard input exits without the shutdown handlers.
* The reconciliation has one attempt, marked as done before it is made: if it fails, what an
  earlier server left stays for the life of this one (`device-network.ts:144-148`, against 51 and
  `docs/tools/device-network.md:132-133`). A load that is reported as failed after it took effect
  stays too. These are the exceptions of `BlockHasAReason`.
* set_active_context moves the connection of a device under the rules of its sessions
  (`set-active-context.ts:105`): they stay in the old page, and the tools say they are on.

*Input.* The HID probe counts as made before its await; a simctl probe that failed is cached
for good; a Flutter client that fails a probe is thrown away under its other users; a swipe
by simctl may be done twice; Flutter and WebKit answer ok to a text no field takes; a text
by HID may be typed in part.

*Tabs.* Opens that overlap exceed the limit; two may take one tab, and the first one's
connection leaks; a tab opened during a disposal is never closed and its session stays
listed; a failed open leaves the tab in Safari.

*Logs, HAR, video.* Listeners pile up, and events of several devices mix, when sessions on
different clients alternate; a session whose collector is evicted loses its log unsaid; a
listener is taken off when an enable fails although the answer was "collecting". A HAR start
that fails leaves "in progress" until it is stopped; a stop during a start leaks listeners;
beyond the cap the hops of a redirect mix; a body may come after the stop. app_record_video
answers "recording" of a process that did not start; a recording that died by itself makes
the stop wait 10 s, fail, and lose the file; two stops may orphan a third call's recording.

*Tools for apps.* A press whose effect shows late is repeated (`app-tap-element.ts:413`); autoScroll
swipes and may refuse all the same (302-346); the typed text stays in the clipboard when the key
chord fails (`pasteboard-input.ts:205`); an archive of the keychains that broke off is named in
the profile (`native-manager.ts:129`), and a simctl shutdown that is answered as failed and took
effect leaves the device down (122, 196). app_pop_until is ok when no page has the name. The orientation check ends in portrait. A
scenario step that names no pooled device passes. Hybrid QA is "completed" after a
failed first phase, does not flag scans that failed, and keeps findings unverified on
devices that are not connected. auth_otp_fetch takes the code of an earlier login that is
the newest yet, and ignores `timeoutMs`.

*Flutter.*
* On one connection, a second start of rebuild tracking, a second heap snapshot, or a
  breakpoint after a hot restart subscribe again and are refused (VM error 103);
  flutter_logs believes itself subscribed after a reconnect.
* flutter_connect to the same isolate leaves a dead subscription and perhaps a stale
  pause; with a bad URL it discards a connection that worked.
* wait_for_pause tells a stale pause while no isolate is known; resume's eager reset may
  lose one; `forgetBreakpointManager` and `forgetAllocationHistory` are never called, so an
  allocation baseline outlives its isolate.
* Starts that overlap leak a listener or a proxy server; the proxy's stop may wait for
  ever on an open WebSocket; an answer that breaks off is never logged.
* A timeline set that timed out but took leaves recording on; stop of rebuild tracking says
  so though disabling failed.

*QA checks.* checkDarkMode of the full audit does not restore after a failure;
an `<array/>` for LSApplicationQueriesSchemes makes the next array be taken.

*Browser.* navigate may answer with the old document still there, so auth_restore may write
into the old origin; a click on a hidden element presses the page's corner; type and select
answer ok without an element; typing with a delay appends where the fast mode
replaces; clear_cookies by script leaves http and deep cookies, and says "cleared"
when it saw none; the fallback of setCookies makes httpOnly ones readable; the fallback
of the screenshot takes the first booted device; auth_save mixes two pages.

*Evidence.* The status bar stays overridden after a failed capture; the URL for Notes stays on
the clipboard when Cmd+V fails, the paste may come after the clipboard was given back, and
a stale path or a host-only link may be tapped; the bundle names a log file that was not
written, and an unreadable directory reads as no crashes; a report deleted between listing
and stat fails app_crash_reports; diagnose, called read-only, taps on Xcode up to 16, and
finds simctl available whatever happened, as `err.status` is never set.

## Not modelled

Listed in `PROJECT.json` with reasons. Briefly: simctl, Safari, the proxy process, the Dart VM
and macOS (their answers are nondeterministic); the Swift bridges; scripts that run in the
page; formatting, reports, comparison and metrics, which nothing decides upon; the wording
of errors; time other than as "has passed" or ticks.

In the modelled modules: `renavigateOnReconnect` (nothing sets it), the 100-file limit and the
id format of workflow files, event listeners of the transport that only log, the URL
cache of the VM service client, the crash watcher's own table and the boot it waits for; event
streams and the removal of idle HTTP sessions, tool tiers and lists, the audit log; the
session manager's rehydration; the cookie isolation of tabs, which only hybrid QA turns on; the
restart of the AX bridge process.

Nothing in the sources calls: the rate limiter and the request queue, lazily loaded tools,
`queryWithRecovery` and `pressWithRecovery` (`ax-bridge-recovery.ts:351` would press again after
a timeout), `discoverExistingTabs`.
