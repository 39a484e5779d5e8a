# TLA+ verification of the bot manager

The program keeps Telegram and Max bots running on a small fleet of nodes. Operators say what they
want through `ctl` or the control API, both write rows of a shared store, and on every node an agent
compares the rows with the processes it supervises and acts. Custom bots have an OS process of their
own; the default bots of a node share one `bot-runner` process, which reads the same rows and keeps an
instance per bot. There are no messages between the parts: the store is the only thing they share,
every store call is atomic, and nothing is atomic across two of them. Almost everything that can go
wrong goes wrong between two store calls.

`CustomRuntime` and `BotRunner` model the two kinds of bots with all that acts on them: agents, runners,
the requests that start, stop, move and PATCH them, and the health checker; `Registry` the
requests that make, move and change rows; `SharedStore` why a store call may be taken to be atomic,
and how a change wakes the agent; `LeaseStore` and `RestartPolicy` two mechanisms with real clocks that
the others use. Eight proof modules prove the main properties for every number of nodes, processes,
clients and requests.

## 1. Inventory

| Part | State it keeps | Operations | Talks to | Hard because | Correct when | Module |
|---|---|---|---|---|---|---|
| Store (`internal/store`, `memory`, `postgres`) | rows of nodes, bots, runtimes, events; with memory in a flock'ed file, with a copy per process | create, read, update per row; compare-and-set of the lease | everybody | only one call is atomic; the file is truncated and rewritten in place | a call is all or nothing and finds what others left; unique keys hold | `SharedStore`, `AtomicStore` |
| Watchers (`internal/watch`, `postgres/notify.go`) | what was seen last, one pending signal | poll or LISTEN, coalesced signals | agent loop | changes between two polls, signals during a pass | what is noticed is read by a pass | `SharedStore` |
| Lease (`internal/lease`) | `lease_owner`, `lease_until` of a runtime | `Holds`, `Acquire`, `Renew`, `Release` | store | reads and clocks are old when used | one holder at a time, a dead holder blocks for a TTL only | `LeaseStore`, `AbstractLease` |
| Restart tracker (`reconcile/restart.go`) | attempts, planned restart | `recordFailure`, `resetAfterSuccess`, `clear` | agent loop | the same failure is reported on each tick | bounded attempts, exponential waits | `RestartPolicy`, `AbstractRestart` |
| Agent loop (`reconcile/loop.go`, `cmd/agent`) | locals of one tick | `Tick`, `Shutdown` | store, lease, supervisor | works on rows read at the start of the tick; killed or stopped at any point | row, bot and process converge; never two processes | `CustomRuntime` |
| Supervisor (`internal/supervisor`) | one slot per runtime: process, `done` | `Start`, `Stop`, `StopAll`, `Snapshot`, `Forget`, `waitProc` | OS | processes end by themselves; signals fail; the map dies with the agent | every process it started is in a slot | `CustomRuntime`, `BotRunner` |
| Bot-runner half of the agent (`reconcile/runner.go`) | runtime of kind `bot_runner` shared by the default bots of a node | create, bind, derive the desired state, start, stop, restart when crashed or unhealthy | store, supervisor | everything is derived from a list already old | the runner runs when a default bot wants it | `BotRunner` |
| Bot-runner (`internal/runner`) | instances by fingerprint | `Sync`: remove, reload, start | store, messengers | the list may be older than a stop or a migration; dies at any point | each wanted bot is served with its present configuration, no other is | `BotRunner` |
| Health checker (`internal/health`) | consecutive failures per bot | `Tick` | store, HTTP | writes `failed` by an old list | only sick bots are failed | `BotRunner`, `CustomRuntime` |
| Operations (`internal/ops`) | none; a request is a sequence of store calls | `Start`, `Stop`, `Migrate`, `CheckBotLimit` | store | two requests interleave; a request may give up anywhere | bot and runtime rows agree | all three |
| Control API, `ctl` | none | create, patch, start, stop, migrate | ops, store | whole rows written back as they were read | rows fit together; the limit holds | `Registry` |
| Node status (`Heartbeat`, `cmd/drain-node`) | `status` of a node | heartbeat, drain, register | ops, store | read, then write | a drain is not undone, and empties the node | `Registry` |
| Messengers and scenarios, configuration, metrics, doctor, handoff, SQL migrations, web UI | nothing that others decide on | I/O, formatting | | | | - |

The hazards, each at its line with the properties about it, are in `PROJECT.json`. They come in five
kinds. A tick, a pass of the runner, of the checker or of `drain-node` acts on rows that have changed
since they were listed. A whole row is written back as it was read. An agent, a runner or a client
ends between any two calls. Two requests interleave between their writes of a bot and its runtime, or
between a count and the write that relies on it. A lease is checked on one clock and granted on
another.

## 2. Modules

| Module | Models |
|---|---|
| `AbstractLease` | what a lease promises: at most one holder, handed over through a moment without one |
| `LeaseStore` | `internal/lease/lease.go` over the compare-and-set of the two stores |
| `AbstractRestart` | what a restart tracker promises: planned, due, taken once, at most so many without a reset |
| `RestartPolicy` | `internal/reconcile/restart.go` |
| `CustomRuntime` | reconcile loop, supervisor, `ops` and `ctl runtime` for one custom bot, with agents stopped, killed and restarted |
| `BotRunner` | `reconcile/runner.go`, `internal/runner`, `internal/health` and `ops` for the default bots |
| `Registry` | the rows under create, start, stop, migrate, PATCH, `drain-node` and heartbeats, with the bot limit |
| `StoreCalls` | the calls of a repository as far as sharing is concerned |
| `AtomicStore` | what users of the store rely on: a call happens at once |
| `SharedStore` | the file store, the database, both watchers and the select of `Loop.Run` |
| `MC...` | instances for TLC |
| `...Proofs` | theorems |

How they fit together: `SharedStore` implements `AtomicStore`, which is the licence of the other
modules to make a store call one step, and shows that wakes may be left out of them because a
tick that follows a change reads it. In `CustomRuntime` a lease is an owner and a bit
that expires at any time, and in `CustomRuntime` and `BotRunner` a restart tracker is its attempts and
whether the planned restart is due. What ties these reductions to the modules with clocks is one
abstract specification that both sides implement: `LeaseStore` and `CustomRuntime` implement
`AbstractLease`; `RestartPolicy`, and on each node `CustomRuntime` and `BotRunner`, implement
`AbstractRestart`. `Registry` composes the requests with each other;
`CustomRuntime` and `BotRunner` compose them with agents and runners.

### CustomRuntime

| Variable | Code |
|---|---|
| `rt` | the runtime row: `desired_state`, `actual_state`, `pid`, `node_id`, `lease_owner`; `valid` says that `lease_until` has not passed |
| `bot` | the bot row: `desired_state`, `actual_state`, `assigned_node_id`, `sick` (a `last_error` of the healthcheck) |
| `ag[n]` | the loop goroutine of node n: where it is in `Tick` or `Shutdown`, and the row and supervisor snapshot the tick was started with |
| `slot[n]` | `Supervisor.procs[runtime]`: none, live (with pid), dead (`done` closed) |
| `back[n]` | `restartTracker.items[runtime]` |
| `alive[n]` | the OS processes of the bot on node n, known to an agent or not |
| `op[c]` | the request of client c and the rows it has read |
| `ops`, `downs` | how many requests, and how many agent deaths, there were (the bounds) |

One action is one store call or one supervisor call together with the local computation around it;
`pc` orders the actions of one goroutine. The actions follow the functions:

- `Tick`: `ListByNode` and `Snapshot`; the tick keeps this row and this snapshot to its end, as the
  code does, while others change the real ones.
- `Holds`, `Acquire`, `Renew`, `LostStop`, `LostForget`, `RenewStop`: the lease part of
  `ensureRunning` with both paths that stop a process whose lease is gone, where the error of
  `Stop` is ignored.
- `Decide`, `Crashed`, `ForgetCrashed`, `MaybeRestart`, `Exhausted`, `ResetFailed`: the branches on
  snapshot and row, and `maybeRestartAfterFailure`.
- `StartRefused` ... `StartRelease`: `startCustomProcess` with its error returns.
- `Stopping` ... `StopRelease`: `ensureStopped`. `SyncBots` is `syncBotsActual`, the second store
  call after most `UpdateActual`s.
- `SigTerm`, `ShutStop`, `ShutList`, `ShutWrite`, `Exit`, `Crash`, `Restart`: the life of an agent.
  SIGTERM cancels the context, so the tick is cut at its current call and `Shutdown` begins.
- `Begin` ... `Abort`: `ops.StartWithLimit`, `ops.Stop`, `ops.Migrate` with `waitBotStopped`, and
  `ctl runtime start|stop`, each store call a step. `Migrate` times out, meets the bot limit, and
  ends as a start. `Init` lets the two rows want different things, as a request leaves them that was
  cut between its two writes before any agent has seen the rows.
- `BeginPatch`, `Patch`: `handlePatchBot`, a read of the bot and the write of the whole row, whose actual
  state may be old by then. `BeginCheck`, `Check`: the checker's look at a webhook bot, which may end
  in `failed` or take back a `failed` it has read.
- `ProcessExits`, `LeaseExpires`, `BackoffElapses`: the environment. Any process may end at any
  moment, a lease may run out at any moment.

### BotRunner

| Variable | Code |
|---|---|
| `bot[b]` | the bot row: desired and actual state, `sick` (a `last_error` of the healthcheck), node, runtime (named by its node), `config_version` |
| `run[n]` | the runtime row `bot-runner-<n>`; `own`: its start command is the agent's `BOT_RUNNER_COMMAND` |
| `ag[n]` | the loop goroutine in `ensureBotRunner`, `reconcileBotRunner` or `Shutdown`, with what it has listed |
| `proc[n]`, `back[n]` | supervisor slot and restart tracker of the runner |
| `inst[n][b]` | the runner's registry: the configuration an instance serves, 0 for none |
| `sync[n]` | where `Manager.Sync` is, and the list it works by |
| `chk[n]`, `fails[n]` | where `Checker.Tick` is, its list, and `Checker.failures` |
| `op[c]`, `ops` | requests, as in `CustomRuntime`; SIGTERMs of agents count as requests |

- `List`, `ByName`, `CreateRunner`, `RefreshCommand`, `Bind`, `Unwant`: `ensureBotRunner` with
  `getOrCreateBotRunner` and the whole rows it writes back as listed.
- `ByID`, `FindUnhealthy`, `EnsureRunning`, `Crashed`, `MaybeRestart`, `Exhausted`, `RestartRunner`,
  `ResetBot`, `ResetRunner`, `Starting`, `Spawn`, `SpawnFails`, `Running`: `reconcileBotRunner`,
  `maybeRestartBotRunner`, `restartBotRunner`, `startBotRunnerProcess`.
- `Stopping`, `Stopped`, `ListStopped`, `StopBot`, `ForgetStopped`: `ensureBotRunnerStopped`;
  `SigTerm`, `ShutStop` ... `NextAgent`: `Shutdown` as far as the runner is concerned.
- `SyncList`, `RemoveInstance`, `AddInstance`, `Launch`, `LaunchFails`: `Manager.Sync` and
  `startInstance`. The list lives in the process: when it dies the pass is gone.
- `CheckList`, `CheckAnswers`, `CheckFails`, `MarkUnhealthy`, `RestoreHealth`: `Checker.Tick`.
- `Begin`, `BeginRuntime` ... `Patch`: the requests.

A PATCH changes the configuration, the node or neither (`Patched`) and writes a wish along, the one of the
body or the one that was read.

The lease is left out: the name of the runner carries its node, so only that node's agent ever asks
for its lease, and it always gets it, because clients have no `BOT_RUNNER_COMMAND` here and make
placeholder rows, which the agent refreshes. A client with that variable refreshes the row itself, as a
whole (`ops/bots.go:284`), and may write old lease columns back between the agent's `Holds` and
`Renew`; the renewal then fails, the agent stops the runner (`runner.go:285`) and the next tick starts
it again. Clients that refresh rows are in `Registry`, which has no leases. Left out too: errors of
`Supervisor.Stop` and of the store.

### Registry

| Variable | Code |
|---|---|
| `node[n]` | `status` of the node's row |
| `beat[n]` | the heartbeat of the agent: down, up, or the status it has read and will write back |
| `rt[x]`, `bot[i]` | rows of runtimes, by name, and of bots |
| `op[c]`, `ops` | the request of client c: the call it is at and the rows it has read |
| `patched`, `torn`, `touched` | history: bots whose node came from a PATCH, names of runtimes left without a bot, bots started or placed since a drain listed the node |

- `BeginCreate`, `Limit`, `CreateCustomRuntime`, `FindRunner`, `RefreshRunner`, `CreateRunner`,
  `CreateBot`: `createCustom` and `createDefault` of the API and of `ctl`; a start may follow.
- `StartRead` ... `StartRuntime`, `StopRead` ... `StopRuntime`, `Reread` ... `Assign`: `ops.Start`,
  `ops.Stop`, `ops.Migrate`. The wait of a migration ends at any time, since nobody writes actual
  states here.
- `BeginPatch`, `Patch`: `handlePatchBot`, a read and the write of the whole row.
- `BeginDrain`, `SetDraining`, `DrainList`, `DrainNext`, `DrainDone`: `drain-node`.
- `AgentStarts`, `HeartbeatReads`, `HeartbeatWrites`, `AgentEnds`: registration and `Heartbeat`.
- `Abandon`: the request ends between two calls (cancelled context, ctl killed, error of the store).

### SharedStore, StoreCalls, AtomicStore

`StoreCalls` reduces rows to whether somebody has taken them (a name, a port, a lease) and calls to a
read, a write that may be refused and one that may not. `AtomicStore` serves a call in one step; it
has one hole, a save that is cut short leaves an empty or unreadable store. `SharedStore` takes
`withDiskLocked` apart: `Open`, `Flock`, `Load`, `Apply`, `Truncate`, `Write`, with the file as
`disk`, the maps of each process as `mem`, the flock as `lock`; `Kill` and `WriteFails` may cut it
anywhere, and after `SyncFails` the file is complete although the call reports an error. With postgres
a call is `Query`, or `QueryFails` when the connection breaks before the statement or after it. `stamp` is what `FileWatcher` compares, which may not
differ after a change; `watch` and `wake` are the watcher and its channel of one signal; `loop` is
the select of `Loop.Run`, whose passes and heartbeats are calls like any other.

The refinement: a save counts from the truncation on, when the old rows are gone and the call can
only end with `ok`, with an error of a change that is made, or with a cut. A `QueryFails` is a `Fail` of
`AtomicStore` without the effect and an `Unsure` with it.

### LeaseStore

The store's clock and a fixed offset per node clock (none with the file store, where all processes
are on one host). `ReadRow`, then `Holds` or `NotHolds`, split `lease.Manager.Holds` between its
store call and its use of the clock. `Acquire` and `Renew` are split between the computation of
`lease_until` and the store call, because a caller may wait for the flock or for a connection in
between. `Expired` differs by one boundary: postgres says `lease_until < now()`, memory
`!until.After(now)`. `ResetLease` is the plain `Update` of `Migrate`, the only whole-row update of a custom
runtime; `moved` remembers who read the row before it. The rows of bot-runners are written as a whole
in three more places (`ops/bots.go:284`, `runner.go:144`, `cmd/ctl/main.go:336`), with the lease columns
as they were read; these writes are not modelled, and what this module says of resets is said of
custom runtimes.

### RestartPolicy

The tracker with a clock; `Wait`, `Allow`, `Plan` and `Refuse` are the four answers of
`recordFailure`, `Delete` is `resetAfterSuccess` and `clear`. `backoffFor` is a recursive function
over the attempts. `allowed` is a history variable.

### Abstractions

- `CustomRuntime` and `BotRunner` have no clock: a lease expires whenever TLC likes, a backoff is due
  some time after it was planned. What the clocks contribute is checked in `LeaseStore` (a `Holds`
  that said yes is right although it compared an older row) and in `RestartPolicy`.
- One custom bot and one runtime: runtimes do not share state other than the bot limit, whose refusal
  is an outcome of a start and of a migration in `CustomRuntime` and counted in `Registry`.
- `Supervisor` calls are atomic: the loop is their only caller, and `waitProc` marks the slot dead in
  the step in which the process ends.
- Errors of the store itself (disk full, connection lost) inside a tick are left out; in `Registry`
  they end the request like a cancelled context, in `SharedStore` they end the call, with or without its
  effect.
- Unbounded things are bounded by `MaxOps` (requests), `MaxDowns` (agent deaths), `Pids`,
  `MaxAttempts`, `MaxClock`, `MaxCalls`, `MaxFaults` and `MaxDrops`.

## 3. Runs

Expected to pass:

| Run | Instance | Shows |
|---|---|---|
| `registry` | 2 nodes of which one has an agent, 1 custom name, 3 ports and ids, 2 clients, limit 1, 3 requests of any kind | `LimitBounded`, `RowsFit`, `DrainHolds`, `DrainEmpties`, types |
| `bot_runner` | 1 node, 2 bots of which one by webhook, 1 request or SIGTERM, one restart attempt, failing spawns and instances | `StoppedIsSilent`, types; liveness: `WantedIsServed`, `RunnerStops` |
| `bot_moved` | 2 nodes, 1 bot, 1 request among start, stop, migrate and PATCHes of configuration, node and wish | liveness: `UnwantedEnds`, `WantedIsServed`, `RunnerStops`; refinement: `ImplementsAbstractRestart` |
| `shared_store` | an agent and a client, 1 row, both backends, 2 calls, 1 kill, full disk or failed sync, 1 cut connection of the watcher or of a call | refinement: `ImplementsAtomicStore`; liveness: `CallsReturn`, `NoticedIsSeen`; types |
| `lease` | 2 nodes, TTL 2, 6 ticks, both backends, clocks one tick ahead or behind, migrations that reset the row | `LeaseBounded`, `HoldsSound`, `GrantedIsKept`, types; refinement: `ImplementsAbstractLease` |
| `restart_policy` | limits 0, 1, 3; 28 pairs of base and ceiling around every boundary; clock 14 | `RestartsBounded`, `NotBeforeBackoff`, `BackoffIsExponential`; refinement: `ImplementsAbstractRestart` |
| `one_node` | 1 agent stopped twice at any step, 2 clients, 3 requests (bot and runtime starts and stops, health checks) that may be cut, 2 pids, failing commands and spawns | `ProcessesTracked`, `AtMostOneProcess`, `StoppedMeansDead`, types |
| `migrate_converge` | 2 agents, 1 request among start, stop, migrate, PATCH and health check that may be cut anywhere, rows that may want different things before it, 1 pid, the limit may refuse, signals may be refused in a tick | `ProcessesTracked`, `DesiredAgree`; liveness: `MovedConverges`, `StopConverges`; refinement: `ImplementsAbstractLease`, `ImplementsAbstractRestart` |
| `faults` | 1 agent with a kill or a SIGTERM at any step, signals refused in `Shutdown`, 2 clients, 2 requests | liveness: `StartConverges`, `StopConverges` |

Expected to find a violation:

| Run | Property | What happens |
|---|---|---|
| `migrate_double` | `AtMostOneProcess` | Agent A lists the row with `desired=running`, and is slow. A migration stops the bot (which has no process yet), resets the lease and moves the runtime. A goes on, takes the free lease and starts the process; when the lease has run out B starts another. A no longer lists the runtime, so nobody stops the first. |
| `crash_double` | `AtMostOneProcess` | A killed agent leaves its process. The new agent has an empty supervisor and the same node id, so the lease is its own, and it starts a second process. |
| `start_lost` | `UnwantedOnly` | A tick lists the bots, none wants to run. A start writes `desired=running` to bot and runner and returns success. The tick goes on with its list and writes `desired=stopped` over the runner's row (`runner.go:69`). Later ticks leave it, since they never force a stopped runner to running. |

Four more disagreements were met while modelling. They have no run of their own; the properties
except them by name, and each exception is needed.

- `loop.go:143` says that the heartbeat does not overwrite `status=draining`. It reads the status and
  writes it back in two calls, and a drain between the two is lost. `DrainHolds` excepts exactly the
  heartbeat that had read before; without the exception TLC finds, under the constants of `registry`,
  the agent that starts, reads `online` and writes it after `drain-node` has written `draining`.
- `docs/TZ.md:200` says that no bot is served by two runners at a time. After a migration the old
  runner serves the bot until its next `Sync`, and the new one may have started it before: under
  the constants of `bot_moved` TLC refutes the invariant that no two runners have an instance of
  one bot. `UnwantedEnds` says that this does not last.
- Two interleaved requests, a start and a stop, may each write one of the two rows last; both succeed
  and bot and runtime disagree until the next request. A request that is cut between its two writes
  leaves the same, and so does a PATCH of `desired_state`, which writes the bot only. `DesiredAgree`
  speaks of a start, stop or migration that runs alone: when it ends, even refused or cut, both rows
  want the same, unless it was cut before its write of the runtime.
- `StartWithLimit` may write `unknown` over the `running` that the agent has written meanwhile, because
  it judges the bot by the row it read at the start; a PATCH writes the actual state it has read in the
  same way, and even `stopped` over the row of a bot that runs, so that `StoppedMeansDead` is claimed
  without PATCHes (with them TLC refutes it under the constants of `one_node`). The agent writes the bot only
  along with a change of the runtime, so it stays.

**Why the bounds are enough.** The hazards need a tick (or a pass of the runner or the checker)
overlapping one complete request (one request and one agent), a lease in other hands (two agents), two
interleaved requests (two clients), a restart after a failed restart (`MaxAttempts = 1`: the tracker
then takes every branch; larger limits are in `restart_policy`), a process that replaces another under
a new or a reused pid (two pids; `migrate_converge` is about leases and makes do with one). Two nodes
are all a migration involves. A PATCH or a look of the checker overlaps the ticks of both agents in
`migrate_converge`, and the checker the requests of another client in `one_node`; a PATCH of a custom
bot that overlaps another request is run for the rows only, in `registry`. In `bot_runner` two bots are
what it takes for one bot's failure to touch another through the shared process; `Threshold = 1` lets
the checker fail a bot by one bad answer. In `registry` three requests with two at a time are: one to
make a bot, and two that race over it or for the last place under the limit of one; three ports and ids
are enough for each of them to make a bot, so nothing is refused for lack of one. One TTL and 6 ticks
let a lease run out, be taken by the other node and run out again; offsets of one tick either way reach
both sides of each comparison. In `shared_store` a call of each process with a kill at any step is
enough for a call to wait for a holder that dies, and for a reader to find an empty or half-written
file; a second call of one process finds its own map older than the file.

`one_node` and `registry` use symmetry over interchangeable values; they check no liveness, and runs
with liveness use none. Requests are used up but agents tick and watchers poll for ever, so there is no
deadlock, and it is checked everywhere.

### Fairness

`CustomRuntime` assumes, for each node, weak fairness of the reconcile step (`Loop.Run` calls `Tick` on
a ticker and each call of a tick returns), of the planned restart coming due (time passes), and of
coming up again (`Shutdown` ends, and an agent that went down is started again by its service
manager, which docs/TZ.md:629 counts on); and that a lease whose owner is not the assigned node
runs out, because only the assigned node lists the runtime and renews it.

`BotRunner` assumes the same of agents, and weak fairness of `Sync` (`Manager.Run` calls it on a
ticker). `SharedStore` assumes that a process inside a call goes on or meets an error, that the flock
is granted in the end to a process that waits for it while it is free again and again (strong
fairness: the kernel wakes waiters), that the watcher polls, and that the loop takes its first tick
and a pending wake. It does not rely on the ticker: what `NoticedIsSeen` says is what the watcher is for.

Nothing is assumed of clients, checkers, processes, signals, SIGTERM or kills; and in
`CustomRuntime` and `BotRunner` nothing of the wakes of the watchers: ticks by the ticker are enough.

### What the liveness properties leave open

All of them allow that the wish is withdrawn or changed meanwhile. Beyond that each names the
states in which the program gives up:

- `MovedConverges`: the agent reports its restart attempts as spent. With one agent that takes failing
  starts; after a migration a late tick of the old node may write `failed` over the row of the
  new node's live process, and since the loop looks at `failed` before it looks at the process, it
  spends its attempts on a process that runs (`StartConverges` fails in that instance).
- `StopConverges`: the row says `failed`, where a signal may be refused in a tick. It speaks of the
  process in the supervisor's slot, not of one a killed agent has left behind (`crash_double`).
- `WantedIsServed`: the runner's row or the row of some bot of the runner says `failed`. One sick bot is
  enough: its restarts end the shared process, perhaps each time before `Sync` has reached the others.
- `RunnerStops`: the node has no default bots any more. `ensureBotRunner` then returns before it has
  looked at the runner, and a runner whose last bot was moved away runs on without instances.
- `NoticedIsSeen`: the watcher is cut off, by a lost connection or a file it cannot stat, or the pass
  that reads the change meets an error.
- `StoppedIsSilent` is checked where no bot is moved; two runners may overlap for a while
  otherwise, and `UnwantedEnds` says that they do not do so for ever.
- `LimitBounded` counts the bots placed by creates and migrations, since a PATCH of the node goes
  around the limit; `DrainEmpties` excepts the bots that others have started or placed since the list.

## 4. Proofs

All theorems hold for every value of the constants that satisfies the module's assumption, that is for
any number of nodes, pids, bots, clients, requests, faults and agent deaths.

| Theorem | Says | Supposes |
|---|---|---|
| `LeaseTypes` | types; a free row has no deadline | - |
| `LeaseRefines` | `LeaseStore` implements `AbstractLease` | - |
| `LeaseIsBounded` | a lease reaches at most TTL plus its owner's clock error ahead | - |
| `HoldsIsSound` | a positive `Holds` is right when it is given, unless a migration has reset the row since it was read | the node's clock is not behind the store's |
| `GrantedLeaseIsKept` | no call of another node takes a valid lease; of a custom runtime only a migration does | - |
| `RestartsAreBounded`, `RestartsWait` | at most `MaxAttempts` restarts between resets, none early | - |
| `BackoffFormula` | for every policy and every attempt `backoffFor` is the base doubled once per attempt up to the ceiling; an odd ceiling may be reached one doubling early | - |
| `BackoffIsExact` | the same as the state property `BackoffIsExponential` of the runs, for the first six attempts | - |
| `TrackerRefines` | `RestartPolicy` implements `AbstractRestart` | - |
| `CustomTypes` | types, and the tracker stays within its limit | - |
| `TracksProcesses` | every process is in a live slot | no kills, and not both SIGTERM and refused signals |
| `OneProcess` | never two processes | the same, and no migrations |
| `StoppedIsDead` | `stopped` in a row means that no process lives | the same, no migrations and no PATCHes |
| `DesiredAgrees` | a start, stop or migration leaves one wish in both rows, however it ends, unless it is cut before its second write | one request after the other |
| `RuntimeLeaseRefines` | the lease as ticks, requests, expiries and dying agents move it implements `AbstractLease` | - |
| `RuntimeTrackerRefines` | the tracker of each node's agent implements `AbstractRestart` | - |
| `BotRunnerTypes` | types; what an agent, a runner or a checker holds between two calls fits where it is | - |
| `StoppedSilent` | a default bot whose row says stopped has no instance | no request that moves or patches a bot |
| `RunnerTrackerRefines` | the tracker that crashes and unhealthy bots of a runner share implements `AbstractRestart` | - |
| `SharedTypes` | types; who is in the middle of a call on the file holds the flock | - |
| `StoreIsAtomic` | `SharedStore` implements `AtomicStore` | - |
| `RegistryTypes` | types; a request never works with a row it has not read | - |
| `RegistryFits` | bots have runtimes and ports of their own, a custom runtime has one bot, is being made, or was left by a request that ended | - |
| `LimitHolds` | with k clients at most `MaxBots + k - 1` bots placed on a node | - |
| `DrainStays` | `draining` ends with a start of the agent or a heartbeat that had read before | - |
| `DrainLosesNothing` | what a finished drain leaves was put there by others meanwhile | - |

The suppositions are not for the prover's convenience. Without "no kills" `crash_double` refutes
`OneProcess`; without "no migrations" `migrate_double` does; with two requests at a time two writes of
bot and runtime cross, which refutes `DesiredAgrees`; and a PATCH may write an old `stopped`, which
refutes `StoppedIsDead`. When `StopAll` fails, `Shutdown` returns and the
process survives its agent like after a kill. `ctl runtime start|stop` writes the runtime only and a PATCH the
bot only, so `DesiredAgree` says nothing when one of them ends; they may come before the request it
speaks of. The clocks of `HoldsIsSound` are a part of `HoldsSound` itself. `StoppedSilent` fails when a bot
is migrated: the agent of the new node may mark it stopped while the old runner still serves it, which
`UnwantedEnds` bounds. It fails without a move too when PATCH requests of the configuration overlap:
the second writes back a row that said stopped when it was read, although the runner has started the
bot since. TLC finds both in a few seconds when `StoppedIsSilent` is checked under `bot_moved`'s
constants, the second with one node, two clients and three requests.

The inductive invariants:

- `TrackInv` adds to `ProcessesTracked` that an agent past `StopAll`, or down, has no live slot:
  without it the step that forgets the agent's memory could drop a live process.
- `HomeInv` says that everything (rows, lease, processes, active loops) stays at the node of creation
  when nobody migrates. With `TrackInv` it gives `OneProcess`: all processes are those of one slot.
- `StopInv` says that when a row says stopped, or the agent is about to write it, the slot is not
  live; and, as the reason why a later start does not make it a lie, that between the write of
  `starting` and the spawn neither row says stopped. The second of the two rows is written a step
  later, so the pending bot write is part of it. It also says that nobody else ever owns the lease,
  which makes the branch of the lost lease unreachable: there a failed `Stop` would be followed by
  the write of `stopped`.
- `DesiredInv` says by program counter what the only request has written so far: past its write of
  the runtime both rows have its wish, and a migration that has stopped the bot finds them both stopped
  until its start begins. It holds whatever the rows were before, and agents do not write wishes
  (`ClientsKeepDesired`, `RequestAgrees`).
- `Balance` (restart tracker) counts a planned restart and the allowed ones against the attempts.
- `Closed` (backoff) is the closed form of the loop of `backoffFor`: after i - 1 doublings the duration is
  the exact value while no value before it has reached half of the ceiling, and the ceiling from then
  on. The provers cannot instantiate the library's induction over the naturals, so the induction is
  carried out on the set of counterexamples, which has a least element (`LeastElement`); the step of
  the recursive function to it is `DoubledIsClosed`.
- `SilentInv` (runner) adds to `StoppedIsSilent` why nobody marks a served bot stopped: all bots are bound
  to the home node, so only its runner has instances and only its agent marks bots; `Quiet` says that
  there are instances and a pass of `Sync` only while the process is there, and that an agent about to
  mark the bots of its list has no live process; and no request is at a call that writes a whole row.
- `LeaseRefines` maps the holder to the owner of an unexpired lease; expiry by the clock, release and
  reset are the abstract `Drop`, an acquisition or the renewal of an expired lease a `Take`.
  `RuntimeLeaseRefines` does the same for the bit of `CustomRuntime`, where the call is made by a tick
  that has read the row before.
- `RuntimeTrackerRefines` and `RunnerTrackerRefines` need the types only: every step that changes a
  tracker is `recordFailure`, a reset or the passing of time, also where a tick is cut.
- `CallInv` (shared store) says by program counter what a call knows: who is inside holds the flock (this
  part is in `TypeOK`), its map is the abstract database once it has loaded, and that database with the
  call's effect once it has applied it; between load and truncation the file is not half-written. The
  abstract database `Db` is the file, except that a save under way counts as done from its truncation on.
  A call takes effect when it answers without a save, at the truncation, or in `Query`; every
  other step is a stutter, and only a fault cuts.
- `FitInv` (registry) joins the types, `RowsFit` and three facts that make it inductive. `RequestOK`: what
  a request knows of its rows between two calls stays true, because rows are never deleted and
  keep their port and a custom bot its runtime (`Grows`, proved of every step). `MakingAlone`: a runtime that
  is being made has no bot, and one maker. `Recorded`: an agent that is up has a row of its node.
- `Room` counts, for each node, the bots placed and the requests that have passed the limit and not yet
  placed theirs: together at most `MaxBots + k - 1`. A request that passes has found fewer than `MaxBots`
  bots, and at most k - 1 others are pending; placing moves one from the second set to the first.
- `NoneLost` says of each drain under way that a wanted bot of the node is in its list, in its hand, or
  has been touched by somebody else.

Each "step preserves" lemma goes action by action; lemmas about the shared moves (`AgentMoves`,
`CallTypes`, `BooksKeepTrack`, `AgentGoes`, `HomeCalls`) are stated once and cited.

Only model-checked: the liveness properties, because fairness and ENABLED are out of the prover's reach.
Every safety property, action property and refinement of the passing runs is a theorem, under the
suppositions of the table. The three violations are TLC's.

## 5. Not modelled, and the plan

Not modelled because they hold no state others decide on: configuration (its values are constants),
the building of the launch contract (its errors are outcomes of a start), metrics, doctor, handoff, SQL
migrations, JSON and authentication of the API, the web UI. The messenger adapters are HTTP calls and
stateless handlers; the only state is the offset of one polling goroutine, whose meaning is defined by
the remote service.

Planned, in this order:

1. `Supervisor` in detail: `Start` against `waitProc`, `Stop` with its grace period, shown to
   implement the atomic calls `CustomRuntime` uses.
2. Errors of the store inside a tick, with the early returns of `Tick` they cause.
3. A runner with two nodes and a request during a SIGTERM, if the state space allows it.
