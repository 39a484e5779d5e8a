--------------------------- MODULE CustomRuntime ---------------------------
(***************************************************************************)
(* One custom bot and its dedicated runtime, seen by the agents of several *)
(* nodes (internal/reconcile, internal/supervisor, internal/lease) and by  *)
(* the clients that control it (internal/ops through ctl and control-api,  *)
(* PATCH of the control-api, the checker of internal/health).              *)
(*                                                                         *)
(* Everybody shares the two rows of the store and nothing else.  A store   *)
(* call is atomic (doWrite and doRead hold the flock, postgres runs one    *)
(* statement), and nothing is atomic across two of them: an action below   *)
(* is one store call or one supervisor call, with the local computation    *)
(* that leads to it.  An agent is one goroutine, so its actions are        *)
(* ordered by a program counter; agents, clients and OS processes          *)
(* interleave freely.                                                      *)
(*                                                                         *)
(* Time is abstracted to its order: a lease is valid until it expires (at  *)
(* any moment; module LeaseStore has the clocks), a restart slot is due    *)
(* some time after it was planned.                                         *)
(***************************************************************************)
EXTENDS Naturals

CONSTANTS
    Nodes,         \* NODE_IDs
    NoNode,        \* lease_owner = NULL
    Pids,          \* process ids, per node; the OS may reuse those of the dead
    NoPid,         \* pid = NULL
    Home,          \* the node the bot was created on
    Clients,       \* concurrent ctl / control-api requests
    Kinds,         \* which requests they make, a subset of AllKinds
    MaxOps,        \* bound on the number of requests
    MaxAttempts,   \* RESTART_MAX_ATTEMPTS
    StartErrors,   \* which errors a start may hit, a subset of AllErrors
    StopErrors,    \* where Supervisor.Stop may fail, a subset of AllStopErrors
    Stops,         \* TRUE: agents may be stopped with SIGTERM
    Crashes,       \* TRUE: agents may be killed
    Aborts,        \* TRUE: a client may die or be cancelled between two calls
    MaxDowns       \* bound on the number of agent stops and crashes

AllKinds == {"start", "stop", "migrate", "rtstart", "rtstop", "patch", "check"}
BotKinds == {"start", "stop", "migrate"}
AllErrors == {"limit", "command", "spawn"}
AllStopErrors == {"tick", "shutdown"}

ASSUME CustomRuntimeAssumption ==
    /\ NoNode \notin Nodes
    /\ NoPid \notin Pids
    /\ Home \in Nodes
    /\ Kinds \subseteq AllKinds
    /\ MaxOps \in Nat
    /\ MaxAttempts \in Nat
    /\ StartErrors \subseteq AllErrors
    /\ StopErrors \subseteq AllStopErrors
    /\ Stops \in BOOLEAN
    /\ Crashes \in BOOLEAN
    /\ Aborts \in BOOLEAN
    /\ MaxDowns \in Nat

VARIABLES
    rt,      \* the row of the runtime
    bot,     \* the row of the bot
    ag,      \* the reconcile loop of each node: program counter and locals
    slot,    \* Supervisor.procs[rt.ID] of each node
    back,    \* restartTracker.items[rt.ID] of each node
    alive,   \* the bot's OS processes on each node
    op,      \* the request each client is serving
    ops,     \* requests begun so far
    downs    \* agent stops and crashes so far

vars == <<rt, bot, ag, slot, back, alive, op, ops, downs>>
agents == <<ag, slot, back, alive>>
clients == <<op, ops>>

Desired == {"running", "stopped"}
Actual == {"unknown", "starting", "running", "stopping", "stopped", "failed",
           "migrating"}

\* A supervisor slot: never started or forgotten, live until waitProc closes
\* done, dead until the next Start or Forget.
NoSlot == [st |-> "none", pid |-> NoPid]
Slot == [st : {"none", "live", "dead"}, pid : Pids \cup {NoPid}]

\* No backoff state; attempts made and the planned restart otherwise.
NoBackoff == [attempts |-> 0, nextAt |-> "zero"]

\* An agent between two ticks.  actual and pid are the fields of the row that
\* ListByNode returned at the start of the tick, snap the supervisor snapshot
\* taken with it; sync and next drive syncBotsActual.
IdleAgent == [pc |-> "idle", actual |-> "unknown", pid |-> NoPid, snap |-> NoSlot,
              sync |-> "unknown", next |-> "idle"]

\* A client between two requests.  bot, sick and rt are what it read: the actual
\* state of the bot, whether its last_error is a health check's, and the actual
\* state of the runtime.
IdleClient == [pc |-> "idle", kind |-> "start", to |-> Home,
               bot |-> "unknown", sick |-> FALSE, rt |-> "unknown"]

\* The rows createCustom leaves behind, without lease and process, maybe started
\* or stopped before any agent has seen them, by a request that served both rows
\* or was cut between the two.
Init ==
    /\ rt \in [desired : Desired, actual : {"unknown"}, pid : {NoPid},
               node : {Home}, owner : {NoNode}, valid : {FALSE}]
    /\ bot \in [desired : Desired, actual : {"unknown"}, sick : {FALSE}, node : {Home}]
    /\ ag = [n \in Nodes |-> IdleAgent]
    /\ slot = [n \in Nodes |-> NoSlot]
    /\ back = [n \in Nodes |-> NoBackoff]
    /\ alive = [n \in Nodes |-> {}]
    /\ op = [c \in Clients |-> IdleClient]
    /\ ops = 0
    /\ downs = 0

----------------------------------------------------------------------------
(* The agent's store and supervisor calls.                                 *)

Goto(n, l) == ag' = [ag EXCEPT ![n].pc = l]

EndTick(n) == ag' = [ag EXCEPT ![n] = IdleAgent]

\* Runtimes.UpdateActual: a nil PID clears the column.
UpdateActual(state, pid) == rt' = [rt EXCEPT !.actual = state, !.pid = pid]

\* UpdateActual followed by syncBotsActual, which is a store call of its own.
UpdateActualThenSync(n, state, pid, next) ==
    /\ UpdateActual(state, pid)
    /\ ag' = [ag EXCEPT ![n] = [@ EXCEPT !.pc = "sync", !.sync = state, !.next = next]]

Mut_Acquirable(n) == rt.owner \in {NoNode, n}
Mut_Stealable(n) == rt.owner \in {NoNode, n} \/ rt.node = n

\* leaseAcquirable and leaseHeldByOther for node n.
Acquirable(n) == rt.owner \in {NoNode, n} \/ ~rt.valid
HeldByOther(n) == rt.owner \notin {NoNode, n} /\ rt.valid

Mut_ReleaseLease(n) ==
    rt' = IF rt.owner = n /\ rt.valid THEN [rt EXCEPT !.owner = NoNode, !.valid = FALSE]
                                      ELSE rt

\* ReleaseLease; reconcile ignores its error.
ReleaseLease(n) ==
    rt' = IF HeldByOther(n) THEN rt ELSE [rt EXCEPT !.owner = NoNode, !.valid = FALSE]

Mut_Forget(n) == slot' = [slot EXCEPT ![n] = NoSlot]

\* Supervisor.Forget leaves a running process in its slot.
Forget(n) ==
    slot' = IF slot[n].st = "live" THEN slot ELSE [slot EXCEPT ![n] = NoSlot]

Mut_StopProcess(n) ==
    /\ slot' = [slot EXCEPT ![n].st = IF @ = "live" THEN "dead" ELSE @]
    /\ UNCHANGED alive

\* Supervisor.Stop returned nil: the process is gone and the slot is dead.
\* Without a live process it does nothing.
StopProcess(n) ==
    /\ slot' = [slot EXCEPT ![n].st = IF @ = "live" THEN "dead" ELSE @]
    /\ alive' = [alive EXCEPT ![n] = IF slot[n].st = "live" THEN @ \ {slot[n].pid} ELSE @]

\* Supervisor.Stop returned an error (the signal was refused), in a tick or in
\* StopAll, and the process is alive.
StopFails(n, where) == where \in StopErrors /\ slot[n].st = "live"

----------------------------------------------------------------------------
(* Tick: ListByNode, Snapshot, and the dispatch on desired_state.          *)

\* What the tick keeps of the row and of the snapshot it has read.
ReadRow(n, next) ==
    ag' = [ag EXCEPT ![n] = [IdleAgent EXCEPT !.pc = next, !.actual = rt.actual,
                                              !.pid = rt.pid, !.snap = slot[n]]]

Tick(n) ==
    /\ ag[n].pc = "idle"
    /\ rt.node = n
    /\ \/ /\ rt.desired = "running"
          /\ ReadRow(n, "holds")
          /\ UNCHANGED back
       \/ /\ rt.desired = "stopped"
          /\ ReadRow(n, IF slot[n].st = "live" THEN "stopping" ELSE "stopped")
          /\ back' = [back EXCEPT ![n] = NoBackoff]
    /\ UNCHANGED <<rt, bot, slot, alive, clients, downs>>

\* syncBotsActual: the only bot of the runtime gets the runtime's actual state
\* and error.
SyncBots(n) ==
    /\ ag[n].pc = "sync"
    /\ bot' = [bot EXCEPT !.actual = ag[n].sync, !.sick = FALSE]
    /\ IF ag[n].next = "idle" THEN EndTick(n) ELSE Goto(n, ag[n].next)
    /\ UNCHANGED <<rt, slot, back, alive, clients, downs>>

----------------------------------------------------------------------------
(* ensureRunning, the lease part.                                          *)

Holds(n) ==
    /\ ag[n].pc = "holds"
    /\ \/ rt.owner = n /\ rt.valid /\ ag[n].snap.st = "live" /\ Goto(n, "renew")
       \/ rt.owner = n /\ rt.valid /\ ag[n].snap.st # "live" /\ Goto(n, "decide")
       \/ (rt.owner # n \/ ~rt.valid) /\ Goto(n, "acquire")
    /\ UNCHANGED <<rt, bot, slot, back, alive, clients, downs>>

\* The lease is free, expired or ours.
Acquire(n) ==
    /\ ag[n].pc = "acquire"
    /\ Acquirable(n)
    /\ rt' = [rt EXCEPT !.owner = n, !.valid = TRUE]
    /\ Goto(n, "decide")
    /\ UNCHANGED <<bot, slot, back, alive, clients, downs>>

\* Somebody else's: a local process has to go, otherwise the tick is over.
AcquireFails(n) ==
    /\ ag[n].pc = "acquire"
    /\ ~Acquirable(n)
    /\ IF ag[n].snap.st = "live" THEN Goto(n, "lost") ELSE EndTick(n)
    /\ UNCHANGED <<rt, bot, slot, back, alive, clients, downs>>

\* Stop and Forget; an error of Stop is ignored.
LostStop(n) ==
    /\ ag[n].pc = "lost"
    /\ \/ StopProcess(n)
       \/ StopFails(n, "tick") /\ UNCHANGED <<slot, alive>>
    /\ Goto(n, "lostForget")
    /\ UNCHANGED <<rt, bot, back, clients, downs>>

LostForget(n) ==
    /\ ag[n].pc = "lostForget"
    /\ Forget(n)
    /\ UpdateActualThenSync(n, "stopped", NoPid, "idle")
    /\ UNCHANGED <<bot, back, alive, clients, downs>>

\* RenewLease revives an expired lease of ours.
Renew(n) ==
    /\ ag[n].pc = "renew"
    /\ rt.owner = n
    /\ rt' = [rt EXCEPT !.valid = TRUE]
    /\ Goto(n, "decide")
    /\ UNCHANGED <<bot, slot, back, alive, clients, downs>>

RenewFails(n) ==
    /\ ag[n].pc = "renew"
    /\ rt.owner # n
    /\ Goto(n, "renewStop")
    /\ UNCHANGED <<rt, bot, slot, back, alive, clients, downs>>

RenewStop(n) ==
    /\ ag[n].pc = "renewStop"
    /\ \/ StopProcess(n)
       \/ StopFails(n, "tick") /\ UNCHANGED <<slot, alive>>
    /\ Goto(n, "release")
    /\ UNCHANGED <<rt, bot, back, clients, downs>>

----------------------------------------------------------------------------
(* ensureRunning, the process part.                                        *)

\* The three branches after the lease, on the snapshot and the row of the
\* tick's start.  A live process resets the restart tracker and, when the row
\* disagrees, has the row rewritten.
Decide(n) ==
    /\ ag[n].pc = "decide"
    /\ \/ ag[n].snap.st = "dead" /\ Goto(n, "crashed") /\ UNCHANGED back
       \/ /\ ag[n].snap.st # "dead"
          /\ ag[n].actual = "failed"
          /\ Goto(n, "backoff")
          /\ UNCHANGED back
       \/ /\ ag[n].snap.st = "live"
          /\ ag[n].actual # "failed"
          /\ IF ag[n].actual = "running" /\ ag[n].pid = ag[n].snap.pid
             THEN EndTick(n) ELSE Goto(n, "running")
          /\ back' = [back EXCEPT ![n] = NoBackoff]
       \/ /\ ag[n].snap.st = "none"
          /\ ag[n].actual # "failed"
          /\ Goto(n, "start")
          /\ UNCHANGED back
    /\ UNCHANGED <<rt, bot, slot, alive, clients, downs>>

Crashed(n) ==
    /\ ag[n].pc = "crashed"
    /\ UpdateActualThenSync(n, "failed", NoPid, "forget")
    /\ UNCHANGED <<bot, slot, back, alive, clients, downs>>

ForgetCrashed(n) ==
    /\ ag[n].pc = "forget"
    /\ Forget(n)
    /\ Goto(n, "backoff")
    /\ UNCHANGED <<rt, bot, back, alive, clients, downs>>

Mut_Due(n) == back[n].nextAt = "due" /\ back[n].attempts < MaxAttempts
Mut_Planned(n) == back[n].nextAt # "zero"

\* A planned restart whose time has come.
Due(n) == back[n].nextAt = "due"

Mut_UsedUp(n) == ~Due(n) /\ back[n].attempts > MaxAttempts

\* Nothing is planned and the attempts are spent.
UsedUp(n) == ~Due(n) /\ back[n].attempts >= MaxAttempts

\* maybeRestartAfterFailure: recordFailure waits for a planned restart, takes
\* one that is due, finds the attempts spent, or plans the next one.
MaybeRestart(n) ==
    /\ ag[n].pc = "backoff"
    /\ \/ /\ MaxAttempts = 0 \/ back[n].nextAt = "later"
          /\ EndTick(n)
          /\ UNCHANGED back
       \/ /\ MaxAttempts > 0
          /\ Due(n)
          /\ Goto(n, "unknown")
          /\ back' = [back EXCEPT ![n].nextAt = "zero"]
       \/ /\ MaxAttempts > 0
          /\ back[n].nextAt # "later"
          /\ UsedUp(n)
          /\ Goto(n, "exhausted")
          /\ UNCHANGED back
       \/ /\ MaxAttempts > 0
          /\ back[n].nextAt # "later"
          /\ ~Due(n) /\ ~UsedUp(n)
          /\ EndTick(n)
          /\ back' = [back EXCEPT ![n] = [attempts |-> @.attempts + 1, nextAt |-> "later"]]
    /\ UNCHANGED <<rt, bot, slot, alive, clients, downs>>

Exhausted(n) ==
    /\ ag[n].pc = "exhausted"
    /\ UpdateActualThenSync(n, "failed", NoPid, "idle")
    /\ UNCHANGED <<bot, slot, back, alive, clients, downs>>

\* A restart clears the failed state before it starts.
ResetFailed(n) ==
    /\ ag[n].pc = "unknown"
    /\ UpdateActual("unknown", NoPid)
    /\ Goto(n, "start")
    /\ UNCHANGED <<bot, slot, back, alive, clients, downs>>

----------------------------------------------------------------------------
(* startCustomProcess.                                                     *)

\* checkBotLimitForStart refuses: too many bots are assigned to the node.
StartRefused(n) ==
    /\ ag[n].pc = "start"
    /\ "limit" \in StartErrors
    /\ UpdateActualThenSync(n, "failed", NoPid, "idle")
    /\ UNCHANGED <<bot, slot, back, alive, clients, downs>>

Starting(n) ==
    /\ ag[n].pc = "start"
    /\ UpdateActualThenSync(n, "starting", NoPid, "spawn")
    /\ UNCHANGED <<bot, slot, back, alive, clients, downs>>

\* An empty command or an environment that cannot be built; the lease stays.
BadCommand(n) ==
    /\ ag[n].pc = "spawn"
    /\ "command" \in StartErrors
    /\ UpdateActualThenSync(n, "failed", NoPid, "idle")
    /\ UNCHANGED <<bot, slot, back, alive, clients, downs>>

\* Supervisor.Start takes an empty slot or reuses a dead one.
SlotFree(n) == slot[n].st # "live"

\* Supervisor.Start refuses a slot whose process lives; otherwise it refuses
\* the command line, or drops the dead slot and is refused by the OS.
SpawnFails(n) ==
    /\ ag[n].pc = "spawn"
    /\ \/ ~SlotFree(n) /\ UNCHANGED slot
       \/ "spawn" \in StartErrors /\ SlotFree(n) /\ (UNCHANGED slot \/ Forget(n))
    /\ UpdateActualThenSync(n, "failed", NoPid, "startRelease")
    /\ UNCHANGED <<bot, back, alive, clients, downs>>

\* Supervisor.Start succeeds; the OS picks a free pid.
Spawn(n) ==
    /\ ag[n].pc = "spawn"
    /\ SlotFree(n)
    /\ \E p \in Pids \ alive[n] :
          LET proc == [st |-> "live", pid |-> p] IN
          /\ alive' = [alive EXCEPT ![n] = @ \cup {p}]
          /\ slot' = [slot EXCEPT ![n] = proc]
          /\ ag' = [ag EXCEPT ![n] = [@ EXCEPT !.pc = "started", !.snap = proc]]
    /\ UNCHANGED <<rt, bot, back, clients, downs>>

\* The row says running with the pid of the process just started.
Started(n) ==
    /\ ag[n].pc = "started"
    /\ UpdateActualThenSync(n, "running", ag[n].snap.pid, "idle")
    /\ back' = [back EXCEPT ![n] = NoBackoff]
    /\ UNCHANGED <<bot, slot, alive, clients, downs>>

\* ensureRunning found the process alive and the row out of date.
StillRunning(n) ==
    /\ ag[n].pc = "running"
    /\ UpdateActualThenSync(n, "running", ag[n].snap.pid, "idle")
    /\ UNCHANGED <<bot, slot, back, alive, clients, downs>>

StartRelease(n) ==
    /\ ag[n].pc = "startRelease"
    /\ ReleaseLease(n)
    /\ EndTick(n)
    /\ UNCHANGED <<bot, slot, back, alive, clients, downs>>

----------------------------------------------------------------------------
(* ensureStopped.                                                          *)

\* The row keeps the pid it had when the tick began.
Stopping(n) ==
    /\ ag[n].pc = "stopping"
    /\ UpdateActualThenSync(n, "stopping", ag[n].pid, "stop")
    /\ UNCHANGED <<bot, slot, back, alive, clients, downs>>

Stop(n) ==
    /\ ag[n].pc = "stop"
    /\ StopProcess(n)
    /\ Goto(n, "stopped")
    /\ UNCHANGED <<rt, bot, back, clients, downs>>

\* The row turns failed, the bot stays stopping: this branch does not sync.
StopFailed(n) ==
    /\ ag[n].pc = "stop"
    /\ StopFails(n, "tick")
    /\ UpdateActual("failed", NoPid)
    /\ EndTick(n)
    /\ UNCHANGED <<bot, slot, back, alive, clients, downs>>

Stopped(n) ==
    /\ ag[n].pc = "stopped"
    /\ UpdateActualThenSync(n, "stopped", NoPid, "release")
    /\ UNCHANGED <<bot, slot, back, alive, clients, downs>>

\* Forget, then Release: the end of a stop and of a failed renewal.
StopRelease(n) ==
    /\ ag[n].pc = "release"
    /\ Forget(n)
    /\ ReleaseLease(n)
    /\ EndTick(n)
    /\ UNCHANGED <<bot, back, alive, clients, downs>>

----------------------------------------------------------------------------
(* The life of an agent process.                                           *)

Up(n) == ag[n].pc \notin {"down", "shutStop", "shutList", "shutWrite", "exit"}

\* SIGTERM cancels the context of the loop: every later store call of the tick
\* fails, so the tick is cut where it is and Shutdown begins.
SigTerm(n) ==
    /\ Stops
    /\ Up(n)
    /\ downs < MaxDowns
    /\ downs' = downs + 1
    /\ ag' = [ag EXCEPT ![n] = [IdleAgent EXCEPT !.pc = "shutStop"]]
    /\ UNCHANGED <<rt, bot, slot, back, alive, clients>>

Mut_ShutStop(n) ==
    /\ ag[n].pc = "shutStop"
    /\ Goto(n, "shutList")
    /\ UNCHANGED <<rt, bot, slot, back, alive, clients, downs>>

\* Shutdown: StopAll.
ShutStop(n) ==
    /\ ag[n].pc = "shutStop"
    /\ StopProcess(n)
    /\ Goto(n, "shutList")
    /\ UNCHANGED <<rt, bot, back, clients, downs>>

\* An error of StopAll skips the rest of Shutdown.
ShutStopFails(n) ==
    /\ ag[n].pc = "shutStop"
    /\ StopFails(n, "shutdown")
    /\ Goto(n, "exit")
    /\ UNCHANGED <<rt, bot, slot, back, alive, clients, downs>>

\* ListByNode and Snapshot: rows of this node without a live process.
ShutList(n) ==
    /\ ag[n].pc = "shutList"
    /\ Goto(n, IF rt.node = n /\ slot[n].st # "live" THEN "shutWrite" ELSE "exit")
    /\ UNCHANGED <<rt, bot, slot, back, alive, clients, downs>>

ShutWrite(n) ==
    /\ ag[n].pc = "shutWrite"
    /\ UpdateActualThenSync(n, "stopped", NoPid, "exit")
    /\ UNCHANGED <<bot, slot, back, alive, clients, downs>>

\* The memory of an agent that is gone; its processes are their own process
\* groups and stay.
AgentGone(n) ==
    /\ ag' = [ag EXCEPT ![n] = [IdleAgent EXCEPT !.pc = "down"]]
    /\ slot' = [slot EXCEPT ![n] = NoSlot]
    /\ back' = [back EXCEPT ![n] = NoBackoff]

Exit(n) ==
    /\ ag[n].pc = "exit"
    /\ AgentGone(n)
    /\ UNCHANGED <<rt, bot, alive, clients, downs>>

Crash(n) ==
    /\ Crashes
    /\ ag[n].pc # "down"
    /\ downs < MaxDowns
    /\ downs' = downs + 1
    /\ AgentGone(n)
    /\ UNCHANGED <<rt, bot, alive, clients>>

\* A new agent starts with an empty supervisor.
Restart(n) ==
    /\ ag[n].pc = "down"
    /\ EndTick(n)
    /\ UNCHANGED <<rt, bot, slot, back, alive, clients, downs>>

----------------------------------------------------------------------------
(* The operating system and time.                                          *)

\* A process ends by itself; waitProc closes done of the slot that holds it.
ProcessExits(n) ==
    \E p \in alive[n] :
        /\ alive' = [alive EXCEPT ![n] = @ \ {p}]
        /\ slot' = IF slot[n] = [st |-> "live", pid |-> p]
                   THEN [slot EXCEPT ![n].st = "dead"] ELSE slot
        /\ UNCHANGED <<rt, bot, ag, back, clients, downs>>

LeaseExpires ==
    /\ rt.valid
    /\ rt' = [rt EXCEPT !.valid = FALSE]
    /\ UNCHANGED <<bot, agents, clients, downs>>

BackoffElapses(n) ==
    /\ back[n].nextAt = "later"
    /\ back' = [back EXCEPT ![n].nextAt = "due"]
    /\ UNCHANGED <<rt, bot, ag, slot, alive, clients, downs>>

----------------------------------------------------------------------------
(* Clients: ops.StartWithLimit, ops.Stop, ops.Migrate of the bot,          *)
(* `ctl runtime start|stop`, PATCH /bots/{id}, and one look of the health  *)
(* checker at the bot, which may be one with a webhook.                    *)

ClientGoto(c, l) == op' = [op EXCEPT ![c].pc = l]

Return(c) == op' = [op EXCEPT ![c] = IdleClient]

\* A start clears these two states so that the agent starts without backoff.
Cleared == {"failed", "stopped"}

\* Bots.ByID of start, stop and migrate; migrate to the node the bot is on is
\* refused.
Begin(c) ==
    /\ op[c].pc = "idle"
    /\ ops < MaxOps
    /\ ops' = ops + 1
    /\ \E kind \in Kinds \cap BotKinds, to \in Nodes :
          /\ kind = "migrate" => to # bot.node
          /\ op' = [op EXCEPT ![c] = [IdleClient EXCEPT
                        !.pc = "botDesired", !.kind = kind, !.bot = bot.actual,
                        !.to = IF kind = "migrate" THEN to ELSE Home]]
    /\ UNCHANGED <<rt, bot, agents, downs>>

\* runtimeSetDesired: Runtimes.ByID.
BeginRuntime(c) ==
    /\ op[c].pc = "idle"
    /\ ops < MaxOps
    /\ ops' = ops + 1
    /\ \E kind \in Kinds \cap {"rtstart", "rtstop"} :
          op' = [op EXCEPT ![c] = [IdleClient EXCEPT
                    !.pc = "rtDesired", !.kind = kind, !.rt = rt.actual]]
    /\ UNCHANGED <<rt, bot, agents, downs>>

Wanted(c) == IF op[c].kind \in {"start", "rtstart"} THEN "running" ELSE "stopped"

SetBotDesired(c) ==
    /\ op[c].pc = "botDesired"
    /\ bot' = [bot EXCEPT !.desired = Wanted(c)]
    /\ ClientGoto(c, "rtDesired")
    /\ UNCHANGED <<rt, agents, ops, downs>>

\* Start goes on with the row, migrate waits for it, stop is done.
AfterDesired(c) ==
    \/ op[c].kind = "start" /\ ClientGoto(c, "readRuntime")
    \/ op[c].kind = "migrate" /\ ClientGoto(c, "waitBot")
    \/ op[c].kind = "rtstart" /\ op[c].rt \in Cleared /\ ClientGoto(c, "clearRuntime")
    \/ op[c].kind = "rtstart" /\ op[c].rt \notin Cleared /\ Return(c)
    \/ op[c].kind \in {"stop", "rtstop"} /\ Return(c)

Mut_SetRuntimeDesired(c) ==
    /\ op[c].pc = "rtDesired"
    /\ rt' = IF op[c].kind = "start" THEN rt ELSE [rt EXCEPT !.desired = Wanted(c)]
    /\ AfterDesired(c)
    /\ UNCHANGED <<bot, agents, ops, downs>>

SetRuntimeDesired(c) ==
    /\ op[c].pc = "rtDesired"
    /\ rt' = [rt EXCEPT !.desired = Wanted(c)]
    /\ AfterDesired(c)
    /\ UNCHANGED <<bot, agents, ops, downs>>

\* The bot's own actual state is judged by the row read at the very beginning.
ClearBotNext(c) ==
    IF op[c].bot \in Cleared THEN ClientGoto(c, "clearBot") ELSE Return(c)

ReadRuntime(c) ==
    /\ op[c].pc = "readRuntime"
    /\ IF rt.actual \in Cleared THEN ClientGoto(c, "clearRuntime") ELSE ClearBotNext(c)
    /\ UNCHANGED <<rt, bot, agents, ops, downs>>

ClearRuntime(c) ==
    /\ op[c].pc = "clearRuntime"
    /\ UpdateActual("unknown", NoPid)
    /\ ClearBotNext(c)
    /\ UNCHANGED <<bot, agents, ops, downs>>

ClearBot(c) ==
    /\ op[c].pc = "clearBot"
    /\ bot' = [bot EXCEPT !.actual = "unknown", !.sick = FALSE]
    /\ Return(c)
    /\ UNCHANGED <<rt, agents, ops, downs>>

\* waitBotStopped polls the bot and then the runtime.
WaitBot(c) ==
    /\ op[c].pc = "waitBot"
    /\ bot.actual \in {"stopped", "unknown"}
    /\ ClientGoto(c, "waitRuntime")
    /\ UNCHANGED <<rt, bot, agents, ops, downs>>

WaitRuntime(c) ==
    /\ op[c].pc = "waitRuntime"
    /\ ClientGoto(c, IF rt.actual \in {"stopped", "unknown"} \/ rt.pid = NoPid
                     THEN "reassignRuntime" ELSE "waitBot")
    /\ UNCHANGED <<rt, bot, agents, ops, downs>>

\* The wait times out, or the target node has no room for the reassignment or
\* for the start.
MigrateFails(c) ==
    /\ \/ op[c].pc = "waitBot"
       \/ op[c].pc \in {"reassignRuntime", "startMigrated"} /\ "limit" \in StartErrors
    /\ Return(c)
    /\ UNCHANGED <<rt, bot, agents, ops, downs>>

\* Runtimes.Update of the whole row: Migrate sets every field modelled here,
\* so the copy it read a moment before does not matter.
ReassignRuntime(c) ==
    /\ op[c].pc = "reassignRuntime"
    /\ rt' = [desired |-> "stopped", actual |-> "stopped", pid |-> NoPid,
              node |-> op[c].to, owner |-> NoNode, valid |-> FALSE]
    /\ ClientGoto(c, "reassignBot")
    /\ UNCHANGED <<bot, agents, ops, downs>>

ReassignBot(c) ==
    /\ op[c].pc = "reassignBot"
    /\ bot' = [desired |-> "stopped", actual |-> "migrating", sick |-> FALSE,
               node |-> op[c].to]
    /\ ClientGoto(c, "startMigrated")
    /\ UNCHANGED <<rt, agents, ops, downs>>

\* Migrate ends as a start of the bot on its new node.
StartMigrated(c) ==
    /\ op[c].pc = "startMigrated"
    /\ op' = [op EXCEPT ![c] = [IdleClient EXCEPT !.pc = "botDesired", !.bot = bot.actual]]
    /\ UNCHANGED <<rt, bot, agents, ops, downs>>

\* handlePatchBot: Bots.ByID.
BeginPatch(c) ==
    /\ "patch" \in Kinds
    /\ op[c].pc = "idle"
    /\ ops < MaxOps
    /\ ops' = ops + 1
    /\ op' = [op EXCEPT ![c] = [IdleClient EXCEPT !.pc = "patch", !.kind = "patch",
                                       !.bot = bot.actual, !.sick = bot.sick]]
    /\ UNCHANGED <<rt, bot, agents, downs>>

\* Bots.Update of the whole row: what the body asks for, the actual state and
\* the error as they were read; a field the body does not name is written as it
\* was read, which is one of the values here.  The runtime is not touched.
Patch(c) ==
    /\ op[c].pc = "patch"
    /\ \E desired \in Desired, node \in Nodes :
          bot' = [desired |-> desired, actual |-> op[c].bot, sick |-> op[c].sick,
                  node |-> node]
    /\ Return(c)
    /\ UNCHANGED <<rt, agents, ops, downs>>

\* Checker.Tick lists a webhook bot that is wanted.
BeginCheck(c) ==
    /\ "check" \in Kinds
    /\ op[c].pc = "idle"
    /\ ops < MaxOps
    /\ ops' = ops + 1
    /\ bot.desired = "running"
    /\ op' = [op EXCEPT ![c] = [IdleClient EXCEPT !.pc = "check", !.kind = "check",
                                       !.bot = bot.actual, !.sick = bot.sick]]
    /\ UNCHANGED <<rt, bot, agents, downs>>

\* checkOne: after the threshold of failures the bot is marked failed; /healthz
\* answers again and the mark that was read is taken back.  A look that writes
\* nothing is not told.
Check(c) ==
    /\ op[c].pc = "check"
    /\ \/ bot' = [bot EXCEPT !.actual = "failed", !.sick = TRUE]
       \/ /\ op[c].bot = "failed" /\ op[c].sick
          /\ bot' = [bot EXCEPT !.actual = "running", !.sick = FALSE]
    /\ Return(c)
    /\ UNCHANGED <<rt, agents, ops, downs>>

\* ctl is interrupted, the HTTP request is cancelled: the next call fails.
Abort(c) ==
    /\ Aborts
    /\ op[c].pc # "idle"
    /\ Return(c)
    /\ UNCHANGED <<rt, bot, agents, ops, downs>>

----------------------------------------------------------------------------

ReconcileStep(n) ==
    \/ Tick(n) \/ SyncBots(n)
    \/ Holds(n) \/ Acquire(n) \/ AcquireFails(n) \/ LostStop(n) \/ LostForget(n)
    \/ Renew(n) \/ RenewFails(n) \/ RenewStop(n)
    \/ Decide(n) \/ Crashed(n) \/ ForgetCrashed(n) \/ MaybeRestart(n)
    \/ Exhausted(n) \/ ResetFailed(n)
    \/ StartRefused(n) \/ Starting(n) \/ BadCommand(n) \/ SpawnFails(n) \/ Spawn(n)
    \/ Started(n) \/ StillRunning(n) \/ StartRelease(n)
    \/ Stopping(n) \/ Stop(n) \/ StopFailed(n) \/ Stopped(n) \/ StopRelease(n)

\* An agent that is going down goes down and is started again.
ComeBack(n) ==
    \/ ShutStop(n) \/ ShutStopFails(n) \/ ShutList(n) \/ ShutWrite(n) \/ Exit(n)
    \/ Restart(n)

LifeStep(n) == SigTerm(n) \/ Crash(n) \/ ComeBack(n)

EnvStep(n) == ProcessExits(n) \/ BackoffElapses(n)

ClientStep(c) ==
    \/ Begin(c) \/ BeginRuntime(c) \/ SetBotDesired(c) \/ SetRuntimeDesired(c)
    \/ ReadRuntime(c) \/ ClearRuntime(c) \/ ClearBot(c)
    \/ WaitBot(c) \/ WaitRuntime(c) \/ MigrateFails(c)
    \/ ReassignRuntime(c) \/ ReassignBot(c) \/ StartMigrated(c) \/ Abort(c)
    \/ BeginPatch(c) \/ Patch(c) \/ BeginCheck(c) \/ Check(c)

Next ==
    \/ \E n \in Nodes : ReconcileStep(n) \/ LifeStep(n) \/ EnvStep(n)
    \/ \E c \in Clients : ClientStep(c)
    \/ LeaseExpires

Spec == Init /\ [][Next]_vars

\* Loop.Run calls Tick on every ticker and every step of a tick returns; a
\* planned restart comes due; a stopped or killed agent is started again; a
\* lease that nobody renews, because its owner is no longer the assigned node,
\* runs out.  Nothing is assumed of clients, of process exits and of the death
\* of agents.
Fairness ==
    /\ \A n \in Nodes : /\ WF_vars(ReconcileStep(n))
                        /\ WF_vars(BackoffElapses(n))
                        /\ WF_vars(ComeBack(n))
    /\ WF_vars(rt.owner # rt.node /\ LeaseExpires)

FairSpec == Spec /\ Fairness

----------------------------------------------------------------------------

AgentPc == {"idle", "sync", "holds", "acquire", "lost", "lostForget", "renew",
            "renewStop", "release", "decide", "crashed", "forget", "backoff",
            "exhausted", "unknown", "start", "spawn", "started", "running",
            "startRelease", "stopping", "stop", "stopped",
            "shutStop", "shutList", "shutWrite", "exit", "down"}

\* Where a tick or a shutdown goes on after it has written the bot.
SyncNext == {"idle", "spawn", "startRelease", "forget", "stop", "release", "exit"}

ClientPc == {"idle", "botDesired", "rtDesired", "readRuntime", "clearRuntime",
             "clearBot", "waitBot", "waitRuntime", "reassignRuntime",
             "reassignBot", "startMigrated", "patch", "check"}

RuntimeRow == [desired : Desired, actual : Actual, pid : Pids \cup {NoPid},
               node : Nodes, owner : Nodes \cup {NoNode}, valid : BOOLEAN]
BotRow == [desired : Desired, actual : Actual, sick : BOOLEAN, node : Nodes]
Agent == [pc : AgentPc, actual : Actual, pid : Pids \cup {NoPid}, snap : Slot,
          sync : Actual, next : SyncNext]
Backoff == [attempts : 0..MaxAttempts, nextAt : {"zero", "later", "due"}]
Request == [pc : ClientPc, kind : AllKinds, to : Nodes,
            bot : Actual, sick : BOOLEAN, rt : Actual]

\* Types, with one bound that takes the whole restart path to hold: the tracker
\* never counts past RESTART_MAX_ATTEMPTS.
TypeOK ==
    /\ rt \in RuntimeRow
    /\ bot \in BotRow
    /\ ag \in [Nodes -> Agent]
    /\ slot \in [Nodes -> Slot]
    /\ back \in [Nodes -> Backoff]
    /\ alive \in [Nodes -> SUBSET Pids]
    /\ op \in [Clients -> Request]
    /\ ops \in Nat
    /\ downs \in Nat

\* Every process of the bot is in the supervisor slot of a running agent, so a
\* later tick can still find and stop it: no path of a tick (lost lease, failed
\* renewal, crash, restart, failed stop, shutdown) drops a live process from
\* the books.  Supposes that agents are not killed and that StopAll succeeds.
ProcessesTracked ==
    \A n \in Nodes :
        alive[n] = IF slot[n].st = "live" THEN {slot[n].pid} ELSE {}

\* One bot is never served by two dedicated processes, on one node or on two.
AtMostOneProcess ==
    \A n, m \in Nodes : \A p \in alive[n], q \in alive[m] : n = m /\ p = q

\* A row that says stopped is the truth: Migrate and the users of ctl take it
\* as the proof that the process is gone.  Neither a tick that read an older
\* row nor a start that clears the state makes it a lie.
StoppedMeansDead ==
    rt.actual = "stopped" \/ bot.actual = "stopped" => \A n \in Nodes : alive[n] = {}

\* A request ends, and it ends cut before its write of the runtime.
Ends(c) == op[c].pc # "idle" /\ Return(c)
CutShort(c) == Abort(c) /\ op[c].pc \in {"botDesired", "rtDesired"}

\* A start, a stop or a migration that ends, and was not cut before its write of
\* the runtime, leaves the bot and its runtime with one desired state: also when
\* it was refused half way, timed out or was cut later, and also when an earlier
\* request was cut between its two writes and left the rows apart.  Supposes
\* requests one after the other.
DesiredAgree ==
    [][\A c \in Clients : Ends(c) /\ op[c].kind \in BotKinds
                           => CutShort(c) \/ bot'.desired = rt'.desired]_vars

\* A runtime that is wanted gets a process on its node, after any number of
\* crashes, expired leases and migrations, unless it is stopped meanwhile.
StartConverges ==
    rt.desired = "running" ~> alive[rt.node] # {} \/ rt.desired = "stopped"

\* The same for a bot that is moved while it runs.  A tick of the old node may
\* still write failed over the row of the new node's live process; that agent
\* then spends the restart attempts on a process that is running, and when it
\* ends the bot stays failed with its attempts used up.
MovedConverges ==
    rt.desired = "running"
        ~> \/ alive[rt.node] # {} \/ rt.desired = "stopped"
           \/ ag[rt.node].pc = "exhausted"

\* A runtime that is not wanted loses its process and its lease on its node,
\* and both rows come to say so, unless it is started meanwhile or the row says
\* that the process refused to be stopped.  It speaks of the process in the
\* supervisor's slot: that of a killed predecessor is nobody's.
StopConverges ==
    rt.desired = "stopped"
        ~> \/ /\ slot[rt.node].st # "live" /\ ~(rt.owner = rt.node)
              /\ rt.actual = "stopped" /\ bot.actual = "stopped"
           \/ rt.desired = "running"
           \/ "tick" \in StopErrors /\ rt.actual = "failed"

\* The node whose lease of the runtime counts.
Holder == IF rt.valid THEN rt.owner ELSE NoNode

Lease == INSTANCE AbstractLease WITH holder <- Holder

\* However stale the rows are by which ticks acquire, renew and release, and
\* whatever migrations and agents that go away do in between, the lease passes
\* from one node to another only through a moment when nobody holds it.
ImplementsAbstractLease == Lease!Spec

Tracker(n) == INSTANCE AbstractRestart
    WITH limit <- MaxAttempts, attempts <- back[n].attempts, nextAt <- back[n].nextAt

\* The ticks of each node go through its restart tracker the way RestartPolicy
\* does: a restart is planned first, taken only when its moment has come and
\* only once, and planned at most MaxAttempts times without a reset, also when
\* the agent is stopped or killed between two calls of a tick.
ImplementsAbstractRestart ==
    /\ \A n \in Nodes : Tracker(n)!Init
    /\ [][ \A n \in Nodes : [Tracker(n)!Next]_(back[n]) ]_back
============================================================================
