------------------------------ MODULE BotRunner ------------------------------
(***************************************************************************)
(* The default bots of a fleet and the one bot-runner process each node    *)
(* has for them: the agent's half of the reconcile loop that starts and    *)
(* stops the runner (internal/reconcile/runner.go), the runner that keeps  *)
(* an instance per wanted bot (internal/runner), the health checker        *)
(* (internal/health) and the clients (internal/ops, PATCH of the API).     *)
(*                                                                         *)
(* All of them list rows of the shared store and act on the list later.    *)
(* An action is one store call with the local computation and the          *)
(* supervisor calls around it; agents, runners, checkers and clients       *)
(* interleave freely.                                                      *)
(*                                                                         *)
(* Runners are named by their node, `bot-runner-<node>`.  Nobody but the   *)
(* agent of that node asks for the lease of its runner, so the lease       *)
(* always answers yes and is left out.  That supposes clients without a    *)
(* BOT_RUNNER_COMMAND of their own: with one, a create or a migration may  *)
(* write the row back with the lease columns it read (ops/bots.go:284)     *)
(* between the agent's Holds and Renew, the renewal fails, the tick stops  *)
(* the runner (runner.go:285) and the next one starts it again.            *)
(***************************************************************************)
EXTENDS Naturals, FiniteSets

CONSTANTS
    Nodes,         \* NODE_IDs
    Bots,          \* bots of the default types
    Webhook,       \* those with run_mode=webhook: the health checker asks them
    Home,          \* the node all bots were created on
    Clients,       \* concurrent ctl / control-api requests
    Kinds,         \* which requests they make, a subset of AllKinds
    MaxOps,        \* bound on the number of requests and of agent stops
    MaxAttempts,   \* RESTART_MAX_ATTEMPTS
    Threshold,     \* FailureThreshold of the checker
    StartErrors,   \* TRUE: the OS may refuse the runner, a runner an instance
    Stops          \* TRUE: agents may be stopped with SIGTERM

AllKinds == {"start", "stop", "migrate", "patchConfig", "patchNode",
             "rtstart", "rtstop"}

ASSUME BotRunnerAssumption ==
    /\ Webhook \subseteq Bots
    /\ Home \in Nodes
    /\ Kinds \subseteq AllKinds
    /\ MaxOps \in Nat
    /\ MaxAttempts \in Nat
    /\ Threshold \in Nat \ {0}
    /\ StartErrors \in BOOLEAN
    /\ Stops \in BOOLEAN

VARIABLES
    bot,     \* the row of each bot
    run,     \* the row of each node's bot_runner runtime
    ag,      \* the reconcile loop of each node: program counter and locals
    proc,    \* the supervisor slot of the runner's process on each node
    back,    \* restartTracker.items of each node's runner
    inst,    \* the runner's instances: config_version served, 0 for none
    sync,    \* Manager.Sync of each node's runner
    chk,     \* Checker.Tick of each node
    fails,   \* Checker.failures of each node
    op,      \* the request each client is serving
    ops      \* requests and agent stops so far

vars == <<bot, run, ag, proc, back, inst, sync, chk, fails, op, ops>>
rows == <<bot, run>>
agents == <<ag, proc, back>>
runners == <<inst, sync>>
checkers == <<chk, fails>>
clients == <<op, ops>>

Desired == {"running", "stopped"}
Actual == {"unknown", "starting", "running", "stopping", "stopped", "failed",
           "migrating"}

NoBackoff == [attempts |-> 0, nextAt |-> "zero"]
NoInstances == [b \in Bots |-> 0]

\* The row CreateRunner makes; own says that start_command is the agent's
\* BOT_RUNNER_COMMAND and not the placeholder of a client.
NewRunner(own) == [exists |-> TRUE, desired |-> "stopped", actual |-> "unknown",
                   own |-> own]

\* An agent between two ticks: need and bind come from the list of bots, row is
\* the runner's row as last read, todo the bots still to be written.
IdleAgent == [pc |-> "idle", need |-> FALSE, bind |-> {}, row |-> NewRunner(FALSE),
              todo |-> {}]

IdleSync == [pc |-> "idle", wanted |-> {}, at |-> {}]
IdleCheck == [pc |-> "idle", list |-> {}, at |-> {}]

\* A row createDefault leaves behind.
NewBot == [desired |-> "stopped", actual |-> "unknown", sick |-> FALSE,
           node |-> Home, rt |-> Home, cfg |-> 1]

IdleClient == [pc |-> "idle", kind |-> "start", id |-> {}, to |-> Home, row |-> NewBot]

\* Some of the bots, and their runner with them, may have been started before
\* any agent has seen them.
Init ==
    /\ \E desired \in [Bots -> Desired] :
          /\ bot = [b \in Bots |-> [NewBot EXCEPT !.desired = desired[b]]]
          /\ run = [n \in Nodes |-> [NewRunner(FALSE) EXCEPT
                      !.exists = (n = Home),
                      !.desired = IF n = Home /\ \E b \in Bots : desired[b] = "running"
                                  THEN "running" ELSE "stopped"]]
    /\ ag = [n \in Nodes |-> IdleAgent]
    /\ proc = [n \in Nodes |-> "none"]
    /\ back = [n \in Nodes |-> NoBackoff]
    /\ inst = [n \in Nodes |-> NoInstances]
    /\ sync = [n \in Nodes |-> IdleSync]
    /\ chk = [n \in Nodes |-> IdleCheck]
    /\ fails = [n \in Nodes |-> NoInstances]
    /\ op = [c \in Clients |-> IdleClient]
    /\ ops = 0

----------------------------------------------------------------------------
(* Store calls.                                                            *)

\* Bots.UpdateActual; sick is a last_error with the healthcheck prefix.
UpdateBot(b, state, sick) ==
    bot' = [bot EXCEPT ![b] = [@ EXCEPT !.actual = state, !.sick = sick]]

UpdateRunner(n, state) == run' = [run EXCEPT ![n].actual = state]

UpdateDesired(n, state) == run' = [run EXCEPT ![n].desired = state]

\* Bots.ListByNode and ListByRuntime.
ListByNode(n) == {b \in Bots : bot[b].node = n}
ListByRuntime(n) == {b \in Bots : bot[b].rt = n}

Goto(n, l) == ag' = [ag EXCEPT ![n].pc = l]

\* What the tick has read so far is not used again.
GotoFresh(n, l) == ag' = [ag EXCEPT ![n] = [IdleAgent EXCEPT !.pc = l]]

EndTick(n) == ag' = [ag EXCEPT ![n] = IdleAgent]

\* The process of the runner is gone, and its instances and its Sync with it.
KillRunner(n, slot) ==
    /\ proc' = [proc EXCEPT ![n] = slot]
    /\ inst' = [inst EXCEPT ![n] = NoInstances]
    /\ sync' = [sync EXCEPT ![n] = IdleSync]

----------------------------------------------------------------------------
(* ensureBotRunner: list the bots, get or create the row, bind, unwant.    *)

\* A node without default bots has nothing to ensure.
List(n) ==
    /\ ag[n].pc = "idle"
    /\ ListByNode(n) # {}
    /\ ag' = [ag EXCEPT ![n] = [IdleAgent EXCEPT
                 !.pc = "byName",
                 !.need = \E b \in ListByNode(n) : bot[b].desired = "running",
                 !.bind = {[id |-> b, row |-> bot[b]] :
                              b \in {x \in ListByNode(n) : bot[x].rt # n}}]]
    /\ UNCHANGED <<rows, proc, back, runners, checkers, clients>>

\* What follows once the runner's row is known: bind the bots of the list that
\* have another runner, then withdraw the wish if none of the list wants to run.
AfterRow(n, bind, row) ==
    ag' = [ag EXCEPT ![n] = [@ EXCEPT
              !.bind = bind, !.row = row,
              !.pc = IF bind # {} THEN "bind"
                     ELSE IF ~ag[n].need /\ row.desired # "stopped" THEN "unwant"
                     ELSE "byID"]]

ByName(n) ==
    /\ ag[n].pc = "byName"
    /\ \/ run[n].exists /\ run[n].own /\ AfterRow(n, ag[n].bind, run[n])
       \/ /\ run[n].exists /\ ~run[n].own
          /\ ag' = [ag EXCEPT ![n] = [@ EXCEPT !.pc = "refresh", !.row = run[n]]]
       \/ ~run[n].exists /\ Goto(n, "create")
    /\ UNCHANGED <<rows, proc, back, runners, checkers, clients>>

\* Runtimes.Create; the name is unique, so it may come too late.
CreateRunner(n) ==
    /\ ag[n].pc = "create"
    /\ IF run[n].exists
       THEN EndTick(n) /\ UNCHANGED run
       ELSE /\ run' = [run EXCEPT ![n] = NewRunner(TRUE)]
            /\ AfterRow(n, ag[n].bind, NewRunner(TRUE))
    /\ UNCHANGED <<bot, proc, back, runners, checkers, clients>>

\* refreshBotRunnerCommand: the whole row as read by ByName is written back.
RefreshCommand(n) ==
    /\ ag[n].pc = "refresh"
    /\ LET row == [ag[n].row EXCEPT !.own = TRUE] IN
       /\ run' = [run EXCEPT ![n] = row]
       /\ AfterRow(n, ag[n].bind, row)
    /\ UNCHANGED <<bot, proc, back, runners, checkers, clients>>

\* Bots.Update of the whole row as listed, with the runtime_id of this node.
Bind(n) ==
    /\ ag[n].pc = "bind"
    /\ \E r \in ag[n].bind :
          /\ bot' = [bot EXCEPT ![r.id] = [r.row EXCEPT !.rt = n]]
          /\ AfterRow(n, ag[n].bind \ {r}, ag[n].row)
    /\ UNCHANGED <<run, proc, back, runners, checkers, clients>>

Unwant(n) ==
    /\ ag[n].pc = "unwant"
    /\ UpdateDesired(n, "stopped")
    /\ Goto(n, "byID")
    /\ UNCHANGED <<bot, proc, back, runners, checkers, clients>>

----------------------------------------------------------------------------
(* reconcileBotRunner.                                                     *)

\* A mutant: a runner whose row says stopped is not started.
Mut_EnsureRunning(n, slot, actual) ==
    \/ slot = "dead" /\ GotoFresh(n, "crashed") /\ UNCHANGED back
    \/ slot = "none" /\ actual = "failed" /\ GotoFresh(n, "backoff") /\ UNCHANGED back
    \/ slot = "none" /\ actual = "unknown" /\ GotoFresh(n, "start") /\ UNCHANGED back
    \/ slot = "none" /\ actual \notin {"failed", "unknown"} /\ EndTick(n) /\ UNCHANGED back
    \/ /\ slot = "live"
       /\ IF actual = "running" THEN EndTick(n) ELSE GotoFresh(n, "running")
       /\ back' = [back EXCEPT ![n] = NoBackoff]

\* ensureBotRunnerRunning after the lease: by the supervisor's slot and the
\* actual state of the row that was read.
EnsureRunning(n, slot, actual) ==
    \/ slot = "dead" /\ GotoFresh(n, "crashed") /\ UNCHANGED back
    \/ slot = "none" /\ actual = "failed" /\ GotoFresh(n, "backoff") /\ UNCHANGED back
    \/ slot = "none" /\ actual # "failed" /\ GotoFresh(n, "start") /\ UNCHANGED back
    \/ /\ slot = "live"
       /\ IF actual = "running" THEN EndTick(n) ELSE GotoFresh(n, "running")
       /\ back' = [back EXCEPT ![n] = NoBackoff]

\* Runtimes.ByID and Snapshot: the wish may have changed since the list.
ByID(n) ==
    /\ ag[n].pc = "byID"
    /\ \/ /\ run[n].desired = "running" /\ ag[n].need /\ proc[n] = "live"
          /\ ag' = [ag EXCEPT ![n] = [@ EXCEPT !.pc = "unhealthy", !.row = run[n]]]
          /\ UNCHANGED back
       \/ /\ run[n].desired = "running" /\ ~(ag[n].need /\ proc[n] = "live")
          /\ EnsureRunning(n, proc[n], run[n].actual)
       \/ /\ run[n].desired = "stopped"
          /\ GotoFresh(n, IF proc[n] = "live" THEN "stopping" ELSE "stopped")
          /\ back' = [back EXCEPT ![n] = NoBackoff]
    /\ UNCHANGED <<rows, proc, runners, checkers, clients>>

\* findUnhealthyDefault.
Unhealthy(n) ==
    \E b \in ListByRuntime(n) :
        bot[b].desired = "running" /\ bot[b].actual = "failed" /\ bot[b].sick

FindUnhealthy(n) ==
    /\ ag[n].pc = "unhealthy"
    /\ \/ Unhealthy(n) /\ GotoFresh(n, "backoff") /\ UNCHANGED back
       \/ ~Unhealthy(n) /\ EnsureRunning(n, "live", ag[n].row.actual)
    /\ UNCHANGED <<rows, proc, runners, checkers, clients>>

Crashed(n) ==
    /\ ag[n].pc = "crashed"
    /\ UpdateRunner(n, "failed")
    /\ proc' = [proc EXCEPT ![n] = IF @ = "live" THEN @ ELSE "none"]
    /\ Goto(n, "backoff")
    /\ UNCHANGED <<bot, back, runners, checkers, clients>>

\* A planned restart whose time has come; a mutant takes it at once.
Mut_Planned(n) == back[n].nextAt # "zero"
Due(n) == back[n].nextAt = "due"

\* A mutant: one attempt too many.
Mut_MaybeRestart(n) ==
    /\ ag[n].pc = "backoff"
    /\ \/ back[n].nextAt = "later" /\ EndTick(n) /\ UNCHANGED back
       \/ /\ back[n].nextAt = "due"
          /\ Goto(n, "restart")
          /\ back' = [back EXCEPT ![n].nextAt = "zero"]
       \/ /\ back[n].nextAt = "zero" /\ back[n].attempts > MaxAttempts
          /\ Goto(n, "exhausted")
          /\ UNCHANGED back
       \/ /\ back[n].nextAt = "zero" /\ back[n].attempts <= MaxAttempts
          /\ EndTick(n)
          /\ back' = [back EXCEPT ![n] = [attempts |-> @.attempts + 1, nextAt |-> "later"]]
    /\ UNCHANGED <<rows, proc, runners, checkers, clients>>

\* recordFailure: a planned restart is waited for, a due one taken, otherwise
\* the next one is planned while there are attempts left.
MaybeRestart(n) ==
    /\ ag[n].pc = "backoff"
    /\ \/ /\ MaxAttempts = 0 \/ back[n].nextAt = "later"
          /\ EndTick(n)
          /\ UNCHANGED back
       \/ /\ MaxAttempts > 0 /\ Due(n)
          /\ Goto(n, "restart")
          /\ back' = [back EXCEPT ![n].nextAt = "zero"]
       \/ /\ MaxAttempts > 0 /\ back[n].nextAt = "zero"
          /\ back[n].attempts >= MaxAttempts
          /\ Goto(n, "exhausted")
          /\ UNCHANGED back
       \/ /\ MaxAttempts > 0 /\ back[n].nextAt = "zero"
          /\ back[n].attempts < MaxAttempts
          /\ EndTick(n)
          /\ back' = [back EXCEPT ![n] = [attempts |-> @.attempts + 1, nextAt |-> "later"]]
    /\ UNCHANGED <<rows, proc, runners, checkers, clients>>

Exhausted(n) ==
    /\ ag[n].pc = "exhausted"
    /\ UpdateRunner(n, "failed")
    /\ EndTick(n)
    /\ UNCHANGED <<bot, proc, back, runners, checkers, clients>>

----------------------------------------------------------------------------
(* restartBotRunner, startBotRunnerProcess, ensureBotRunnerStopped.        *)

\* Supervisor.Stop, Forget, then the list of the bots whose state is reset.
RestartRunner(n) ==
    /\ ag[n].pc = "restart"
    /\ KillRunner(n, "none")
    /\ ag' = [ag EXCEPT ![n] = [@ EXCEPT !.pc = "resetBots",
                 !.todo = {b \in ListByRuntime(n) : bot[b].desired = "running"}]]
    /\ UNCHANGED <<rows, back, checkers, clients>>

\* The next bot of a list gets its new actual state.
WriteTodo(n, state) ==
    \E b \in ag[n].todo :
        /\ UpdateBot(b, state, FALSE)
        /\ ag' = [ag EXCEPT ![n].todo = @ \ {b}]

ResetBot(n) ==
    /\ ag[n].pc = "resetBots"
    /\ WriteTodo(n, "unknown")
    /\ UNCHANGED <<run, proc, back, runners, checkers, clients>>

\* The row is reset and read again: nobody else writes failed, so a start
\* follows, whatever the wish has become meanwhile.
ResetRunner(n) ==
    /\ ag[n].pc = "resetBots"
    /\ ag[n].todo = {}
    /\ UpdateRunner(n, "unknown")
    /\ Goto(n, "start")
    /\ UNCHANGED <<bot, proc, back, runners, checkers, clients>>

Starting(n) ==
    /\ ag[n].pc = "start"
    /\ UpdateRunner(n, "starting")
    /\ Goto(n, "spawn")
    /\ UNCHANGED <<bot, proc, back, runners, checkers, clients>>

Spawn(n) ==
    /\ ag[n].pc = "spawn"
    /\ proc' = [proc EXCEPT ![n] = "live"]
    /\ Goto(n, "running")
    /\ UNCHANGED <<rows, back, runners, checkers, clients>>

SpawnFails(n) ==
    /\ ag[n].pc = "spawn"
    /\ StartErrors
    /\ UpdateRunner(n, "failed")
    /\ EndTick(n)
    /\ UNCHANGED <<bot, proc, back, runners, checkers, clients>>

\* The row says running, after a start or because it was out of date.
Running(n) ==
    /\ ag[n].pc = "running"
    /\ UpdateRunner(n, "running")
    /\ EndTick(n)
    /\ back' = [back EXCEPT ![n] = NoBackoff]
    /\ UNCHANGED <<bot, proc, runners, checkers, clients>>

Stopping(n) ==
    /\ ag[n].pc = "stopping"
    /\ UpdateRunner(n, "stopping")
    /\ Goto(n, "stopped")
    /\ UNCHANGED <<bot, proc, back, runners, checkers, clients>>

\* A mutant: the rows are written, the process is not stopped.
Mut_Stopped(n) ==
    /\ ag[n].pc = "stopped"
    /\ UpdateRunner(n, "stopped")
    /\ Goto(n, "listBots")
    /\ UNCHANGED <<bot, proc, back, runners, checkers, clients>>

\* Supervisor.Stop returned nil, or there was nothing to stop.
Stopped(n) ==
    /\ ag[n].pc = "stopped"
    /\ IF proc[n] = "live" THEN KillRunner(n, "dead") ELSE UNCHANGED <<proc, runners>>
    /\ UpdateRunner(n, "stopped")
    /\ Goto(n, "listBots")
    /\ UNCHANGED <<bot, back, checkers, clients>>

\* A mutant: only the bots that are marked running are marked stopped.
Mut_ListStopped(n) ==
    /\ ag[n].pc = "listBots"
    /\ ag' = [ag EXCEPT ![n] = [@ EXCEPT !.pc = "stopBots",
                 !.todo = {b \in ListByRuntime(n) : bot[b].actual = "running"}]]
    /\ UNCHANGED <<rows, proc, back, runners, checkers, clients>>

ListStopped(n) ==
    /\ ag[n].pc = "listBots"
    /\ ag' = [ag EXCEPT ![n] = [@ EXCEPT !.pc = "stopBots",
                 !.todo = {b \in ListByRuntime(n) : bot[b].actual # "stopped"}]]
    /\ UNCHANGED <<rows, proc, back, runners, checkers, clients>>

StopBot(n) ==
    /\ ag[n].pc = "stopBots"
    /\ WriteTodo(n, "stopped")
    /\ UNCHANGED <<run, proc, back, runners, checkers, clients>>

ForgetStopped(n) ==
    /\ ag[n].pc = "stopBots"
    /\ ag[n].todo = {}
    /\ proc' = [proc EXCEPT ![n] = "none"]
    /\ EndTick(n)
    /\ UNCHANGED <<rows, back, runners, checkers, clients>>

----------------------------------------------------------------------------
(* Shutdown of the agent, its runner half, and the next agent.             *)

SigTerm(n) ==
    /\ ag[n].pc \notin {"shutStop", "shutWrite", "shutList", "shutBots"}
    /\ Stops
    /\ ops < MaxOps
    /\ ops' = ops + 1
    /\ ag' = [ag EXCEPT ![n] = [IdleAgent EXCEPT !.pc = "shutStop"]]
    /\ UNCHANGED <<rows, proc, back, runners, checkers, op>>

\* StopAll, then ListByNode of the runtimes.
ShutStop(n) ==
    /\ ag[n].pc = "shutStop"
    /\ IF proc[n] = "live" THEN KillRunner(n, "dead") ELSE UNCHANGED <<proc, runners>>
    /\ Goto(n, IF run[n].exists THEN "shutWrite" ELSE "shutBots")
    /\ UNCHANGED <<rows, back, checkers, clients>>

ShutWrite(n) ==
    /\ ag[n].pc = "shutWrite"
    /\ UpdateRunner(n, "stopped")
    /\ Goto(n, "shutList")
    /\ UNCHANGED <<bot, proc, back, runners, checkers, clients>>

\* All bots bound to the runner are marked, stopped or not.
ShutList(n) ==
    /\ ag[n].pc = "shutList"
    /\ ag' = [ag EXCEPT ![n] = [@ EXCEPT !.pc = "shutBots", !.todo = ListByRuntime(n)]]
    /\ UNCHANGED <<rows, proc, back, runners, checkers, clients>>

ShutBot(n) ==
    /\ ag[n].pc = "shutBots"
    /\ WriteTodo(n, "stopped")
    /\ UNCHANGED <<run, proc, back, runners, checkers, clients>>

\* The process exits; the next agent starts with an empty supervisor.
NextAgent(n) ==
    /\ ag[n].pc = "shutBots"
    /\ ag[n].todo = {}
    /\ EndTick(n)
    /\ proc' = [proc EXCEPT ![n] = "none"]
    /\ back' = [back EXCEPT ![n] = NoBackoff]
    /\ UNCHANGED <<rows, runners, checkers, clients>>

----------------------------------------------------------------------------
(* Manager.Sync of the runner process.                                     *)

Wants(n, b) == bot[b].rt = n /\ bot[b].node = n /\ bot[b].desired = "running"

\* Mutants: the runner removes the unwanted bots of its list, and not the
\* instances that are not in the list; it does not reload.
Mut_ToRemove(n, wanted) ==
    {b \in ListByRuntime(n) : inst[n][b] # 0 /\ ~\E w \in wanted : w[1] = b}
Mut_ToAdd(n, wanted) == {w \in wanted : inst[n][w[1]] = 0}

\* What a pass has to do, given the list it works by.
ToRemove(n, wanted) == {b \in Bots : inst[n][b] # 0 /\ ~\E w \in wanted : w[1] = b}
ToAdd(n, wanted) == {w \in wanted : inst[n][w[1]] # w[2]}

\* After the removals the pass adds and reloads; then it is over.
ThenAdd(n, todo) ==
    sync' = [sync EXCEPT ![n] = IF todo = {} THEN IdleSync
                                ELSE [pc |-> "add", wanted |-> todo, at |-> {}]]

\* ListByRuntime; a pass without work leaves no trace.
SyncList(n) ==
    /\ proc[n] = "live"
    /\ sync[n].pc = "idle"
    /\ LET wanted == {<<b, bot[b].cfg>> : b \in {x \in Bots : Wants(n, x)}} IN
       \/ /\ ToRemove(n, wanted) # {}
          /\ sync' = [sync EXCEPT ![n] = [pc |-> "remove", wanted |-> wanted, at |-> {}]]
       \/ /\ ToRemove(n, wanted) = {} /\ ToAdd(n, wanted) # {}
          /\ ThenAdd(n, ToAdd(n, wanted))
    /\ UNCHANGED <<rows, agents, inst, checkers, clients>>

\* An instance that is not in the list is stopped and its bot marked stopped.
RemoveInstance(n) ==
    /\ sync[n].pc = "remove"
    /\ \E b \in ToRemove(n, sync[n].wanted) :
          /\ inst' = [inst EXCEPT ![n][b] = 0]
          /\ UpdateBot(b, "stopped", FALSE)
          /\ IF ToRemove(n, sync[n].wanted) = {b}
             THEN ThenAdd(n, ToAdd(n, sync[n].wanted)) ELSE UNCHANGED sync
    /\ UNCHANGED <<run, agents, checkers, clients>>

\* A missing instance, or one with another configuration, which is stopped
\* first: the bot is marked starting.
AddInstance(n) ==
    /\ sync[n].pc = "add"
    /\ \E w \in sync[n].wanted :
          /\ inst' = [inst EXCEPT ![n][w[1]] = 0]
          /\ UpdateBot(w[1], "starting", FALSE)
          /\ sync' = [sync EXCEPT ![n] = [pc |-> "launch", at |-> {w},
                                          wanted |-> sync[n].wanted \ {w}]]
    /\ UNCHANGED <<run, agents, checkers, clients>>

\* startInstance succeeded.
Launch(n) ==
    /\ sync[n].pc = "launch"
    /\ \E w \in sync[n].at :
          /\ inst' = [inst EXCEPT ![n][w[1]] = w[2]]
          /\ UpdateBot(w[1], "running", FALSE)
    /\ ThenAdd(n, sync[n].wanted)
    /\ UNCHANGED <<run, agents, checkers, clients>>

\* No token, an unknown channel, or the port is taken.
LaunchFails(n) ==
    /\ StartErrors
    /\ sync[n].pc = "launch"
    /\ \E w \in sync[n].at : UpdateBot(w[1], "failed", FALSE)
    /\ ThenAdd(n, sync[n].wanted)
    /\ UNCHANGED <<run, agents, inst, checkers, clients>>

----------------------------------------------------------------------------
(* Checker.Tick of the health checker of each node.                        *)

\* The bots the checker asks, with what it will know of their rows.
CheckList(n) ==
    /\ chk[n].pc = "idle"
    /\ LET asked == {b \in Webhook \cap ListByNode(n) : bot[b].desired = "running"} IN
       chk' = IF asked = {} THEN chk
              ELSE [chk EXCEPT ![n] = [IdleCheck EXCEPT !.pc = "check",
                      !.list = {[id |-> b, sick |-> bot[b].actual = "failed" /\ bot[b].sick] :
                                   b \in asked}]]
    /\ fails' = [fails EXCEPT ![n] = [b \in Bots |->
                    IF b \in ListByNode(n) /\ bot[b].desired = "stopped" THEN 0 ELSE @[b]]]
    /\ UNCHANGED <<rows, agents, runners, clients>>

\* The checker goes on with the rest of its list.
CheckNext(n, list) ==
    chk' = [chk EXCEPT ![n] = IF list = {} THEN IdleCheck
                              ELSE [pc |-> "check", list |-> list, at |-> {}]]

\* What the answer of bot r leads to.
Asked(n, r, l) ==
    IF l = "check" THEN CheckNext(n, chk[n].list \ {r})
    ELSE chk' = [chk EXCEPT ![n] = [pc |-> l, list |-> @.list \ {r}, at |-> {r.id}]]

\* /healthz answers 200.
CheckAnswers(n) ==
    /\ chk[n].pc = "check"
    /\ \E r \in chk[n].list :
          /\ inst[n][r.id] # 0
          /\ fails' = [fails EXCEPT ![n][r.id] = 0]
          /\ Asked(n, r, IF r.sick THEN "restore" ELSE "check")
    /\ UNCHANGED <<rows, agents, runners, clients>>

\* It does not: nobody listens, or the instance is unhealthy or slow.
CheckFails(n) ==
    /\ chk[n].pc = "check"
    /\ \E r \in chk[n].list :
          /\ fails' = [fails EXCEPT ![n][r.id] = IF @ < Threshold THEN @ + 1 ELSE @]
          /\ Asked(n, r, IF fails[n][r.id] + 1 >= Threshold THEN "mark" ELSE "check")
    /\ UNCHANGED <<rows, agents, runners, clients>>

CheckWrites(n, l, state) ==
    /\ chk[n].pc = l
    /\ \E b \in chk[n].at : UpdateBot(b, state, state = "failed")
    /\ CheckNext(n, chk[n].list)
    /\ UNCHANGED <<run, agents, runners, fails, clients>>

MarkUnhealthy(n) == CheckWrites(n, "mark", "failed")
RestoreHealth(n) == CheckWrites(n, "restore", "running")

----------------------------------------------------------------------------
(* The operating system and time.                                          *)

ProcessExits(n) ==
    /\ proc[n] = "live"
    /\ KillRunner(n, "dead")
    /\ UNCHANGED <<rows, ag, back, checkers, clients>>

BackoffElapses(n) ==
    /\ back[n].nextAt = "later"
    /\ back' = [back EXCEPT ![n].nextAt = "due"]
    /\ UNCHANGED <<rows, ag, proc, runners, checkers, clients>>

----------------------------------------------------------------------------
(* Clients: ops.StartWithLimit, ops.Stop and ops.Migrate of a default bot, *)
(* PATCH, and `ctl runtime start|stop` of a runner.                        *)

ClientGoto(c, l) == op' = [op EXCEPT ![c].pc = l]

Return(c) == op' = [op EXCEPT ![c] = IdleClient]

Cleared == {"failed", "stopped"}

FirstCall(kind) ==
    IF kind \in {"patchConfig", "patchNode"} THEN "patch" ELSE "botDesired"

\* Bots.ByID.
Begin(c) ==
    /\ op[c].pc = "idle"
    /\ ops < MaxOps
    /\ ops' = ops + 1
    /\ \E kind \in Kinds \ {"rtstart", "rtstop"}, b \in Bots, to \in Nodes :
          /\ kind \in {"migrate", "patchNode"} => to # bot[b].node
          /\ kind \notin {"migrate", "patchNode"} => to = Home
          /\ op' = [op EXCEPT ![c] = [pc |-> FirstCall(kind), kind |-> kind,
                                      id |-> {b}, to |-> to, row |-> bot[b]]]
    /\ UNCHANGED <<rows, agents, runners, checkers>>

\* runtimeSetDesired of the runner of node n: ByID.
BeginRuntime(c) ==
    /\ op[c].pc = "idle"
    /\ ops < MaxOps
    /\ ops' = ops + 1
    /\ \E kind \in Kinds \cap {"rtstart", "rtstop"}, n \in Nodes :
          /\ run[n].exists
          /\ op' = [op EXCEPT ![c] = [IdleClient EXCEPT
                       !.pc = "rtDesired", !.kind = kind,
                       !.row = [NewBot EXCEPT !.rt = n, !.actual = run[n].actual]]]
    /\ UNCHANGED <<rows, agents, runners, checkers>>

Wanted(c) == IF op[c].kind \in {"start", "rtstart"} THEN "running" ELSE "stopped"

SetBotDesired(c) ==
    /\ op[c].pc = "botDesired"
    /\ \E b \in op[c].id : bot' = [bot EXCEPT ![b].desired = Wanted(c)]
    /\ ClientGoto(c, IF op[c].kind = "start" THEN "rtDesired" ELSE "others")
    /\ UNCHANGED <<run, agents, runners, checkers, ops>>

AfterStop(c) == IF op[c].kind = "migrate" THEN ClientGoto(c, "waitBot") ELSE Return(c)

\* anyDefaultRunning: the runner is left running for the others.
OthersRunning(c) ==
    \E b \in ListByRuntime(op[c].row.rt) \ op[c].id : bot[b].desired = "running"

Others(c) ==
    /\ op[c].pc = "others"
    /\ IF OthersRunning(c) THEN AfterStop(c) ELSE ClientGoto(c, "rtDesired")
    /\ UNCHANGED <<rows, agents, runners, checkers, ops>>

SetRuntimeDesired(c) ==
    /\ op[c].pc = "rtDesired"
    /\ UpdateDesired(op[c].row.rt, Wanted(c))
    /\ \/ op[c].kind = "start" /\ ClientGoto(c, "readRuntime")
       \/ op[c].kind = "rtstart" /\ op[c].row.actual \in Cleared /\ ClientGoto(c, "clearRuntime")
       \/ op[c].kind = "rtstart" /\ op[c].row.actual \notin Cleared /\ Return(c)
       \/ op[c].kind \notin {"start", "rtstart"} /\ AfterStop(c)
    /\ UNCHANGED <<bot, agents, runners, checkers, ops>>

\* The bot's own state is judged by the row read at the very beginning.
ClearBotNext(c) ==
    IF op[c].kind = "start" /\ op[c].row.actual \in Cleared
    THEN ClientGoto(c, "clearBot") ELSE Return(c)

ReadRuntime(c) ==
    /\ op[c].pc = "readRuntime"
    /\ IF run[op[c].row.rt].actual \in Cleared
       THEN ClientGoto(c, "clearRuntime") ELSE ClearBotNext(c)
    /\ UNCHANGED <<rows, agents, runners, checkers, ops>>

ClearRuntime(c) ==
    /\ op[c].pc = "clearRuntime"
    /\ UpdateRunner(op[c].row.rt, "unknown")
    /\ ClearBotNext(c)
    /\ UNCHANGED <<bot, agents, runners, checkers, ops>>

ClearBot(c) ==
    /\ op[c].pc = "clearBot"
    /\ \E b \in op[c].id : UpdateBot(b, "unknown", FALSE)
    /\ Return(c)
    /\ UNCHANGED <<run, agents, runners, checkers, ops>>

\* waitBotStopped: of a default bot only its own row counts.
WaitBot(c) ==
    /\ op[c].pc = "waitBot"
    /\ \E b \in op[c].id : bot[b].actual \in {"stopped", "unknown"}
    /\ ClientGoto(c, "reread")
    /\ UNCHANGED <<rows, agents, runners, checkers, ops>>

\* The wait times out, or the limit refuses the reassignment or the start.
MigrateFails(c) ==
    /\ op[c].pc \in {"waitBot", "getRunner", "startMigrated"}
    /\ Return(c)
    /\ UNCHANGED <<rows, agents, runners, checkers, ops>>

\* Bots.ByID: the row that will be written back.
RereadBot(c) ==
    /\ op[c].pc = "reread"
    /\ \E b \in op[c].id :
          op' = [op EXCEPT ![c] = [@ EXCEPT !.pc = "getRunner", !.row = bot[b]]]
    /\ UNCHANGED <<rows, agents, runners, checkers, ops>>

\* getOrCreateBotRunner of the target node, ByName.
GetRunner(c) ==
    /\ op[c].pc = "getRunner"
    /\ ClientGoto(c, IF run[op[c].to].exists THEN "reassign" ELSE "createRunner")
    /\ UNCHANGED <<rows, agents, runners, checkers, ops>>

\* Runtimes.Create with a placeholder command; somebody may have been faster.
ClientCreatesRunner(c) ==
    /\ op[c].pc = "createRunner"
    /\ IF run[op[c].to].exists
       THEN Return(c) /\ UNCHANGED run
       ELSE /\ run' = [run EXCEPT ![op[c].to] = NewRunner(FALSE)]
            /\ ClientGoto(c, "reassign")
    /\ UNCHANGED <<bot, agents, runners, checkers, ops>>

\* Bots.Update of the whole row, then a start.
Reassign(c) ==
    /\ op[c].pc = "reassign"
    /\ \E b \in op[c].id :
          bot' = [bot EXCEPT ![b] = [op[c].row EXCEPT
                    !.node = op[c].to, !.rt = op[c].to, !.desired = "stopped",
                    !.actual = "migrating", !.sick = FALSE]]
    /\ ClientGoto(c, "startMigrated")
    /\ UNCHANGED <<run, agents, runners, checkers, ops>>

StartMigrated(c) ==
    /\ op[c].pc = "startMigrated"
    /\ \E b \in op[c].id :
          op' = [op EXCEPT ![c] = [@ EXCEPT !.pc = "botDesired", !.kind = "start",
                                            !.to = Home, !.row = bot[b]]]
    /\ UNCHANGED <<rows, agents, runners, checkers, ops>>

\* The row of a PATCH: another node, or another configuration.
Patched(c) ==
    IF op[c].kind = "patchNode" THEN {[op[c].row EXCEPT !.node = op[c].to]}
    ELSE {op[c].row, [op[c].row EXCEPT !.cfg = @ + 1]}

\* handlePatchBot: the whole row as read, with what the body changes; the wish
\* is the one of the body or the one that was read.
Patch(c) ==
    /\ op[c].pc = "patch"
    /\ \E b \in op[c].id, row \in Patched(c), desired \in Desired :
          bot' = [bot EXCEPT ![b] = [row EXCEPT !.desired = desired]]
    /\ Return(c)
    /\ UNCHANGED <<run, agents, runners, checkers, ops>>

----------------------------------------------------------------------------

ReconcileStep(n) ==
    \/ List(n) \/ ByName(n) \/ CreateRunner(n) \/ RefreshCommand(n) \/ Bind(n)
    \/ Unwant(n) \/ ByID(n) \/ FindUnhealthy(n) \/ Crashed(n) \/ MaybeRestart(n)
    \/ Exhausted(n) \/ RestartRunner(n) \/ ResetBot(n) \/ ResetRunner(n)
    \/ Starting(n) \/ Spawn(n) \/ SpawnFails(n) \/ Running(n)
    \/ Stopping(n) \/ Stopped(n) \/ ListStopped(n) \/ StopBot(n) \/ ForgetStopped(n)

ComeBack(n) ==
    ShutStop(n) \/ ShutWrite(n) \/ ShutList(n) \/ ShutBot(n) \/ NextAgent(n)

SyncStep(n) ==
    SyncList(n) \/ RemoveInstance(n) \/ AddInstance(n) \/ Launch(n) \/ LaunchFails(n)

CheckStep(n) ==
    \/ CheckList(n) \/ CheckAnswers(n) \/ CheckFails(n)
    \/ MarkUnhealthy(n) \/ RestoreHealth(n)

ClientStep(c) ==
    \/ Begin(c) \/ BeginRuntime(c) \/ SetBotDesired(c) \/ Others(c)
    \/ SetRuntimeDesired(c) \/ ReadRuntime(c) \/ ClearRuntime(c) \/ ClearBot(c)
    \/ WaitBot(c) \/ MigrateFails(c) \/ RereadBot(c) \/ GetRunner(c)
    \/ ClientCreatesRunner(c) \/ Reassign(c) \/ StartMigrated(c) \/ Patch(c)

NodeStep(n) ==
    \/ ReconcileStep(n) \/ SigTerm(n) \/ ComeBack(n) \/ SyncStep(n) \/ CheckStep(n)
    \/ ProcessExits(n) \/ BackoffElapses(n)

Next == (\E n \in Nodes : NodeStep(n)) \/ (\E c \in Clients : ClientStep(c))

Spec == Init /\ [][Next]_vars

\* Ticks of the agent, passes of the runner and of the checker come again and
\* again and their calls return; a planned restart comes due; a stopped agent
\* is started again.  Nothing is assumed of clients, processes and signals.
Fairness ==
    \A n \in Nodes : /\ WF_vars(ReconcileStep(n))
                     /\ WF_vars(ComeBack(n))
                     /\ WF_vars(SyncStep(n))
                     /\ WF_vars(BackoffElapses(n))

FairSpec == Spec /\ Fairness

----------------------------------------------------------------------------

AgentPc == {"idle", "byName", "create", "refresh", "bind", "unwant", "byID",
            "unhealthy", "crashed", "backoff", "exhausted", "restart", "resetBots",
            "start", "spawn", "running", "stopping", "stopped", "listBots", "stopBots",
            "shutStop", "shutWrite", "shutList", "shutBots"}

ClientPc == {"idle", "botDesired", "others", "rtDesired", "readRuntime", "clearRuntime",
             "clearBot", "waitBot", "reread", "getRunner", "createRunner", "reassign",
             "startMigrated", "patch"}

BotRow == [desired : Desired, actual : Actual, sick : BOOLEAN,
           node : Nodes, rt : Nodes, cfg : Nat \ {0}]

RunnerRow == [exists : BOOLEAN, desired : Desired, actual : Actual, own : BOOLEAN]

Agent == [pc : AgentPc, need : BOOLEAN, bind : SUBSET [id : Bots, row : BotRow],
          row : RunnerRow, todo : SUBSET Bots]

Backoff == [attempts : 0..MaxAttempts, nextAt : {"zero", "later", "due"}]

\* A bot of a list and the configuration it was listed with.
Listed == Bots \X (Nat \ {0})

Syncing == [pc : {"idle", "remove", "add", "launch"}, wanted : SUBSET Listed, at : SUBSET Listed]

Checking == [pc : {"idle", "check", "mark", "restore"},
             list : SUBSET [id : Bots, sick : BOOLEAN], at : SUBSET Bots]

Request == [pc : ClientPc, kind : AllKinds, id : SUBSET Bots, to : Nodes, row : BotRow]

\* Types, with the bounds that take a whole path to hold: attempts stay below
\* RESTART_MAX_ATTEMPTS, and whoever carries a row over several calls carries
\* one that existed.
TypeOK ==
    /\ bot \in [Bots -> BotRow]
    /\ run \in [Nodes -> RunnerRow]
    /\ ag \in [Nodes -> Agent]
    /\ proc \in [Nodes -> {"none", "live", "dead"}]
    /\ back \in [Nodes -> Backoff]
    /\ inst \in [Nodes -> [Bots -> Nat]]
    /\ sync \in [Nodes -> Syncing]
    /\ chk \in [Nodes -> Checking]
    /\ fails \in [Nodes -> [Bots -> 0..Threshold]]
    /\ op \in [Clients -> Request]
    /\ ops \in Nat
    /\ \A n \in Nodes :
          /\ ag[n].row.exists
          /\ ag[n].pc \in {"byID", "unwant", "bind", "refresh"} => run[n].exists
          /\ sync[n].pc = "launch" <=> sync[n].at # {}
          /\ chk[n].pc \in {"mark", "restore"} <=> chk[n].at # {}

\* The runner's process of node n has an instance of bot b.
Serves(n, b) == inst[n][b] # 0

\* While no bot is moved, a bot whose row says stopped has no instance: not
\* while Sync, the agent's restart or stop of the runner, and a start of the
\* bot overlap.
StoppedIsSilent ==
    \A n \in Nodes, b \in Bots : bot[b].actual = "stopped" => ~Serves(n, b)

\* An instance whose bot is not wanted on its node (stopped, or moved away)
\* ends, however old the list was by which it was started; so two runners that
\* serve one bot after a migration do not do so for ever.
UnwantedEnds ==
    \A n \in Nodes, b \in Bots : Serves(n, b) /\ ~Wants(n, b) ~> ~Serves(n, b) \/ Wants(n, b)

\* A wanted bot of a wanted runner is served with its present configuration,
\* unless the wish changes or a failure shows in a row.  One failed bot of the
\* runner is enough: when it is unhealthy again and again, the restarts of the
\* shared process may cut every pass of Sync before it reaches the others.
WantedIsServed ==
    \A n \in Nodes, b \in Bots :
        Wants(n, b) /\ run[n].desired = "running"
            ~> \/ ~Wants(n, b) \/ run[n].desired = "stopped"
               \/ inst[n][b] = bot[b].cfg
               \/ run[n].actual = "failed"
               \/ \E x \in ListByRuntime(n) : bot[x].actual = "failed"

\* A runner that is not wanted loses its process, its row and all bots bound to
\* it come to say stopped, unless it is started meanwhile or its node has no
\* default bots any more: the agent then leaves the runner alone.
RunnerStops ==
    \A n \in Nodes :
        run[n].desired = "stopped"
            ~> \/ /\ proc[n] # "live" /\ run[n].actual = "stopped"
                  /\ \A b \in ListByRuntime(n) : bot[b].actual = "stopped"
               \/ run[n].desired = "running"
               \/ ListByNode(n) = {}

\* The agent withdraws the wish for the runner only when no bot assigned to
\* the node wants to run.
UnwantedOnly ==
    [][ \A n \in Nodes : Unwant(n) => \A b \in ListByNode(n) : bot[b].desired = "stopped" ]_vars

Tracker(n) == INSTANCE AbstractRestart
    WITH limit <- MaxAttempts, attempts <- back[n].attempts, nextAt <- back[n].nextAt

\* The crashes of the runner's process and the restarts for an unhealthy bot
\* share one tracker, and a pass that finds the process alive and well resets
\* it: between them they take no restart before it is due, none twice, and plan
\* at most MaxAttempts without a reset.
ImplementsAbstractRestart ==
    /\ \A n \in Nodes : Tracker(n)!Init
    /\ [][ \A n \in Nodes : [Tracker(n)!Next]_(back[n]) ]_back
==============================================================================
