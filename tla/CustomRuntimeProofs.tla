------------------------ MODULE CustomRuntimeProofs ------------------------
(***************************************************************************)
(* Theorems about CustomRuntime, for any number of nodes, clients, pids    *)
(* and requests.                                                           *)
(***************************************************************************)
EXTENDS CustomRuntime, TLAPS

USE CustomRuntimeAssumption

\* Agents may be stopped and StopAll may leave their process alive.
StopAllMayFail == Stops /\ "shutdown" \in StopErrors

----------------------------------------------------------------------------
(* Type correctness.                                                       *)

LEMMA InitTypes == Init => TypeOK
<1> SUFFICES ASSUME Init PROVE TypeOK
  OBVIOUS
<1> USE DEF Init, Desired, Actual, Slot, NoSlot, AgentPc, SyncNext
<1>1. rt \in RuntimeRow /\ bot \in BotRow
  BY DEF RuntimeRow, BotRow
<1>2. ag \in [Nodes -> Agent]
  BY DEF Agent, IdleAgent
<1>3. slot \in [Nodes -> Slot] /\ alive \in [Nodes -> SUBSET Pids]
  OBVIOUS
<1>4. back \in [Nodes -> Backoff]
  BY DEF Backoff, NoBackoff
<1>5. op \in [Clients -> Request]
  BY DEF Request, IdleClient, ClientPc, AllKinds
<1>6. QED
  BY <1>1, <1>2, <1>3, <1>4, <1>5 DEF TypeOK

\* The agent's local state: a jump, the end of a tick, a write with its sync.
LEMMA AgentMoves ==
    ASSUME TypeOK, NEW n \in Nodes
    PROVE  /\ \A l \in AgentPc : Goto(n, l) => ag' \in [Nodes -> Agent]
           /\ EndTick(n) => ag' \in [Nodes -> Agent]
           /\ \A state \in Actual, pid \in Pids \cup {NoPid}, next \in SyncNext :
                UpdateActualThenSync(n, state, pid, next)
                  => ag' \in [Nodes -> Agent] /\ rt' \in RuntimeRow
           /\ AgentGone(n) => /\ ag' \in [Nodes -> Agent]
                              /\ slot' \in [Nodes -> Slot]
                              /\ back' \in [Nodes -> Backoff]
<1> USE DEF TypeOK, Agent
<1>1. IdleAgent \in Agent /\ NoSlot \in Slot /\ NoBackoff \in Backoff
  BY DEF IdleAgent, AgentPc, SyncNext, Actual, Slot, NoSlot, NoBackoff, Backoff
<1>2. \A l \in AgentPc : Goto(n, l) => ag' \in [Nodes -> Agent]
  BY DEF Goto
<1>3. EndTick(n) => ag' \in [Nodes -> Agent]
  BY <1>1 DEF EndTick
<1>4. ASSUME NEW state \in Actual, NEW pid \in Pids \cup {NoPid}, NEW next \in SyncNext,
             UpdateActualThenSync(n, state, pid, next)
      PROVE  ag' \in [Nodes -> Agent] /\ rt' \in RuntimeRow
  <2>1. "sync" \in AgentPc
    BY DEF AgentPc
  <2>2. ag' \in [Nodes -> Agent]
    <3>1. ag[n] \in Agent
      OBVIOUS
    <3>2. [ag[n] EXCEPT !.pc = "sync", !.sync = state, !.next = next] \in Agent
      BY ONLY <1>4, <2>1, <3>1 DEF Agent
    <3>3. QED
      BY <1>4, <3>2 DEF UpdateActualThenSync
  <2>3. rt' \in RuntimeRow
    BY <1>4 DEF UpdateActualThenSync, UpdateActual, RuntimeRow
  <2>4. QED
    BY <2>2, <2>3
<1>5. ASSUME AgentGone(n)
      PROVE  /\ ag' \in [Nodes -> Agent]
             /\ slot' \in [Nodes -> Slot]
             /\ back' \in [Nodes -> Backoff]
  <2>1. [IdleAgent EXCEPT !.pc = "down"] \in Agent
    BY <1>1 DEF AgentPc
  <2>2. QED
    BY <1>1, <1>5, <2>1 DEF AgentGone
<1>6. QED
  BY <1>2, <1>3, <1>4, <1>5

\* The supervisor and lease calls.
LEMMA CallTypes ==
    ASSUME TypeOK, NEW n \in Nodes
    PROVE  /\ ReleaseLease(n) => rt' \in RuntimeRow
           /\ Forget(n) => slot' \in [Nodes -> Slot]
           /\ StopProcess(n) => /\ slot' \in [Nodes -> Slot]
                                /\ alive' \in [Nodes -> SUBSET Pids]
<1> USE DEF TypeOK
<1>1. ReleaseLease(n) => rt' \in RuntimeRow
  BY DEF ReleaseLease, RuntimeRow
<1>2. Forget(n) => slot' \in [Nodes -> Slot]
  BY DEF Forget, Slot, NoSlot
<1>3. StopProcess(n) => slot' \in [Nodes -> Slot]
  BY DEF StopProcess, Slot
<1>4. StopProcess(n) => alive' \in [Nodes -> SUBSET Pids]
  BY DEF StopProcess
<1>5. QED
  BY <1>1, <1>2, <1>3, <1>4

LEMMA ReconcileTypes ==
    ASSUME TypeOK, NEW n \in Nodes, ReconcileStep(n)
    PROVE  TypeOK'
<1> USE AgentMoves, CallTypes DEF TypeOK, clients
<1>1. CASE Tick(n)
  <2>1. ASSUME NEW next \in AgentPc, ReadRow(n, next)
        PROVE  ag' \in [Nodes -> Agent]
    <3>1. rt.actual \in Actual /\ rt.pid \in Pids \cup {NoPid} /\ slot[n] \in Slot
      BY DEF RuntimeRow
    <3>2. [IdleAgent EXCEPT !.pc = next, !.actual = rt.actual, !.pid = rt.pid,
                            !.snap = slot[n]] \in Agent
      BY <3>1 DEF IdleAgent, Agent, Actual, AgentPc, SyncNext
    <3>3. QED
      BY <2>1, <3>2 DEF ReadRow
  <2>2. ag' \in [Nodes -> Agent]
    BY <1>1, <2>1 DEF Tick, AgentPc
  <2>3. back' \in [Nodes -> Backoff]
    BY <1>1 DEF Tick, NoBackoff, Backoff
  <2>4. QED
    BY <1>1, <2>2, <2>3 DEF Tick
<1>2. CASE SyncBots(n)
  <2>1. ag[n].sync \in Actual /\ ag[n].next \in AgentPc
    BY DEF Agent, AgentPc, SyncNext
  <2>2. bot' \in BotRow
    BY <1>2, <2>1 DEF SyncBots, BotRow
  <2>3. ag' \in [Nodes -> Agent]
    BY <1>2, <2>1 DEF SyncBots
  <2>4. QED
    BY <1>2, <2>2, <2>3 DEF SyncBots
<1>3. CASE Holds(n)
  BY <1>3 DEF Holds, AgentPc
<1>4. CASE Acquire(n)
  <2>1. rt' \in RuntimeRow
    BY <1>4 DEF Acquire, RuntimeRow
  <2>2. QED
    BY <1>4, <2>1 DEF Acquire, AgentPc
<1>5. CASE AcquireFails(n)
  BY <1>5 DEF AcquireFails, AgentPc
<1>6. CASE LostStop(n) \/ RenewStop(n) \/ Stop(n)
  BY <1>6 DEF LostStop, RenewStop, Stop, AgentPc
<1>7. CASE LostForget(n)
  BY <1>7 DEF LostForget, Actual, AgentPc, SyncNext
<1>8. CASE Renew(n)
  <2>1. rt' \in RuntimeRow
    BY <1>8 DEF Renew, RuntimeRow
  <2>2. QED
    BY <1>8, <2>1 DEF Renew, AgentPc
<1>9. CASE RenewFails(n)
  BY <1>9 DEF RenewFails, AgentPc
<1>10. CASE Decide(n)
  <2>1. back' \in [Nodes -> Backoff]
    BY <1>10 DEF Decide, NoBackoff, Backoff
  <2>2. ag' \in [Nodes -> Agent]
    BY <1>10 DEF Decide, AgentPc
  <2>3. QED
    BY <1>10, <2>1, <2>2 DEF Decide
<1>11. CASE Crashed(n) \/ Exhausted(n) \/ StartRefused(n) \/ Starting(n)
            \/ BadCommand(n) \/ SpawnFails(n) \/ Stopped(n)
  BY <1>11 DEF Crashed, Exhausted, StartRefused, Starting, BadCommand, SpawnFails,
               Stopped, Actual, AgentPc, SyncNext
<1>12. CASE ForgetCrashed(n)
  BY <1>12 DEF ForgetCrashed, AgentPc
<1>13. CASE MaybeRestart(n)
  <2>1. /\ ag' \in [Nodes -> Agent]
        /\ UNCHANGED <<rt, bot, slot, alive, clients, downs>>
    BY <1>13 DEF MaybeRestart, AgentPc
  <2>2. back' \in [Nodes -> Backoff]
    BY <1>13 DEF MaybeRestart, Due, UsedUp, Backoff
  <2>3. QED
    BY <2>1, <2>2
<1>14. CASE ResetFailed(n)
  <2>1. rt' \in RuntimeRow
    BY <1>14 DEF ResetFailed, UpdateActual, RuntimeRow, Actual
  <2>2. QED
    BY <1>14, <2>1 DEF ResetFailed, AgentPc
<1>15. CASE Spawn(n)
  <2>1. PICK p \in Pids \ alive[n] :
          /\ alive' = [alive EXCEPT ![n] = @ \cup {p}]
          /\ slot' = [slot EXCEPT ![n] = [st |-> "live", pid |-> p]]
          /\ ag' = [ag EXCEPT ![n] = [@ EXCEPT !.pc = "started",
                                              !.snap = [st |-> "live", pid |-> p]]]
    BY <1>15 DEF Spawn
  <2>2. [st |-> "live", pid |-> p] \in Slot /\ "started" \in AgentPc
    BY DEF Slot, AgentPc
  <2>3. ag' \in [Nodes -> Agent]
    <3>1. ag[n] \in Agent
      OBVIOUS
    <3>2. [ag[n] EXCEPT !.pc = "started", !.snap = [st |-> "live", pid |-> p]] \in Agent
      BY ONLY <2>2, <3>1 DEF Agent
    <3>3. QED
      BY <2>1, <3>2
  <2>4. slot' \in [Nodes -> Slot] /\ alive' \in [Nodes -> SUBSET Pids]
    BY <2>1, <2>2
  <2>5. QED
    BY <1>15, <2>3, <2>4 DEF Spawn
<1>16. CASE Started(n) \/ StillRunning(n) \/ Stopping(n)
  <2>1. ag[n].snap.pid \in Pids \cup {NoPid} /\ ag[n].pid \in Pids \cup {NoPid}
    BY DEF Agent, Slot
  <2>2. back' \in [Nodes -> Backoff]
    BY <1>16 DEF Started, StillRunning, Stopping, NoBackoff, Backoff
  <2>3. QED
    BY <1>16, <2>1, <2>2 DEF Started, StillRunning, Stopping, Actual, AgentPc, SyncNext
<1>17. CASE StartRelease(n) \/ StopRelease(n)
  BY <1>17 DEF StartRelease, StopRelease
<1>18. CASE StopFailed(n)
  <2>1. rt' \in RuntimeRow
    BY <1>18 DEF StopFailed, UpdateActual, RuntimeRow, Actual
  <2>2. QED
    BY <1>18, <2>1 DEF StopFailed
<1>19. QED
  BY <1>1, <1>2, <1>3, <1>4, <1>5, <1>6, <1>7, <1>8, <1>9, <1>10, <1>11, <1>12, <1>13,
     <1>14, <1>15, <1>16, <1>17, <1>18 DEF ReconcileStep

\* A client's local state: a jump, the end of a request.
LEMMA ClientMoves ==
    ASSUME TypeOK, NEW c \in Clients
    PROVE  /\ \A l \in ClientPc : ClientGoto(c, l) => op' \in [Clients -> Request]
           /\ Return(c) => op' \in [Clients -> Request]
<1> USE DEF TypeOK, Request
<1>1. IdleClient \in Request
  BY DEF IdleClient, ClientPc, AllKinds, Actual
<1>2. ASSUME NEW l \in ClientPc, ClientGoto(c, l) PROVE op' \in [Clients -> Request]
  BY <1>2 DEF ClientGoto
<1>3. Return(c) => op' \in [Clients -> Request]
  BY <1>1 DEF Return
<1>4. QED
  BY <1>2, <1>3

LEMMA ClientTypes ==
    ASSUME TypeOK, NEW c \in Clients, ClientStep(c)
    PROVE  TypeOK'
<1> USE ClientMoves DEF TypeOK, agents
<1>1. CASE Begin(c)
  <2>1. PICK kind \in Kinds \cap BotKinds, to \in Nodes :
          op' = [op EXCEPT ![c] = [IdleClient EXCEPT
                    !.pc = "botDesired", !.kind = kind, !.bot = bot.actual,
                    !.to = IF kind = "migrate" THEN to ELSE Home]]
    BY <1>1 DEF Begin
  <2>2. bot.actual \in Actual
    BY DEF BotRow
  <2>3. [IdleClient EXCEPT !.pc = "botDesired", !.kind = kind, !.bot = bot.actual,
                           !.to = IF kind = "migrate" THEN to ELSE Home] \in Request
    BY <2>2 DEF IdleClient, Request, ClientPc, AllKinds, BotKinds, Actual
  <2>4. op' \in [Clients -> Request]
    BY <2>1, <2>3
  <2>5. QED
    BY <1>1, <2>4 DEF Begin
<1>2. CASE BeginRuntime(c)
  <2>1. PICK kind \in Kinds \cap {"rtstart", "rtstop"} :
          op' = [op EXCEPT ![c] = [IdleClient EXCEPT
                    !.pc = "rtDesired", !.kind = kind, !.rt = rt.actual]]
    BY <1>2 DEF BeginRuntime
  <2>2. rt.actual \in Actual
    BY DEF RuntimeRow
  <2>3. [IdleClient EXCEPT !.pc = "rtDesired", !.kind = kind, !.rt = rt.actual]
          \in Request
    BY <2>2 DEF IdleClient, Request, ClientPc, AllKinds, Actual
  <2>4. op' \in [Clients -> Request]
    BY <2>1, <2>3
  <2>5. QED
    BY <1>2, <2>4 DEF BeginRuntime
<1>3. CASE SetBotDesired(c)
  <2>1. bot' \in BotRow
    BY <1>3 DEF SetBotDesired, Wanted, BotRow, Desired
  <2>2. QED
    BY <1>3, <2>1 DEF SetBotDesired, ClientPc
<1>4. CASE SetRuntimeDesired(c)
  <2>1. rt' \in RuntimeRow
    BY <1>4 DEF SetRuntimeDesired, Wanted, RuntimeRow, Desired
  <2>2. op' \in [Clients -> Request]
    BY <1>4 DEF SetRuntimeDesired, AfterDesired, ClientPc
  <2>3. QED
    BY <1>4, <2>1, <2>2 DEF SetRuntimeDesired
<1>5. CASE ReadRuntime(c)
  BY <1>5 DEF ReadRuntime, ClearBotNext, ClientPc
<1>6. CASE ClearRuntime(c)
  <2>1. rt' \in RuntimeRow
    BY <1>6 DEF ClearRuntime, UpdateActual, RuntimeRow, Actual
  <2>2. QED
    BY <1>6, <2>1 DEF ClearRuntime, ClearBotNext, ClientPc
<1>7. CASE ClearBot(c)
  <2>1. bot' \in BotRow
    BY <1>7 DEF ClearBot, BotRow, Actual
  <2>2. QED
    BY <1>7, <2>1 DEF ClearBot
<1>8. CASE WaitBot(c) \/ WaitRuntime(c) \/ MigrateFails(c) \/ Abort(c)
  BY <1>8 DEF WaitBot, WaitRuntime, MigrateFails, Abort, ClientPc
<1>9. CASE ReassignRuntime(c) \/ ReassignBot(c)
  <2>1. op' \in [Clients -> Request]
    BY <1>9 DEF ReassignRuntime, ReassignBot, ClientPc
  <2>2. op[c].to \in Nodes
    BY DEF Request
  <2>3. [desired |-> "stopped", actual |-> "stopped", pid |-> NoPid,
         node |-> op[c].to, owner |-> NoNode, valid |-> FALSE] \in RuntimeRow
    BY ONLY <2>2 DEF RuntimeRow, Desired, Actual
  <2>4. [desired |-> "stopped", actual |-> "migrating", sick |-> FALSE,
         node |-> op[c].to] \in BotRow
    BY ONLY <2>2 DEF BotRow, Desired, Actual
  <2>5. rt' \in RuntimeRow /\ bot' \in BotRow
    BY <1>9, <2>3, <2>4 DEF ReassignRuntime, ReassignBot
  <2>6. QED
    BY <1>9, <2>1, <2>5 DEF ReassignRuntime, ReassignBot
<1>10. CASE StartMigrated(c)
  <2>1. bot.actual \in Actual
    BY DEF BotRow
  <2>2. [IdleClient EXCEPT !.pc = "botDesired", !.bot = bot.actual] \in Request
    BY <2>1 DEF IdleClient, Request, ClientPc, AllKinds, Actual
  <2>3. QED
    BY <1>10, <2>2 DEF StartMigrated
<1>11. CASE BeginPatch(c) \/ BeginCheck(c)
  <2>1. bot.actual \in Actual /\ bot.sick \in BOOLEAN
    BY DEF BotRow
  <2>2. \A l \in {"patch", "check"} :
          [IdleClient EXCEPT !.pc = l, !.kind = l, !.bot = bot.actual, !.sick = bot.sick]
             \in Request
    BY <2>1 DEF IdleClient, Request, ClientPc, AllKinds, Actual
  <2>3. QED
    BY <1>11, <2>2 DEF BeginPatch, BeginCheck
<1>12. CASE Patch(c)
  <2>1. op[c].bot \in Actual /\ op[c].sick \in BOOLEAN
    BY DEF Request
  <2>2. \A desired \in Desired, node \in Nodes :
          [desired |-> desired, actual |-> op[c].bot, sick |-> op[c].sick, node |-> node]
             \in BotRow
    BY ONLY <2>1 DEF BotRow
  <2>3. QED
    BY <1>12, <2>2 DEF Patch
<1>13. CASE Check(c)
  <2>1. bot' \in BotRow
    BY <1>13 DEF Check, BotRow, Actual
  <2>2. QED
    BY <1>13, <2>1 DEF Check
<1>14. QED
  BY <1>1, <1>2, <1>3, <1>4, <1>5, <1>6, <1>7, <1>8, <1>9, <1>10, <1>11, <1>12, <1>13
     DEF ClientStep

LEMMA LifeTypes ==
    ASSUME TypeOK, NEW n \in Nodes, LifeStep(n) \/ EnvStep(n)
    PROVE  TypeOK'
<1> USE AgentMoves, CallTypes DEF TypeOK, clients
<1>1. CASE SigTerm(n)
  <2>1. [IdleAgent EXCEPT !.pc = "shutStop"] \in Agent
    BY DEF IdleAgent, Agent, AgentPc, SyncNext, Actual, Slot, NoSlot
  <2>2. ag' \in [Nodes -> Agent]
    BY <1>1, <2>1 DEF SigTerm
  <2>3. QED
    BY <1>1, <2>2 DEF SigTerm
<1>2. CASE Crash(n)
  BY <1>2 DEF Crash
<1>3. CASE ShutStop(n) \/ ShutStopFails(n) \/ ShutList(n)
  BY <1>3 DEF ShutStop, ShutStopFails, ShutList, AgentPc
<1>4. CASE ShutWrite(n)
  BY <1>4 DEF ShutWrite, Actual, AgentPc, SyncNext
<1>5. CASE Exit(n) \/ Restart(n)
  BY <1>5 DEF Exit, Restart
<1>6. CASE ProcessExits(n)
  <2>1. alive' \in [Nodes -> SUBSET Pids]
    BY <1>6 DEF ProcessExits
  <2>2. slot' \in [Nodes -> Slot]
    BY <1>6 DEF ProcessExits, Slot
  <2>3. QED
    BY <1>6, <2>1, <2>2 DEF ProcessExits
<1>7. CASE BackoffElapses(n)
  <2>1. back' \in [Nodes -> Backoff]
    BY <1>7 DEF BackoffElapses, Backoff
  <2>2. QED
    BY <1>7, <2>1 DEF BackoffElapses
<1>8. QED
  BY <1>1, <1>2, <1>3, <1>4, <1>5, <1>6, <1>7 DEF LifeStep, ComeBack, EnvStep

LEMMA NextTypes == TypeOK /\ [Next]_vars => TypeOK'
<1> SUFFICES ASSUME TypeOK, [Next]_vars PROVE TypeOK'
  OBVIOUS
<1>1. CASE \E n \in Nodes : ReconcileStep(n) \/ LifeStep(n) \/ EnvStep(n)
  BY <1>1, ReconcileTypes, LifeTypes
<1>2. CASE \E c \in Clients : ClientStep(c)
  BY <1>2, ClientTypes
<1>3. CASE LeaseExpires
  <2>1. rt' \in RuntimeRow
    BY <1>3 DEF LeaseExpires, TypeOK, RuntimeRow
  <2>2. QED
    BY <1>3, <2>1 DEF LeaseExpires, TypeOK, agents, clients
<1>4. CASE UNCHANGED vars
  BY <1>4 DEF vars, TypeOK
<1>5. QED
  BY <1>1, <1>2, <1>3, <1>4 DEF Next

\* Rows, loops, slots, backoff states and requests keep their types, and the
\* restart tracker never counts past RESTART_MAX_ATTEMPTS, whatever the agents,
\* clients and processes do.
THEOREM CustomTypes == Spec => []TypeOK
<1>1. QED
  BY InitTypes, NextTypes, PTL DEF Spec

----------------------------------------------------------------------------
(* Processes are tracked.  The invariant needs one more fact to be         *)
(* inductive: an agent that has stopped its processes and is on the way    *)
(* out, or down, has no live slot.                                         *)

Leaving(n) ==
    \/ ag[n].pc \in {"shutList", "shutWrite", "exit", "down"}
    \/ ag[n].pc = "sync" /\ ag[n].next = "exit"

TrackInv ==
    /\ ProcessesTracked
    /\ \A n \in Nodes : Leaving(n) => slot[n].st # "live"
    /\ \A n \in Nodes : ag[n].pc = "shutStop" => Stops

\* A live slot is one whose process the agent knows; what the supervisor calls
\* and the exit of a process do to the slots and the processes of one node.
Books(n) ==
    \/ UNCHANGED <<slot, alive>>
    \/ StopProcess(n)
    \/ Forget(n) /\ UNCHANGED alive
    \/ \E p \in Pids : /\ SlotFree(n)
                       /\ alive' = [alive EXCEPT ![n] = @ \cup {p}]
                       /\ slot' = [slot EXCEPT ![n] = [st |-> "live", pid |-> p]]

LEMMA BooksKeepTrack ==
    ASSUME TypeOK, ProcessesTracked, NEW n \in Nodes, Books(n)
    PROVE  /\ ProcessesTracked'
           /\ \A m \in Nodes : m # n => slot'[m] = slot[m]
<1> USE DEF TypeOK
<1>0. \A m \in Nodes : slot[m] \in Slot /\ alive[m] \in SUBSET Pids
  OBVIOUS
<1>1. CASE UNCHANGED <<slot, alive>>
  BY <1>1 DEF ProcessesTracked
<1>2. CASE StopProcess(n)
  <2>1. \A m \in Nodes : m # n => slot'[m] = slot[m] /\ alive'[m] = alive[m]
    BY <1>2 DEF StopProcess
  <2>2. slot[n].st = "live" => slot'[n].st = "dead" /\ alive'[n] = alive[n] \ {slot[n].pid}
    BY <1>2, <1>0 DEF StopProcess, Slot
  <2>3. slot[n].st # "live" => slot'[n].st = slot[n].st /\ alive'[n] = alive[n]
    BY <1>2, <1>0 DEF StopProcess, Slot
  <2>4. alive'[n] = {} /\ slot'[n].st # "live"
    BY <2>2, <2>3 DEF ProcessesTracked
  <2>5. QED
    BY <2>1, <2>4 DEF ProcessesTracked
<1>3. CASE Forget(n) /\ UNCHANGED alive
  <2>1. \A m \in Nodes : m # n => slot'[m] = slot[m]
    BY <1>3 DEF Forget
  <2>2. slot[n].st = "live" => slot'[n] = slot[n]
    BY <1>3 DEF Forget
  <2>3. slot[n].st # "live" => slot'[n].st = "none"
    BY <1>3 DEF Forget, NoSlot
  <2>4. QED
    BY <1>3, <2>1, <2>2, <2>3 DEF ProcessesTracked
<1>4. ASSUME NEW p \in Pids, SlotFree(n),
             alive' = [alive EXCEPT ![n] = @ \cup {p}],
             slot' = [slot EXCEPT ![n] = [st |-> "live", pid |-> p]]
      PROVE  /\ ProcessesTracked'
             /\ \A m \in Nodes : m # n => slot'[m] = slot[m]
  <2>1. alive[n] = {}
    BY <1>4 DEF SlotFree, ProcessesTracked
  <2>2. alive'[n] = {p} /\ slot'[n].st = "live" /\ slot'[n].pid = p
    BY <1>4, <2>1
  <2>3. \A m \in Nodes : m # n => slot'[m] = slot[m] /\ alive'[m] = alive[m]
    BY <1>4
  <2>4. QED
    BY <2>2, <2>3 DEF ProcessesTracked
<1>5. QED
  BY <1>1, <1>2, <1>3, <1>4 DEF Books

\* Where the agent goes, and that the other agents stay.
LEMMA AgentGoes ==
    ASSUME TypeOK, NEW n \in Nodes
    PROVE  /\ \A l \in AgentPc : Goto(n, l) =>
                /\ ag'[n].pc = l
                /\ \A m \in Nodes : m # n => ag'[m] = ag[m]
           /\ EndTick(n) => /\ ag'[n].pc = "idle"
                            /\ \A m \in Nodes : m # n => ag'[m] = ag[m]
           /\ \A state, pid, next :
                UpdateActualThenSync(n, state, pid, next) =>
                  /\ ag'[n].pc = "sync" /\ ag'[n].next = next
                  /\ \A m \in Nodes : m # n => ag'[m] = ag[m]
<1> USE DEF TypeOK, Agent
<1>1. ASSUME NEW l \in AgentPc, Goto(n, l)
      PROVE  ag'[n].pc = l /\ \A m \in Nodes : m # n => ag'[m] = ag[m]
  BY <1>1 DEF Goto
<1>2. EndTick(n) => ag'[n].pc = "idle" /\ \A m \in Nodes : m # n => ag'[m] = ag[m]
  BY DEF EndTick, IdleAgent
<1>3. ASSUME NEW state, NEW pid, NEW next, UpdateActualThenSync(n, state, pid, next)
      PROVE  /\ ag'[n].pc = "sync" /\ ag'[n].next = next
             /\ \A m \in Nodes : m # n => ag'[m] = ag[m]
  BY <1>3 DEF UpdateActualThenSync
<1>4. QED
  BY <1>1, <1>2, <1>3

\* A step of a tick: what it does to the books, and that a tick never leaves.
LEMMA TickKeepsBooks ==
    ASSUME TypeOK, NEW n \in Nodes, ReconcileStep(n)
    PROVE  /\ Books(n)
           /\ \A m \in Nodes : m # n => ag'[m] = ag[m]
           /\ ag'[n].pc # "shutStop"
           /\ Leaving(n)' => Leaving(n) /\ UNCHANGED slot
<1> USE AgentGoes DEF Leaving, Books
<1>1. CASE Tick(n)
  <2>1. \A l \in AgentPc : ReadRow(n, l) =>
            ag'[n].pc = l /\ \A m \in Nodes : m # n => ag'[m] = ag[m]
    BY DEF ReadRow, IdleAgent, TypeOK
  <2>2. QED
    BY <1>1, <2>1 DEF Tick, AgentPc
<1>2. CASE SyncBots(n)
  <2>1. ag[n].next \in SyncNext
    BY DEF TypeOK, Agent
  <2>2. /\ \A m \in Nodes : m # n => ag'[m] = ag[m]
        /\ ag'[n].pc = ag[n].next
    BY <1>2, <2>1 DEF SyncBots, SyncNext, AgentPc
  <2>3. QED
    BY <1>2, <2>1, <2>2 DEF SyncBots, SyncNext
<1>3. CASE \/ Holds(n) \/ Acquire(n) \/ AcquireFails(n) \/ Renew(n) \/ RenewFails(n)
  BY <1>3 DEF Holds, Acquire, AcquireFails, Renew, RenewFails, AgentPc
<1>4. CASE LostStop(n) \/ RenewStop(n) \/ Stop(n)
  BY <1>4 DEF LostStop, RenewStop, Stop, AgentPc
<1>5. CASE LostForget(n)
  BY <1>5 DEF LostForget
<1>6. CASE Decide(n) \/ MaybeRestart(n)
  BY <1>6 DEF Decide, MaybeRestart, AgentPc
<1>7. CASE Crashed(n) \/ Exhausted(n) \/ ResetFailed(n) \/ StartRefused(n)
            \/ Starting(n) \/ BadCommand(n) \/ SpawnFails(n)
  BY <1>7 DEF Crashed, Exhausted, ResetFailed, StartRefused, Starting, BadCommand,
              SpawnFails, AgentPc
<1>8. CASE ForgetCrashed(n) \/ StopRelease(n)
  BY <1>8 DEF ForgetCrashed, StopRelease, AgentPc
<1>9. CASE Spawn(n)
  <2>1. PICK p \in Pids \ alive[n] :
          /\ alive' = [alive EXCEPT ![n] = @ \cup {p}]
          /\ slot' = [slot EXCEPT ![n] = [st |-> "live", pid |-> p]]
          /\ ag' = [ag EXCEPT ![n] = [@ EXCEPT !.pc = "started",
                                              !.snap = [st |-> "live", pid |-> p]]]
    BY <1>9 DEF Spawn
  <2>2. /\ ag'[n].pc = "started"
        /\ \A m \in Nodes : m # n => ag'[m] = ag[m]
    BY <2>1 DEF TypeOK, Agent
  <2>3. SlotFree(n)
    BY <1>9 DEF Spawn
  <2>4. QED
    BY <2>1, <2>2, <2>3
<1>10. CASE Started(n) \/ StillRunning(n) \/ StartRelease(n)
  BY <1>10 DEF Started, StillRunning, StartRelease
<1>11. CASE Stopping(n) \/ StopFailed(n) \/ Stopped(n)
  BY <1>11 DEF Stopping, StopFailed, Stopped
<1>12. QED
  BY <1>1, <1>2, <1>3, <1>4, <1>5, <1>6, <1>7, <1>8, <1>9, <1>10, <1>11
     DEF ReconcileStep

\* The way out of an agent, and what the system does to its processes.
LEMMA LifeKeepsTrack ==
    ASSUME TypeOK, TrackInv, ~Crashes, ~StopAllMayFail,
           NEW n \in Nodes, LifeStep(n) \/ EnvStep(n)
    PROVE  TrackInv'
<1> USE AgentGoes DEF Leaving
<1>0. /\ ag \in [Nodes -> Agent] /\ slot \in [Nodes -> Slot]
      /\ \A m \in Nodes : slot[m] \in Slot
  BY DEF TypeOK
<1>1. CASE SigTerm(n)
  <2>1. ag'[n].pc = "shutStop" /\ \A m \in Nodes : m # n => ag'[m] = ag[m]
    BY <1>0, <1>1 DEF SigTerm, IdleAgent
  <2>2. UNCHANGED <<slot, alive>> /\ Stops
    BY <1>1 DEF SigTerm
  <2>3. QED
    BY <2>1, <2>2 DEF TrackInv, ProcessesTracked
<1>2. CASE Crash(n)
  BY <1>2 DEF Crash
<1>3. CASE ShutStop(n)
  <2>1. /\ ag'[n].pc = "shutList"
        /\ \A m \in Nodes : m # n => ag'[m] = ag[m]
        /\ StopProcess(n)
    BY <1>3 DEF ShutStop, AgentPc
  <2>2. /\ ProcessesTracked'
        /\ \A m \in Nodes : m # n => slot'[m] = slot[m]
    BY <2>1, BooksKeepTrack DEF Books, TrackInv
  <2>3. slot'[n].st # "live"
    BY <1>0, <2>1 DEF StopProcess, Slot
  <2>4. QED
    BY <2>1, <2>2, <2>3 DEF TrackInv
<1>4. CASE ShutStopFails(n)
  BY <1>4 DEF ShutStopFails, StopFails, TrackInv, StopAllMayFail
<1>5. CASE ShutList(n)
  <2>1. /\ ag'[n].pc \in {"shutWrite", "exit"}
        /\ \A m \in Nodes : m # n => ag'[m] = ag[m]
    BY <1>5 DEF ShutList, AgentPc
  <2>2. Leaving(n) /\ UNCHANGED <<slot, alive>>
    BY <1>5 DEF ShutList
  <2>3. QED
    BY <2>1, <2>2 DEF TrackInv, ProcessesTracked
<1>6. CASE ShutWrite(n)
  <2>1. /\ ag'[n].pc = "sync"
        /\ \A m \in Nodes : m # n => ag'[m] = ag[m]
    BY <1>6 DEF ShutWrite
  <2>2. Leaving(n) /\ UNCHANGED <<slot, alive>>
    BY <1>6 DEF ShutWrite
  <2>3. QED
    BY <2>1, <2>2 DEF TrackInv, ProcessesTracked
<1>7. CASE Exit(n)
  <2>1. /\ ag'[n].pc = "down" /\ slot'[n].st = "none"
        /\ \A m \in Nodes : m # n => ag'[m] = ag[m] /\ slot'[m] = slot[m]
    BY <1>0, <1>7 DEF Exit, AgentGone, IdleAgent, NoSlot
  <2>2. Leaving(n) /\ UNCHANGED alive
    BY <1>7 DEF Exit
  <2>3. QED
    BY <2>1, <2>2 DEF TrackInv, ProcessesTracked
<1>8. CASE Restart(n)
  <2>1. /\ ag'[n].pc = "idle"
        /\ \A m \in Nodes : m # n => ag'[m] = ag[m]
        /\ UNCHANGED <<slot, alive>>
    BY <1>8 DEF Restart
  <2>2. QED
    BY <2>1 DEF TrackInv, ProcessesTracked
<1>9. CASE ProcessExits(n)
  <2>1. PICK p \in alive[n] :
          /\ alive' = [alive EXCEPT ![n] = @ \ {p}]
          /\ slot' = IF slot[n] = [st |-> "live", pid |-> p]
                     THEN [slot EXCEPT ![n].st = "dead"] ELSE slot
    BY <1>9 DEF ProcessExits
  <2>2. slot[n].st = "live" /\ slot[n].pid = p /\ alive[n] = {p}
    BY <2>1 DEF TrackInv, ProcessesTracked
  <2>3. slot[n] = [st |-> "live", pid |-> p]
    BY <1>0, <2>2 DEF Slot
  <2>4. slot' = [slot EXCEPT ![n].st = "dead"]
    BY <2>1, <2>3
  <2>5. /\ slot'[n].st = "dead"
        /\ \A m \in Nodes : m # n => slot'[m] = slot[m]
    BY <1>0, <2>4 DEF Slot
  <2>6. alive'[n] = {} /\ \A m \in Nodes : m # n => alive'[m] = alive[m]
    BY <2>1, <2>2 DEF TypeOK
  <2>7. UNCHANGED ag
    BY <1>9 DEF ProcessExits
  <2>8. ProcessesTracked'
    <3>1. \A m \in Nodes : m # n =>
            alive'[m] = IF slot'[m].st = "live" THEN {slot'[m].pid} ELSE {}
      <4>1. \A m \in Nodes :
              alive[m] = IF slot[m].st = "live" THEN {slot[m].pid} ELSE {}
        BY DEF TrackInv, ProcessesTracked
      <4>2. QED
        BY ONLY <2>5, <2>6, <4>1
    <3>2. alive'[n] = IF slot'[n].st = "live" THEN {slot'[n].pid} ELSE {}
      BY ONLY <2>5, <2>6
    <3>3. QED
      BY <3>1, <3>2 DEF ProcessesTracked
  <2>9. QED
    BY <2>5, <2>7, <2>8 DEF TrackInv
<1>10. CASE BackoffElapses(n)
  BY <1>10 DEF BackoffElapses, TrackInv, ProcessesTracked
<1>11. QED
  BY <1>1, <1>2, <1>3, <1>4, <1>5, <1>6, <1>7, <1>8, <1>9, <1>10
     DEF LifeStep, ComeBack, EnvStep

LEMMA TrackStep ==
    ASSUME ~Crashes, ~StopAllMayFail, TypeOK, TrackInv, [Next]_vars
    PROVE  TrackInv'
<1>1. ASSUME NEW n \in Nodes, ReconcileStep(n) PROVE TrackInv'
  <2>1. Books(n) /\ ag'[n].pc # "shutStop"
    BY <1>1, TickKeepsBooks
  <2>2. \A m \in Nodes : m # n => ag'[m] = ag[m]
    BY <1>1, TickKeepsBooks
  <2>3. Leaving(n)' => Leaving(n) /\ UNCHANGED slot
    BY <1>1, TickKeepsBooks
  <2>4. ProcessesTracked' /\ \A m \in Nodes : m # n => slot'[m] = slot[m]
    BY <2>1, BooksKeepTrack DEF TrackInv
  <2>5. \A m \in Nodes : Leaving(m)' => slot'[m].st # "live"
    BY <2>2, <2>3, <2>4 DEF TrackInv, Leaving
  <2>6. \A m \in Nodes : ag'[m].pc = "shutStop" => Stops
    BY <2>1, <2>2 DEF TrackInv
  <2>7. QED
    BY <2>4, <2>5, <2>6 DEF TrackInv
<1>2. ASSUME NEW n \in Nodes, LifeStep(n) \/ EnvStep(n) PROVE TrackInv'
  BY <1>2, LifeKeepsTrack
<1>3. CASE (\E c \in Clients : ClientStep(c)) \/ LeaseExpires \/ UNCHANGED vars
  <2>1. UNCHANGED agents
    BY <1>3 DEF ClientStep, Begin, BeginRuntime, SetBotDesired, SetRuntimeDesired,
                ReadRuntime, ClearRuntime, ClearBot, WaitBot, WaitRuntime, MigrateFails,
                ReassignRuntime, ReassignBot, StartMigrated, Abort,
                BeginPatch, Patch, BeginCheck, Check, LeaseExpires,
                vars, agents
  <2>2. QED
    BY <2>1 DEF agents, TrackInv, ProcessesTracked, Leaving
<1>4. QED
  BY <1>1, <1>2, <1>3 DEF Next

LEMMA InitTracked == Init => TrackInv
BY DEF Init, TrackInv, ProcessesTracked, Leaving, NoSlot, IdleAgent

\* No path of a tick or of a shutdown drops a live process from the
\* supervisor, for any number of nodes, clients and requests, with migrations,
\* expired leases and refused signals: only a killed agent, or a StopAll whose
\* error ends the shutdown early, leaves a process nobody knows of.
THEOREM TracksProcesses ==
    ASSUME ~Crashes, ~StopAllMayFail
    PROVE  Spec => []ProcessesTracked
<1>1. TypeOK /\ TrackInv /\ [Next]_vars => TypeOK' /\ TrackInv'
  BY TrackStep, NextTypes
<1>2. TrackInv => ProcessesTracked
  BY DEF TrackInv
<1>3. QED
  BY <1>1, <1>2, InitTypes, InitTracked, PTL DEF Spec

----------------------------------------------------------------------------
(* One process.  Without migrations everything happens at Home: the other  *)
(* agents find no row, and no request reaches the calls of Migrate.        *)

MigratePc == {"waitBot", "waitRuntime", "reassignRuntime", "reassignBot", "startMigrated"}

HomeInv ==
    /\ rt.node = Home
    /\ \A c \in Clients : op[c].kind # "migrate" /\ op[c].pc \notin MigratePc
    /\ \A n \in Nodes : n # Home =>
          /\ ag[n].pc \in {"idle", "shutStop", "shutList", "exit", "down"}
          /\ slot[n].st # "live"

\* A tick leaves the row on its node.
LEMMA TickAtHome ==
    ASSUME TypeOK, HomeInv, NEW n \in Nodes, ReconcileStep(n)
    PROVE  n = Home /\ rt'.node = Home /\ UNCHANGED op
<1>1. rt \in RuntimeRow
  BY DEF TypeOK
<1>2. \A state, pid : UpdateActual(state, pid) => rt'.node = rt.node
  BY <1>1 DEF UpdateActual, RuntimeRow
<1>3. \A state, pid, next : UpdateActualThenSync(n, state, pid, next) => rt'.node = rt.node
  BY <1>2 DEF UpdateActualThenSync
<1>4. ReleaseLease(n) => rt'.node = rt.node
  BY <1>1 DEF ReleaseLease, RuntimeRow
<1>5. Acquire(n) \/ Renew(n) => rt'.node = rt.node
  BY <1>1 DEF Acquire, Renew, RuntimeRow
<1>6. rt'.node = Home
  BY <1>2, <1>3, <1>4, <1>5
     DEF HomeInv, ReconcileStep, Tick, SyncBots, Holds, AcquireFails, LostStop, LostForget,
         RenewFails, RenewStop, Decide, Crashed, ForgetCrashed, MaybeRestart, Exhausted,
         ResetFailed, StartRefused, Starting, BadCommand, SpawnFails, Spawn, Started,
         StillRunning, StartRelease, Stopping, Stop, StopFailed, Stopped, StopRelease
<1>7. n = Home
  BY DEF HomeInv, ReconcileStep, Tick, SyncBots, Holds, Acquire, AcquireFails, LostStop,
         LostForget, Renew, RenewFails, RenewStop, Decide, Crashed, ForgetCrashed,
         MaybeRestart, Exhausted, ResetFailed, StartRefused, Starting, BadCommand,
         SpawnFails, Spawn, Started, StillRunning, StartRelease, Stopping, Stop,
         StopFailed, Stopped, StopRelease
<1>8. UNCHANGED op
  BY DEF ReconcileStep, Tick, SyncBots, Holds, Acquire, AcquireFails, LostStop,
         LostForget, Renew, RenewFails, RenewStop, Decide, Crashed, ForgetCrashed,
         MaybeRestart, Exhausted, ResetFailed, StartRefused, Starting, BadCommand,
         SpawnFails, Spawn, Started, StillRunning, StartRelease, Stopping, Stop,
         StopFailed, Stopped, StopRelease, clients
<1>9. QED
  BY <1>6, <1>7, <1>8

\* Agents away from Home go down and come back without a row to write.
LEMMA LifeAtHome ==
    ASSUME TypeOK, HomeInv, NEW n \in Nodes, LifeStep(n) \/ EnvStep(n)
    PROVE  HomeInv'
<1> USE AgentGoes
<1>0. /\ rt \in RuntimeRow /\ slot \in [Nodes -> Slot] /\ ag \in [Nodes -> Agent]
      /\ \A m \in Nodes : slot[m] \in Slot
  BY DEF TypeOK
<1>1. \A m \in Nodes : slot'[m].st = "live" => slot[m].st = "live"
  <2>1. StopProcess(n) => \A m \in Nodes : slot'[m].st = "live" => slot[m].st = "live"
    BY <1>0 DEF StopProcess, Slot
  <2>2. AgentGone(n) => \A m \in Nodes : slot'[m].st = "live" => slot[m].st = "live"
    BY <1>0 DEF AgentGone, NoSlot
  <2>3. ProcessExits(n) => \A m \in Nodes : slot'[m].st = "live" => slot[m].st = "live"
    BY <1>0 DEF ProcessExits, Slot
  <2>4. QED
    BY <2>1, <2>2, <2>3
       DEF LifeStep, ComeBack, EnvStep, SigTerm, Crash, ShutStop, ShutStopFails, ShutList,
           ShutWrite, Exit, Restart, BackoffElapses
<1>2. UNCHANGED op
  BY DEF LifeStep, ComeBack, EnvStep, SigTerm, Crash, ShutStop, ShutStopFails, ShutList,
         ShutWrite, Exit, Restart, ProcessExits, BackoffElapses, clients
<1>3. ShutWrite(n) => rt'.node = rt.node /\ n = Home
  BY <1>0 DEF ShutWrite, UpdateActualThenSync, UpdateActual, RuntimeRow, HomeInv
<1>4. rt'.node = Home
  BY <1>3 DEF HomeInv, LifeStep, ComeBack, EnvStep, SigTerm, Crash, ShutStop,
              ShutStopFails, ShutList, Exit, Restart, ProcessExits, BackoffElapses
<1>5. \A m \in Nodes : m # n => ag'[m] = ag[m]
  <2>1. SigTerm(n) \/ AgentGone(n) => \A m \in Nodes : m # n => ag'[m] = ag[m]
    BY <1>0 DEF SigTerm, AgentGone
  <2>2. QED
    BY <2>1 DEF LifeStep, ComeBack, EnvStep, Crash, ShutStop, ShutStopFails, ShutList,
                ShutWrite, Exit, Restart, ProcessExits, BackoffElapses, AgentPc
<1>6. n # Home => ag'[n].pc \in {"idle", "shutStop", "shutList", "exit", "down"}
  <2>1. SigTerm(n) => ag'[n].pc = "shutStop"
    BY <1>0 DEF SigTerm, IdleAgent
  <2>2. AgentGone(n) => ag'[n].pc = "down"
    BY <1>0 DEF AgentGone, IdleAgent
  <2>3. n # Home => ~ShutWrite(n)
    BY <1>3
  <2>4. n # Home /\ ShutList(n) => ag'[n].pc = "exit"
    BY DEF ShutList, HomeInv, AgentPc
  <2>5. QED
    BY <2>1, <2>2, <2>3, <2>4
       DEF HomeInv, LifeStep, ComeBack, EnvStep, Crash, ShutStop, ShutStopFails,
           Exit, Restart, ProcessExits, BackoffElapses, AgentPc
<1>7. QED
  BY <1>1, <1>2, <1>4, <1>5, <1>6 DEF HomeInv

\* Without "migrate" among the requests no client leaves the other calls.
LEMMA ClientsAtHome ==
    ASSUME "migrate" \notin Kinds, TypeOK, HomeInv, NEW c \in Clients, ClientStep(c)
    PROVE  HomeInv'
<1>0. op \in [Clients -> Request] /\ rt \in RuntimeRow
  BY DEF TypeOK
<1>1. UNCHANGED agents
  BY DEF ClientStep, Begin, BeginRuntime, SetBotDesired, SetRuntimeDesired, ReadRuntime,
         ClearRuntime, ClearBot, WaitBot, WaitRuntime, MigrateFails, ReassignRuntime,
         ReassignBot, StartMigrated, Abort, BeginPatch, Patch, BeginCheck, Check, agents
<1>2. rt'.node = Home
  BY <1>0 DEF HomeInv, MigratePc, RuntimeRow, ClientStep, Begin, BeginRuntime, SetBotDesired,
              SetRuntimeDesired, ReadRuntime, ClearRuntime, UpdateActual, ClearBot, WaitBot,
              WaitRuntime, MigrateFails, ReassignRuntime, ReassignBot, StartMigrated, Abort,
              BeginPatch, Patch, BeginCheck, Check
<1>3. \A d \in Clients : op'[d].kind # "migrate" /\ op'[d].pc \notin MigratePc
  <2>1. \A l : ClientGoto(c, l) /\ l \notin MigratePc
              => \A d \in Clients : op'[d].kind # "migrate" /\ op'[d].pc \notin MigratePc
    BY <1>0 DEF ClientGoto, HomeInv, Request
  <2>2. Return(c) => \A d \in Clients : op'[d].kind # "migrate" /\ op'[d].pc \notin MigratePc
    BY <1>0 DEF Return, IdleClient, HomeInv, MigratePc
  <2>3. ASSUME Begin(c) \/ BeginRuntime(c) \/ BeginPatch(c) \/ BeginCheck(c)
        PROVE  \A d \in Clients : op'[d].kind # "migrate" /\ op'[d].pc \notin MigratePc
    <3>1. op'[c].kind # "migrate" /\ op'[c].pc \notin MigratePc
      BY <1>0, <2>3 DEF Begin, BeginRuntime, BeginPatch, BeginCheck, IdleClient, MigratePc
    <3>2. \A d \in Clients : d # c => op'[d] = op[d]
      BY <1>0, <2>3 DEF Begin, BeginRuntime, BeginPatch, BeginCheck
    <3>3. QED
      BY <3>1, <3>2 DEF HomeInv
  <2>4. ASSUME \/ SetBotDesired(c) \/ SetRuntimeDesired(c) \/ ReadRuntime(c)
               \/ ClearRuntime(c) \/ ClearBot(c) \/ Abort(c) \/ Patch(c) \/ Check(c)
        PROVE  \A d \in Clients : op'[d].kind # "migrate" /\ op'[d].pc \notin MigratePc
    <3>1. \/ Return(c)
          \/ \E l \in {"rtDesired", "readRuntime", "clearRuntime", "clearBot"} : ClientGoto(c, l)
      BY <2>4 DEF SetBotDesired, SetRuntimeDesired, AfterDesired, ReadRuntime, ClearRuntime,
                  ClearBotNext, ClearBot, Abort, Patch, Check, HomeInv
    <3>2. QED
      BY <2>1, <2>2, <3>1 DEF MigratePc
  <2>5. QED
    BY <2>2, <2>3, <2>4 DEF ClientStep, WaitBot, WaitRuntime, MigrateFails,
       ReassignRuntime, ReassignBot, StartMigrated, HomeInv, MigratePc
<1>4. QED
  BY <1>1, <1>2, <1>3 DEF HomeInv, agents

LEMMA HomeStep ==
    ASSUME "migrate" \notin Kinds, TypeOK, ProcessesTracked, HomeInv, [Next]_vars
    PROVE  HomeInv'
<1>1. ASSUME NEW n \in Nodes, ReconcileStep(n) PROVE HomeInv'
  <2>1. n = Home /\ rt'.node = Home /\ UNCHANGED op
    BY <1>1, TickAtHome
  <2>2. Books(n) /\ \A m \in Nodes : m # n => ag'[m] = ag[m]
    BY <1>1, TickKeepsBooks
  <2>3. \A m \in Nodes : m # n => slot'[m] = slot[m]
    BY <2>2, BooksKeepTrack
  <2>4. QED
    BY <2>1, <2>2, <2>3 DEF HomeInv
<1>2. ASSUME NEW n \in Nodes, LifeStep(n) \/ EnvStep(n) PROVE HomeInv'
  BY <1>2, LifeAtHome
<1>3. ASSUME NEW c \in Clients, ClientStep(c) PROVE HomeInv'
  BY <1>3, ClientsAtHome
<1>4. CASE LeaseExpires
  <2>1. rt'.node = rt.node
    BY <1>4 DEF LeaseExpires, TypeOK, RuntimeRow
  <2>2. QED
    BY <1>4, <2>1 DEF LeaseExpires, HomeInv, agents, clients
<1>5. CASE UNCHANGED vars
  BY <1>5 DEF vars, HomeInv
<1>6. QED
  BY <1>1, <1>2, <1>3, <1>4, <1>5 DEF Next

LEMMA InitAtHome == Init => HomeInv
BY DEF Init, HomeInv, IdleClient, MigratePc, IdleAgent, NoSlot

\* As long as nothing is migrated and no agent is killed, a bot has at most one
\* dedicated process, whatever starts, stops, crashes of the process, expired
\* leases, refused signals and restarts of agents come together.  The run
\* migrate_double shows that the assumption on migrations is needed, the run
\* crash_double the one on killed agents.
THEOREM OneProcess ==
    ASSUME ~Crashes, ~StopAllMayFail, "migrate" \notin Kinds
    PROVE  Spec => []AtMostOneProcess
<1>1. TypeOK /\ TrackInv /\ HomeInv /\ [Next]_vars => TypeOK' /\ TrackInv' /\ HomeInv'
  BY TrackStep, NextTypes, HomeStep DEF TrackInv
<1>2. TrackInv /\ HomeInv => AtMostOneProcess
  BY DEF TrackInv, HomeInv, ProcessesTracked, AtMostOneProcess
<1>3. QED
  BY <1>1, <1>2, InitTypes, InitTracked, InitAtHome, PTL DEF Spec

----------------------------------------------------------------------------
(* Desired states agree.  What a request has written so far, and that a    *)
(* migration has stopped the bot in both rows before it waits.             *)

DesiredInv ==
    \A c \in Clients :
        /\ op[c].pc = "rtDesired" /\ op[c].kind \in BotKinds
             => bot.desired = Wanted(c)
        /\ op[c].pc \in {"readRuntime", "clearRuntime", "clearBot"} /\ op[c].kind \in BotKinds
             => bot.desired = rt.desired
        /\ op[c].pc \in MigratePc
             => bot.desired = "stopped" /\ rt.desired = "stopped"
        /\ op[c].pc \in {"patch", "check"} => op[c].kind = op[c].pc

\* Agents, processes and time leave the desired states to the clients.
LEMMA AgentsKeepDesired ==
    ASSUME TypeOK, \/ LeaseExpires
                   \/ \E n \in Nodes : ReconcileStep(n) \/ LifeStep(n) \/ EnvStep(n)
    PROVE  rt'.desired = rt.desired /\ bot'.desired = bot.desired /\ UNCHANGED op
<1>0. rt \in RuntimeRow /\ bot \in BotRow
  BY DEF TypeOK
<1>1. \A state, pid : UpdateActual(state, pid) => rt'.desired = rt.desired
  BY <1>0 DEF UpdateActual, RuntimeRow
<1>2. \A n, state, pid, next :
        UpdateActualThenSync(n, state, pid, next) => rt'.desired = rt.desired
  BY <1>1 DEF UpdateActualThenSync
<1>3. \A n : ReleaseLease(n) => rt'.desired = rt.desired
  BY <1>0 DEF ReleaseLease, RuntimeRow
<1>4. \A n : Acquire(n) \/ Renew(n) => rt'.desired = rt.desired
  BY <1>0 DEF Acquire, Renew, RuntimeRow
<1>5. \A n : SyncBots(n) => bot'.desired = bot.desired
  BY <1>0 DEF SyncBots, BotRow
<1>6. CASE LeaseExpires
  BY <1>0, <1>6 DEF LeaseExpires, RuntimeRow, clients
<1>7. ASSUME NEW n \in Nodes, ReconcileStep(n)
      PROVE  rt'.desired = rt.desired /\ bot'.desired = bot.desired /\ UNCHANGED op
  <2>1. rt'.desired = rt.desired
    BY <1>1, <1>2, <1>3, <1>4, <1>7
       DEF ReconcileStep, Tick, SyncBots, Holds, AcquireFails, LostStop, LostForget,
           RenewFails, RenewStop, Decide, Crashed, ForgetCrashed, MaybeRestart, Exhausted,
           ResetFailed, StartRefused, Starting, BadCommand, SpawnFails, Spawn, Started,
           StillRunning, StartRelease, Stopping, Stop, StopFailed, Stopped, StopRelease
  <2>2. bot'.desired = bot.desired /\ UNCHANGED op
    BY <1>5, <1>7
       DEF ReconcileStep, Tick, SyncBots, Holds, Acquire, AcquireFails, LostStop, LostForget,
           Renew, RenewFails, RenewStop, Decide, Crashed, ForgetCrashed, MaybeRestart,
           Exhausted, ResetFailed, StartRefused, Starting, BadCommand, SpawnFails, Spawn,
           Started, StillRunning, StartRelease, Stopping, Stop, StopFailed, Stopped,
           StopRelease, clients
  <2>3. QED
    BY <2>1, <2>2
<1>8. ASSUME NEW n \in Nodes, LifeStep(n) \/ EnvStep(n)
      PROVE  rt'.desired = rt.desired /\ bot'.desired = bot.desired /\ UNCHANGED op
  BY <1>2, <1>8 DEF LifeStep, ComeBack, EnvStep, SigTerm, Crash, ShutStop, ShutStopFails,
     ShutList, ShutWrite, Exit, Restart, ProcessExits, BackoffElapses, clients
<1>9. QED
  BY <1>6, <1>7, <1>8

LEMMA ClientsKeepDesired ==
    ASSUME \A c, d \in Clients : c = d, TypeOK, DesiredInv, NEW c \in Clients, ClientStep(c)
    PROVE  DesiredInv'
<1> USE DEF DesiredInv, MigratePc
<1>0. /\ rt \in RuntimeRow /\ bot \in BotRow /\ op \in [Clients -> Request]
      /\ \A d \in Clients : d = c
  BY DEF TypeOK
<1>1. /\ \A l : ClientGoto(c, l) => op'[c].pc = l /\ op'[c].kind = op[c].kind
      /\ Return(c) => op'[c].pc = "idle"
  BY <1>0 DEF ClientGoto, Return, IdleClient, Request
<1>2. CASE \/ Begin(c) \/ BeginRuntime(c) \/ StartMigrated(c)
           \/ BeginPatch(c) \/ BeginCheck(c)
  <2>1. \/ op'[c].pc = "botDesired"
        \/ op'[c].pc = "rtDesired" /\ op'[c].kind \notin BotKinds
        \/ op'[c].pc \in {"patch", "check"} /\ op'[c].kind = op'[c].pc
    <3>1. Begin(c) \/ StartMigrated(c) => op'[c].pc = "botDesired"
      BY <1>0 DEF Begin, StartMigrated, IdleClient
    <3>2. BeginRuntime(c) => op'[c].pc = "rtDesired" /\ op'[c].kind \notin BotKinds
      BY <1>0 DEF BeginRuntime, IdleClient, BotKinds
    <3>3. /\ BeginPatch(c) => op'[c].pc = "patch" /\ op'[c].kind = "patch"
          /\ BeginCheck(c) => op'[c].pc = "check" /\ op'[c].kind = "check"
      BY <1>0 DEF BeginPatch, BeginCheck, IdleClient
    <3>4. QED
      BY <1>2, <3>1, <3>2, <3>3
  <2>2. QED
    BY <1>0, <2>1
<1>3. CASE SetBotDesired(c)
  <2>1. op'[c].pc = "rtDesired" /\ op'[c].kind = op[c].kind
    BY <1>1, <1>3 DEF SetBotDesired
  <2>2. bot'.desired = Wanted(c)'
    BY <1>0, <1>3, <2>1 DEF SetBotDesired, Wanted, BotRow
  <2>3. QED
    BY <1>0, <2>1, <2>2
<1>4. CASE SetRuntimeDesired(c)
  <2>1. rt'.desired = Wanted(c) /\ UNCHANGED bot /\ op[c].pc = "rtDesired"
    BY <1>0, <1>4 DEF SetRuntimeDesired, RuntimeRow
  <2>2. \/ op'[c].pc = "idle"
        \/ op'[c].pc = "readRuntime" /\ op[c].kind = "start"
        \/ op'[c].pc = "waitBot" /\ op[c].kind = "migrate"
        \/ op'[c].pc = "clearRuntime" /\ op'[c].kind = "rtstart"
    BY <1>1, <1>4 DEF SetRuntimeDesired, AfterDesired
  <2>3. QED
    BY <1>0, <2>1, <2>2 DEF BotKinds, Wanted
<1>5. CASE ReadRuntime(c) \/ ClearRuntime(c) \/ ClearBot(c)
  <2>1. /\ op[c].pc \in {"readRuntime", "clearRuntime", "clearBot"}
        /\ \/ op'[c].pc = "idle"
           \/ op'[c].pc \in {"clearRuntime", "clearBot"} /\ op'[c].kind = op[c].kind
    BY <1>1, <1>5 DEF ReadRuntime, ClearRuntime, ClearBotNext, ClearBot
  <2>2. rt'.desired = rt.desired /\ bot'.desired = bot.desired
    BY <1>0, <1>5 DEF ReadRuntime, ClearRuntime, UpdateActual, ClearBot, RuntimeRow, BotRow
  <2>3. QED
    BY <1>0, <2>1, <2>2
<1>6. CASE \/ WaitBot(c) \/ WaitRuntime(c) \/ MigrateFails(c)
           \/ ReassignRuntime(c) \/ ReassignBot(c)
  <2>1. op[c].pc \in MigratePc /\ op'[c].pc \in MigratePc \cup {"idle"}
    BY <1>1, <1>6 DEF WaitBot, WaitRuntime, MigrateFails, ReassignRuntime, ReassignBot
  <2>2. bot'.desired = "stopped" /\ rt'.desired = "stopped"
    BY <1>0, <1>6, <2>1 DEF WaitBot, WaitRuntime, MigrateFails, ReassignRuntime, ReassignBot
  <2>3. QED
    BY <1>0, <2>1, <2>2
<1>7. CASE Abort(c) \/ Patch(c) \/ Check(c)
  <2>1. op'[c].pc = "idle"
    BY <1>1, <1>7 DEF Abort, Patch, Check
  <2>2. QED
    BY <1>0, <2>1
<1>8. QED
  BY <1>2, <1>3, <1>4, <1>5, <1>6, <1>7 DEF ClientStep

\* The end of one request.
LEMMA RequestAgrees ==
    ASSUME TypeOK, DesiredInv, NEW c \in Clients, ClientStep(c),
           Ends(c), op[c].kind \in BotKinds
    PROVE  CutShort(c) \/ bot'.desired = rt'.desired
<1> USE DEF DesiredInv, Ends
<1>0. /\ rt \in RuntimeRow /\ bot \in BotRow /\ op \in [Clients -> Request]
      /\ op'[c].pc = "idle"
  BY DEF TypeOK, Return, IdleClient
<1>1. CASE Begin(c) \/ BeginRuntime(c) \/ BeginPatch(c) \/ BeginCheck(c)
  BY <1>1 DEF Begin, BeginRuntime, BeginPatch, BeginCheck
<1>2. CASE SetBotDesired(c) \/ StartMigrated(c)
  BY <1>0, <1>2 DEF SetBotDesired, StartMigrated, ClientGoto, IdleClient, Request
<1>3. CASE SetRuntimeDesired(c)
  BY <1>0, <1>3 DEF SetRuntimeDesired, RuntimeRow
<1>4. CASE ReadRuntime(c) \/ ClearRuntime(c) \/ ClearBot(c)
  BY <1>0, <1>4 DEF ReadRuntime, ClearRuntime, UpdateActual, ClearBot, RuntimeRow, BotRow
<1>5. CASE WaitBot(c) \/ WaitRuntime(c) \/ MigrateFails(c)
  BY <1>5 DEF WaitBot, WaitRuntime, MigrateFails, MigratePc
<1>6. CASE ReassignRuntime(c) \/ ReassignBot(c)
  BY <1>6 DEF ReassignRuntime, ReassignBot, MigratePc
<1>7. CASE Patch(c) \/ Check(c)
  BY <1>7 DEF Patch, Check, BotKinds
<1>8. CASE Abort(c)
  <2>1. op[c].pc \in ClientPc \ {"idle"} /\ UNCHANGED <<rt, bot>>
    BY <1>0, <1>8 DEF Abort, Request
  <2>2. QED
    BY <1>8, <2>1 DEF ClientPc, MigratePc, BotKinds, CutShort
<1>9. QED
  BY <1>1, <1>2, <1>3, <1>4, <1>5, <1>6, <1>7, <1>8 DEF ClientStep

LEMMA InitDesired == Init => DesiredInv
BY DEF Init, DesiredInv, IdleClient, MigratePc

\* When requests come one at a time, a start, a stop or a migration that got as
\* far as its write of the runtime leaves one desired state in both rows: also
\* when it timed out, was refused or was cut later, and whatever a PATCH, a
\* `ctl runtime` or a request cut between its two writes left before it.
THEOREM DesiredAgrees ==
    ASSUME \A c, d \in Clients : c = d
    PROVE  Spec => DesiredAgree
<1>1. TypeOK /\ DesiredInv /\ [Next]_vars => TypeOK' /\ DesiredInv'
  <2> SUFFICES ASSUME TypeOK, DesiredInv, [Next]_vars PROVE DesiredInv'
    BY NextTypes
  <2>1. CASE LeaseExpires \/ \E n \in Nodes : ReconcileStep(n) \/ LifeStep(n) \/ EnvStep(n)
    <3>1. rt'.desired = rt.desired /\ bot'.desired = bot.desired /\ UNCHANGED op
      BY <2>1, AgentsKeepDesired
    <3>2. QED
      BY <3>1 DEF DesiredInv, Wanted
  <2>2. CASE \E c \in Clients : ClientStep(c)
    BY <2>2, ClientsKeepDesired
  <2>3. CASE UNCHANGED vars
    BY <2>3 DEF vars, DesiredInv, Wanted
  <2>4. QED
    BY <2>1, <2>2, <2>3 DEF Next
<1>2. TypeOK /\ DesiredInv /\ [Next]_vars
        => [\A c \in Clients : Ends(c) /\ op[c].kind \in BotKinds
              => CutShort(c) \/ bot'.desired = rt'.desired]_vars
  <2> SUFFICES ASSUME TypeOK, DesiredInv, Next, NEW c \in Clients,
                      Ends(c), op[c].kind \in BotKinds
               PROVE  CutShort(c) \/ bot'.desired = rt'.desired
    OBVIOUS
  <2>1. CASE LeaseExpires \/ \E n \in Nodes : ReconcileStep(n) \/ LifeStep(n) \/ EnvStep(n)
    <3>1. UNCHANGED op
      BY <2>1, AgentsKeepDesired
    <3>2. QED
      BY <3>1 DEF Ends, Return, IdleClient, TypeOK
  <2>2. CASE \E d \in Clients : ClientStep(d)
    <3>1. ClientStep(c)
      BY <2>2
    <3>2. QED
      BY <3>1, RequestAgrees
  <2>3. QED
    BY <2>1, <2>2 DEF Next
<1>3. QED
  BY <1>1, <1>2, InitTypes, InitDesired, PTL DEF Spec, DesiredAgree

----------------------------------------------------------------------------
(* A stopped row is the truth.                                             *)
(*                                                                         *)
(* The strengthening follows the word "stopped" through the code: who is   *)
(* about to write it has no live process, and who is about to start a      *)
(* process has first overwritten it in both rows, where no request can     *)
(* bring it back.                                                          *)

SaysStopped == rt.actual = "stopped" \/ bot.actual = "stopped"

WillSayStopped ==
    \/ ag[Home].pc \in {"stopped", "shutWrite"}
    \/ ag[Home].pc = "sync" /\ ag[Home].sync = "stopped"

StopInv ==
    /\ rt.owner \in {NoNode, Home}
    /\ ag[Home].pc \notin {"lost", "lostForget"}
    /\ SaysStopped \/ WillSayStopped => slot[Home].st # "live"
    /\ ag[Home].pc = "sync" /\ ag[Home].next = "spawn"
         => ag[Home].sync = "starting" /\ rt.actual # "stopped"
    /\ ag[Home].pc = "spawn" => ~SaysStopped

LEMMA InitStop == Init => StopInv
BY CustomRuntimeAssumption
   DEF Init, StopInv, SaysStopped, WillSayStopped, IdleAgent, NoSlot

\* What the calls of the agent at Home do to the fields of the invariant.
LEMMA HomeCalls ==
    ASSUME TypeOK
    PROVE  /\ \A l \in AgentPc : Goto(Home, l) =>
                ag'[Home].pc = l /\ ag'[Home].sync = ag[Home].sync
                                 /\ ag'[Home].next = ag[Home].next
           /\ EndTick(Home) => ag'[Home].pc = "idle"
           /\ \A state, pid : UpdateActual(state, pid) =>
                rt'.actual = state /\ rt'.owner = rt.owner
           /\ \A state, pid, next : UpdateActualThenSync(Home, state, pid, next) =>
                /\ rt'.actual = state /\ rt'.owner = rt.owner
                /\ ag'[Home].pc = "sync" /\ ag'[Home].sync = state /\ ag'[Home].next = next
           /\ ReleaseLease(Home) =>
                rt'.actual = rt.actual /\ rt'.owner \in {rt.owner, NoNode}
           /\ StopProcess(Home) => slot'[Home].st # "live"
           /\ Forget(Home) => (slot'[Home].st = "live" => slot[Home].st = "live")
<1>0. /\ Home \in Nodes /\ rt \in RuntimeRow /\ ag \in [Nodes -> Agent]
      /\ slot \in [Nodes -> Slot] /\ slot[Home] \in Slot
  BY CustomRuntimeAssumption DEF TypeOK
<1>1. ASSUME NEW l \in AgentPc, Goto(Home, l)
      PROVE  ag'[Home].pc = l /\ ag'[Home].sync = ag[Home].sync
                              /\ ag'[Home].next = ag[Home].next
  BY <1>0, <1>1 DEF Goto, Agent
<1>2. EndTick(Home) => ag'[Home].pc = "idle"
  BY <1>0 DEF EndTick, IdleAgent
<1>3. ASSUME NEW state, NEW pid, UpdateActual(state, pid)
      PROVE  rt'.actual = state /\ rt'.owner = rt.owner
  BY <1>0, <1>3 DEF UpdateActual, RuntimeRow
<1>4. ASSUME NEW state, NEW pid, NEW next, UpdateActualThenSync(Home, state, pid, next)
      PROVE  /\ rt'.actual = state /\ rt'.owner = rt.owner
             /\ ag'[Home].pc = "sync" /\ ag'[Home].sync = state /\ ag'[Home].next = next
  <2>1. rt'.actual = state /\ rt'.owner = rt.owner
    BY <1>3, <1>4 DEF UpdateActualThenSync
  <2>2. ag'[Home].pc = "sync" /\ ag'[Home].sync = state /\ ag'[Home].next = next
    BY <1>0, <1>4 DEF UpdateActualThenSync, Agent
  <2>3. QED
    BY <2>1, <2>2
<1>5. ReleaseLease(Home) => rt'.actual = rt.actual /\ rt'.owner \in {rt.owner, NoNode}
  BY <1>0 DEF ReleaseLease, RuntimeRow
<1>6. StopProcess(Home) => slot'[Home].st # "live"
  BY <1>0 DEF StopProcess, Slot
<1>7. Forget(Home) => (slot'[Home].st = "live" => slot[Home].st = "live")
  BY <1>0 DEF Forget, NoSlot
<1>8. QED
  BY <1>1, <1>2, <1>3, <1>4, <1>5, <1>6, <1>7

LEMMA TickKeepsStop ==
    ASSUME TypeOK, StopInv, ReconcileStep(Home)
    PROVE  StopInv'
<1> USE HomeCalls DEF StopInv, SaysStopped, WillSayStopped
<1>0. /\ Home \in Nodes /\ rt \in RuntimeRow /\ bot \in BotRow /\ ag \in [Nodes -> Agent]
      /\ ag[Home] \in Agent /\ slot \in [Nodes -> Slot] /\ slot[Home] \in Slot
  BY CustomRuntimeAssumption DEF TypeOK
<1>1. CASE Tick(Home)
  <2>1. \A l \in AgentPc : ReadRow(Home, l) => ag'[Home].pc = l
    BY <1>0 DEF ReadRow, IdleAgent
  <2>2. \/ ag'[Home].pc \in {"holds", "stopping"}
        \/ ag'[Home].pc = "stopped" /\ slot[Home].st # "live"
    BY <1>1, <2>1 DEF Tick, AgentPc
  <2>3. QED
    BY <1>1, <2>2 DEF Tick
<1>2. CASE SyncBots(Home)
  <2>1. bot'.actual = ag[Home].sync
    BY <1>0, <1>2 DEF SyncBots, BotRow
  <2>2. ag'[Home].pc = ag[Home].next /\ ag[Home].next \in SyncNext
    BY <1>0, <1>2 DEF SyncBots, SyncNext, AgentPc, Agent
  <2>3. UNCHANGED <<rt, slot>> /\ ag[Home].pc = "sync"
    BY <1>2 DEF SyncBots
  <2>4. QED
    BY <2>1, <2>2, <2>3 DEF SyncNext
<1>3. CASE Holds(Home) \/ Decide(Home) \/ RenewFails(Home)
  BY <1>3 DEF Holds, Decide, RenewFails, AgentPc
<1>4. CASE Acquire(Home) \/ Renew(Home)
  <2>1. rt'.owner \in {NoNode, Home} /\ rt'.actual = rt.actual
    BY <1>0, <1>4 DEF Acquire, Renew, RuntimeRow
  <2>2. ag'[Home].pc = "decide" /\ UNCHANGED <<bot, slot>>
    BY <1>4 DEF Acquire, Renew, AgentPc
  <2>3. QED
    BY <2>1, <2>2
<1>5. CASE AcquireFails(Home)
  BY <1>5 DEF AcquireFails, Acquirable
<1>6. CASE LostStop(Home) \/ LostForget(Home)
  BY <1>6 DEF LostStop, LostForget
<1>7. CASE RenewStop(Home)
  BY <1>7 DEF RenewStop, AgentPc
<1>8. CASE Crashed(Home) \/ Exhausted(Home) \/ StartRefused(Home) \/ BadCommand(Home)
           \/ SpawnFails(Home)
  <2>1. /\ rt'.actual = "failed" /\ rt'.owner = rt.owner
        /\ ag'[Home].pc = "sync" /\ ag'[Home].sync = "failed"
        /\ ag'[Home].next \in {"forget", "idle", "startRelease"}
    BY <1>8 DEF Crashed, Exhausted, StartRefused, BadCommand, SpawnFails
  <2>2. UNCHANGED bot /\ (slot'[Home].st = "live" => slot[Home].st = "live")
    BY <1>8 DEF Crashed, Exhausted, StartRefused, BadCommand, SpawnFails
  <2>3. QED
    BY <2>1, <2>2
<1>9. CASE ForgetCrashed(Home)
  BY <1>9 DEF ForgetCrashed, AgentPc
<1>10. CASE MaybeRestart(Home)
  BY <1>10 DEF MaybeRestart, AgentPc
<1>11. CASE ResetFailed(Home)
  BY <1>11 DEF ResetFailed, AgentPc
<1>12. CASE Starting(Home)
  BY <1>12 DEF Starting
<1>13. CASE Spawn(Home)
  <2>1. ag'[Home].pc = "started"
    BY <1>0, <1>13 DEF Spawn, Agent
  <2>2. UNCHANGED <<rt, bot>> /\ ~SaysStopped
    BY <1>13 DEF Spawn
  <2>3. QED
    BY <2>1, <2>2
<1>14. CASE Started(Home) \/ StillRunning(Home) \/ Stopping(Home)
  BY <1>14 DEF Started, StillRunning, Stopping
<1>15. CASE StartRelease(Home) \/ StopRelease(Home)
  BY <1>15 DEF StartRelease, StopRelease
<1>16. CASE Stop(Home)
  BY <1>16 DEF Stop, AgentPc
<1>17. CASE StopFailed(Home)
  BY <1>17 DEF StopFailed
<1>18. CASE Stopped(Home)
  BY <1>18 DEF Stopped
<1>19. QED
  BY <1>1, <1>2, <1>3, <1>4, <1>5, <1>6, <1>7, <1>8, <1>9, <1>10, <1>11, <1>12, <1>13,
     <1>14, <1>15, <1>16, <1>17, <1>18 DEF ReconcileStep

\* An agent on its way out says stopped only after StopAll.
LEMMA LifeKeepsStop ==
    ASSUME TypeOK, TrackInv, ~Crashes, StopInv, LifeStep(Home) \/ EnvStep(Home)
    PROVE  StopInv'
<1> USE HomeCalls DEF StopInv, SaysStopped, WillSayStopped
<1>0. /\ Home \in Nodes /\ ag \in [Nodes -> Agent]
      /\ slot \in [Nodes -> Slot] /\ slot[Home] \in Slot
  BY CustomRuntimeAssumption DEF TypeOK
<1>1. CASE SigTerm(Home)
  <2>1. ag'[Home].pc = "shutStop"
    BY <1>0, <1>1 DEF SigTerm, IdleAgent
  <2>2. UNCHANGED <<rt, bot, slot>>
    BY <1>1 DEF SigTerm
  <2>3. QED
    BY <2>1, <2>2
<1>2. CASE ShutStop(Home) \/ ShutStopFails(Home)
  BY <1>2 DEF ShutStop, ShutStopFails, AgentPc
<1>3. CASE ShutList(Home)
  <2>1. slot[Home].st # "live"
    BY <1>0, <1>3 DEF ShutList, TrackInv, Leaving
  <2>2. QED
    BY <1>3, <2>1 DEF ShutList, AgentPc
<1>4. CASE ShutWrite(Home)
  BY <1>4 DEF ShutWrite
<1>5. CASE Exit(Home)
  <2>1. ag'[Home].pc = "down" /\ slot'[Home].st = "none"
    BY <1>0, <1>5 DEF Exit, AgentGone, IdleAgent, NoSlot
  <2>2. UNCHANGED <<rt, bot>>
    BY <1>5 DEF Exit
  <2>3. QED
    BY <2>1, <2>2
<1>6. CASE Restart(Home)
  BY <1>6 DEF Restart
<1>7. CASE ProcessExits(Home)
  <2>1. slot'[Home].st = "live" => slot[Home].st = "live"
    BY <1>0, <1>7 DEF ProcessExits, Slot
  <2>2. QED
    BY <1>7, <2>1 DEF ProcessExits
<1>8. CASE BackoffElapses(Home)
  BY <1>8 DEF BackoffElapses
<1>9. QED
  BY <1>1, <1>2, <1>3, <1>4, <1>5, <1>6, <1>7, <1>8 DEF LifeStep, ComeBack, EnvStep, Crash

\* The other agents leave Home and the rows alone.
LEMMA OthersKeepStop ==
    ASSUME TypeOK, HomeInv, StopInv, NEW n \in Nodes, n # Home, LifeStep(n) \/ EnvStep(n)
    PROVE  StopInv'
<1>0. /\ Home \in Nodes /\ slot \in [Nodes -> Slot] /\ ag \in [Nodes -> Agent]
  BY CustomRuntimeAssumption DEF TypeOK
<1>1. UNCHANGED <<rt, bot>>
  BY DEF HomeInv, LifeStep, ComeBack, EnvStep, SigTerm, Crash, ShutStop, ShutStopFails,
         ShutList, ShutWrite, Exit, Restart, ProcessExits, BackoffElapses
<1>2. ag'[Home] = ag[Home]
  <2>1. /\ \A l : Goto(n, l) => ag'[Home] = ag[Home]
        /\ EndTick(n) => ag'[Home] = ag[Home]
        /\ AgentGone(n) => ag'[Home] = ag[Home]
        /\ SigTerm(n) => ag'[Home] = ag[Home]
    BY <1>0 DEF Goto, EndTick, AgentGone, SigTerm
  <2>2. QED
    BY <2>1 DEF HomeInv, LifeStep, ComeBack, EnvStep, Crash, ShutStop, ShutStopFails,
                ShutList, ShutWrite, Exit, Restart, ProcessExits, BackoffElapses
<1>3. slot'[Home] = slot[Home]
  <2>1. /\ StopProcess(n) => slot'[Home] = slot[Home]
        /\ AgentGone(n) => slot'[Home] = slot[Home]
        /\ ProcessExits(n) => slot'[Home] = slot[Home]
    BY <1>0 DEF StopProcess, AgentGone, ProcessExits
  <2>2. QED
    BY <2>1 DEF HomeInv, LifeStep, ComeBack, EnvStep, SigTerm, Crash, ShutStop,
                ShutStopFails, ShutList, ShutWrite, Exit, Restart, BackoffElapses
<1>4. QED
  BY <1>1, <1>2, <1>3 DEF StopInv, SaysStopped, WillSayStopped

\* Without "patch" among the requests no client writes a whole row back.
NoPatch == \A c \in Clients : op[c].pc # "patch"

LEMMA PatchStep ==
    ASSUME "patch" \notin Kinds, TypeOK, NoPatch, [Next]_vars
    PROVE  NoPatch'
<1>0. op \in [Clients -> Request]
  BY DEF TypeOK
<1>1. CASE LeaseExpires \/ \E n \in Nodes : ReconcileStep(n) \/ LifeStep(n) \/ EnvStep(n)
  BY <1>1, AgentsKeepDesired DEF NoPatch
<1>2. ASSUME NEW c \in Clients, ClientStep(c) PROVE NoPatch'
  <2>1. /\ \A l : ClientGoto(c, l) => op'[c].pc = l
        /\ Return(c) => op'[c].pc = "idle"
    BY <1>0 DEF ClientGoto, Return, IdleClient, Request
  <2>2. \/ Begin(c) \/ BeginRuntime(c) \/ StartMigrated(c) \/ BeginCheck(c)
           => op'[c].pc # "patch"
    BY <1>0 DEF Begin, BeginRuntime, StartMigrated, BeginCheck, IdleClient
  <2>3. op'[c].pc # "patch"
    BY <1>2, <2>1, <2>2
       DEF ClientStep, SetBotDesired, SetRuntimeDesired, AfterDesired, ReadRuntime,
           ClearRuntime, ClearBotNext, ClearBot, WaitBot, WaitRuntime, MigrateFails,
           ReassignRuntime, ReassignBot, Abort, BeginPatch, Patch, Check
  <2>4. \A d \in Clients : d # c => op'[d] = op[d]
    BY <1>0, <1>2
       DEF ClientStep, Begin, BeginRuntime, StartMigrated, BeginPatch, BeginCheck,
           SetBotDesired, SetRuntimeDesired, AfterDesired, ReadRuntime, ClearRuntime,
           ClearBotNext, ClearBot, WaitBot, WaitRuntime, MigrateFails, ReassignRuntime,
           ReassignBot, Abort, Patch, Check, ClientGoto, Return
  <2>5. QED
    BY <2>3, <2>4 DEF NoPatch
<1>3. CASE UNCHANGED vars
  BY <1>3 DEF vars, NoPatch
<1>4. QED
  BY <1>1, <1>2, <1>3 DEF Next

LEMMA InitNoPatch == Init => NoPatch
BY DEF Init, NoPatch, IdleClient

\* A request that is no PATCH never writes stopped: it clears it to unknown,
\* and a health check writes failed or running.
LEMMA ClientsKeepStop ==
    ASSUME TypeOK, HomeInv, NoPatch, StopInv, NEW c \in Clients, ClientStep(c)
    PROVE  StopInv'
<1>0. rt \in RuntimeRow /\ bot \in BotRow
  BY DEF TypeOK
<1>1. UNCHANGED <<ag, slot>>
  BY DEF ClientStep, Begin, BeginRuntime, SetBotDesired, SetRuntimeDesired, ReadRuntime,
         ClearRuntime, ClearBot, WaitBot, WaitRuntime, MigrateFails, ReassignRuntime,
         ReassignBot, StartMigrated, Abort, BeginPatch, Patch, BeginCheck, Check, agents
<1>2. rt'.owner = rt.owner /\ rt'.actual \in {rt.actual, "unknown"}
  BY <1>0 DEF HomeInv, MigratePc, RuntimeRow, ClientStep, Begin, BeginRuntime, SetBotDesired,
              SetRuntimeDesired, ReadRuntime, ClearRuntime, UpdateActual, ClearBot, WaitBot,
              WaitRuntime, MigrateFails, ReassignRuntime, ReassignBot, StartMigrated, Abort,
              BeginPatch, Patch, BeginCheck, Check
<1>3. bot'.actual \in {bot.actual, "unknown", "failed", "running"}
  BY <1>0 DEF NoPatch, HomeInv, MigratePc, BotRow, ClientStep, Begin, BeginRuntime, SetBotDesired,
              SetRuntimeDesired, ReadRuntime, ClearRuntime, ClearBot, WaitBot,
              WaitRuntime, MigrateFails, ReassignRuntime, ReassignBot, StartMigrated, Abort,
              BeginPatch, Patch, BeginCheck, Check
<1>4. QED
  BY <1>1, <1>2, <1>3 DEF StopInv, SaysStopped, WillSayStopped

LEMMA StopStep ==
    ASSUME ~Crashes, TypeOK, TrackInv, HomeInv, NoPatch, StopInv, [Next]_vars
    PROVE  StopInv'
<1>1. ASSUME NEW n \in Nodes, ReconcileStep(n) PROVE StopInv'
  BY <1>1, TickAtHome, TickKeepsStop
<1>2. ASSUME NEW n \in Nodes, LifeStep(n) \/ EnvStep(n) PROVE StopInv'
  BY <1>2, LifeKeepsStop, OthersKeepStop
<1>3. ASSUME NEW c \in Clients, ClientStep(c) PROVE StopInv'
  BY <1>3, ClientsKeepStop
<1>4. CASE LeaseExpires
  <2>1. rt'.owner = rt.owner /\ rt'.actual = rt.actual
    BY <1>4 DEF LeaseExpires, TypeOK, RuntimeRow
  <2>2. QED
    BY <1>4, <2>1 DEF LeaseExpires, agents, StopInv, SaysStopped, WillSayStopped
<1>5. CASE UNCHANGED vars
  BY <1>5 DEF vars, StopInv, SaysStopped, WillSayStopped
<1>6. QED
  BY <1>1, <1>2, <1>3, <1>4, <1>5 DEF Next

\* As long as nothing is migrated or PATCHed and no agent is killed, a runtime
\* row or a bot row that says stopped is the truth: the bot has no process,
\* whatever stale row the tick works from, however starts that clear the state,
\* health checks and shutdowns come in between, and also when a stop signal is
\* refused.  A PATCH writes the actual state back as it was read, so it can
\* write an old stopped over a bot that runs.
THEOREM StoppedIsDead ==
    ASSUME ~Crashes, ~StopAllMayFail, "migrate" \notin Kinds, "patch" \notin Kinds
    PROVE  Spec => []StoppedMeansDead
<1>1. TypeOK /\ TrackInv /\ HomeInv /\ NoPatch /\ StopInv /\ [Next]_vars
        => TypeOK' /\ TrackInv' /\ HomeInv' /\ NoPatch' /\ StopInv'
  BY TrackStep, NextTypes, HomeStep, PatchStep, StopStep DEF TrackInv
<1>2. TrackInv /\ HomeInv /\ StopInv => StoppedMeansDead
  BY DEF TrackInv, HomeInv, StopInv, SaysStopped, ProcessesTracked, StoppedMeansDead
<1>3. QED
  BY <1>1, <1>2, InitTypes, InitTracked, InitAtHome, InitNoPatch, InitStop, PTL DEF Spec

----------------------------------------------------------------------------
(* The abstract lease and the abstract restart tracker.                    *)

\* The calls that leave the lease alone, and the one that gives it back.
LEMMA LeaseCalls ==
    ASSUME TypeOK
    PROVE  /\ \A state, pid : UpdateActual(state, pid) => Holder' = Holder
           /\ \A n, state, pid, next :
                UpdateActualThenSync(n, state, pid, next) => Holder' = Holder
           /\ \A n : ReleaseLease(n) => Holder' \in {Holder, NoNode}
<1>0. rt \in RuntimeRow
  BY DEF TypeOK
<1>1. \A state, pid : UpdateActual(state, pid) => Holder' = Holder
  BY <1>0 DEF UpdateActual, RuntimeRow, Holder
<1>2. \A n, state, pid, next : UpdateActualThenSync(n, state, pid, next) => Holder' = Holder
  BY <1>1 DEF UpdateActualThenSync
<1>3. \A n : ReleaseLease(n) => Holder' \in {Holder, NoNode}
  BY <1>0 DEF ReleaseLease, RuntimeRow, Holder
<1>4. QED
  BY <1>1, <1>2, <1>3

LEMMA LeaseStep == TypeOK /\ [Next]_vars => [Lease!Next]_Holder
<1> SUFFICES ASSUME TypeOK, [Next]_vars
             PROVE  \/ Holder' \in {Holder, NoNode}
                    \/ Holder = NoNode /\ Holder' \in Nodes
  BY DEF Lease!Next, Lease!Drop, Lease!Take
<1> USE LeaseCalls
<1>0. rt \in RuntimeRow
  BY DEF TypeOK
<1>1. ASSUME NEW n \in Nodes, Acquire(n) \/ Renew(n)
      PROVE  \/ Holder' = Holder
             \/ Holder = NoNode /\ Holder' \in Nodes
  <2>1. Holder' = n
    BY <1>0, <1>1 DEF Acquire, Renew, RuntimeRow, Holder
  <2>2. Holder \in {NoNode, n}
    BY <1>1 DEF Acquire, Renew, Acquirable, Holder
  <2>3. QED
    BY <2>1, <2>2
<1>2. ASSUME NEW n \in Nodes, ReconcileStep(n), ~Acquire(n), ~Renew(n)
      PROVE  Holder' \in {Holder, NoNode}
  <2>1. CASE UNCHANGED rt
    BY <2>1 DEF Holder
  <2>2. CASE rt' # rt
    BY <1>2, <2>2
       DEF ReconcileStep, Tick, SyncBots, Holds, AcquireFails, LostStop, LostForget,
           RenewFails, RenewStop, Decide, Crashed, ForgetCrashed, MaybeRestart, Exhausted,
           ResetFailed, StartRefused, Starting, BadCommand, SpawnFails, Spawn, Started,
           StillRunning, StartRelease, Stopping, Stop, StopFailed, Stopped, StopRelease
  <2>3. QED
    BY <2>1, <2>2
<1>3. ASSUME NEW n \in Nodes, LifeStep(n) \/ EnvStep(n)
      PROVE  Holder' = Holder
  <2>1. CASE ShutWrite(n)
    BY <2>1 DEF ShutWrite
  <2>2. CASE ~ShutWrite(n)
    <3>1. UNCHANGED rt
      BY <1>3, <2>2 DEF LifeStep, ComeBack, EnvStep, SigTerm, Crash, ShutStop, ShutStopFails,
         ShutList, Exit, Restart, ProcessExits, BackoffElapses
    <3>2. QED
      BY <3>1 DEF Holder
  <2>3. QED
    BY <2>1, <2>2
<1>4. ASSUME NEW c \in Clients, ClientStep(c)
      PROVE  Holder' \in {Holder, NoNode}
  <2>1. CASE SetRuntimeDesired(c)
    BY <1>0, <2>1 DEF SetRuntimeDesired, RuntimeRow, Holder
  <2>2. CASE ClearRuntime(c)
    BY <2>2 DEF ClearRuntime
  <2>3. CASE ReassignRuntime(c)
    BY <2>3 DEF ReassignRuntime, Holder
  <2>4. CASE ~(SetRuntimeDesired(c) \/ ClearRuntime(c) \/ ReassignRuntime(c))
    <3>1. UNCHANGED rt
      BY <1>4, <2>4 DEF ClientStep, Begin, BeginRuntime, SetBotDesired, ReadRuntime,
         ClearBot, WaitBot, WaitRuntime, MigrateFails, ReassignBot, StartMigrated, Abort,
         BeginPatch, Patch, BeginCheck, Check
    <3>2. QED
      BY <3>1 DEF Holder
  <2>5. QED
    BY <2>1, <2>2, <2>3, <2>4
<1>5. CASE LeaseExpires
  BY <1>0, <1>5 DEF LeaseExpires, RuntimeRow, Holder
<1>6. CASE UNCHANGED vars
  BY <1>6 DEF vars, Holder
<1>7. QED
  BY <1>1, <1>2, <1>3, <1>4, <1>5, <1>6 DEF Next

\* The lease as the ticks use it is the abstract lease, for any number of nodes,
\* with agents that are killed, migrations that reset it and leases that run
\* out in the middle of a tick: no node takes it from another.
THEOREM RuntimeLeaseRefines == Spec => ImplementsAbstractLease
<1>1. Init => Lease!Init
  BY DEF Init, Lease!Init, Holder
<1>2. QED
  BY <1>1, LeaseStep, InitTypes, NextTypes, PTL DEF Spec, ImplementsAbstractLease, Lease!Spec

LEMMA TrackerStep ==
    ASSUME TypeOK, [Next]_vars, NEW n \in Nodes
    PROVE  [Tracker(n)!Next]_(back[n])
<1> SUFFICES \/ back'[n] = back[n]
             \/ back'[n] = NoBackoff
             \/ back[n].nextAt = "later" /\ back'[n] = [back[n] EXCEPT !.nextAt = "due"]
             \/ back[n].nextAt = "due" /\ back'[n] = [back[n] EXCEPT !.nextAt = "zero"]
             \/ /\ back[n].nextAt = "zero" /\ back[n].attempts < MaxAttempts
                /\ back'[n] = [attempts |-> back[n].attempts + 1, nextAt |-> "later"]
  BY DEF Tracker!Next, Tracker!Plan, Tracker!Elapse, Tracker!Take, Tracker!Reset,
         TypeOK, Backoff, NoBackoff
<1>0. back \in [Nodes -> Backoff] /\ MaxAttempts \in Nat
  BY CustomRuntimeAssumption DEF TypeOK
<1>1. ASSUME NEW m \in Nodes, back' = [back EXCEPT ![m] = NoBackoff]
      PROVE  back'[n] \in {back[n], NoBackoff}
  BY <1>0, <1>1
<1>2. ASSUME NEW m \in Nodes, MaybeRestart(m)
      PROVE  \/ back'[n] = back[n]
             \/ back[n].nextAt = "due" /\ back'[n] = [back[n] EXCEPT !.nextAt = "zero"]
             \/ /\ back[n].nextAt = "zero" /\ back[n].attempts < MaxAttempts
                /\ back'[n] = [attempts |-> back[n].attempts + 1, nextAt |-> "later"]
  <2>1. CASE UNCHANGED back
    BY <2>1
  <2>2. CASE Due(m) /\ back' = [back EXCEPT ![m].nextAt = "zero"]
    BY <1>0, <2>2 DEF Due
  <2>3. CASE /\ back[m].nextAt # "later" /\ ~Due(m) /\ ~UsedUp(m)
             /\ back' = [back EXCEPT ![m] = [attempts |-> @.attempts + 1, nextAt |-> "later"]]
    <3>1. back[m].nextAt = "zero" /\ back[m].attempts < MaxAttempts
      BY <1>0, <2>3 DEF Due, UsedUp, Backoff
    <3>2. QED
      BY <1>0, <2>3, <3>1
  <2>4. QED
    BY <1>2, <2>1, <2>2, <2>3 DEF MaybeRestart
<1>3. ASSUME NEW m \in Nodes, BackoffElapses(m)
      PROVE  \/ back'[n] = back[n]
             \/ back[n].nextAt = "later" /\ back'[n] = [back[n] EXCEPT !.nextAt = "due"]
  BY <1>0, <1>3 DEF BackoffElapses
<1>4. ASSUME NEW m \in Nodes, ReconcileStep(m), ~MaybeRestart(m), back' # back
      PROVE  back' = [back EXCEPT ![m] = NoBackoff]
  BY <1>4
     DEF ReconcileStep, Tick, SyncBots, Holds, Acquire, AcquireFails, LostStop, LostForget,
         Renew, RenewFails, RenewStop, Decide, Crashed, ForgetCrashed, Exhausted,
         ResetFailed, StartRefused, Starting, BadCommand, SpawnFails, Spawn, Started,
         StillRunning, StartRelease, Stopping, Stop, StopFailed, Stopped, StopRelease
<1>5. ASSUME NEW m \in Nodes, LifeStep(m) \/ ProcessExits(m), back' # back
      PROVE  back' = [back EXCEPT ![m] = NoBackoff]
  BY <1>5 DEF LifeStep, ComeBack, SigTerm, Crash, AgentGone, ShutStop, ShutStopFails,
     ShutList, ShutWrite, Exit, Restart, ProcessExits
<1>6. ASSUME NEW c \in Clients, ClientStep(c)
      PROVE  UNCHANGED back
  BY <1>6 DEF ClientStep, Begin, BeginRuntime, SetBotDesired, SetRuntimeDesired,
     ReadRuntime, ClearRuntime, ClearBot, WaitBot, WaitRuntime, MigrateFails,
     ReassignRuntime, ReassignBot, StartMigrated, Abort, BeginPatch, Patch, BeginCheck,
     Check, agents
<1>7. CASE LeaseExpires
  BY <1>7 DEF LeaseExpires, agents
<1>8. CASE UNCHANGED vars
  BY <1>8 DEF vars
<1>9. ASSUME NEW m \in Nodes, ReconcileStep(m) \/ LifeStep(m) \/ EnvStep(m)
      PROVE  \/ back'[n] = back[n]
             \/ back'[n] = NoBackoff
             \/ MaybeRestart(m)
             \/ BackoffElapses(m)
  BY <1>9, <1>1, <1>4, <1>5 DEF EnvStep
<1>10. QED
  BY <1>2, <1>3, <1>6, <1>7, <1>8, <1>9 DEF Next

\* On every node, every path of a tick, a start, a stop and the death of an agent
\* takes the tracker of the runtime through the abstract one: no restart that is
\* not due, none twice, and never more than RESTART_MAX_ATTEMPTS without a reset.
THEOREM RuntimeTrackerRefines == Spec => ImplementsAbstractRestart
<1>1. Init => \A n \in Nodes : Tracker(n)!Init
  <2> SUFFICES ASSUME Init, NEW n \in Nodes PROVE Tracker(n)!Init
    OBVIOUS
  <2>1. back[n] = NoBackoff
    BY DEF Init
  <2>2. MaxAttempts \in Nat
    BY CustomRuntimeAssumption
  <2>3. QED
    BY <2>1, <2>2 DEF NoBackoff, Tracker!Init
<1>2. TypeOK /\ [Next]_vars => [\A n \in Nodes : [Tracker(n)!Next]_(back[n])]_back
  BY TrackerStep
<1>3. QED
  BY <1>1, <1>2, InitTypes, NextTypes, PTL DEF Spec, ImplementsAbstractRestart
============================================================================
