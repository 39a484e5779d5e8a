-------------------------- MODULE BotRunnerProofs --------------------------
(***************************************************************************)
(* Theorems about BotRunner, for any number of nodes, bots, clients and    *)
(* requests.                                                               *)
(***************************************************************************)
EXTENDS BotRunner, TLAPS

USE BotRunnerAssumption

----------------------------------------------------------------------------
(* Type correctness.                                                       *)

Types ==
    /\ bot \in [Bots -> BotRow]
    /\ run \in [Nodes -> RunnerRow]
    /\ ag \in [Nodes -> Agent]
    /\ proc \in [Nodes -> {"none", "live", "dead"}]
    /\ back \in [Nodes -> Backoff]
    /\ inst \in [Nodes -> [Bots -> Nat]]
    /\ sync \in [Nodes -> Syncing]
    /\ chk \in [Nodes -> Checking]
    /\ fails \in [Nodes -> [Bots -> 0..Threshold]]
    /\ op \in [Clients -> Request]
    /\ ops \in Nat

\* What the agent of node n, its runner and its checker carry.
Carries(n) ==
    /\ ag[n].row.exists
    /\ ag[n].pc \in {"byID", "unwant", "bind", "refresh"} => run[n].exists
    /\ sync[n].pc = "launch" <=> sync[n].at # {}
    /\ chk[n].pc \in {"mark", "restore"} <=> chk[n].at # {}

\* The rows of a list of bots, as Bind takes them.
Rebinds == [id : Bots, row : BotRow]

LEMMA TypeParts == TypeOK <=> Types /\ \A n \in Nodes : Carries(n)
BY DEF TypeOK, Types, Carries

LEMMA NullTypes ==
    /\ \A own \in BOOLEAN : NewRunner(own) \in RunnerRow /\ NewRunner(own).exists
    /\ IdleAgent \in Agent /\ IdleAgent.row.exists /\ IdleAgent.pc = "idle"
    /\ NewBot \in BotRow
    /\ NoBackoff \in Backoff
    /\ NoInstances \in [Bots -> Nat] /\ NoInstances \in [Bots -> 0..Threshold]
    /\ IdleSync \in Syncing /\ IdleSync.pc = "idle" /\ IdleSync.at = {}
    /\ IdleCheck \in Checking /\ IdleCheck.pc = "idle" /\ IdleCheck.at = {}
    /\ IdleClient \in Request
<1>1. \A own \in BOOLEAN : NewRunner(own) \in RunnerRow /\ NewRunner(own).exists
  BY DEF NewRunner, RunnerRow, Desired, Actual
<1>2. IdleAgent \in Agent /\ IdleAgent.row.exists /\ IdleAgent.pc = "idle"
  BY <1>1 DEF IdleAgent, Agent, AgentPc
<1>3. NewBot \in BotRow
  BY DEF NewBot, BotRow, Desired, Actual
<1>4. NoBackoff \in Backoff
  BY DEF NoBackoff, Backoff
<1>5. NoInstances \in [Bots -> Nat] /\ NoInstances \in [Bots -> 0..Threshold]
  BY DEF NoInstances
<1>6. IdleSync \in Syncing /\ IdleSync.pc = "idle" /\ IdleSync.at = {}
  BY DEF IdleSync, Syncing
<1>7. IdleCheck \in Checking /\ IdleCheck.pc = "idle" /\ IdleCheck.at = {}
  BY DEF IdleCheck, Checking
<1>8. IdleClient \in Request
  BY <1>3 DEF IdleClient, Request, ClientPc, AllKinds
<1>9. QED
  BY <1>1, <1>2, <1>3, <1>4, <1>5, <1>6, <1>7, <1>8

LEMMA InitTypes == Init => TypeOK
<1> SUFFICES ASSUME Init PROVE TypeOK
  OBVIOUS
<1> USE NullTypes
<1>1. PICK desired \in [Bots -> Desired] :
        /\ bot = [b \in Bots |-> [NewBot EXCEPT !.desired = desired[b]]]
        /\ run = [n \in Nodes |-> [NewRunner(FALSE) EXCEPT
                    !.exists = (n = Home),
                    !.desired = IF n = Home /\ \E b \in Bots : desired[b] = "running"
                                THEN "running" ELSE "stopped"]]
  BY DEF Init
<1>2. bot \in [Bots -> BotRow]
  BY <1>1 DEF BotRow
<1>3. run \in [Nodes -> RunnerRow]
  <2>1. ASSUME NEW n \in Nodes
        PROVE  [NewRunner(FALSE) EXCEPT
                    !.exists = (n = Home),
                    !.desired = IF n = Home /\ \E b \in Bots : desired[b] = "running"
                                THEN "running" ELSE "stopped"] \in RunnerRow
    BY DEF NewRunner, RunnerRow, Desired, Actual
  <2>2. QED
    BY <1>1, <2>1
<1>4. Types
  BY <1>2, <1>3 DEF Init, Types
<1>5. \A n \in Nodes : Carries(n)
  BY DEF Init, Carries
<1>6. QED
  BY <1>4, <1>5, TypeParts

----------------------------------------------------------------------------
(* The calls the actions are made of.                                      *)

LEMMA AgentMoves ==
    ASSUME Types, NEW n \in Nodes
    PROVE  /\ \A l \in AgentPc : Goto(n, l) => ag' \in [Nodes -> Agent]
           /\ \A l \in AgentPc : GotoFresh(n, l) => ag' \in [Nodes -> Agent]
           /\ EndTick(n) => ag' \in [Nodes -> Agent]
           /\ \A bind \in SUBSET Rebinds, row \in RunnerRow :
                AfterRow(n, bind, row) => ag' \in [Nodes -> Agent]
<1> USE NullTypes
<1>0. ag \in [Nodes -> Agent] /\ ag[n] \in Agent
  BY DEF Types
<1>1. \A l \in AgentPc : Goto(n, l) => ag' \in [Nodes -> Agent]
  BY <1>0 DEF Goto, Agent
<1>2. ASSUME NEW l \in AgentPc, GotoFresh(n, l)
      PROVE  ag' \in [Nodes -> Agent]
  <2>1. [IdleAgent EXCEPT !.pc = l] \in Agent
    BY DEF Agent
  <2>2. QED
    BY <1>0, <1>2, <2>1 DEF GotoFresh
<1>3. EndTick(n) => ag' \in [Nodes -> Agent]
  BY <1>0 DEF EndTick
<1>4. ASSUME NEW bind \in SUBSET Rebinds, NEW row \in RunnerRow, AfterRow(n, bind, row)
      PROVE  ag' \in [Nodes -> Agent]
  <2>1. \A l \in AgentPc :
          [ag[n] EXCEPT !.bind = bind, !.row = row, !.pc = l] \in Agent
    BY <1>0 DEF Agent, Rebinds
  <2>2. QED
    BY <1>0, <1>4, <2>1 DEF AfterRow, AgentPc
<1>5. QED
  BY <1>1, <1>2, <1>3, <1>4

LEMMA CallTypes ==
    ASSUME Types, NEW n \in Nodes
    PROVE  /\ \A state \in Actual : UpdateRunner(n, state) => run' \in [Nodes -> RunnerRow]
           /\ \A state \in Desired : UpdateDesired(n, state) => run' \in [Nodes -> RunnerRow]
           /\ \A b \in Bots, state \in Actual, sick \in BOOLEAN :
                UpdateBot(b, state, sick) => bot' \in [Bots -> BotRow]
           /\ \A state \in Actual :
                WriteTodo(n, state) => bot' \in [Bots -> BotRow] /\ ag' \in [Nodes -> Agent]
           /\ \A slot \in {"none", "dead"} :
                KillRunner(n, slot) => /\ proc' \in [Nodes -> {"none", "live", "dead"}]
                                       /\ inst' \in [Nodes -> [Bots -> Nat]]
                                       /\ sync' \in [Nodes -> Syncing]
<1> USE NullTypes
<1>0. /\ run \in [Nodes -> RunnerRow] /\ bot \in [Bots -> BotRow]
      /\ ag \in [Nodes -> Agent] /\ ag[n] \in Agent
  BY DEF Types
<1>1. \A state \in Actual : UpdateRunner(n, state) => run' \in [Nodes -> RunnerRow]
  BY <1>0 DEF UpdateRunner, RunnerRow
<1>2. \A state \in Desired : UpdateDesired(n, state) => run' \in [Nodes -> RunnerRow]
  BY <1>0 DEF UpdateDesired, RunnerRow
<1>3. ASSUME NEW b \in Bots, NEW state \in Actual, NEW sick \in BOOLEAN,
             UpdateBot(b, state, sick)
      PROVE  bot' \in [Bots -> BotRow]
  <2>1. [bot[b] EXCEPT !.actual = state, !.sick = sick] \in BotRow
    BY <1>0 DEF BotRow
  <2>2. QED
    BY <1>0, <1>3, <2>1 DEF UpdateBot
<1>4. ASSUME NEW state \in Actual, WriteTodo(n, state)
      PROVE  bot' \in [Bots -> BotRow] /\ ag' \in [Nodes -> Agent]
  <2>1. PICK b \in ag[n].todo :
          /\ UpdateBot(b, state, FALSE)
          /\ ag' = [ag EXCEPT ![n].todo = @ \ {b}]
    BY <1>4 DEF WriteTodo
  <2>2. ag[n].todo \in SUBSET Bots
    BY <1>0 DEF Agent
  <2>3. bot' \in [Bots -> BotRow]
    BY <1>3, <2>1, <2>2
  <2>4. ag' \in [Nodes -> Agent]
    BY <1>0, <2>1, <2>2 DEF Agent
  <2>5. QED
    BY <2>3, <2>4
<1>5. \A slot \in {"none", "dead"} :
        KillRunner(n, slot) => /\ proc' \in [Nodes -> {"none", "live", "dead"}]
                               /\ inst' \in [Nodes -> [Bots -> Nat]]
                               /\ sync' \in [Nodes -> Syncing]
  BY DEF KillRunner, Types
<1>6. QED
  BY <1>1, <1>2, <1>3, <1>4, <1>5
----------------------------------------------------------------------------
(* Each step keeps the types.                                              *)

LEMMA ReconcileTypes ==
    ASSUME Types, NEW n \in Nodes, ReconcileStep(n)
    PROVE  Types'
<1> USE AgentMoves, CallTypes, NullTypes DEF rows, agents, runners, checkers, clients
<1>0. /\ bot \in [Bots -> BotRow] /\ run \in [Nodes -> RunnerRow]
      /\ ag \in [Nodes -> Agent] /\ ag[n] \in Agent
      /\ proc \in [Nodes -> {"none", "live", "dead"}] /\ back \in [Nodes -> Backoff]
  BY DEF Types
<1>1. CASE List(n)
  <2> DEFINE need == \E b \in ListByNode(n) : bot[b].desired = "running"
             bind == {[id |-> b, row |-> bot[b]] : b \in {x \in ListByNode(n) : bot[x].rt # n}}
  <2>1. ag' = [ag EXCEPT ![n] = [IdleAgent EXCEPT !.pc = "byName", !.need = need,
                                                  !.bind = bind]]
    BY <1>1 DEF List
  <2>2. need \in BOOLEAN
    OBVIOUS
  <2>3. bind \in SUBSET Rebinds
    BY <1>0 DEF Rebinds, ListByNode
  <2> HIDE DEF need, bind
  <2>4. [IdleAgent EXCEPT !.pc = "byName", !.need = need, !.bind = bind] \in Agent
    BY <2>2, <2>3 DEF Agent, Rebinds, AgentPc
  <2>5. ag' \in [Nodes -> Agent]
    BY <1>0, <2>1, <2>4
  <2>6. QED
    BY <1>1, <2>5 DEF List, Types
<1>2. CASE ByName(n)
  <2>1. ag[n].bind \in SUBSET Rebinds /\ run[n] \in RunnerRow
    BY <1>0 DEF Agent, Rebinds
  <2>2. [ag[n] EXCEPT !.pc = "refresh", !.row = run[n]] \in Agent
    BY <1>0 DEF Agent, AgentPc
  <2>3. ag' \in [Nodes -> Agent]
    BY <1>0, <1>2, <2>1, <2>2 DEF ByName, AgentPc
  <2>4. QED
    BY <1>2, <2>3 DEF ByName, Types
<1>3. CASE CreateRunner(n)
  <2>1. ag[n].bind \in SUBSET Rebinds
    BY <1>0 DEF Agent, Rebinds
  <2>2. ag' \in [Nodes -> Agent] /\ run' \in [Nodes -> RunnerRow]
    BY <1>0, <1>3, <2>1 DEF CreateRunner
  <2>3. QED
    BY <1>3, <2>2 DEF CreateRunner, Types
<1>4. CASE RefreshCommand(n)
  <2>1. ag[n].bind \in SUBSET Rebinds /\ [ag[n].row EXCEPT !.own = TRUE] \in RunnerRow
    BY <1>0 DEF Agent, Rebinds, RunnerRow
  <2>2. ag' \in [Nodes -> Agent] /\ run' \in [Nodes -> RunnerRow]
    BY <1>0, <1>4, <2>1 DEF RefreshCommand
  <2>3. QED
    BY <1>4, <2>2 DEF RefreshCommand, Types
<1>5. CASE Bind(n)
  <2>1. PICK r \in ag[n].bind :
          /\ bot' = [bot EXCEPT ![r.id] = [r.row EXCEPT !.rt = n]]
          /\ AfterRow(n, ag[n].bind \ {r}, ag[n].row)
    BY <1>5 DEF Bind
  <2>2. /\ ag[n].bind \in SUBSET Rebinds /\ ag[n].bind \ {r} \in SUBSET Rebinds
        /\ ag[n].row \in RunnerRow /\ r \in Rebinds
    BY <1>0, <2>1 DEF Agent, Rebinds
  <2>3. bot' \in [Bots -> BotRow]
    BY <1>0, <2>1, <2>2 DEF Rebinds, BotRow
  <2>4. ag' \in [Nodes -> Agent]
    BY <2>1, <2>2
  <2>5. QED
    BY <1>5, <2>3, <2>4 DEF Bind, Types
<1>6. CASE Unwant(n)
  BY <1>6 DEF Unwant, Types, Desired, AgentPc
<1>7. ASSUME NEW slot, NEW actual, EnsureRunning(n, slot, actual)
      PROVE  ag' \in [Nodes -> Agent] /\ back' \in [Nodes -> Backoff]
  BY <1>0, <1>7 DEF EnsureRunning, AgentPc
<1>8. CASE ByID(n)
  <2>1. [ag[n] EXCEPT !.pc = "unhealthy", !.row = run[n]] \in Agent
    BY <1>0 DEF Agent, AgentPc
  <2>2. ag' \in [Nodes -> Agent] /\ back' \in [Nodes -> Backoff]
    BY <1>0, <1>7, <1>8, <2>1 DEF ByID, AgentPc
  <2>3. QED
    BY <1>8, <2>2 DEF ByID, Types
<1>9. CASE FindUnhealthy(n)
  <2>1. ag' \in [Nodes -> Agent] /\ back' \in [Nodes -> Backoff]
    BY <1>0, <1>7, <1>9 DEF FindUnhealthy, AgentPc
  <2>2. QED
    BY <1>9, <2>1 DEF FindUnhealthy, Types
<1>10. CASE Crashed(n)
  BY <1>10 DEF Crashed, Types, Actual, AgentPc
<1>11. CASE MaybeRestart(n)
  <2>1. ag' \in [Nodes -> Agent]
    BY <1>11 DEF MaybeRestart, AgentPc
  <2>2. back' \in [Nodes -> Backoff]
    BY <1>0, <1>11 DEF MaybeRestart, Backoff
  <2>3. QED
    BY <1>11, <2>1, <2>2 DEF MaybeRestart, Types
<1>12. CASE Exhausted(n)
  BY <1>12 DEF Exhausted, Types, Actual
<1>13. CASE RestartRunner(n)
  <2>1. [ag[n] EXCEPT !.pc = "resetBots",
           !.todo = {b \in ListByRuntime(n) : bot[b].desired = "running"}] \in Agent
    BY <1>0 DEF Agent, AgentPc, ListByRuntime
  <2>2. ag' \in [Nodes -> Agent]
    BY <1>0, <1>13, <2>1 DEF RestartRunner
  <2>3. QED
    BY <1>13, <2>2 DEF RestartRunner, Types
<1>14. CASE ResetBot(n)
  BY <1>14 DEF ResetBot, Types, Actual
<1>15. CASE ResetRunner(n) \/ Starting(n) \/ Spawn(n) \/ SpawnFails(n) \/ Running(n)
            \/ Stopping(n)
  BY <1>0, <1>15 DEF ResetRunner, Starting, Spawn, SpawnFails, Running, Stopping, Types,
                     Actual, AgentPc
<1>16. CASE Stopped(n)
  BY <1>16 DEF Stopped, Types, Actual, AgentPc
<1>17. CASE ListStopped(n)
  <2>1. [ag[n] EXCEPT !.pc = "stopBots",
           !.todo = {b \in ListByRuntime(n) : bot[b].actual # "stopped"}] \in Agent
    BY <1>0 DEF Agent, AgentPc, ListByRuntime
  <2>2. ag' \in [Nodes -> Agent]
    BY <1>0, <1>17, <2>1 DEF ListStopped
  <2>3. QED
    BY <1>17, <2>2 DEF ListStopped, Types
<1>18. CASE StopBot(n)
  BY <1>18 DEF StopBot, Types, Actual
<1>19. CASE ForgetStopped(n)
  BY <1>0, <1>19 DEF ForgetStopped, Types
<1>20. QED
  BY <1>1, <1>2, <1>3, <1>4, <1>5, <1>6, <1>8, <1>9, <1>10, <1>11, <1>12, <1>13, <1>14,
     <1>15, <1>16, <1>17, <1>18, <1>19 DEF ReconcileStep

LEMMA StopAndTimeTypes ==
    ASSUME Types, NEW n \in Nodes,
           SigTerm(n) \/ ComeBack(n) \/ ProcessExits(n) \/ BackoffElapses(n)
    PROVE  Types'
<1> USE AgentMoves, CallTypes, NullTypes DEF rows, agents, runners, checkers, clients
<1>0. /\ bot \in [Bots -> BotRow] /\ run \in [Nodes -> RunnerRow]
      /\ ag \in [Nodes -> Agent] /\ ag[n] \in Agent
      /\ proc \in [Nodes -> {"none", "live", "dead"}] /\ back \in [Nodes -> Backoff]
  BY DEF Types
<1>1. CASE SigTerm(n)
  <2>1. [IdleAgent EXCEPT !.pc = "shutStop"] \in Agent
    BY DEF Agent, AgentPc
  <2>2. ag' \in [Nodes -> Agent]
    BY <1>0, <1>1, <2>1 DEF SigTerm
  <2>3. QED
    BY <1>1, <2>2 DEF SigTerm, Types
<1>2. CASE ShutStop(n)
  BY <1>2 DEF ShutStop, Types, AgentPc
<1>3. CASE ShutWrite(n)
  BY <1>3 DEF ShutWrite, Types, Actual, AgentPc
<1>4. CASE ShutList(n)
  <2>1. [ag[n] EXCEPT !.pc = "shutBots", !.todo = ListByRuntime(n)] \in Agent
    BY <1>0 DEF Agent, AgentPc, ListByRuntime
  <2>2. ag' \in [Nodes -> Agent]
    BY <1>0, <1>4, <2>1 DEF ShutList
  <2>3. QED
    BY <1>4, <2>2 DEF ShutList, Types
<1>5. CASE ShutBot(n)
  BY <1>5 DEF ShutBot, Types, Actual
<1>6. CASE NextAgent(n)
  BY <1>0, <1>6 DEF NextAgent, Types
<1>7. CASE ProcessExits(n)
  BY <1>7 DEF ProcessExits, Types
<1>8. CASE BackoffElapses(n)
  <2>1. back' \in [Nodes -> Backoff]
    BY <1>0, <1>8 DEF BackoffElapses, Backoff
  <2>2. QED
    BY <1>8, <2>1 DEF BackoffElapses, Types
<1>9. QED
  BY <1>1, <1>2, <1>3, <1>4, <1>5, <1>6, <1>7, <1>8 DEF ComeBack

LEMMA ThenAddTypes ==
    ASSUME Types, NEW n \in Nodes, NEW todo \in SUBSET Listed, ThenAdd(n, todo)
    PROVE  /\ sync' \in [Nodes -> Syncing]
           /\ sync'[n].pc # "launch" /\ sync'[n].at = {}
           /\ \A m \in Nodes \ {n} : sync'[m] = sync[m]
<1>1. [pc |-> "add", wanted |-> todo, at |-> {}] \in Syncing
  BY DEF Syncing
<1>2. QED
  BY <1>1, NullTypes DEF ThenAdd, Types

LEMMA SyncTypes ==
    ASSUME Types, NEW n \in Nodes, SyncStep(n)
    PROVE  Types'
<1> USE CallTypes, ThenAddTypes DEF rows, agents, runners, checkers, clients
<1>0. /\ bot \in [Bots -> BotRow] /\ inst \in [Nodes -> [Bots -> Nat]]
      /\ sync \in [Nodes -> Syncing] /\ sync[n] \in Syncing
      /\ sync[n].wanted \in SUBSET Listed /\ sync[n].at \in SUBSET Listed
  BY DEF Types, Syncing
<1>1. \A w \in Listed : w[1] \in Bots /\ w[2] \in Nat
  BY DEF Listed
<1>2. CASE SyncList(n)
  <2> DEFINE wanted == {<<b, bot[b].cfg>> : b \in {x \in Bots : Wants(n, x)}}
  <2>1. wanted \in SUBSET Listed
    BY <1>0 DEF Listed, BotRow
  <2>2. ToAdd(n, wanted) \in SUBSET Listed
    BY <2>1 DEF ToAdd
  <2>3. [pc |-> "remove", wanted |-> wanted, at |-> {}] \in Syncing
    BY <2>1 DEF Syncing
  <2>4. \/ sync' = [sync EXCEPT ![n] = [pc |-> "remove", wanted |-> wanted, at |-> {}]]
        \/ ThenAdd(n, ToAdd(n, wanted))
    BY <1>2 DEF SyncList
  <2> HIDE DEF wanted
  <2>5. sync' \in [Nodes -> Syncing]
    <3>1. CASE ThenAdd(n, ToAdd(n, wanted))
      BY <2>2, <3>1, ThenAddTypes
    <3>2. CASE sync' = [sync EXCEPT ![n] = [pc |-> "remove", wanted |-> wanted, at |-> {}]]
      BY <1>0, <2>3, <3>2
    <3>3. QED
      BY <2>4, <3>1, <3>2
  <2>6. QED
    BY <1>2, <2>5 DEF SyncList, Types
<1>3. CASE RemoveInstance(n)
  <2>1. PICK b \in ToRemove(n, sync[n].wanted) :
          /\ inst' = [inst EXCEPT ![n][b] = 0]
          /\ UpdateBot(b, "stopped", FALSE)
          /\ IF ToRemove(n, sync[n].wanted) = {b}
             THEN ThenAdd(n, ToAdd(n, sync[n].wanted)) ELSE UNCHANGED sync
    BY <1>3 DEF RemoveInstance
  <2>2. b \in Bots /\ ToAdd(n, sync[n].wanted) \in SUBSET Listed
    BY <1>0 DEF ToRemove, ToAdd
  <2>3. sync' \in [Nodes -> Syncing]
    BY <1>0, <2>1, <2>2
  <2>4. inst' \in [Nodes -> [Bots -> Nat]] /\ bot' \in [Bots -> BotRow]
    BY <1>0, <2>1, <2>2 DEF Actual
  <2>5. QED
    BY <1>3, <2>3, <2>4 DEF RemoveInstance, Types
<1>4. CASE AddInstance(n)
  <2>1. PICK w \in sync[n].wanted :
          /\ inst' = [inst EXCEPT ![n][w[1]] = 0]
          /\ UpdateBot(w[1], "starting", FALSE)
          /\ sync' = [sync EXCEPT ![n] = [pc |-> "launch", at |-> {w},
                                          wanted |-> sync[n].wanted \ {w}]]
    BY <1>4 DEF AddInstance
  <2>2. [pc |-> "launch", at |-> {w}, wanted |-> sync[n].wanted \ {w}] \in Syncing
    BY <1>0, <2>1 DEF Syncing
  <2>3. sync' \in [Nodes -> Syncing]
    BY <1>0, <2>1, <2>2
  <2>4. inst' \in [Nodes -> [Bots -> Nat]] /\ bot' \in [Bots -> BotRow]
    BY <1>0, <1>1, <2>1 DEF Actual
  <2>5. QED
    BY <1>4, <2>3, <2>4 DEF AddInstance, Types
<1>5. CASE Launch(n)
  <2>1. PICK w \in sync[n].at : /\ inst' = [inst EXCEPT ![n][w[1]] = w[2]]
                                /\ UpdateBot(w[1], "running", FALSE)
    BY <1>5 DEF Launch
  <2>2. inst' \in [Nodes -> [Bots -> Nat]] /\ bot' \in [Bots -> BotRow]
    BY <1>0, <1>1, <2>1 DEF Actual
  <2>3. sync' \in [Nodes -> Syncing]
    BY <1>0, <1>5 DEF Launch
  <2>4. QED
    BY <1>5, <2>2, <2>3 DEF Launch, Types
<1>6. CASE LaunchFails(n)
  <2>1. bot' \in [Bots -> BotRow]
    BY <1>0, <1>1, <1>6 DEF LaunchFails, Actual
  <2>2. sync' \in [Nodes -> Syncing]
    BY <1>0, <1>6 DEF LaunchFails
  <2>3. QED
    BY <1>6, <2>1, <2>2 DEF LaunchFails, Types
<1>7. QED
  BY <1>2, <1>3, <1>4, <1>5, <1>6 DEF SyncStep

LEMMA CheckTypes ==
    ASSUME Types, NEW n \in Nodes, CheckStep(n)
    PROVE  Types'
<1> USE CallTypes, NullTypes DEF rows, agents, runners, checkers, clients
<1>0. /\ bot \in [Bots -> BotRow] /\ fails \in [Nodes -> [Bots -> 0..Threshold]]
      /\ chk \in [Nodes -> Checking] /\ chk[n] \in Checking
      /\ chk[n].list \in SUBSET [id : Bots, sick : BOOLEAN] /\ chk[n].at \in SUBSET Bots
  BY DEF Types, Checking
<1>1. ASSUME NEW list \in SUBSET chk[n].list, CheckNext(n, list)
      PROVE  chk' \in [Nodes -> Checking]
  <2>1. [pc |-> "check", list |-> list, at |-> {}] \in Checking
    BY <1>0 DEF Checking
  <2>2. QED
    BY <1>0, <1>1, <2>1 DEF CheckNext
<1>2. ASSUME NEW r \in chk[n].list, NEW l \in {"check", "mark", "restore"}, Asked(n, r, l)
      PROVE  chk' \in [Nodes -> Checking]
  <2>1. [pc |-> l, list |-> chk[n].list \ {r}, at |-> {r.id}] \in Checking
    BY <1>0 DEF Checking
  <2>2. chk[n].list \ {r} \in SUBSET chk[n].list
    OBVIOUS
  <2>3. QED
    BY <1>0, <1>1, <1>2, <2>1, <2>2 DEF Asked
<1>3. CASE CheckList(n)
  <2> DEFINE asked == {b \in Webhook \cap ListByNode(n) : bot[b].desired = "running"}
             entry(b) == [id |-> b, sick |-> bot[b].actual = "failed" /\ bot[b].sick]
             list == {entry(b) : b \in asked}
  <2>1. list \in SUBSET [id : Bots, sick : BOOLEAN]
    <3>1. \A b \in asked : (bot[b].actual = "failed" /\ bot[b].sick) \in BOOLEAN
      OBVIOUS
    <3>2. asked \in SUBSET Bots
      BY DEF ListByNode
    <3>3. \A b \in asked : entry(b) \in [id : Bots, sick : BOOLEAN]
      BY <3>1, <3>2
    <3> HIDE DEF asked, entry
    <3>4. QED
      BY <3>3
  <2>2. \/ UNCHANGED chk
        \/ chk' = [chk EXCEPT ![n] = [IdleCheck EXCEPT !.pc = "check", !.list = list]]
    BY <1>3 DEF CheckList
  <2> HIDE DEF list, asked
  <2>3. [IdleCheck EXCEPT !.pc = "check", !.list = list] \in Checking
    BY <2>1 DEF Checking
  <2>4. chk' \in [Nodes -> Checking]
    BY <1>0, <2>2, <2>3
  <2>5. fails' \in [Nodes -> [Bots -> 0..Threshold]]
    BY <1>0, <1>3 DEF CheckList
  <2>6. QED
    BY <1>3, <2>4, <2>5 DEF CheckList, Types
<1>4. CASE CheckAnswers(n)
  <2>1. PICK r \in chk[n].list : /\ fails' = [fails EXCEPT ![n][r.id] = 0]
                                 /\ Asked(n, r, IF r.sick THEN "restore" ELSE "check")
    BY <1>4 DEF CheckAnswers
  <2>2. r.id \in Bots
    BY <1>0
  <2>3. fails' \in [Nodes -> [Bots -> 0..Threshold]]
    BY <1>0, <2>1, <2>2
  <2>4. chk' \in [Nodes -> Checking]
    BY <1>2, <2>1
  <2>5. QED
    BY <1>4, <2>3, <2>4 DEF CheckAnswers, Types
<1>5. CASE CheckFails(n)
  <2>1. PICK r \in chk[n].list :
          /\ fails' = [fails EXCEPT ![n][r.id] = IF @ < Threshold THEN @ + 1 ELSE @]
          /\ Asked(n, r, IF fails[n][r.id] + 1 >= Threshold THEN "mark" ELSE "check")
    BY <1>5 DEF CheckFails
  <2>2. r.id \in Bots
    BY <1>0
  <2>3. fails' \in [Nodes -> [Bots -> 0..Threshold]]
    BY <1>0, <2>1, <2>2
  <2>4. chk' \in [Nodes -> Checking]
    BY <1>2, <2>1
  <2>5. QED
    BY <1>5, <2>3, <2>4 DEF CheckFails, Types
<1>6. ASSUME NEW l, NEW state \in {"failed", "running"}, CheckWrites(n, l, state)
      PROVE  Types'
  <2>1. bot' \in [Bots -> BotRow]
    <3>1. PICK b \in chk[n].at : UpdateBot(b, state, state = "failed")
      BY <1>6 DEF CheckWrites
    <3>2. b \in Bots /\ (state = "failed") \in BOOLEAN /\ state \in Actual
      BY <1>0 DEF Actual
    <3>3. QED
      BY <3>1, <3>2
  <2>2. chk' \in [Nodes -> Checking]
    BY <1>1, <1>6 DEF CheckWrites
  <2>3. QED
    BY <1>6, <2>1, <2>2 DEF CheckWrites, Types
<1>7. QED
  BY <1>3, <1>4, <1>5, <1>6 DEF CheckStep, MarkUnhealthy, RestoreHealth

LEMMA ClientTypes ==
    ASSUME Types, NEW c \in Clients, ClientStep(c)
    PROVE  Types'
<1> USE CallTypes, NullTypes DEF rows, agents, runners, checkers
<1>0. /\ bot \in [Bots -> BotRow] /\ run \in [Nodes -> RunnerRow]
      /\ op \in [Clients -> Request] /\ op[c] \in Request
      /\ op[c].row \in BotRow /\ op[c].row.rt \in Nodes /\ op[c].to \in Nodes
      /\ op[c].id \in SUBSET Bots
  BY DEF Types, Request, BotRow
<1>1. \A l \in ClientPc : ClientGoto(c, l) => op' \in [Clients -> Request]
  BY <1>0 DEF ClientGoto, Request
<1>2. Return(c) => op' \in [Clients -> Request]
  BY <1>0 DEF Return
<1>3. AfterStop(c) \/ ClearBotNext(c) => op' \in [Clients -> Request]
  BY <1>1, <1>2 DEF AfterStop, ClearBotNext, ClientPc
<1>4. Wanted(c) \in Desired
  BY DEF Wanted, Desired
<1>5. CASE Begin(c)
  <2>1. PICK kind \in Kinds \ {"rtstart", "rtstop"}, b \in Bots, to \in Nodes :
          op' = [op EXCEPT ![c] = [pc |-> FirstCall(kind), kind |-> kind,
                                   id |-> {b}, to |-> to, row |-> bot[b]]]
    BY <1>5 DEF Begin
  <2>2. [pc |-> FirstCall(kind), kind |-> kind, id |-> {b}, to |-> to, row |-> bot[b]]
          \in Request
    BY <1>0 DEF FirstCall, Request, ClientPc
  <2>3. op' \in [Clients -> Request]
    BY <1>0, <2>1, <2>2
  <2>4. ops' \in Nat
    BY <1>5 DEF Begin, Types
  <2>5. QED
    BY <1>5, <2>3, <2>4 DEF Begin, Types
<1>6. CASE BeginRuntime(c)
  <2>1. PICK kind \in Kinds \cap {"rtstart", "rtstop"}, n \in Nodes :
          op' = [op EXCEPT ![c] = [IdleClient EXCEPT
                   !.pc = "rtDesired", !.kind = kind,
                   !.row = [NewBot EXCEPT !.rt = n, !.actual = run[n].actual]]]
    BY <1>6 DEF BeginRuntime
  <2>2. [NewBot EXCEPT !.rt = n, !.actual = run[n].actual] \in BotRow
    BY <1>0 DEF BotRow, RunnerRow
  <2>3. [IdleClient EXCEPT !.pc = "rtDesired", !.kind = kind,
           !.row = [NewBot EXCEPT !.rt = n, !.actual = run[n].actual]] \in Request
    BY <2>2 DEF Request, ClientPc
  <2>4. op' \in [Clients -> Request] /\ ops' \in Nat
    BY <1>0, <1>6, <2>1, <2>3 DEF BeginRuntime, Types
  <2>5. QED
    BY <1>6, <2>4 DEF BeginRuntime, Types
<1>7. CASE SetBotDesired(c)
  <2>1. bot' \in [Bots -> BotRow]
    BY <1>0, <1>4, <1>7 DEF SetBotDesired, BotRow
  <2>2. op' \in [Clients -> Request]
    BY <1>1, <1>7 DEF SetBotDesired, ClientPc
  <2>3. QED
    BY <1>7, <2>1, <2>2 DEF SetBotDesired, Types
<1>8. CASE Others(c) \/ MigrateFails(c) \/ WaitBot(c) \/ GetRunner(c)
  <2>1. CASE Others(c) \/ MigrateFails(c) \/ WaitBot(c)
    BY <1>1, <1>2, <1>3, <2>1 DEF Others, MigrateFails, WaitBot, ClientPc, Types
  <2>2. CASE GetRunner(c)
    <3>1. ClientGoto(c, "reassign") \/ ClientGoto(c, "createRunner")
      BY <2>2 DEF GetRunner
    <3>2. op' \in [Clients -> Request]
      BY <1>1, <3>1 DEF ClientPc
    <3>3. QED
      BY <2>2, <3>2 DEF GetRunner, Types
  <2>3. QED
    BY <1>8, <2>1, <2>2
<1>9. CASE SetRuntimeDesired(c)
  <2>1. run' \in [Nodes -> RunnerRow]
    BY <1>0, <1>4, <1>9 DEF SetRuntimeDesired
  <2>2. op' \in [Clients -> Request]
    BY <1>1, <1>2, <1>3, <1>9 DEF SetRuntimeDesired, ClientPc
  <2>3. QED
    BY <1>9, <2>1, <2>2 DEF SetRuntimeDesired, Types
<1>10. CASE ReadRuntime(c)
  <2>1. op' \in [Clients -> Request]
    BY <1>1, <1>3, <1>10 DEF ReadRuntime, ClientPc
  <2>2. QED
    BY <1>10, <2>1 DEF ReadRuntime, Types
<1>11. CASE ClearRuntime(c)
  <2>1. run' \in [Nodes -> RunnerRow]
    BY <1>0, <1>11 DEF ClearRuntime, Actual
  <2>2. QED
    BY <1>3, <1>11, <2>1 DEF ClearRuntime, Types
<1>12. CASE ClearBot(c)
  <2>1. bot' \in [Bots -> BotRow]
    BY <1>0, <1>12 DEF ClearBot, Actual
  <2>2. QED
    BY <1>2, <1>12, <2>1 DEF ClearBot, Types
<1>13. ASSUME RereadBot(c) \/ StartMigrated(c)
       PROVE  op' \in [Clients -> Request]
  <2>1. PICK b \in op[c].id :
          \/ op' = [op EXCEPT ![c] = [op[c] EXCEPT !.pc = "getRunner", !.row = bot[b]]]
          \/ op' = [op EXCEPT ![c] = [op[c] EXCEPT !.pc = "botDesired", !.kind = "start",
                                                  !.to = Home, !.row = bot[b]]]
    BY <1>0, <1>13 DEF RereadBot, StartMigrated
  <2>2. bot[b] \in BotRow
    BY <1>0
  <2>3. [op[c] EXCEPT !.pc = "getRunner", !.row = bot[b]] \in Request
    BY <1>0, <2>2 DEF Request, ClientPc
  <2>4. [op[c] EXCEPT !.pc = "botDesired", !.kind = "start", !.to = Home, !.row = bot[b]]
          \in Request
    BY <1>0, <2>2 DEF Request, ClientPc, AllKinds
  <2>5. QED
    BY <1>0, <2>1, <2>3, <2>4
<1>14. CASE RereadBot(c) \/ StartMigrated(c)
  BY <1>13, <1>14 DEF RereadBot, StartMigrated, Types
<1>15. CASE ClientCreatesRunner(c)
  <2>1. run' \in [Nodes -> RunnerRow] /\ op' \in [Clients -> Request]
    BY <1>0, <1>1, <1>2, <1>15 DEF ClientCreatesRunner, ClientPc
  <2>2. QED
    BY <1>15, <2>1 DEF ClientCreatesRunner, Types
<1>16. CASE Reassign(c)
  <2>1. [op[c].row EXCEPT !.node = op[c].to, !.rt = op[c].to, !.desired = "stopped",
                          !.actual = "migrating", !.sick = FALSE] \in BotRow
    BY <1>0 DEF BotRow, Desired, Actual
  <2>2. bot' \in [Bots -> BotRow]
    BY <1>0, <1>16, <2>1 DEF Reassign
  <2>3. op' \in [Clients -> Request]
    BY <1>1, <1>16 DEF Reassign, ClientPc
  <2>4. QED
    BY <1>16, <2>2, <2>3 DEF Reassign, Types
<1>17. CASE Patch(c)
  <2>1. Patched(c) \subseteq BotRow
    <3>1. /\ op[c].row \in BotRow
          /\ [op[c].row EXCEPT !.node = op[c].to] \in BotRow
          /\ [op[c].row EXCEPT !.cfg = @ + 1] \in BotRow
      BY <1>0 DEF BotRow
    <3>2. QED
      BY <3>1 DEF Patched
  <2>2. \A row \in BotRow, desired \in Desired : [row EXCEPT !.desired = desired] \in BotRow
    BY DEF BotRow
  <2>3. bot' \in [Bots -> BotRow]
    BY <1>0, <1>17, <2>1, <2>2 DEF Patch
  <2>4. QED
    BY <1>2, <1>17, <2>3 DEF Patch, Types
<1>18. QED
  BY <1>5, <1>6, <1>7, <1>8, <1>9, <1>10, <1>11, <1>12, <1>14, <1>15, <1>16, <1>17
     DEF ClientStep
----------------------------------------------------------------------------
(* What is carried from call to call.                                      *)

NeedsRow == {"byID", "unwant", "bind", "refresh"}

\* What a step of the agent of node n has to keep.
AgentKeeps(n) ==
    /\ ag'[n].row.exists
    /\ ag'[n].pc \in NeedsRow => run'[n].exists
    /\ \A m \in Nodes \ {n} : ag'[m] = ag[m]
    /\ \A m \in Nodes : run[m].exists => run'[m].exists
    /\ \A m \in Nodes : sync'[m] \in {sync[m], IdleSync}
    /\ UNCHANGED chk

LEMMA KeepsSuffices ==
    ASSUME NEW n \in Nodes, \A m \in Nodes : Carries(m), AgentKeeps(n)
    PROVE  \A m \in Nodes : Carries(m)'
BY NullTypes DEF AgentKeeps, Carries, NeedsRow

LEMMA AgentEffects ==
    ASSUME Types, NEW n \in Nodes
    PROVE  /\ \A l \in AgentPc : Goto(n, l) =>
                /\ ag'[n].pc = l /\ ag'[n].row = ag[n].row
                /\ \A m \in Nodes \ {n} : ag'[m] = ag[m]
           /\ \A l \in AgentPc : GotoFresh(n, l) =>
                /\ ag'[n].pc = l /\ ag'[n].row = IdleAgent.row
                /\ \A m \in Nodes \ {n} : ag'[m] = ag[m]
           /\ EndTick(n) => ag'[n] = IdleAgent /\ \A m \in Nodes \ {n} : ag'[m] = ag[m]
           /\ \A bind, row : AfterRow(n, bind, row) =>
                /\ ag'[n].pc \in {"bind", "unwant", "byID"} /\ ag'[n].row = row
                /\ \A m \in Nodes \ {n} : ag'[m] = ag[m]
           /\ \A state : WriteTodo(n, state) =>
                /\ ag'[n].pc = ag[n].pc /\ ag'[n].row = ag[n].row
                /\ \A m \in Nodes \ {n} : ag'[m] = ag[m]
           /\ \A m \in Nodes : \A state : UpdateRunner(m, state) \/ UpdateDesired(m, state) =>
                \A x \in Nodes : run'[x].exists = run[x].exists
           /\ \A slot : KillRunner(n, slot) =>
                \A m \in Nodes : sync'[m] \in {sync[m], IdleSync}
<1>0. /\ ag \in [Nodes -> Agent] /\ ag[n] \in Agent /\ run \in [Nodes -> RunnerRow]
      /\ sync \in [Nodes -> Syncing]
  BY DEF Types
<1>1. \A l \in AgentPc : Goto(n, l) =>
        /\ ag'[n].pc = l /\ ag'[n].row = ag[n].row
        /\ \A m \in Nodes \ {n} : ag'[m] = ag[m]
  BY <1>0 DEF Goto, Agent
<1>2. \A l \in AgentPc : GotoFresh(n, l) =>
        /\ ag'[n].pc = l /\ ag'[n].row = IdleAgent.row
        /\ \A m \in Nodes \ {n} : ag'[m] = ag[m]
  BY <1>0 DEF GotoFresh, IdleAgent
<1>3. EndTick(n) => ag'[n] = IdleAgent /\ \A m \in Nodes \ {n} : ag'[m] = ag[m]
  BY <1>0 DEF EndTick
<1>4. \A bind, row : AfterRow(n, bind, row) =>
        /\ ag'[n].pc \in {"bind", "unwant", "byID"} /\ ag'[n].row = row
        /\ \A m \in Nodes \ {n} : ag'[m] = ag[m]
  BY <1>0 DEF AfterRow, Agent
<1>5. \A state : WriteTodo(n, state) =>
        /\ ag'[n].pc = ag[n].pc /\ ag'[n].row = ag[n].row
        /\ \A m \in Nodes \ {n} : ag'[m] = ag[m]
  BY <1>0 DEF WriteTodo, Agent
<1>6. \A m \in Nodes : \A state : UpdateRunner(m, state) \/ UpdateDesired(m, state) =>
        \A x \in Nodes : run'[x].exists = run[x].exists
  BY <1>0 DEF UpdateRunner, UpdateDesired, RunnerRow
<1>7. \A slot : KillRunner(n, slot) => \A m \in Nodes : sync'[m] \in {sync[m], IdleSync}
  BY <1>0 DEF KillRunner
<1>8. QED
  BY <1>1, <1>2, <1>3, <1>4, <1>5, <1>6, <1>7

LEMMA ReconcileCarries ==
    ASSUME Types, \A m \in Nodes : Carries(m), NEW n \in Nodes, ReconcileStep(n)
    PROVE  \A m \in Nodes : Carries(m)'
<1> SUFFICES AgentKeeps(n)
  BY KeepsSuffices
<1> USE AgentEffects, NullTypes
    DEF rows, agents, runners, checkers, clients, AgentKeeps, NeedsRow
<1>0. /\ ag \in [Nodes -> Agent] /\ ag[n] \in Agent /\ ag[n].row.exists
      /\ run \in [Nodes -> RunnerRow]
      /\ ag[n].pc \in NeedsRow => run[n].exists
  BY DEF Types, Carries
<1>1. CASE List(n)
  BY <1>0, <1>1 DEF List, IdleAgent
<1>2. CASE ByName(n)
  <2>1. CASE AfterRow(n, ag[n].bind, run[n]) /\ run[n].exists
    BY <1>2, <2>1 DEF ByName
  <2>2. CASE /\ run[n].exists
             /\ ag' = [ag EXCEPT ![n] = [@ EXCEPT !.pc = "refresh", !.row = run[n]]]
    BY <1>0, <1>2, <2>2 DEF ByName, Agent
  <2>3. CASE Goto(n, "create")
    BY <1>0, <1>2, <2>3 DEF ByName, AgentPc
  <2>4. QED
    BY <1>2, <2>1, <2>2, <2>3 DEF ByName
<1>3. CASE CreateRunner(n)
  <2>1. CASE EndTick(n) /\ UNCHANGED run
    BY <1>3, <2>1 DEF CreateRunner
  <2>2. CASE /\ run' = [run EXCEPT ![n] = NewRunner(TRUE)]
             /\ AfterRow(n, ag[n].bind, NewRunner(TRUE))
    <3>1. run'[n].exists /\ \A m \in Nodes \ {n} : run'[m] = run[m]
      BY <1>0, <2>2
    <3>2. ag'[n].row = NewRunner(TRUE) /\ \A m \in Nodes \ {n} : ag'[m] = ag[m]
      BY <2>2
    <3>3. NewRunner(TRUE).exists
      OBVIOUS
    <3>4. UNCHANGED <<sync, chk>>
      BY <1>3 DEF CreateRunner
    <3>5. QED
      BY ONLY <3>1, <3>2, <3>3, <3>4 DEF AgentKeeps
  <2>3. QED
    BY <1>3, <2>1, <2>2 DEF CreateRunner
<1>4. CASE RefreshCommand(n)
  <2> DEFINE row == [ag[n].row EXCEPT !.own = TRUE]
  <2>1. row.exists
    BY <1>0 DEF Agent, RunnerRow
  <2>2. run' = [run EXCEPT ![n] = row] /\ AfterRow(n, ag[n].bind, row)
    BY <1>4 DEF RefreshCommand
  <2> HIDE DEF row
  <2>3. run'[n].exists /\ \A m \in Nodes \ {n} : run'[m] = run[m]
    BY <1>0, <2>1, <2>2
  <2>4. QED
    BY <1>4, <2>1, <2>2, <2>3 DEF RefreshCommand
<1>5. CASE Bind(n) \/ Unwant(n)
  BY <1>0, <1>5 DEF Bind, Unwant, AgentPc
<1>6. ASSUME NEW slot, NEW actual, EnsureRunning(n, slot, actual)
      PROVE  /\ ag'[n].row = IdleAgent.row /\ ag'[n].pc \notin NeedsRow
             /\ \A m \in Nodes \ {n} : ag'[m] = ag[m]
  BY <1>6 DEF EnsureRunning, AgentPc
<1>7. CASE ByID(n)
  <2>1. CASE ag' = [ag EXCEPT ![n] = [@ EXCEPT !.pc = "unhealthy", !.row = run[n]]]
    BY <1>0, <1>7, <2>1 DEF ByID, Agent
  <2>2. CASE EnsureRunning(n, proc[n], run[n].actual)
    BY <1>6, <1>7, <2>2 DEF ByID
  <2>3. CASE GotoFresh(n, "stopping") \/ GotoFresh(n, "stopped")
    BY <1>7, <2>3 DEF ByID, AgentPc
  <2>4. QED
    BY <1>7, <2>1, <2>2, <2>3 DEF ByID
<1>8. CASE FindUnhealthy(n)
  BY <1>6, <1>8 DEF FindUnhealthy, AgentPc
<1>9. CASE Crashed(n) \/ MaybeRestart(n) \/ Exhausted(n)
  BY <1>0, <1>9 DEF Crashed, MaybeRestart, Exhausted, AgentPc
<1>10. CASE RestartRunner(n) \/ ListStopped(n)
  <2>1. PICK l \in {"resetBots", "stopBots"}, todo \in SUBSET Bots :
          ag' = [ag EXCEPT ![n] = [@ EXCEPT !.pc = l, !.todo = todo]]
    BY <1>10 DEF RestartRunner, ListStopped, ListByRuntime
  <2>2. /\ ag'[n].pc = l /\ ag'[n].row = ag[n].row
        /\ \A m \in Nodes \ {n} : ag'[m] = ag[m]
    BY <1>0, <2>1 DEF Agent
  <2>3. QED
    BY <1>0, <1>10, <2>2 DEF RestartRunner, ListStopped
<1>11. CASE ResetBot(n) \/ StopBot(n)
  BY <1>0, <1>11 DEF ResetBot, StopBot
<1>12. CASE ResetRunner(n) \/ Starting(n) \/ Spawn(n) \/ SpawnFails(n) \/ Running(n)
            \/ Stopping(n) \/ Stopped(n)
  BY <1>0, <1>12 DEF ResetRunner, Starting, Spawn, SpawnFails, Running, Stopping, Stopped,
                     AgentPc
<1>13. CASE ForgetStopped(n)
  BY <1>13 DEF ForgetStopped
<1>14. QED
  BY <1>1, <1>2, <1>3, <1>4, <1>5, <1>7, <1>8, <1>9, <1>10, <1>11, <1>12, <1>13
     DEF ReconcileStep

LEMMA StopAndTimeCarries ==
    ASSUME Types, \A m \in Nodes : Carries(m), NEW n \in Nodes,
           SigTerm(n) \/ ComeBack(n) \/ ProcessExits(n) \/ BackoffElapses(n)
    PROVE  \A m \in Nodes : Carries(m)'
<1> SUFFICES AgentKeeps(n)
  BY KeepsSuffices
<1> USE AgentEffects, NullTypes
    DEF rows, agents, runners, checkers, clients, AgentKeeps, NeedsRow
<1>0. /\ ag \in [Nodes -> Agent] /\ ag[n] \in Agent /\ ag[n].row.exists
      /\ run \in [Nodes -> RunnerRow]
      /\ ag[n].pc \in NeedsRow => run[n].exists
  BY DEF Types, Carries
<1>1. CASE SigTerm(n)
  BY <1>0, <1>1 DEF SigTerm, IdleAgent
<1>2. CASE ShutStop(n) \/ ShutWrite(n)
  BY <1>0, <1>2 DEF ShutStop, ShutWrite, AgentPc
<1>3. CASE ShutList(n)
  BY <1>0, <1>3 DEF ShutList, Agent
<1>4. CASE ShutBot(n)
  BY <1>0, <1>4 DEF ShutBot
<1>5. CASE NextAgent(n)
  BY <1>5 DEF NextAgent
<1>6. CASE ProcessExits(n) \/ BackoffElapses(n)
  BY <1>0, <1>6 DEF ProcessExits, BackoffElapses
<1>7. QED
  BY <1>1, <1>2, <1>3, <1>4, <1>5, <1>6 DEF ComeBack

LEMMA RunnerCarries ==
    ASSUME Types, \A m \in Nodes : Carries(m), NEW n \in Nodes,
           SyncStep(n) \/ CheckStep(n)
    PROVE  \A m \in Nodes : Carries(m)'
<1> USE ThenAddTypes, NullTypes DEF rows, agents, runners, checkers, clients, Carries
<1>0. /\ sync \in [Nodes -> Syncing] /\ sync[n] \in Syncing
      /\ chk \in [Nodes -> Checking] /\ chk[n] \in Checking
      /\ sync[n].wanted \in SUBSET Listed
  BY DEF Types, Syncing
<1>1. CASE SyncList(n)
  <2> DEFINE wanted == {<<b, bot[b].cfg>> : b \in {x \in Bots : Wants(n, x)}}
  <2>1. ToAdd(n, wanted) \in SUBSET Listed
    BY DEF ToAdd, Listed, Types, BotRow
  <2>2. \/ sync' = [sync EXCEPT ![n] = [pc |-> "remove", wanted |-> wanted, at |-> {}]]
        \/ ThenAdd(n, ToAdd(n, wanted))
    BY <1>1 DEF SyncList
  <2> HIDE DEF wanted
  <2>3. CASE ThenAdd(n, ToAdd(n, wanted))
    BY <1>1, <2>1, <2>3 DEF SyncList
  <2>4. CASE sync' = [sync EXCEPT ![n] = [pc |-> "remove", wanted |-> wanted, at |-> {}]]
    BY <1>0, <1>1, <2>4 DEF SyncList
  <2>5. QED
    BY <2>2, <2>3, <2>4
<1>2. CASE RemoveInstance(n)
  <2>1. ToAdd(n, sync[n].wanted) \in SUBSET Listed
    BY <1>0 DEF ToAdd
  <2>2. ThenAdd(n, ToAdd(n, sync[n].wanted)) \/ UNCHANGED sync
    BY <1>2 DEF RemoveInstance
  <2>3. QED
    BY <1>2, <2>1, <2>2 DEF RemoveInstance
<1>3. CASE AddInstance(n)
  BY <1>0, <1>3 DEF AddInstance
<1>4. CASE Launch(n) \/ LaunchFails(n)
  BY <1>0, <1>4 DEF Launch, LaunchFails
<1>5. ASSUME NEW list, CheckNext(n, list), UNCHANGED <<rows, agents, runners>>
      PROVE  \A m \in Nodes : Carries(m)'
  BY <1>0, <1>5 DEF CheckNext
<1>6. ASSUME NEW r, NEW l \in {"check", "mark", "restore"}, Asked(n, r, l),
             UNCHANGED <<rows, agents, runners>>
      PROVE  \A m \in Nodes : Carries(m)'
  <2>1. CASE l = "check"
    BY <1>5, <1>6, <2>1 DEF Asked
  <2>2. CASE l # "check"
    <3>1. chk' = [chk EXCEPT ![n] = [pc |-> l, list |-> chk[n].list \ {r}, at |-> {r.id}]]
      BY <1>0, <1>6, <2>2 DEF Asked
    <3>2. QED
      BY <1>0, <1>6, <2>2, <3>1
  <2>3. QED
    BY <2>1, <2>2
<1>7. CASE CheckList(n)
  <2>1. \A m \in Nodes : \/ chk'[m] = chk[m]
                         \/ chk'[m].pc = "check" /\ chk'[m].at = {}
    BY <1>0, <1>7 DEF CheckList, IdleCheck
  <2>2. QED
    BY <1>7, <2>1 DEF CheckList
<1>8. CASE CheckAnswers(n) \/ CheckFails(n)
  <2>1. \E r \in chk[n].list, l \in {"check", "mark", "restore"} : Asked(n, r, l)
    BY <1>8 DEF CheckAnswers, CheckFails
  <2>2. QED
    BY <1>6, <1>8, <2>1 DEF CheckAnswers, CheckFails
<1>9. CASE MarkUnhealthy(n) \/ RestoreHealth(n)
  <2>1. CheckNext(n, chk[n].list) /\ UNCHANGED <<run, agents, runners>>
    BY <1>9 DEF MarkUnhealthy, RestoreHealth, CheckWrites
  <2>2. QED
    BY <1>0, <2>1 DEF CheckNext
<1>10. QED
  BY <1>1, <1>2, <1>3, <1>4, <1>7, <1>8, <1>9 DEF SyncStep, CheckStep

LEMMA ClientCarries ==
    ASSUME Types, \A m \in Nodes : Carries(m), NEW c \in Clients, ClientStep(c)
    PROVE  \A m \in Nodes : Carries(m)'
<1>1. UNCHANGED <<ag, sync, chk>>
  BY DEF ClientStep, Begin, BeginRuntime, SetBotDesired, Others, SetRuntimeDesired,
         ReadRuntime, ClearRuntime, ClearBot, WaitBot, MigrateFails, RereadBot, GetRunner,
         ClientCreatesRunner, Reassign, StartMigrated, Patch, agents, runners, checkers
<1>2. \A m \in Nodes : run[m].exists => run'[m].exists
  <2>0. run \in [Nodes -> RunnerRow] /\ op[c].to \in Nodes /\ op[c].row.rt \in Nodes
    BY DEF Types, Request, BotRow
  <2>1. CASE SetRuntimeDesired(c) \/ ClearRuntime(c)
    BY <2>0, <2>1, AgentEffects DEF SetRuntimeDesired, ClearRuntime
  <2>2. CASE ClientCreatesRunner(c)
    BY <2>0, <2>2, NullTypes DEF ClientCreatesRunner
  <2>3. CASE ~(SetRuntimeDesired(c) \/ ClearRuntime(c) \/ ClientCreatesRunner(c))
    <3>1. UNCHANGED run
      BY <2>3
         DEF ClientStep, Begin, BeginRuntime, SetBotDesired, Others, ReadRuntime, ClearBot,
             WaitBot, MigrateFails, RereadBot, GetRunner, Reassign, StartMigrated, Patch, rows
    <3>2. QED
      BY <3>1
  <2>4. QED
    BY <2>1, <2>2, <2>3
<1>3. QED
  BY <1>1, <1>2 DEF Carries

\* The fields of all rows, locals and counters stay in their types; a restart
\* counter never exceeds RESTART_MAX_ATTEMPTS, whatever signals, crashes and
\* failed starts come in which order; and the agent never works by the row of a
\* runner that does not exist.
THEOREM BotRunnerTypes == Spec => []TypeOK
<1>1. TypeOK /\ [Next]_vars => TypeOK'
  <2> SUFFICES ASSUME TypeOK, [Next]_vars PROVE TypeOK'
    OBVIOUS
  <2>0. Types /\ \A m \in Nodes : Carries(m)
    BY TypeParts
  <2>1. Types'
    <3>1. CASE UNCHANGED vars
      BY <2>0, <3>1 DEF vars, Types
    <3>2. CASE \E n \in Nodes : NodeStep(n)
      BY <2>0, <3>2, ReconcileTypes, StopAndTimeTypes, SyncTypes, CheckTypes DEF NodeStep
    <3>3. CASE \E c \in Clients : ClientStep(c)
      BY <2>0, <3>3, ClientTypes
    <3>4. QED
      BY <3>1, <3>2, <3>3 DEF Next
  <2>2. \A m \in Nodes : Carries(m)'
    <3>1. CASE UNCHANGED vars
      BY <2>0, <3>1 DEF vars, Carries
    <3>2. CASE \E n \in Nodes : NodeStep(n)
      BY <2>0, <3>2, ReconcileCarries, StopAndTimeCarries, RunnerCarries DEF NodeStep
    <3>3. CASE \E c \in Clients : ClientStep(c)
      BY <2>0, <3>3, ClientCarries
    <3>4. QED
      BY <3>1, <3>2, <3>3 DEF Next
  <2>3. QED
    BY <2>1, <2>2 DEF TypeOK, Types, Carries
<1>2. QED
  BY <1>1, InitTypes, PTL DEF Spec
----------------------------------------------------------------------------
(* A bot that says stopped has no instance.                                *)
(*                                                                         *)
(* While no request moves a bot, only the runner at Home has instances, it *)
(* has them only while its process is there, and whoever marks the bots of *)
(* a list stopped is the agent of Home after the end of that process; the  *)
(* runner itself marks a bot after it has ended its instance.              *)

\* The requests that leave a bot where it is.
InPlace == {"start", "stop", "rtstart", "rtstop"}

\* The agent has stopped the runner and has not started another.
Still == {"listBots", "stopBots", "shutWrite", "shutList", "shutBots"}

Rewrites == {"waitBot", "reread", "getRunner", "createRunner", "reassign",
             "startMigrated", "patch"}

Quiet(n) ==
    /\ ag[n].bind = {}
    /\ n # Home => /\ ag[n].todo = {} /\ sync[n].wanted = {} /\ sync[n].at = {}
                   /\ inst[n] = NoInstances
    /\ proc[n] # "live" => sync[n] = IdleSync /\ inst[n] = NoInstances
    /\ ag[n].pc \in Still => proc[n] # "live"

SilentInv ==
    /\ \A b \in Bots : bot[b].node = Home /\ bot[b].rt = Home
    /\ \A n \in Nodes : Quiet(n)
    /\ \A c \in Clients : op[c].kind \in InPlace /\ op[c].pc \notin Rewrites
    /\ StoppedIsSilent

LEMMA InitSilent == Init => SilentInv
<1> SUFFICES ASSUME Init PROVE SilentInv
  OBVIOUS
<1>1. \A b \in Bots : bot[b].node = Home /\ bot[b].rt = Home
  <2>1. PICK desired \in [Bots -> Desired] :
          bot = [b \in Bots |-> [NewBot EXCEPT !.desired = desired[b]]]
    BY DEF Init
  <2>2. QED
    BY <2>1 DEF NewBot
<1>2. \A n \in Nodes : inst[n] = NoInstances
  BY DEF Init
<1>3. \A n \in Nodes : Quiet(n)
  BY <1>2 DEF Init, Quiet, IdleAgent, IdleSync, Still
<1>4. \A c \in Clients : op[c].kind \in InPlace /\ op[c].pc \notin Rewrites
  BY DEF Init, IdleClient, InPlace, Rewrites
<1>5. StoppedIsSilent
  BY <1>2 DEF StoppedIsSilent, Serves, NoInstances
<1>6. QED
  BY <1>1, <1>3, <1>4, <1>5 DEF SilentInv

\* What a step of the agent of node n does to the other parts of the invariant.
LeavesOthers(n) ==
    /\ \A m \in Nodes \ {n} : /\ ag'[m] = ag[m] /\ proc'[m] = proc[m]
                              /\ sync'[m] = sync[m] /\ inst'[m] = inst[m]
    /\ inst'[n] \in {inst[n], NoInstances}
    /\ \A b \in Bots : /\ bot'[b].node = bot[b].node /\ bot'[b].rt = bot[b].rt
                       /\ bot'[b].actual = "stopped"
                            => bot[b].actual = "stopped" \/ proc[Home] # "live"
    /\ UNCHANGED op

LEMMA SilenceSuffices ==
    ASSUME SilentInv, NEW n \in Nodes, LeavesOthers(n), Quiet(n)'
    PROVE  SilentInv'
<1>1. \A b \in Bots : (bot[b].node = Home /\ bot[b].rt = Home)'
  BY DEF SilentInv, LeavesOthers
<1>2. \A m \in Nodes : Quiet(m)'
  BY DEF SilentInv, LeavesOthers, Quiet
<1>3. StoppedIsSilent'
  <2> SUFFICES ASSUME NEW m \in Nodes, NEW b \in Bots, bot'[b].actual = "stopped"
               PROVE  inst'[m][b] = 0
    BY DEF StoppedIsSilent, Serves
  <2>1. inst'[m] \in {inst[m], NoInstances}
    BY DEF LeavesOthers
  <2>2. CASE bot[b].actual = "stopped"
    BY <2>1, <2>2 DEF SilentInv, StoppedIsSilent, Serves, NoInstances
  <2>3. CASE proc[Home] # "live"
    BY <2>1, <2>3 DEF SilentInv, Quiet, NoInstances
  <2>4. QED
    BY <2>2, <2>3 DEF LeavesOthers
<1>4. QED
  BY <1>1, <1>2, <1>3 DEF SilentInv, LeavesOthers

\* A write of the actual state moves no bot.
LEMMA BotWrites ==
    ASSUME Types, NEW b \in Bots, NEW state, NEW sick, UpdateBot(b, state, sick)
    PROVE  \A x \in Bots : /\ bot'[x].node = bot[x].node /\ bot'[x].rt = bot[x].rt
                           /\ bot'[x].actual = IF x = b THEN state ELSE bot[x].actual
BY DEF Types, UpdateBot, BotRow

LEMMA SilentCalls ==
    ASSUME Types, NEW n \in Nodes
    PROVE  /\ \A l \in AgentPc : Goto(n, l) =>
                ag'[n].pc = l /\ ag'[n].bind = ag[n].bind /\ ag'[n].todo = ag[n].todo
           /\ \A l \in AgentPc : GotoFresh(n, l) =>
                ag'[n].pc = l /\ ag'[n].bind = {} /\ ag'[n].todo = {}
           /\ EndTick(n) => ag'[n].pc = "idle" /\ ag'[n].bind = {} /\ ag'[n].todo = {}
           /\ \A bind, row : AfterRow(n, bind, row) =>
                /\ ag'[n].pc \in {"bind", "unwant", "byID"}
                /\ ag'[n].bind = bind /\ ag'[n].todo = ag[n].todo
           /\ \A slot : KillRunner(n, slot) =>
                /\ proc'[n] = slot /\ sync'[n] = IdleSync /\ inst'[n] = NoInstances
                /\ \A m \in Nodes \ {n} :
                      proc'[m] = proc[m] /\ sync'[m] = sync[m] /\ inst'[m] = inst[m]
<1>0. /\ ag \in [Nodes -> Agent] /\ ag[n] \in Agent
      /\ proc \in [Nodes -> {"none", "live", "dead"}] /\ sync \in [Nodes -> Syncing]
      /\ inst \in [Nodes -> [Bots -> Nat]]
  BY DEF Types
<1>1. \A l \in AgentPc : Goto(n, l) =>
        ag'[n].pc = l /\ ag'[n].bind = ag[n].bind /\ ag'[n].todo = ag[n].todo
  BY <1>0 DEF Goto, Agent
<1>2. \A l \in AgentPc : GotoFresh(n, l) =>
        ag'[n].pc = l /\ ag'[n].bind = {} /\ ag'[n].todo = {}
  BY <1>0 DEF GotoFresh, IdleAgent
<1>3. EndTick(n) => ag'[n].pc = "idle" /\ ag'[n].bind = {} /\ ag'[n].todo = {}
  BY <1>0 DEF EndTick, IdleAgent
<1>4. \A bind, row : AfterRow(n, bind, row) =>
        /\ ag'[n].pc \in {"bind", "unwant", "byID"}
        /\ ag'[n].bind = bind /\ ag'[n].todo = ag[n].todo
  BY <1>0 DEF AfterRow, Agent
<1>5. \A slot : KillRunner(n, slot) =>
        /\ proc'[n] = slot /\ sync'[n] = IdleSync /\ inst'[n] = NoInstances
        /\ \A m \in Nodes \ {n} :
              proc'[m] = proc[m] /\ sync'[m] = sync[m] /\ inst'[m] = inst[m]
  BY <1>0 DEF KillRunner
<1>6. QED
  BY <1>1, <1>2, <1>3, <1>4, <1>5

\* The agent marks bots of Home only.
LEMMA MarksOfHome ==
    ASSUME Types, SilentInv, NEW n \in Nodes
    PROVE  \A state : WriteTodo(n, state) =>
             /\ ag'[n].pc = ag[n].pc /\ ag'[n].bind = {} /\ n = Home
             /\ \A m \in Nodes \ {n} : ag'[m] = ag[m]
             /\ \A b \in Bots : /\ bot'[b].node = bot[b].node /\ bot'[b].rt = bot[b].rt
                                /\ bot'[b].actual \in {bot[b].actual, state}
<1>0. /\ ag \in [Nodes -> Agent] /\ ag[n] \in Agent /\ bot \in [Bots -> BotRow] /\ Quiet(n)
  BY DEF Types, SilentInv
<1> SUFFICES ASSUME NEW state, WriteTodo(n, state)
             PROVE  /\ ag'[n].pc = ag[n].pc /\ ag'[n].bind = {} /\ n = Home
                    /\ \A m \in Nodes \ {n} : ag'[m] = ag[m]
                    /\ \A b \in Bots : /\ bot'[b].node = bot[b].node /\ bot'[b].rt = bot[b].rt
                                       /\ bot'[b].actual \in {bot[b].actual, state}
  OBVIOUS
<1>1. PICK b \in ag[n].todo : UpdateBot(b, state, FALSE)
  BY DEF WriteTodo
<1>2. b \in Bots /\ n = Home
  BY <1>0 DEF Agent, Quiet
<1>3. ag'[n].bind = {}
  BY <1>0 DEF WriteTodo, Agent, Quiet
<1>4. ag'[n].pc = ag[n].pc /\ \A m \in Nodes \ {n} : ag'[m] = ag[m]
  BY AgentEffects
<1>5. \A x \in Bots : /\ bot'[x].node = bot[x].node /\ bot'[x].rt = bot[x].rt
                      /\ bot'[x].actual \in {bot[x].actual, state}
  BY ONLY <1>0, <1>1, <1>2 DEF UpdateBot, BotRow
<1>6. QED
  BY <1>2, <1>3, <1>4, <1>5

LEMMA ReconcileSilent ==
    ASSUME Types, SilentInv, NEW n \in Nodes, ReconcileStep(n)
    PROVE  SilentInv'
<1> SUFFICES LeavesOthers(n) /\ Quiet(n)'
  BY SilenceSuffices
<1> USE SilentCalls, AgentEffects
    DEF rows, agents, runners, checkers, clients, LeavesOthers, Quiet, Still
<1>0. /\ ag \in [Nodes -> Agent] /\ ag[n] \in Agent /\ bot \in [Bots -> BotRow]
      /\ proc \in [Nodes -> {"none", "live", "dead"}]
      /\ Quiet(n) /\ \A b \in Bots : bot[b].node = Home /\ bot[b].rt = Home
  BY DEF Types, SilentInv
<1>1. CASE List(n)
  <2>1. {b \in ListByNode(n) : bot[b].rt # n} = {}
    BY <1>0 DEF ListByNode
  <2>2. {[id |-> b, row |-> bot[b]] : b \in {x \in ListByNode(n) : bot[x].rt # n}} = {}
    BY <2>1
  <2>3. PICK need :
          ag' = [ag EXCEPT ![n] = [IdleAgent EXCEPT !.pc = "byName", !.need = need,
                                                    !.bind = {}]]
    BY <1>1, <2>2 DEF List
  <2>4. /\ ag'[n].pc = "byName" /\ ag'[n].bind = {} /\ ag'[n].todo = {}
        /\ \A m \in Nodes \ {n} : ag'[m] = ag[m]
    BY <1>0, <2>3 DEF IdleAgent
  <2>5. QED
    BY <1>0, <1>1, <2>4 DEF List
<1>2. CASE ByName(n)
  <2>1. CASE AfterRow(n, ag[n].bind, run[n])
    BY <1>0, <1>2, <2>1 DEF ByName
  <2>2. CASE ag' = [ag EXCEPT ![n] = [@ EXCEPT !.pc = "refresh", !.row = run[n]]]
    BY <1>0, <1>2, <2>2 DEF ByName, Agent
  <2>3. CASE Goto(n, "create")
    BY <1>0, <1>2, <2>3 DEF ByName, AgentPc
  <2>4. QED
    BY <1>2, <2>1, <2>2, <2>3 DEF ByName
<1>3. CASE CreateRunner(n)
  <2>1. EndTick(n) \/ AfterRow(n, ag[n].bind, NewRunner(TRUE))
    BY <1>3 DEF CreateRunner
  <2>2. UNCHANGED <<bot, proc, inst, sync, op>>
    BY <1>3 DEF CreateRunner
  <2>3. /\ ag'[n].pc \in {"idle", "bind", "unwant", "byID"} /\ ag'[n].bind = {}
        /\ ag'[n].todo \in {{}, ag[n].todo}
        /\ \A m \in Nodes \ {n} : ag'[m] = ag[m]
    <3>1. CASE EndTick(n)
      BY <3>1
    <3>2. CASE AfterRow(n, ag[n].bind, NewRunner(TRUE))
      BY ONLY <1>0, <3>2 DEF AfterRow, Agent, Quiet
    <3>3. QED
      BY ONLY <2>1, <3>1, <3>2
  <2>4. QED
    BY ONLY <1>0, <2>2, <2>3 DEF Quiet, LeavesOthers, Still
<1>4. CASE RefreshCommand(n)
  <2>1. AfterRow(n, ag[n].bind, [ag[n].row EXCEPT !.own = TRUE])
    BY <1>4 DEF RefreshCommand
  <2>2. UNCHANGED <<bot, proc, inst, sync, op>>
    BY <1>4 DEF RefreshCommand
  <2>3. QED
    BY <1>0, <2>1, <2>2
<1>5. CASE Bind(n)
  BY <1>0, <1>5 DEF Bind
<1>6. CASE Unwant(n)
  BY <1>0, <1>6 DEF Unwant, AgentPc
<1>7. ASSUME NEW slot, NEW actual, EnsureRunning(n, slot, actual)
      PROVE  /\ ag'[n].pc \in {"crashed", "backoff", "start", "idle", "running"}
             /\ ag'[n].bind = {} /\ ag'[n].todo = {}
             /\ \A m \in Nodes \ {n} : ag'[m] = ag[m]
  BY <1>7 DEF EnsureRunning, AgentPc
<1>8. CASE ByID(n)
  <2>0. UNCHANGED <<bot, proc, inst, sync, op>>
    BY <1>8 DEF ByID
  <2>1. CASE ag' = [ag EXCEPT ![n] = [@ EXCEPT !.pc = "unhealthy", !.row = run[n]]]
    BY <1>0, <2>0, <2>1 DEF Agent
  <2>2. CASE EnsureRunning(n, proc[n], run[n].actual)
    BY <1>0, <1>7, <2>0, <2>2
  <2>3. CASE GotoFresh(n, "stopping") \/ GotoFresh(n, "stopped")
    BY <1>0, <2>0, <2>3 DEF AgentPc
  <2>4. QED
    BY <1>8, <2>1, <2>2, <2>3 DEF ByID
<1>9. CASE FindUnhealthy(n)
  <2>1. UNCHANGED <<bot, proc, inst, sync, op>>
    BY <1>9 DEF FindUnhealthy
  <2>2. GotoFresh(n, "backoff") \/ EnsureRunning(n, "live", ag[n].row.actual)
    BY <1>9 DEF FindUnhealthy
  <2>3. QED
    BY <1>0, <1>7, <2>1, <2>2 DEF AgentPc
<1>10. CASE Crashed(n) \/ MaybeRestart(n) \/ Exhausted(n)
  <2>1. /\ proc'[n] = "live" => proc[n] = "live"
        /\ proc[n] = "live" => proc'[n] = "live"
        /\ \A m \in Nodes \ {n} : proc'[m] = proc[m]
        /\ UNCHANGED <<bot, inst, sync, op>>
    BY <1>0, <1>10 DEF Crashed, MaybeRestart, Exhausted
  <2>2. EndTick(n) \/ \E l \in {"backoff", "restart", "exhausted"} : Goto(n, l)
    BY <1>10 DEF Crashed, MaybeRestart, Exhausted
  <2>3. QED
    BY <1>0, <2>1, <2>2 DEF AgentPc
<1>11. CASE RestartRunner(n)
  <2> DEFINE todo == {b \in ListByRuntime(n) : bot[b].desired = "running"}
  <2>0. ag' = [ag EXCEPT ![n] = [@ EXCEPT !.pc = "resetBots", !.todo = todo]]
    BY ONLY <1>11 DEF RestartRunner
  <2>1. n # Home => todo = {}
    BY ONLY <1>0 DEF ListByRuntime
  <2> HIDE DEF todo
  <2>2. /\ ag'[n].pc = "resetBots" /\ ag'[n].bind = {} /\ ag'[n].todo = todo
        /\ \A m \in Nodes \ {n} : ag'[m] = ag[m]
    BY ONLY <1>0, <2>0 DEF Agent, Quiet
  <2>3. KillRunner(n, "none") /\ UNCHANGED <<bot, op>>
    BY <1>11 DEF RestartRunner
  <2>4. QED
    BY <1>0, <2>1, <2>2, <2>3 DEF IdleSync
<1>12. CASE ResetBot(n)
  BY <1>0, <1>12, MarksOfHome DEF ResetBot
<1>13. CASE StopBot(n)
  BY <1>0, <1>13, MarksOfHome DEF StopBot
<1>14. CASE ResetRunner(n) \/ Starting(n) \/ SpawnFails(n) \/ Running(n) \/ Stopping(n)
  <2>1. UNCHANGED <<bot, proc, inst, sync, op>>
    BY <1>14 DEF ResetRunner, Starting, SpawnFails, Running, Stopping
  <2>2. EndTick(n) \/ \E l \in {"start", "spawn", "stopped"} : Goto(n, l)
    BY <1>14 DEF ResetRunner, Starting, SpawnFails, Running, Stopping
  <2>3. QED
    BY <1>0, <2>1, <2>2 DEF AgentPc
<1>15. CASE Spawn(n)
  BY <1>0, <1>15 DEF Spawn, AgentPc
<1>16. CASE Stopped(n)
  <2>1. CASE KillRunner(n, "dead")
    BY <1>0, <1>16, <2>1 DEF Stopped, AgentPc, IdleSync
  <2>2. CASE proc[n] # "live" /\ UNCHANGED <<proc, runners>>
    BY <1>0, <1>16, <2>2 DEF Stopped, AgentPc
  <2>3. QED
    BY <1>16, <2>1, <2>2 DEF Stopped
<1>17. CASE ListStopped(n)
  <2> DEFINE todo == {b \in ListByRuntime(n) : bot[b].actual # "stopped"}
  <2>0. ag' = [ag EXCEPT ![n] = [@ EXCEPT !.pc = "stopBots", !.todo = todo]]
    BY ONLY <1>17 DEF ListStopped
  <2>1. n # Home => todo = {}
    BY ONLY <1>0 DEF ListByRuntime
  <2> HIDE DEF todo
  <2>2. /\ ag'[n].pc = "stopBots" /\ ag'[n].bind = {} /\ ag'[n].todo = todo
        /\ \A m \in Nodes \ {n} : ag'[m] = ag[m]
    BY ONLY <1>0, <2>0 DEF Agent, Quiet
  <2>3. QED
    BY <1>0, <1>17, <2>1, <2>2 DEF ListStopped
<1>18. CASE ForgetStopped(n)
  BY <1>0, <1>18 DEF ForgetStopped
<1>19. QED
  BY <1>1, <1>2, <1>3, <1>4, <1>5, <1>6, <1>8, <1>9, <1>10, <1>11, <1>12, <1>13, <1>14,
     <1>15, <1>16, <1>17, <1>18 DEF ReconcileStep

LEMMA StopAndTimeSilent ==
    ASSUME Types, SilentInv, NEW n \in Nodes,
           SigTerm(n) \/ ComeBack(n) \/ ProcessExits(n) \/ BackoffElapses(n)
    PROVE  SilentInv'
<1> SUFFICES LeavesOthers(n) /\ Quiet(n)'
  BY SilenceSuffices
<1> USE SilentCalls, AgentEffects
    DEF rows, agents, runners, checkers, clients, LeavesOthers, Quiet, Still
<1>0. /\ ag \in [Nodes -> Agent] /\ ag[n] \in Agent /\ bot \in [Bots -> BotRow]
      /\ proc \in [Nodes -> {"none", "live", "dead"}]
      /\ Quiet(n) /\ \A b \in Bots : bot[b].node = Home /\ bot[b].rt = Home
  BY DEF Types, SilentInv
<1>1. CASE SigTerm(n)
  BY <1>0, <1>1 DEF SigTerm, IdleAgent
<1>2. CASE ShutStop(n)
  <2>1. Goto(n, "shutWrite") \/ Goto(n, "shutBots")
    BY <1>2 DEF ShutStop
  <2>2. CASE KillRunner(n, "dead")
    BY <1>0, <1>2, <2>1, <2>2 DEF ShutStop, AgentPc, IdleSync
  <2>3. CASE proc[n] # "live" /\ UNCHANGED <<proc, runners>>
    BY <1>0, <1>2, <2>1, <2>3 DEF ShutStop, AgentPc
  <2>4. QED
    BY <1>2, <2>2, <2>3 DEF ShutStop
<1>3. CASE ShutWrite(n)
  BY <1>0, <1>3 DEF ShutWrite, AgentPc
<1>4. CASE ShutList(n)
  <2>1. n # Home => ListByRuntime(n) = {}
    BY ONLY <1>0 DEF ListByRuntime
  <2>2. /\ ag'[n].pc = "shutBots" /\ ag'[n].bind = {} /\ ag'[n].todo = ListByRuntime(n)
        /\ \A m \in Nodes \ {n} : ag'[m] = ag[m]
    BY ONLY <1>0, <1>4 DEF ShutList, Agent, Quiet
  <2>3. QED
    BY <1>0, <1>4, <2>1, <2>2 DEF ShutList
<1>5. CASE ShutBot(n)
  BY <1>0, <1>5, MarksOfHome DEF ShutBot
<1>6. CASE NextAgent(n)
  BY <1>0, <1>6 DEF NextAgent
<1>7. CASE ProcessExits(n)
  BY <1>0, <1>7 DEF ProcessExits, IdleSync
<1>8. CASE BackoffElapses(n)
  BY <1>0, <1>8 DEF BackoffElapses
<1>9. QED
  BY <1>1, <1>2, <1>3, <1>4, <1>5, <1>6, <1>7, <1>8 DEF ComeBack

\* A step of the runner of node n: its list of bots is empty anywhere else, so
\* its instances are the only ones.
LEMMA SyncSilent ==
    ASSUME Types, SilentInv, NEW n \in Nodes, SyncStep(n)
    PROVE  SilentInv'
<1> USE DEF rows, agents, runners, checkers, clients
<1>0. /\ bot \in [Bots -> BotRow] /\ inst \in [Nodes -> [Bots -> Nat]]
      /\ sync \in [Nodes -> Syncing] /\ sync[n] \in Syncing
      /\ sync[n].wanted \in SUBSET Listed /\ sync[n].at \in SUBSET Listed
      /\ Quiet(n) /\ \A b \in Bots : bot[b].node = Home /\ bot[b].rt = Home
  BY DEF Types, Syncing, SilentInv
<1>1. UNCHANGED <<ag, proc, op>>
  BY DEF SyncStep, SyncList, RemoveInstance, AddInstance, Launch, LaunchFails
<1>2. n = Home /\ proc[n] = "live"
  <2>1. CASE SyncList(n)
    <3>1. CASE n # Home
      <4>1. \A wanted : ToRemove(n, wanted) = {}
        BY ONLY <1>0, <3>1 DEF ToRemove, Quiet, NoInstances
      <4>2. {<<b, bot[b].cfg>> : b \in {x \in Bots : Wants(n, x)}} = {}
        BY ONLY <1>0, <3>1 DEF Wants
      <4>3. ToAdd(n, {}) = {}
        BY DEF ToAdd
      <4>4. QED
        BY <2>1, <4>1, <4>2, <4>3 DEF SyncList
    <3>2. QED
      BY <2>1, <3>1 DEF SyncList
  <2>2. CASE ~SyncList(n)
    <3>1. sync[n].pc # "idle"
      BY <2>2 DEF SyncStep, RemoveInstance, AddInstance, Launch, LaunchFails
    <3>2. \/ sync[n].wanted # {} \/ sync[n].at # {}
          \/ \E b \in Bots : inst[n][b] # 0
      BY <2>2
         DEF SyncStep, RemoveInstance, AddInstance, Launch, LaunchFails, ToRemove
    <3>3. QED
      BY <1>0, <3>1, <3>2 DEF Quiet, IdleSync, NoInstances
  <2>3. QED
    BY <2>1, <2>2
<1>3. \A m \in Nodes \ {n} : sync'[m] = sync[m] /\ inst'[m] = inst[m]
  <2>1. \A m \in Nodes \ {n} : sync'[m] = sync[m]
    BY <1>0 DEF SyncStep, SyncList, RemoveInstance, AddInstance, Launch, LaunchFails, ThenAdd
  <2>2. \A m \in Nodes \ {n} : inst'[m] = inst[m]
    BY <1>0 DEF SyncStep, SyncList, RemoveInstance, AddInstance, Launch, LaunchFails
  <2>3. QED
    BY <2>1, <2>2
<1>4. \A m \in Nodes : Quiet(m)'
  BY <1>1, <1>2, <1>3 DEF SilentInv, Quiet
<1>5. ASSUME NEW b \in Bots, NEW state, NEW k, UpdateBot(b, state, FALSE),
             inst' = [inst EXCEPT ![n][b] = k], state # "stopped" \/ k = 0
      PROVE  /\ \A x \in Bots : bot'[x].node = Home /\ bot'[x].rt = Home
             /\ \A x \in Bots : bot'[x].actual = "stopped" => inst'[n][x] = 0
  <2>1. \A x \in Bots : /\ bot'[x].node = bot[x].node /\ bot'[x].rt = bot[x].rt
                        /\ bot'[x].actual = IF x = b THEN state ELSE bot[x].actual
    BY <1>5, BotWrites
  <2>2. \A x \in Bots : inst'[n][x] = IF x = b THEN k ELSE inst[n][x]
    BY ONLY <1>0, <1>5, n \in Nodes
  <2>3. \A x \in Bots : bot[x].actual = "stopped" => inst[n][x] = 0
    BY DEF SilentInv, StoppedIsSilent, Serves
  <2>4. QED
    BY <1>0, <1>5, <2>1, <2>2, <2>3
<1>6. \A w \in Listed : w[1] \in Bots
  BY DEF Listed
<1>7. /\ \A x \in Bots : bot'[x].node = Home /\ bot'[x].rt = Home
      /\ \A x \in Bots : bot'[x].actual = "stopped" => inst'[n][x] = 0
  <2>1. CASE SyncList(n)
    BY <1>0, <2>1 DEF SyncList, SilentInv, StoppedIsSilent, Serves
  <2>2. CASE RemoveInstance(n)
    <3>1. PICK b \in Bots : UpdateBot(b, "stopped", FALSE) /\ inst' = [inst EXCEPT ![n][b] = 0]
      BY <2>2 DEF RemoveInstance, ToRemove
    <3>2. QED
      BY <1>5, <3>1
  <2>3. CASE AddInstance(n)
    <3>1. PICK w \in Listed : /\ UpdateBot(w[1], "starting", FALSE)
                              /\ inst' = [inst EXCEPT ![n][w[1]] = 0]
      BY <1>0, <2>3 DEF AddInstance
    <3>2. w[1] \in Bots
      BY <1>6
    <3>3. QED
      BY ONLY <1>5, <3>1, <3>2
  <2>4. CASE Launch(n)
    <3>1. PICK w \in Listed : /\ UpdateBot(w[1], "running", FALSE)
                              /\ inst' = [inst EXCEPT ![n][w[1]] = w[2]]
      BY <1>0, <2>4 DEF Launch
    <3>2. PICK b \in Bots : b = w[1]
      BY <1>6
    <3>3. PICK k : k = w[2]
      OBVIOUS
    <3>4. UpdateBot(b, "running", FALSE) /\ inst' = [inst EXCEPT ![n][b] = k]
      BY <3>1, <3>2, <3>3
    <3>5. QED
      BY <1>5, <3>4
  <2>5. CASE LaunchFails(n)
    <3>1. PICK w \in Listed : UpdateBot(w[1], "failed", FALSE)
      BY <1>0, <2>5 DEF LaunchFails
    <3>2. PICK b \in Bots : b = w[1]
      BY <1>6
    <3>3. UpdateBot(b, "failed", FALSE)
      BY ONLY <3>1, <3>2
    <3>4. \A x \in Bots : /\ bot'[x].node = bot[x].node /\ bot'[x].rt = bot[x].rt
                          /\ bot'[x].actual = IF x = b THEN "failed" ELSE bot[x].actual
      BY <3>3, BotWrites
    <3>5. UNCHANGED inst
      BY <2>5 DEF LaunchFails
    <3>6. QED
      BY ONLY <1>0, <3>4, <3>5, SilentInv DEF SilentInv, StoppedIsSilent, Serves
  <2>6. QED
    BY <2>1, <2>2, <2>3, <2>4, <2>5 DEF SyncStep
<1>8. StoppedIsSilent'
  <2> SUFFICES ASSUME NEW m \in Nodes, NEW b \in Bots, bot'[b].actual = "stopped"
               PROVE  inst'[m][b] = 0
    BY DEF StoppedIsSilent, Serves
  <2>1. CASE m = n
    BY <1>7, <2>1
  <2>2. CASE m # n
    BY <1>2, <1>3, <2>2 DEF SilentInv, Quiet, NoInstances
  <2>3. QED
    BY <2>1, <2>2
<1>9. QED
  BY <1>1, <1>4, <1>7, <1>8 DEF SilentInv

LEMMA CheckSilent ==
    ASSUME Types, SilentInv, NEW n \in Nodes, CheckStep(n)
    PROVE  SilentInv'
<1> USE DEF rows, agents, runners, checkers, clients
<1>1. UNCHANGED <<ag, proc, sync, inst, op>>
  BY DEF CheckStep, CheckList, CheckAnswers, CheckFails, MarkUnhealthy, RestoreHealth,
         CheckWrites
<1>2. \A b \in Bots : /\ bot'[b].node = bot[b].node /\ bot'[b].rt = bot[b].rt
                      /\ bot'[b].actual = "stopped" => bot[b].actual = "stopped"
  <2>1. CASE CheckList(n) \/ CheckAnswers(n) \/ CheckFails(n)
    BY <2>1 DEF CheckList, CheckAnswers, CheckFails
  <2>2. CASE MarkUnhealthy(n) \/ RestoreHealth(n)
    <3>1. PICK b \in chk[n].at, state \in {"failed", "running"} :
            UpdateBot(b, state, state = "failed")
      BY <2>2 DEF MarkUnhealthy, RestoreHealth, CheckWrites
    <3>2. PICK sick : UpdateBot(b, state, sick)
      BY ONLY <3>1
    <3>3. b \in Bots
      BY DEF Types, Checking
    <3>4. \A x \in Bots : /\ bot'[x].node = bot[x].node /\ bot'[x].rt = bot[x].rt
                          /\ bot'[x].actual = IF x = b THEN state ELSE bot[x].actual
      BY ONLY <3>2, <3>3, BotWrites, Types
    <3>5. state # "stopped"
      OBVIOUS
    <3>6. QED
      BY ONLY <3>4, <3>5
  <2>3. QED
    BY <2>1, <2>2 DEF CheckStep
<1>3. QED
  BY <1>1, <1>2 DEF SilentInv, Quiet, StoppedIsSilent, Serves

LEMMA ClientSilent ==
    ASSUME Kinds \subseteq InPlace, Types, SilentInv, NEW c \in Clients, ClientStep(c)
    PROVE  SilentInv'
<1> USE DEF rows, agents, runners, checkers, clients
<1>0. /\ bot \in [Bots -> BotRow] /\ op \in [Clients -> Request] /\ op[c] \in Request
      /\ op[c].id \in SUBSET Bots /\ op[c].kind \in InPlace /\ op[c].pc \notin Rewrites
  BY DEF Types, Request, SilentInv
<1>1. UNCHANGED <<ag, proc, sync, inst>>
  BY DEF ClientStep, Begin, BeginRuntime, SetBotDesired, Others, SetRuntimeDesired,
         ReadRuntime, ClearRuntime, ClearBot, WaitBot, MigrateFails, RereadBot, GetRunner,
         ClientCreatesRunner, Reassign, StartMigrated, Patch
<1>2. ~(WaitBot(c) \/ MigrateFails(c) \/ RereadBot(c) \/ GetRunner(c)
        \/ ClientCreatesRunner(c) \/ Reassign(c) \/ StartMigrated(c) \/ Patch(c))
  BY <1>0 DEF Rewrites, WaitBot, MigrateFails, RereadBot, GetRunner, ClientCreatesRunner,
              Reassign, StartMigrated, Patch
<1>3. \A b \in Bots : /\ bot'[b].node = bot[b].node /\ bot'[b].rt = bot[b].rt
                      /\ bot'[b].actual = "stopped" => bot[b].actual = "stopped"
  <2>1. CASE Begin(c) \/ BeginRuntime(c) \/ Others(c) \/ SetRuntimeDesired(c)
             \/ ReadRuntime(c) \/ ClearRuntime(c)
    BY <2>1 DEF Begin, BeginRuntime, Others, SetRuntimeDesired, ReadRuntime, ClearRuntime
  <2>2. CASE SetBotDesired(c)
    BY <1>0, <2>2 DEF SetBotDesired, BotRow
  <2>3. CASE ClearBot(c)
    <3>1. PICK b \in Bots : UpdateBot(b, "unknown", FALSE)
      BY <1>0, <2>3 DEF ClearBot
    <3>2. \A x \in Bots : /\ bot'[x].node = bot[x].node /\ bot'[x].rt = bot[x].rt
                          /\ bot'[x].actual = IF x = b THEN "unknown" ELSE bot[x].actual
      BY ONLY <3>1, BotWrites, Types
    <3>3. QED
      BY ONLY <3>2
  <2>4. QED
    BY <1>2, <2>1, <2>2, <2>3 DEF ClientStep
<1>4. \A x \in Clients : op'[x].kind \in InPlace /\ op'[x].pc \notin Rewrites
  <2>1. \A x \in Clients \ {c} : op'[x] = op[x]
    BY <1>0, <1>2
       DEF ClientStep, Begin, BeginRuntime, SetBotDesired, Others, SetRuntimeDesired,
           ReadRuntime, ClearRuntime, ClearBot, AfterStop, ClearBotNext, ClientGoto, Return
  <2>2. \A l \in ClientPc \ Rewrites : ClientGoto(c, l) =>
          op'[c].kind \in InPlace /\ op'[c].pc \notin Rewrites
    BY <1>0 DEF ClientGoto, Request
  <2>3. Return(c) => op'[c].kind \in InPlace /\ op'[c].pc \notin Rewrites
    BY <1>0 DEF Return, IdleClient, InPlace, Rewrites
  <2>4. AfterStop(c) \/ ClearBotNext(c) => op'[c].kind \in InPlace /\ op'[c].pc \notin Rewrites
    BY <1>0, <2>2, <2>3 DEF AfterStop, ClearBotNext, ClientPc, Rewrites, InPlace
  <2>5. CASE Begin(c)
    <3>1. PICK kind \in Kinds, b \in Bots, to \in Nodes :
            op' = [op EXCEPT ![c] = [pc |-> FirstCall(kind), kind |-> kind,
                                     id |-> {b}, to |-> to, row |-> bot[b]]]
      BY <2>5 DEF Begin
    <3>2. kind \in InPlace /\ FirstCall(kind) \notin Rewrites
      BY <3>1 DEF FirstCall, InPlace, Rewrites
    <3>3. op'[c].kind = kind /\ op'[c].pc = FirstCall(kind)
      BY ONLY <1>0, <3>1
    <3>4. QED
      BY ONLY <2>1, <3>2, <3>3, SilentInv DEF SilentInv
  <2>6. CASE BeginRuntime(c)
    <3>1. op'[c].kind \in Kinds /\ op'[c].pc = "rtDesired"
      BY <1>0, <2>6 DEF BeginRuntime, IdleClient
    <3>2. QED
      BY <2>1, <3>1 DEF SilentInv, Rewrites
  <2>7. CASE SetBotDesired(c) \/ Others(c) \/ ClearBot(c) \/ SetRuntimeDesired(c)
    <3>1. op'[c].kind \in InPlace /\ op'[c].pc \notin Rewrites
      BY <2>2, <2>3, <2>4, <2>7
         DEF SetBotDesired, Others, ClearBot, SetRuntimeDesired, ClientPc, Rewrites
    <3>2. QED
      BY <2>1, <3>1 DEF SilentInv
  <2>8. CASE ReadRuntime(c) \/ ClearRuntime(c)
    <3>1. op'[c].kind \in InPlace /\ op'[c].pc \notin Rewrites
      BY <2>2, <2>4, <2>8 DEF ReadRuntime, ClearRuntime, ClientPc, Rewrites
    <3>2. QED
      BY <2>1, <3>1 DEF SilentInv
  <2>9. QED
    BY <1>2, <2>5, <2>6, <2>7, <2>8 DEF ClientStep
<1>5. QED
  BY <1>1, <1>3, <1>4 DEF SilentInv, Quiet, StoppedIsSilent, Serves

\* As long as requests start and stop bots and runners but move none, a default
\* bot whose row says stopped has no instance in any runner: also when its list
\* was read before a request changed the wish, when a runner process dies or is
\* restarted for another bot in the middle of Sync, and when the agent is
\* stopped between two of its writes.
THEOREM StoppedSilent ==
    ASSUME Kinds \subseteq InPlace
    PROVE  Spec => []StoppedIsSilent
<1>1. TypeOK /\ SilentInv /\ [Next]_vars => SilentInv'
  <2> SUFFICES ASSUME TypeOK, SilentInv, [Next]_vars PROVE SilentInv'
    OBVIOUS
  <2>0. Types
    BY TypeParts
  <2>1. CASE UNCHANGED vars
    BY <2>1 DEF vars, SilentInv, Quiet, StoppedIsSilent, Serves
  <2>2. CASE \E n \in Nodes : NodeStep(n)
    BY <2>0, <2>2, ReconcileSilent, StopAndTimeSilent, SyncSilent, CheckSilent DEF NodeStep
  <2>3. CASE \E c \in Clients : ClientStep(c)
    BY <2>0, <2>3, ClientSilent
  <2>4. QED
    BY <2>1, <2>2, <2>3 DEF Next
<1>2. SilentInv => StoppedIsSilent
  BY DEF SilentInv
<1>3. QED
  BY <1>1, <1>2, InitSilent, BotRunnerTypes, PTL DEF Spec

----------------------------------------------------------------------------
(* The abstract restart tracker.                                           *)

LEMMA TrackerStep ==
    ASSUME TypeOK, [Next]_vars, NEW n \in Nodes
    PROVE  [Tracker(n)!Next]_(back[n])
<1> SUFFICES \/ back'[n] = back[n]
             \/ back'[n] = NoBackoff
             \/ back[n].nextAt = "later" /\ back'[n] = [back[n] EXCEPT !.nextAt = "due"]
             \/ back[n].nextAt = "due" /\ back'[n] = [back[n] EXCEPT !.nextAt = "zero"]
             \/ /\ back[n].nextAt = "zero" /\ back[n].attempts < MaxAttempts
                /\ back'[n] = [attempts |-> back[n].attempts + 1, nextAt |-> "later"]
  BY DEF Tracker!Next, Tracker!Plan, Tracker!Elapse, Tracker!Take, Tracker!Reset,
         TypeOK, Backoff, NoBackoff
<1>0. back \in [Nodes -> Backoff]
  BY DEF TypeOK
<1>1. ASSUME NEW m \in Nodes, back' = [back EXCEPT ![m] = NoBackoff]
      PROVE  back'[n] \in {back[n], NoBackoff}
  BY <1>0, <1>1
<1>2. ASSUME NEW m \in Nodes, MaybeRestart(m)
      PROVE  \/ back'[n] = back[n]
             \/ back[n].nextAt = "due" /\ back'[n] = [back[n] EXCEPT !.nextAt = "zero"]
             \/ /\ back[n].nextAt = "zero" /\ back[n].attempts < MaxAttempts
                /\ back'[n] = [attempts |-> back[n].attempts + 1, nextAt |-> "later"]
  <2>1. CASE UNCHANGED back
    BY <2>1
  <2>2. CASE Due(m) /\ back' = [back EXCEPT ![m].nextAt = "zero"]
    BY <1>0, <2>2 DEF Due
  <2>3. CASE /\ back[m].nextAt = "zero" /\ back[m].attempts < MaxAttempts
             /\ back' = [back EXCEPT ![m] = [attempts |-> @.attempts + 1, nextAt |-> "later"]]
    BY <1>0, <2>3
  <2>4. QED
    BY <1>2, <2>1, <2>2, <2>3 DEF MaybeRestart
<1>3. ASSUME NEW m \in Nodes, BackoffElapses(m)
      PROVE  \/ back'[n] = back[n]
             \/ back[n].nextAt = "later" /\ back'[n] = [back[n] EXCEPT !.nextAt = "due"]
  BY <1>0, <1>3 DEF BackoffElapses
<1>4. ASSUME NEW m \in Nodes, ReconcileStep(m), ~MaybeRestart(m), back' # back
      PROVE  back' = [back EXCEPT ![m] = NoBackoff]
  BY <1>4
     DEF ReconcileStep, List, ByName, CreateRunner, RefreshCommand, Bind, Unwant, ByID,
         EnsureRunning, FindUnhealthy, Crashed, Exhausted, RestartRunner, ResetBot,
         ResetRunner, Starting, Spawn, SpawnFails, Running, Stopping, Stopped,
         ListStopped, StopBot, ForgetStopped
<1>5. ASSUME NEW m \in Nodes, SigTerm(m) \/ ComeBack(m), back' # back
      PROVE  back' = [back EXCEPT ![m] = NoBackoff]
  BY <1>5 DEF SigTerm, ComeBack, ShutStop, ShutWrite, ShutList, ShutBot, NextAgent
<1>6. ASSUME NEW m \in Nodes, SyncStep(m) \/ CheckStep(m) \/ ProcessExits(m)
      PROVE  UNCHANGED back
  BY <1>6
     DEF SyncStep, SyncList, RemoveInstance, AddInstance, Launch, LaunchFails,
         CheckStep, CheckList, CheckAnswers, CheckFails, MarkUnhealthy, RestoreHealth,
         CheckWrites, ProcessExits, agents
<1>7. ASSUME NEW c \in Clients, ClientStep(c)
      PROVE  UNCHANGED back
  BY <1>7
     DEF ClientStep, Begin, BeginRuntime, SetBotDesired, Others, SetRuntimeDesired,
         ReadRuntime, ClearRuntime, ClearBot, WaitBot, MigrateFails, RereadBot, GetRunner,
         ClientCreatesRunner, Reassign, StartMigrated, Patch, agents
<1>8. CASE UNCHANGED vars
  BY <1>8 DEF vars
<1>9. ASSUME NEW m \in Nodes, NodeStep(m)
      PROVE  \/ back'[n] \in {back[n], NoBackoff}
             \/ MaybeRestart(m)
             \/ BackoffElapses(m)
  BY <1>9, <1>1, <1>4, <1>5, <1>6 DEF NodeStep
<1>10. QED
  BY <1>2, <1>3, <1>7, <1>8, <1>9 DEF Next

\* On every node the crashes and the unhealthy bots of a runner share a tracker
\* that behaves as the abstract one, whatever tick, stop or new agent resets it:
\* the runner is restarted only when a restart is due, once for each one planned,
\* and at most RESTART_MAX_ATTEMPTS times without a reset.
THEOREM RunnerTrackerRefines == Spec => ImplementsAbstractRestart
<1>1. Init => \A n \in Nodes : Tracker(n)!Init
  <2> SUFFICES ASSUME Init, NEW n \in Nodes PROVE Tracker(n)!Init
    OBVIOUS
  <2>1. back[n] = NoBackoff
    BY DEF Init
  <2>2. MaxAttempts \in Nat
    BY BotRunnerAssumption
  <2>3. QED
    BY <2>1, <2>2 DEF NoBackoff, Tracker!Init
<1>2. TypeOK /\ [Next]_vars => [\A n \in Nodes : [Tracker(n)!Next]_(back[n])]_back
  BY TrackerStep
<1>3. QED
  BY <1>1, <1>2, BotRunnerTypes, PTL DEF Spec, ImplementsAbstractRestart
============================================================================
