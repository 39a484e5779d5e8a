------------------------------ MODULE Registry ------------------------------
(***************************************************************************)
(* The rows of nodes, runtimes and bots and the requests that make, move   *)
(* and change them: control-api (internal/api), ctl, drain-node and        *)
(* internal/ops, next to the heartbeat of the agents.  Requests interleave *)
(* call by call, and each may be given up between two calls: the context   *)
(* of an HTTP request is cancelled with its connection, ctl is killed, a   *)
(* wait times out.                                                         *)
(*                                                                         *)
(* What the agents write is left out (CustomRuntime and BotRunner have     *)
(* it): the wait of a migration may end at any time.  Rows are never       *)
(* deleted; no program calls Delete.                                       *)
(***************************************************************************)
EXTENDS Naturals, FiniteSets

CONSTANTS
    Nodes,      \* NODE_IDs
    Agents,     \* nodes whose agent may be running
    Names,      \* custom names, each standing for the runtime custom-<name>
    Ports,      \* ports of bots
    Ids,        \* ids of bots
    Clients,    \* requests served at the same time
    Kinds,      \* which requests, a subset of AllKinds
    MaxBots,    \* MAX_BOTS_PER_NODE
    MaxOps      \* bound on the number of requests

AllKinds == {"createCustom", "createDefault", "start", "stop", "migrate",
             "patch", "drain", "drainTo"}

ASSUME RegistryAssumption ==
    /\ Agents \subseteq Nodes
    /\ Names \cap Nodes = {}
    /\ IsFiniteSet(Ids) /\ IsFiniteSet(Clients)
    /\ Clients # {}
    /\ Kinds \subseteq AllKinds
    /\ MaxBots \in Nat \ {0}
    /\ MaxOps \in Nat

VARIABLES
    node,      \* status of each node's row
    beat,      \* what the heartbeat of each node's agent has read
    rt,        \* rows of runtimes, by name; a runner goes by its node
    bot,       \* rows of bots
    op,        \* the request each client serves
    ops,       \* requests so far
    patched,   \* history: bots whose node was written by a PATCH
    torn,      \* history: custom names left by a request between two writes
    touched    \* history: bots started or placed since the list of each drain

vars == <<node, beat, rt, bot, op, ops, patched, torn, touched>>
history == <<patched, torn, touched>>

Desired == {"running", "stopped"}
RuntimeNames == Names \cup Nodes

NoRuntime == [exists |-> FALSE, node |-> "none", desired |-> "stopped"]
NewRuntime(n) == [exists |-> TRUE, node |-> n, desired |-> "stopped"]

NoBot == [exists |-> FALSE, node |-> "none", rt |-> "none", port |-> "none",
          desired |-> "stopped"]

NoRequest == [pc |-> "idle", kind |-> "start", id |-> {}, from |-> "none", to |-> "none",
              name |-> "none", port |-> "none", start |-> FALSE, row |-> NoBot,
              rtrow |-> NoRuntime, todo |-> {}]

Init ==
    /\ node = [n \in Nodes |-> "absent"]
    /\ beat = [n \in Nodes |-> "down"]
    /\ rt = [x \in RuntimeNames |-> NoRuntime]
    /\ bot = [i \in Ids |-> NoBot]
    /\ op = [c \in Clients |-> NoRequest]
    /\ ops = 0
    /\ patched = {} /\ torn = {}
    /\ touched = [c \in Clients |-> {}]

----------------------------------------------------------------------------

Goto(c, l) == op' = [op EXCEPT ![c].pc = l]
Return(c) == op' = [op EXCEPT ![c] = NoRequest]

OnNode(n) == {i \in Ids : bot[i].exists /\ bot[i].node = n}
OfRuntime(x) == {i \in Ids : bot[i].exists /\ bot[i].rt = x}

IsCustom(row) == row.rt \in Names

\* Bots.Update and Bots.UpdateDesiredState; i is started or placed somewhere.
PutBot(i, row) == bot' = [bot EXCEPT ![i] = row]
SetBot(i, desired) == bot' = [bot EXCEPT ![i].desired = desired]
SetRuntime(x, desired) == rt' = [rt EXCEPT ![x].desired = desired]

Drains(c) == op[c].kind \in {"drain", "drainTo"}

Touch(i) == touched' = [c \in Clients |-> IF Drains(c) THEN touched[c] \cup {i} ELSE {}]

\* The bot of the request, a singleton or nobody.
Of(c, i) == op[c].id = {i}

\* A request for a bot: Bots.ByID.
BeginWith(c, request) ==
    /\ op[c].pc = "idle"
    /\ ops < MaxOps
    /\ ops' = ops + 1
    /\ op' = [op EXCEPT ![c] = request]
    /\ UNCHANGED <<node, beat, rt, bot, history>>

----------------------------------------------------------------------------
(* createCustom, createDefault and their namesakes of ctl.                 *)

BeginCreate(c) ==
    \E kind \in Kinds \cap {"createCustom", "createDefault"}, n \in Nodes, p \in Ports,
       x \in Names, start \in BOOLEAN :
        BeginWith(c, [NoRequest EXCEPT
            !.pc = "limit", !.kind = kind, !.to = n, !.port = p, !.start = start,
            !.name = IF kind = "createCustom" THEN x ELSE n])

\* A mutant: off by one.
Mut_LimitExceeded(n) == Cardinality(OnNode(n)) > MaxBots

\* CheckBotLimit for one more bot on the node, before a create or a move.
LimitExceeded(n) == Cardinality(OnNode(n)) >= MaxBots

AfterLimit(c) ==
    IF op[c].kind = "createCustom" THEN "newRuntime"
    ELSE IF op[c].kind # "createDefault" /\ IsCustom(op[c].row) THEN "readRuntime"
    ELSE "byName"

Limit(c) ==
    /\ op[c].pc = "limit"
    /\ IF LimitExceeded(op[c].to) THEN Return(c) ELSE Goto(c, AfterLimit(c))
    /\ UNCHANGED <<node, beat, rt, bot, ops, history>>

\* A mutant: a runtime with the name is used, whoever it belongs to.
Mut_CreateCustomRuntime(c) ==
    /\ op[c].pc = "newRuntime"
    /\ rt' = IF rt[op[c].name].exists THEN rt
             ELSE [rt EXCEPT ![op[c].name] = NewRuntime(op[c].to)]
    /\ Goto(c, "newBot")
    /\ UNCHANGED <<node, beat, bot, ops, history>>

\* Runtimes.Create; names are unique.
CreateCustomRuntime(c) ==
    /\ op[c].pc = "newRuntime"
    /\ IF rt[op[c].name].exists
       THEN Return(c) /\ UNCHANGED rt
       ELSE /\ rt' = [rt EXCEPT ![op[c].name] = NewRuntime(op[c].to)]
            /\ Goto(c, "newBot")
    /\ UNCHANGED <<node, beat, bot, ops, history>>

\* What the runner of the target is for.
AfterRunner(c) == Goto(c, IF op[c].kind = "createDefault" THEN "newBot" ELSE "assign")

\* getOrCreateBotRunner: ByName, then Create, which may come too late.
FindRunner(c) ==
    /\ op[c].pc = "byName"
    /\ \/ rt[op[c].to].exists /\ AfterRunner(c)
       \/ /\ rt[op[c].to].exists
          /\ op' = [op EXCEPT ![c] = [@ EXCEPT !.pc = "refresh", !.rtrow = rt[op[c].to]]]
       \/ ~rt[op[c].to].exists /\ Goto(c, "newRunner")
    /\ UNCHANGED <<node, beat, rt, bot, ops, history>>

\* ctl and migrations have another BOT_RUNNER_COMMAND than the row: the whole
\* row as read is written back with theirs.
RefreshRunner(c) ==
    /\ op[c].pc = "refresh"
    /\ rt' = [rt EXCEPT ![op[c].to] = op[c].rtrow]
    /\ AfterRunner(c)
    /\ UNCHANGED <<node, beat, bot, ops, history>>

CreateRunner(c) ==
    /\ op[c].pc = "newRunner"
    /\ IF rt[op[c].to].exists
       THEN Return(c) /\ UNCHANGED rt
       ELSE /\ rt' = [rt EXCEPT ![op[c].to] = NewRuntime(op[c].to)]
            /\ AfterRunner(c)
    /\ UNCHANGED <<node, beat, bot, ops, history>>

\* A custom runtime that is left without its bot keeps its name for ever.
Tear(c) == torn' = IF op[c].name \in Names THEN torn \cup {op[c].name} ELSE torn

\* Bots.Create; the port is unique in the whole store.
PortTaken(p) == \E i \in Ids : bot[i].exists /\ bot[i].port = p

CreateBot(c) ==
    /\ op[c].pc = "newBot"
    /\ \/ /\ PortTaken(op[c].port)
          /\ Return(c)
          /\ Tear(c)
          /\ UNCHANGED <<bot, touched>>
       \/ /\ ~PortTaken(op[c].port)
          /\ \E i \in Ids :
                /\ ~bot[i].exists
                /\ PutBot(i, [exists |-> TRUE, node |-> op[c].to, rt |-> op[c].name,
                              port |-> op[c].port, desired |-> "stopped"])
                /\ Touch(i)
                /\ IF op[c].start
                   THEN op' = [op EXCEPT ![c] = [@ EXCEPT !.pc = "startRead", !.id = {i}]]
                   ELSE Return(c)
          /\ UNCHANGED torn
    /\ UNCHANGED <<node, beat, rt, ops, patched>>

----------------------------------------------------------------------------
(* ops.StartWithLimit and ops.Stop.                                        *)

AfterStart(c) == IF op[c].kind = "drainTo" THEN Goto(c, "drainNext") ELSE Return(c)

BeginStart(c) ==
    \E i \in Ids : /\ "start" \in Kinds /\ bot[i].exists
                   /\ BeginWith(c, [NoRequest EXCEPT !.pc = "startLimit", !.id = {i},
                                                     !.row = bot[i]])

\* StartWithLimit at the end of a create or a migration reads the row itself.
StartRead(c) ==
    /\ op[c].pc = "startRead"
    /\ \E i \in Ids : Of(c, i) /\ op' = [op EXCEPT ![c] = [@ EXCEPT !.pc = "startLimit",
                                                                   !.row = bot[i]]]
    /\ UNCHANGED <<node, beat, rt, bot, ops, history>>

StartLimit(c) ==
    /\ op[c].pc = "startLimit"
    /\ IF Cardinality(OnNode(op[c].row.node)) > MaxBots THEN Return(c) ELSE Goto(c, "startBot")
    /\ UNCHANGED <<node, beat, rt, bot, ops, history>>

StartBot(c) ==
    /\ op[c].pc = "startBot"
    /\ \E i \in Ids : Of(c, i) /\ SetBot(i, "running") /\ Touch(i)
    /\ Goto(c, "startRuntime")
    /\ UNCHANGED <<node, beat, rt, ops, patched, torn>>

StartRuntime(c) ==
    /\ op[c].pc = "startRuntime"
    /\ SetRuntime(op[c].row.rt, "running")
    /\ AfterStart(c)
    /\ UNCHANGED <<node, beat, bot, ops, history>>

BeginStop(c) ==
    \E i \in Ids : /\ "stop" \in Kinds /\ bot[i].exists
                   /\ BeginWith(c, [NoRequest EXCEPT !.pc = "stopBot", !.kind = "stop",
                                                     !.id = {i}, !.row = bot[i]])

\* Stop of a drain or a migration reads the row itself.
StopRead(c) ==
    /\ op[c].pc = "stopRead"
    /\ \E i \in Ids : Of(c, i) /\ op' = [op EXCEPT ![c] = [@ EXCEPT !.pc = "stopBot",
                                                                   !.row = bot[i]]]
    /\ UNCHANGED <<node, beat, rt, bot, ops, history>>

StopBot(c) ==
    /\ op[c].pc = "stopBot"
    /\ \E i \in Ids : Of(c, i) /\ SetBot(i, "stopped")
    /\ Goto(c, IF IsCustom(op[c].row) THEN "stopRuntime" ELSE "others")
    /\ UNCHANGED <<node, beat, rt, ops, history>>

AfterStop(c) ==
    IF op[c].kind \in {"migrate", "drainTo"} THEN Goto(c, "reread")
    ELSE IF op[c].kind = "drain" THEN Goto(c, "drainNext") ELSE Return(c)

Others(c) ==
    /\ op[c].pc = "others"
    /\ IF \E i \in OfRuntime(op[c].row.rt) : ~Of(c, i) /\ bot[i].desired = "running"
       THEN AfterStop(c) ELSE Goto(c, "stopRuntime")
    /\ UNCHANGED <<node, beat, rt, bot, ops, history>>

StopRuntime(c) ==
    /\ op[c].pc = "stopRuntime"
    /\ SetRuntime(op[c].row.rt, "stopped")
    /\ AfterStop(c)
    /\ UNCHANGED <<node, beat, bot, ops, history>>

----------------------------------------------------------------------------
(* ops.Migrate.                                                            *)

BeginMigrate(c) ==
    \E i \in Ids, n \in Nodes :
        /\ "migrate" \in Kinds
        /\ bot[i].exists /\ bot[i].node # n
        /\ BeginWith(c, [NoRequest EXCEPT !.pc = "stopRead", !.kind = "migrate",
                                          !.id = {i}, !.to = n, !.row = bot[i]])

\* The wait is over; the row that will be written back.
Reread(c) ==
    /\ op[c].pc = "reread"
    /\ \E i \in Ids : Of(c, i) /\ op' = [op EXCEPT ![c] = [@ EXCEPT
                          !.pc = "limit", !.row = bot[i],
                          !.name = IF IsCustom(bot[i]) THEN bot[i].rt ELSE op[c].to]]
    /\ UNCHANGED <<node, beat, rt, bot, ops, history>>

ReadRuntime(c) ==
    /\ op[c].pc = "readRuntime"
    /\ op' = [op EXCEPT ![c] = [@ EXCEPT !.pc = "moveRuntime", !.rtrow = rt[op[c].name]]]
    /\ UNCHANGED <<node, beat, rt, bot, ops, history>>

\* Runtimes.Update of the whole row of a custom bot's runtime.
MoveRuntime(c) ==
    /\ op[c].pc = "moveRuntime"
    /\ rt' = [rt EXCEPT ![op[c].name] = [op[c].rtrow EXCEPT !.node = op[c].to,
                                                           !.desired = "stopped"]]
    /\ Goto(c, "assign")
    /\ UNCHANGED <<node, beat, bot, ops, history>>

\* Bots.Update of the whole row.
Assign(c) ==
    /\ op[c].pc = "assign"
    /\ \E i \in Ids :
          /\ Of(c, i)
          /\ PutBot(i, [op[c].row EXCEPT !.node = op[c].to, !.rt = op[c].name,
                                         !.desired = "stopped"])
          /\ Touch(i)
          /\ patched' = patched \ {i}
    /\ Goto(c, "startRead")
    /\ UNCHANGED <<node, beat, rt, ops, torn>>

----------------------------------------------------------------------------
(* handlePatchBot.                                                         *)

BeginPatch(c) ==
    \E i \in Ids, n \in Nodes, desired \in Desired :
        /\ "patch" \in Kinds
        /\ bot[i].exists
        /\ BeginWith(c, [NoRequest EXCEPT
              !.pc = "patch", !.kind = "patch", !.id = {i},
              !.row = [bot[i] EXCEPT !.node = n, !.desired = desired]])

\* The whole row as read goes back, whatever happened to the bot since; no
\* limit is looked at and the runtime stays where it is.
Patch(c) ==
    /\ op[c].pc = "patch"
    /\ \E i \in Ids :
          /\ Of(c, i)
          /\ PutBot(i, op[c].row)
          /\ patched' = IF bot[i].node # op[c].row.node \/ bot[i].rt # op[c].row.rt
                        THEN patched \cup {i} ELSE patched
          /\ IF bot[i].desired = op[c].row.desired /\ bot[i].node = op[c].row.node
             THEN UNCHANGED touched ELSE Touch(i)
    /\ Return(c)
    /\ UNCHANGED <<node, beat, rt, ops, torn>>

----------------------------------------------------------------------------
(* drain-node, and the heartbeat of the agents.                            *)

BeginDrain(c) ==
    \E kind \in Kinds \cap {"drain", "drainTo"}, n, m \in Nodes :
        /\ n # m
        /\ BeginWith(c, [NoRequest EXCEPT !.pc = "drain", !.kind = kind, !.from = n,
                                          !.to = m])

\* The row of the node is written back with a new status, or made.
SetDraining(c) ==
    /\ op[c].pc = "drain"
    /\ node' = [node EXCEPT ![op[c].from] = "draining"]
    /\ Goto(c, "drainList")
    /\ UNCHANGED <<beat, rt, bot, ops, history>>

\* A mutant: only the bots of the runner are listed.
Mut_DrainList(c) ==
    /\ op[c].pc = "drainList"
    /\ LET list == {i \in OnNode(op[c].from) :
                       op[c].kind = "drainTo" \/ (~IsCustom(bot[i]) /\ bot[i].desired = "running")} IN
       op' = [op EXCEPT ![c] = [@ EXCEPT !.pc = "drainNext", !.todo = list]]
    /\ touched' = [touched EXCEPT ![c] = {}]
    /\ UNCHANGED <<node, beat, rt, bot, ops, patched, torn>>

\* Bots that are stopped already are skipped, unless they are to be moved.
DrainList(c) ==
    /\ op[c].pc = "drainList"
    /\ LET list == {i \in OnNode(op[c].from) :
                       op[c].kind = "drainTo" \/ bot[i].desired = "running"} IN
       op' = [op EXCEPT ![c] = [@ EXCEPT !.pc = "drainNext", !.todo = list]]
    /\ touched' = [touched EXCEPT ![c] = {}]
    /\ UNCHANGED <<node, beat, rt, bot, ops, patched, torn>>

\* A mutant: the bot is not read before it is stopped.
Mut_DrainNext(c) ==
    /\ op[c].pc = "drainNext"
    /\ \E i \in op[c].todo :
          op' = [op EXCEPT ![c] = [@ EXCEPT !.pc = "stopBot", !.id = {i}, !.todo = op[c].todo \ {i}]]
    /\ UNCHANGED <<node, beat, rt, bot, ops, history>>

\* The next bot of the list; a bot that is there already ends drain --to-node.
DrainNext(c) ==
    /\ op[c].pc = "drainNext"
    /\ \E i \in op[c].todo :
          IF op[c].kind = "drainTo" /\ bot[i].node = op[c].to
          THEN Return(c)
          ELSE op' = [op EXCEPT ![c] = [@ EXCEPT !.pc = "stopRead", !.id = {i},
                                                 !.todo = op[c].todo \ {i}]]
    /\ UNCHANGED <<node, beat, rt, bot, ops, history>>

DrainDone(c) ==
    /\ op[c].pc = "drainNext"
    /\ op[c].todo = {}
    /\ Return(c)
    /\ UNCHANGED <<node, beat, rt, bot, ops, history>>

\* The agent comes up: Upsert with status online.
AgentStarts(n) ==
    /\ beat[n] = "down"
    /\ node' = [node EXCEPT ![n] = "online"]
    /\ beat' = [beat EXCEPT ![n] = "up"]
    /\ UNCHANGED <<rt, bot, op, ops, history>>

\* The agent is stopped, or killed, and what it has read is gone.
AgentEnds(n) ==
    /\ beat[n] # "down"
    /\ beat' = [beat EXCEPT ![n] = "down"]
    /\ UNCHANGED <<node, rt, bot, op, ops, history>>

\* Heartbeat reads the status and writes it back: two calls.
HeartbeatReads(n) ==
    /\ beat[n] = "up"
    /\ beat' = [beat EXCEPT ![n] = node[n]]
    /\ UNCHANGED <<node, rt, bot, op, ops, history>>

\* A mutant: the status is always online.
Mut_HeartbeatWrites(n) ==
    /\ beat[n] \in {"online", "draining"}
    /\ node' = [node EXCEPT ![n] = "online"]
    /\ beat' = [beat EXCEPT ![n] = "up"]
    /\ UNCHANGED <<rt, bot, op, ops, history>>

HeartbeatWrites(n) ==
    /\ beat[n] \in {"online", "draining"}
    /\ node' = [node EXCEPT ![n] = beat[n]]
    /\ beat' = [beat EXCEPT ![n] = "up"]
    /\ UNCHANGED <<rt, bot, op, ops, history>>

----------------------------------------------------------------------------

\* The request ends between two calls.
Abandon(c) ==
    /\ op[c].pc # "idle"
    /\ Return(c)
    /\ IF op[c].pc \in {"newBot", "assign"} THEN Tear(c) ELSE UNCHANGED torn
    /\ UNCHANGED <<node, beat, rt, bot, ops, patched, touched>>

Request(c) ==
    \/ BeginCreate(c) \/ Limit(c) \/ CreateCustomRuntime(c) \/ FindRunner(c)
    \/ RefreshRunner(c) \/ CreateRunner(c) \/ CreateBot(c)
    \/ BeginStart(c) \/ StartRead(c) \/ StartLimit(c) \/ StartBot(c) \/ StartRuntime(c)
    \/ BeginStop(c) \/ StopRead(c) \/ StopBot(c) \/ Others(c) \/ StopRuntime(c)
    \/ BeginMigrate(c) \/ Reread(c) \/ ReadRuntime(c) \/ MoveRuntime(c) \/ Assign(c)
    \/ BeginPatch(c) \/ Patch(c)
    \/ BeginDrain(c) \/ SetDraining(c) \/ DrainList(c) \/ DrainNext(c) \/ DrainDone(c)
    \/ Abandon(c)

Next ==
    \/ \E c \in Clients : Request(c)
    \/ \E n \in Agents : AgentStarts(n) \/ AgentEnds(n) \/ HeartbeatReads(n) \/ HeartbeatWrites(n)

Spec == Init /\ [][Next]_vars

----------------------------------------------------------------------------

Pcs == {"idle", "limit", "newRuntime", "byName", "refresh", "newRunner", "newBot", "startRead",
        "startLimit", "startBot", "startRuntime", "stopRead", "stopBot", "others",
        "stopRuntime", "reread", "readRuntime", "moveRuntime", "assign", "patch",
        "drain", "drainList", "drainNext"}

BotRow == {NoBot} \cup
    [exists : {TRUE}, node : Nodes, rt : RuntimeNames, port : Ports, desired : Desired]

RuntimeRow == {NoRuntime} \cup [exists : {TRUE}, node : Nodes, desired : Desired]

Requests == [pc : Pcs, kind : AllKinds, id : {{}} \cup {{i} : i \in Ids},
             from : Nodes \cup {"none"}, to : Nodes \cup {"none"}, name : RuntimeNames \cup {"none"},
             port : Ports \cup {"none"}, start : BOOLEAN,
             row : BotRow, rtrow : RuntimeRow, todo : SUBSET Ids]

\* Where a request works with the row it has read.
WithRow == {"startLimit", "startBot", "startRuntime", "stopBot", "others", "stopRuntime",
            "readRuntime", "moveRuntime", "assign", "patch"}

\* Types; a request never works with a row it has not read.
TypeOK ==
    /\ node \in [Nodes -> {"absent", "online", "draining"}]
    /\ beat \in [Nodes -> {"down", "up", "online", "draining"}]
    /\ rt \in [RuntimeNames -> RuntimeRow]
    /\ bot \in [Ids -> BotRow]
    /\ op \in [Clients -> Requests]
    /\ \A c \in Clients : op[c].pc \in WithRow => op[c].row.exists
    /\ ops \in Nat
    /\ patched \subseteq Ids /\ torn \subseteq Names
    /\ touched \in [Clients -> SUBSET Ids]

\* Bots that a create or a migration has put on the node.
Placed(n) == {i \in OnNode(n) : i \notin patched}

\* The limit is looked at before the bot is placed: concurrent requests may
\* exceed it, each by one bot, and no history of requests by more.  A PATCH of
\* the node goes around the limit.
LimitBounded ==
    \A n \in Nodes : Cardinality(Placed(n)) <= MaxBots + Cardinality(Clients) - 1

\* The request of c makes the runtime x and has not made its bot yet.
Making(c, x) == op[c].pc = "newBot" /\ op[c].kind = "createCustom" /\ op[c].name = x

\* The rows of bots and runtimes fit together, whatever requests interleave,
\* fail and are given up: a bot has a runtime that exists and a port of its own,
\* a custom runtime has one bot, or it is being made, or a request that ended
\* between its two writes has left it behind, its name taken.
RowsFit ==
    /\ \A i \in Ids : bot[i].exists => rt[bot[i].rt].exists
    /\ \A i, j \in Ids : bot[i].exists /\ bot[j].exists /\ bot[i].port = bot[j].port => i = j
    /\ \A i, j \in Ids : /\ bot[i].exists /\ bot[j].exists
                         /\ bot[i].rt = bot[j].rt /\ bot[i].rt \in Names
                         => i = j
    /\ \A x \in Names : /\ rt[x].exists
                        /\ \A i \in Ids : bot[i].exists => bot[i].rt # x
                        => x \in torn \/ \E c \in Clients : Making(c, x)

\* The status draining ends with a start of the agent, or with one heartbeat
\* that had read the status before the drain.
DrainHolds ==
    [][ \A n \in Nodes : node[n] = "draining" /\ node'[n] # "draining"
            => beat[n] \in {"down", "online"} ]_vars

\* When drain-node is done, a bot that still wants to run on the node (with
\* --to-node: that is still there) was started or placed by somebody else since
\* drain-node had listed the bots.
DrainEmpties ==
    [][ \A c \in Clients : DrainDone(c) =>
            \A i \in OnNode(op[c].from) :
                op[c].kind = "drainTo" \/ bot[i].desired = "running" => i \in touched[c] ]_vars
=============================================================================
