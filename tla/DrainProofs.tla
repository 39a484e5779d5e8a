---------------------------- MODULE DrainProofs ----------------------------
(***************************************************************************)
(* drain-node, for any number of nodes, bots and requests: the status of   *)
(* the node stays until an agent may have overwritten it, and no bot of    *)
(* the list is lost on the way.                                            *)
(***************************************************************************)
EXTENDS RegistryProofs

\* The status draining ends with a start of the agent, or with a heartbeat that
\* had read the status before the drain (Heartbeat of internal/reconcile/loop.go).
THEOREM DrainStays == Spec => DrainHolds
<1>1. ASSUME FitInv, [Next]_vars, NEW n \in Nodes, node[n] = "draining", node'[n] # "draining"
      PROVE  beat[n] \in {"down", "online"}
  <2>1. node \in [Nodes -> {"absent", "online", "draining"}]
    BY <1>1 DEF FitInv, TypeOK
  <2>2. ASSUME NEW c \in Clients, Request(c) PROVE FALSE
    <3>1. node' = node \/ node' = [node EXCEPT ![op[c].from] = "draining"]
      BY <2>2 DEF Request, BeginCreate, BeginStart, BeginStop, BeginMigrate, BeginPatch, BeginDrain,
                  BeginWith, Limit, CreateCustomRuntime, FindRunner, RefreshRunner, CreateRunner,
                  CreateBot, StartRead, StartLimit, StartBot, StartRuntime, StopRead, StopBot, Others,
                  StopRuntime, Reread, ReadRuntime, MoveRuntime, Assign, Patch, SetDraining,
                  DrainList, DrainNext, DrainDone, Abandon
    <3>2. QED
      BY <1>1, <2>1, <3>1
  <2>3. ASSUME NEW m \in Agents,
               AgentStarts(m) \/ AgentEnds(m) \/ HeartbeatReads(m) \/ HeartbeatWrites(m)
        PROVE  beat[n] \in {"down", "online"}
    BY <1>1, <2>1, <2>3 DEF AgentStarts, AgentEnds, HeartbeatReads, HeartbeatWrites
  <2>4. QED
    BY <1>1, <2>2, <2>3 DEF Next, vars
<1>2. FitInv /\ [Next]_vars => [ \A n \in Nodes : node[n] = "draining" /\ node'[n] # "draining"
                                    => beat[n] \in {"down", "online"} ]_vars
  BY <1>1
<1>3. QED
  BY <1>2, Fit, PTL DEF Spec, DrainHolds

----------------------------------------------------------------------------

\* A drain that has its list.
Listed(c) == Drains(c) /\ op[c].pc \notin {"drain", "drainList"}

\* Where the bot that a drain has taken from its list is still to be stopped,
\* or still to be moved.
Hand(kind) == {"stopRead", "stopBot"} \cup
    IF kind = "drainTo"
    THEN {"others", "stopRuntime", "reread", "limit", "byName", "refresh", "newRunner",
          "readRuntime", "moveRuntime", "assign"}
    ELSE {}

InHand(c) == IF op[c].pc \in Hand(op[c].kind) THEN op[c].id ELSE {}

\* What drain-node is about.
Wanted(c) == {i \in OnNode(op[c].from) : op[c].kind = "drainTo" \/ bot[i].desired = "running"}

NoneLost ==
    \A c \in Clients : Listed(c) => Wanted(c) \subseteq op[c].todo \cup InHand(c) \cup touched[c]

\* Bots that come to a node or that are started are noted by every drain.
Noted ==
    /\ \A d \in Clients : Drains(d) => touched[d] \subseteq touched'[d]
    /\ \A i \in Ids, n \in Nodes :
          i \in OnNode(n)' =>
             \/ i \in OnNode(n) /\ (bot'[i].desired = "running" => bot[i].desired = "running")
             \/ \A d \in Clients : Drains(d) => i \in touched'[d]

\* A step of c that leaves its list and the bot in its hand alone.
Carries(c) ==
    /\ \A d \in Clients : d # c => op'[d] = op[d]
    /\ Listed(c)' =>
          /\ Listed(c)
          /\ op'[c].kind = op[c].kind /\ op'[c].from = op[c].from
          /\ op'[c].id = op[c].id /\ op'[c].todo = op[c].todo
          /\ op[c].pc \in Hand(op[c].kind) => op'[c].pc \in Hand(op[c].kind)

LEMMA FromNode ==
    ASSUME FitInv, NEW c \in Clients, Drains(c)
    PROVE  op[c].from \in Nodes
  BY Typed DEF Drains, RequestOK, Draining

\* The other requests lose nothing.
LEMMA OthersLoseNothing ==
    ASSUME FitInv, NoneLost, Noted, NEW d \in Clients, op'[d] = op[d], Listed(d)'
    PROVE  Wanted(d)' \subseteq op'[d].todo \cup InHand(d)' \cup touched'[d]
<1>1. Listed(d) /\ Drains(d)
  BY DEF Listed, Drains
<1>2. op[d].from \in Nodes /\ Wanted(d) \subseteq op[d].todo \cup InHand(d) \cup touched[d]
  BY <1>1, FromNode DEF NoneLost
<1>3. InHand(d)' = InHand(d) /\ touched[d] \subseteq touched'[d]
  BY <1>1 DEF InHand, Noted
<1>4. ASSUME NEW i \in Wanted(d)' PROVE i \in Wanted(d) \/ i \in touched'[d]
  BY <1>1, <1>2, <1>4 DEF Wanted, Noted, OnNode
<1>5. QED
  BY <1>2, <1>3, <1>4

LEMMA CarriedOn ==
    ASSUME FitInv, NoneLost, Noted, NEW c \in Clients, Carries(c)
    PROVE  NoneLost'
<1>1. ASSUME NEW d \in Clients, Listed(d)'
      PROVE  Wanted(d)' \subseteq op'[d].todo \cup InHand(d)' \cup touched'[d]
  <2>1. CASE d # c
    BY <1>1, <2>1, OthersLoseNothing DEF Carries
  <2>2. CASE d = c
    <3>1. Listed(c) /\ Drains(c) /\ op'[c].from = op[c].from /\ op'[c].kind = op[c].kind
      BY <1>1, <2>2 DEF Carries, Listed
    <3>2. op[c].from \in Nodes /\ Wanted(c) \subseteq op[c].todo \cup InHand(c) \cup touched[c]
      BY <3>1, FromNode DEF NoneLost
    <3>3. InHand(c) \subseteq InHand(c)' /\ touched[c] \subseteq touched'[c] /\ op'[c].todo = op[c].todo
      BY <1>1, <2>2, <3>1 DEF InHand, Noted, Carries
    <3>4. ASSUME NEW i \in Wanted(c)' PROVE i \in Wanted(c) \/ i \in touched'[c]
      BY <3>1, <3>2, <3>4 DEF Wanted, Noted, OnNode
    <3>5. QED
      BY <2>2, <3>2, <3>3, <3>4
  <2>3. QED
    BY <2>1, <2>2
<1>2. QED
  BY <1>1 DEF NoneLost

LEMMA SameNoted ==
    ASSUME UNCHANGED <<bot, touched>>
    PROVE  Noted
<1>1. \A n : OnNode(n)' = OnNode(n)
  BY DEF OnNode
<1>2. \A d : touched[d] \subseteq touched'[d]
  OBVIOUS
<1>3. \A i : bot'[i] = bot[i]
  OBVIOUS
<1>4. QED
  BY <1>1, <1>2, <1>3 DEF Noted

LEMMA TouchNoted ==
    ASSUME FitInv, NEW i \in Ids, NEW row, bot' = [bot EXCEPT ![i] = row], Touch(i)
    PROVE  Noted /\ \A d \in Clients : Drains(d) => i \in touched'[d]
<1>1. \A d \in Clients : Drains(d) => touched'[d] = touched[d] \cup {i}
  BY DEF Touch
<1>2. \A j \in Ids : bot'[j] = IF j = i THEN row ELSE bot[j]
  BY DEF FitInv, TypeOK
<1>3. QED
  BY <1>1, <1>2 DEF Noted, OnNode

LEMMA ReturnCarries ==
    ASSUME FitInv, NEW c \in Clients, Return(c)
    PROVE  Carries(c)
  BY Typed DEF Return, Carries, Listed, Drains, NoRequest

LEMMA GotoCarries ==
    ASSUME FitInv, NEW c \in Clients, NEW l \in Pcs, Goto(c, l),
           l # "drainList" => op[c].pc \notin {"drain", "drainList"},
           Drains(c) /\ op[c].pc \in Hand(op[c].kind) => l \in Hand(op[c].kind)
    PROVE  Carries(c)
<1>1. PICK q \in Requests : op' = [op EXCEPT ![c] = q] /\ At(q, op[c], l)
  BY GotoRequest
<1>2. op'[c] = q /\ \A d \in Clients : d # c => op'[d] = op[d]
  BY <1>1, Typed
<1>3. QED
  BY <1>1, <1>2 DEF Carries, Listed, Drains, At, Keeps

\* What begins has no list yet.
LEMMA BeginCarries ==
    ASSUME FitInv, NEW c \in Clients,
           BeginCreate(c) \/ BeginStart(c) \/ BeginStop(c) \/ BeginMigrate(c) \/ BeginPatch(c) \/ BeginDrain(c)
    PROVE  Carries(c) /\ UNCHANGED <<bot, touched>>
<1>1. ASSUME NEW q, BeginWith(c, q), q.kind \notin Draining \/ q.pc = "drain"
      PROVE  Carries(c) /\ UNCHANGED <<bot, touched>>
  <2>1. op'[c] = q /\ \A d \in Clients : d # c => op'[d] = op[d]
    BY <1>1, Typed DEF BeginWith
  <2>2. UNCHANGED <<bot, touched>>
    BY <1>1 DEF BeginWith, history
  <2>3. QED
    BY <1>1, <2>1, <2>2 DEF Carries, Listed, Drains, Draining
<1>2. CASE BeginCreate(c)
  BY <1>1, <1>2 DEF BeginCreate, NoRequest, Draining
<1>3. CASE BeginStart(c)
  BY <1>1, <1>3 DEF BeginStart, NoRequest, Draining
<1>4. CASE BeginStop(c)
  BY <1>1, <1>4 DEF BeginStop, NoRequest, Draining
<1>5. CASE BeginMigrate(c)
  BY <1>1, <1>5 DEF BeginMigrate, NoRequest, Draining
<1>6. CASE BeginPatch(c)
  BY <1>1, <1>6 DEF BeginPatch, NoRequest, Draining
<1>7. CASE BeginDrain(c)
  BY <1>1, <1>7 DEF BeginDrain, NoRequest, Draining
<1>8. QED
  BY <1>2, <1>3, <1>4, <1>5, <1>6, <1>7

\* Calls that read a row go on with the bot in hand.
LEMMA ReadCarries ==
    ASSUME FitInv, NEW c \in Clients, StartRead(c) \/ StopRead(c) \/ Reread(c) \/ ReadRuntime(c)
    PROVE  Carries(c) /\ UNCHANGED <<bot, touched>>
<1>1. ASSUME NEW q \in Requests, op' = [op EXCEPT ![c] = q], Keeps(q, op[c]),
             q.id = op[c].id, q.todo = op[c].todo,
             op[c].pc \notin {"drain", "drainList"},
             Drains(c) /\ op[c].pc \in Hand(op[c].kind) => q.pc \in Hand(op[c].kind)
      PROVE  Carries(c)
  <2>1. op'[c] = q /\ \A d \in Clients : d # c => op'[d] = op[d]
    BY <1>1, Typed
  <2>2. QED
    BY <1>1, <2>1 DEF Carries, Listed, Drains, Keeps
<1>2. ASSUME NEW l \in {"startLimit", "stopBot"}, NEW i \in Ids,
             op' = [op EXCEPT ![c] = [@ EXCEPT !.pc = l, !.row = bot[i]]],
             op[c].pc \notin {"drain", "drainList"}, op[c].pc \in Hand(op[c].kind) => l \in Hand(op[c].kind)
      PROVE  Carries(c)
  <2> DEFINE q == WithBot(op[c], l, bot[i])
  <2>1. op' = [op EXCEPT ![c] = q] /\ q = WithBot(op[c], l, bot[i])
    BY <1>2, Zenon DEF WithBot
  <2> HIDE DEF q
  <2>2. /\ Keeps(q, op[c]) /\ q.pc = l /\ q.id = op[c].id /\ q.todo = op[c].todo
    BY <2>1, PutRow, Typed DEF Pcs
  <2>3. q \in Requests
    BY <2>2 DEF Keeps
  <2>4. QED
    BY <1>1, <1>2, <2>1, <2>2, <2>3
<1>3. CASE StartRead(c)
  <2>1. op[c].pc = "startRead" /\ UNCHANGED <<bot, touched>>
    BY <1>3 DEF StartRead, history
  <2>2. PICK i \in Ids : op' = [op EXCEPT ![c] = [@ EXCEPT !.pc = "startLimit", !.row = bot[i]]]
    BY <1>3, Zenon DEF StartRead
  <2>3. QED
    BY <1>2, <2>1, <2>2 DEF Hand
<1>4. CASE StopRead(c)
  <2>1. op[c].pc = "stopRead" /\ UNCHANGED <<bot, touched>>
    BY <1>4 DEF StopRead, history
  <2>2. PICK i \in Ids : op' = [op EXCEPT ![c] = [@ EXCEPT !.pc = "stopBot", !.row = bot[i]]]
    BY <1>4, Zenon DEF StopRead
  <2>3. QED
    BY <1>2, <2>1, <2>2 DEF Hand
<1>5. CASE Reread(c)
  <2>1. op[c].pc = "reread" /\ UNCHANGED <<bot, touched>> /\ op[c].to \in Nodes
    BY <1>5, Typed DEF Reread, history, RequestOK
  <2>2. PICK i \in Ids : op' = [op EXCEPT ![c] = [@ EXCEPT
                          !.pc = "limit", !.row = bot[i],
                          !.name = IF IsCustom(bot[i]) THEN bot[i].rt ELSE op[c].to]]
    BY <1>5, Zenon DEF Reread
  <2> DEFINE x == IF IsCustom(bot[i]) THEN bot[i].rt ELSE op[c].to
             q == WithBotName(op[c], "limit", bot[i], x)
  <2>3. op' = [op EXCEPT ![c] = q] /\ q = WithBotName(op[c], "limit", bot[i], x)
    BY <2>2, Zenon DEF WithBotName
  <2>4. x \in RuntimeNames
    BY <2>1 DEF IsCustom, RuntimeNames
  <2> HIDE DEF x, q
  <2>5. /\ Keeps(q, op[c]) /\ q.pc = "limit" /\ q.id = op[c].id /\ q.todo = op[c].todo
    BY <2>3, <2>4, PutRowName, Typed DEF Pcs
  <2>6. q \in Requests
    BY <2>5 DEF Keeps
  <2>7. op[c].pc \in Hand(op[c].kind) => q.pc \in Hand(op[c].kind)
    BY <2>1, <2>5 DEF Hand
  <2>8. QED
    BY <1>1, <2>1, <2>3, <2>5, <2>6, <2>7
<1>6. CASE ReadRuntime(c)
  <2>1. op[c].pc = "readRuntime" /\ UNCHANGED <<bot, touched>>
    BY <1>6 DEF ReadRuntime, history
  <2> DEFINE q == WithRuntime(op[c], "moveRuntime", rt[op[c].name])
  <2>2. op' = [op EXCEPT ![c] = q] /\ q = WithRuntime(op[c], "moveRuntime", rt[op[c].name])
    BY <1>6, Zenon DEF ReadRuntime, WithRuntime
  <2> HIDE DEF q
  <2>3. rt[op[c].name] \in RuntimeRow
    BY <2>1, Typed DEF RequestOK, RightName, WithRow, IsCustom, RuntimeNames
  <2>4. /\ Keeps(q, op[c]) /\ q.pc = "moveRuntime" /\ q.id = op[c].id /\ q.todo = op[c].todo
    BY <2>2, <2>3, PutRuntimeRow, Typed DEF Pcs
  <2>5. q \in Requests
    BY <2>4 DEF Keeps
  <2>6. op[c].pc \in Hand(op[c].kind) => q.pc \in Hand(op[c].kind)
    BY <2>1, <2>4 DEF Hand
  <2>7. QED
    BY <1>1, <2>1, <2>2, <2>4, <2>5, <2>6
<1>7. QED
  BY <1>3, <1>4, <1>5, <1>6

\* Calls that go on or return and write no bot.
LEMMA CallCarries ==
    ASSUME FitInv, NEW c \in Clients,
           \/ Limit(c) \/ CreateCustomRuntime(c) \/ FindRunner(c) \/ RefreshRunner(c) \/ CreateRunner(c)
           \/ StartLimit(c) \/ StartRuntime(c) \/ Others(c) \/ StopRuntime(c) \/ MoveRuntime(c)
           \/ SetDraining(c) \/ DrainDone(c)
    PROVE  Carries(c) /\ UNCHANGED <<bot, touched>>
<1>1. CASE Limit(c)
  <2>1. op[c].pc = "limit" /\ AfterLimit(c) \in {"newRuntime", "readRuntime", "byName"} /\ UNCHANGED <<bot, touched>>
    BY <1>1 DEF Limit, AfterLimit, history
  <2>2. Drains(c) => AfterLimit(c) # "newRuntime"
    BY DEF AfterLimit, Drains
  <2>3. CASE Goto(c, AfterLimit(c))
    <3>1. Drains(c) /\ op[c].pc \in Hand(op[c].kind) => AfterLimit(c) \in Hand(op[c].kind)
      BY <2>1, <2>2 DEF Hand
    <3>2. AfterLimit(c) \in Pcs
      BY <2>1 DEF Pcs
    <3>3. QED
      BY <2>1, <2>3, <3>1, <3>2, GotoCarries
  <2>4. QED
    BY <1>1, <2>1, <2>3, ReturnCarries DEF Limit
<1>2. CASE CreateCustomRuntime(c)
  BY <1>2, ReturnCarries, GotoCarries DEF CreateCustomRuntime, Pcs, Hand, history
<1>3. ASSUME AfterRunner(c), op[c].pc \in {"byName", "refresh", "newRunner"} PROVE Carries(c)
  <2> DEFINE l == IF op[c].kind = "createDefault" THEN "newBot" ELSE "assign"
  <2>1. Goto(c, l) /\ l \in Pcs /\ l # "drainList"
    BY <1>3 DEF AfterRunner, Pcs
  <2>2. Drains(c) /\ op[c].pc \in Hand(op[c].kind) => l \in Hand(op[c].kind)
    BY <1>3 DEF Drains, Hand
  <2> HIDE DEF l
  <2>3. QED
    BY <1>3, <2>1, <2>2, GotoCarries
<1>4. CASE FindRunner(c)
  <2>1. op[c].pc = "byName" /\ UNCHANGED <<bot, touched>>
    BY <1>4 DEF FindRunner, history
  <2>2. CASE op' = [op EXCEPT ![c] = [@ EXCEPT !.pc = "refresh", !.rtrow = rt[op[c].to]]]
    <3> DEFINE q == WithRuntime(op[c], "refresh", rt[op[c].to])
    <3>1. op' = [op EXCEPT ![c] = q] /\ q = WithRuntime(op[c], "refresh", rt[op[c].to])
      BY <2>2, Zenon DEF WithRuntime
    <3> HIDE DEF q
    <3>2. rt[op[c].to] \in RuntimeRow
      BY <2>1, AfterRunnerOK, Typed DEF RuntimeNames
    <3>3. /\ Keeps(q, op[c]) /\ q.pc = "refresh" /\ q.id = op[c].id /\ q.todo = op[c].todo
      BY <3>1, <3>2, PutRuntimeRow, Typed DEF Pcs
    <3>4. op'[c] = q /\ \A d \in Clients : d # c => op'[d] = op[d]
      BY <3>1, Typed
    <3>5. op[c].pc \in Hand(op[c].kind) => q.pc \in Hand(op[c].kind)
      BY <2>1, <3>3 DEF Hand
    <3>6. QED
      BY <2>1, <3>3, <3>4, <3>5 DEF Carries, Listed, Drains, Keeps
  <2>3. CASE Goto(c, "newRunner")
    BY <2>1, <2>3, GotoCarries DEF Pcs, Hand
  <2>4. QED
    BY <1>3, <1>4, <2>1, <2>2, <2>3 DEF FindRunner
<1>5. CASE RefreshRunner(c)
  BY <1>3, <1>5 DEF RefreshRunner, history
<1>6. CASE CreateRunner(c)
  BY <1>3, <1>6, ReturnCarries DEF CreateRunner, history
<1>7. CASE StartLimit(c)
  BY <1>7, ReturnCarries, GotoCarries DEF StartLimit, Pcs, Hand, history
<1>8. CASE StartRuntime(c)
  BY <1>8, ReturnCarries, GotoCarries DEF StartRuntime, AfterStart, Pcs, Hand, history
<1>9. ASSUME AfterStop(c), op[c].pc \in {"others", "stopRuntime"} PROVE Carries(c)
  BY <1>9, ReturnCarries, GotoCarries DEF AfterStop, Pcs, Hand
<1>10. CASE Others(c)
  BY <1>9, <1>10, GotoCarries DEF Others, Pcs, Hand, history
<1>11. CASE StopRuntime(c)
  BY <1>9, <1>11 DEF StopRuntime, history
<1>12. CASE MoveRuntime(c)
  BY <1>12, GotoCarries DEF MoveRuntime, Pcs, Hand, history
<1>13. CASE SetDraining(c)
  BY <1>13, GotoCarries DEF SetDraining, Pcs, Hand, history
<1>14. CASE DrainDone(c)
  BY <1>14, ReturnCarries DEF DrainDone, history
<1>15. QED
  BY <1>1, <1>2, <1>4, <1>5, <1>6, <1>7, <1>8, <1>10, <1>11, <1>12, <1>13, <1>14

----------------------------------------------------------------------------
(* Steps that write a bot.                                                 *)

\* The bot that is made is noted.
LEMMA CreateBotNotes ==
    ASSUME FitInv, NEW c \in Clients, CreateBot(c)
    PROVE  Carries(c) /\ Noted
<1> DEFINE row == [exists |-> TRUE, node |-> op[c].to, rt |-> op[c].name,
                   port |-> op[c].port, desired |-> "stopped"]
<1>1. op[c].kind \in Creating /\ op[c].pc = "newBot"
  BY Typed DEF CreateBot, RequestOK
<1>2. CASE Return(c) /\ UNCHANGED <<bot, touched>>
  BY <1>2, ReturnCarries, SameNoted
<1>3. CASE \E i \in Ids :
              /\ bot' = [bot EXCEPT ![i] = row] /\ Touch(i)
              /\ op' = [op EXCEPT ![c] = [@ EXCEPT !.pc = "startRead", !.id = {i}]] \/ Return(c)
  <2>1. PICK i \in Ids :
              /\ bot' = [bot EXCEPT ![i] = row] /\ Touch(i)
              /\ op' = [op EXCEPT ![c] = [@ EXCEPT !.pc = "startRead", !.id = {i}]] \/ Return(c)
    BY <1>3
  <2>2. Noted
    BY <2>1, TouchNoted
  <2>3. CASE op' = [op EXCEPT ![c] = [@ EXCEPT !.pc = "startRead", !.id = {i}]]
    <3>1. op'[c].kind = op[c].kind /\ \A d \in Clients : d # c => op'[d] = op[d]
      BY <2>3, Typed DEF Requests
    <3>2. QED
      BY <1>1, <2>2, <3>1 DEF Carries, Listed, Drains, Creating
  <2>4. QED
    BY <2>1, <2>2, <2>3, ReturnCarries
<1>4. QED
  BY <1>2, <1>3, Zenon DEF CreateBot, PutBot

LEMMA StartBotNotes ==
    ASSUME FitInv, NEW c \in Clients, StartBot(c)
    PROVE  Carries(c) /\ Noted
<1>1. PICK i \in Ids : SetBot(i, "running") /\ Touch(i)
  BY Zenon DEF StartBot
<1>2. bot' = [bot EXCEPT ![i] = [bot[i] EXCEPT !.desired = "running"]]
  BY <1>1, Zenon DEF SetBot
<1>3. Noted
  BY <1>1, <1>2, TouchNoted
<1>4. QED
  BY <1>3, GotoCarries DEF StartBot, Pcs, Hand

LEMMA PatchNotes ==
    ASSUME FitInv, NEW c \in Clients, Patch(c)
    PROVE  Carries(c) /\ Noted
<1>1. PICK i \in Ids :
          /\ op[c].id = {i}
          /\ bot' = [bot EXCEPT ![i] = op[c].row]
          /\ IF bot[i].desired = op[c].row.desired /\ bot[i].node = op[c].row.node
             THEN UNCHANGED touched ELSE Touch(i)
  BY Zenon DEF Patch, Of, PutBot
<1>2. Carries(c)
  BY ReturnCarries DEF Patch
<1>3. CASE Touch(i)
  BY <1>1, <1>2, <1>3, TouchNoted
<1>4. CASE touched' = touched /\ bot[i].desired = op[c].row.desired /\ bot[i].node = op[c].row.node
  <2>1. bot[i].exists
    BY <1>1, Typed DEF RequestOK
  <2>2. \A j \in Ids : /\ bot'[j].desired = bot[j].desired /\ bot'[j].node = bot[j].node
                       /\ bot'[j].exists => bot[j].exists
    BY <1>1, <1>4, <2>1, Typed
  <2>3. Noted
    BY <1>4, <2>2 DEF Noted, OnNode
  <2>4. QED
    BY <1>2, <2>3
<1>5. QED
  BY <1>1, <1>3, <1>4

----------------------------------------------------------------------------
(* Steps that take a bot from the list, stop it or move it.                *)

\* The other drains keep what they have, and c has lost nothing either.
LEMMA OwnStep ==
    ASSUME FitInv, NoneLost, Noted, NEW c \in Clients, \A d \in Clients : d # c => op'[d] = op[d],
           Listed(c)' => Wanted(c)' \subseteq op'[c].todo \cup InHand(c)' \cup touched'[c]
    PROVE  NoneLost'
<1>1. ASSUME NEW d \in Clients, Listed(d)'
      PROVE  Wanted(d)' \subseteq op'[d].todo \cup InHand(d)' \cup touched'[d]
  BY <1>1, OthersLoseNothing
<1>2. QED
  BY <1>1 DEF NoneLost

LEMMA DrainListLosesNothing ==
    ASSUME FitInv, NoneLost, NEW c \in Clients, DrainList(c)
    PROVE  NoneLost'
<1> DEFINE list == {i \in OnNode(op[c].from) : op[c].kind = "drainTo" \/ bot[i].desired = "running"}
           q == WithTodo(op[c], "drainNext", list)
<1>1. bot' = bot /\ touched' = [touched EXCEPT ![c] = {}]
  BY DEF DrainList
<1>2. op' = [op EXCEPT ![c] = q] /\ q = WithTodo(op[c], "drainNext", list)
  BY Zenon DEF DrainList, WithTodo
<1>3. list \in SUBSET Ids /\ list = Wanted(c)
  BY DEF OnNode, Wanted
<1> HIDE DEF list, q
<1>4. Keeps(q, op[c]) /\ q.pc = "drainNext" /\ q.todo = list
  BY <1>2, <1>3, PutTodo, Typed DEF Pcs
<1>5. op'[c] = q /\ \A d \in Clients : d # c => op'[d] = op[d] /\ touched'[d] = touched[d]
  BY <1>1, <1>2, Typed DEF OtherTypes
<1>6. Wanted(c)' = list
  BY <1>1, <1>3, <1>4, <1>5 DEF Wanted, OnNode, Keeps
<1>7. ASSUME NEW d \in Clients, Listed(d)'
      PROVE  Wanted(d)' \subseteq op'[d].todo \cup InHand(d)' \cup touched'[d]
  <2>1. CASE d = c
    BY <1>4, <1>5, <1>6, <2>1
  <2>2. CASE d # c
    BY <1>1, <1>5, <1>7, <2>2 DEF NoneLost, Listed, Drains, Wanted, InHand, OnNode
  <2>3. QED
    BY <2>1, <2>2
<1>8. QED
  BY <1>7 DEF NoneLost

LEMMA DrainNextLosesNothing ==
    ASSUME FitInv, NoneLost, NEW c \in Clients, DrainNext(c)
    PROVE  NoneLost'
<1>1. UNCHANGED <<bot, touched>> /\ op[c].pc = "drainNext"
  BY DEF DrainNext, history
<1>2. Noted
  BY <1>1, SameNoted
<1>3. PICK i \in op[c].todo :
          \/ Return(c)
          \/ op' = [op EXCEPT ![c] = [@ EXCEPT !.pc = "stopRead", !.id = {i}, !.todo = op[c].todo \ {i}]]
  BY Zenon DEF DrainNext
<1>4. CASE Return(c)
  BY <1>2, <1>4, ReturnCarries, CarriedOn
<1>5. CASE op' = [op EXCEPT ![c] = [@ EXCEPT !.pc = "stopRead", !.id = {i}, !.todo = op[c].todo \ {i}]]
  <2> DEFINE list == op[c].todo \ {i}
             q == WithIdTodo(op[c], "stopRead", i, list)
  <2>1. op' = [op EXCEPT ![c] = q] /\ q = WithIdTodo(op[c], "stopRead", i, list)
    BY <1>5, Zenon DEF WithIdTodo
  <2>2. i \in Ids /\ list \in SUBSET Ids /\ list = op[c].todo \ {i}
    BY Typed DEF Requests
  <2> HIDE DEF list, q
  <2>3. Keeps(q, op[c]) /\ q.pc = "stopRead" /\ q.id = {i} /\ q.todo = list
    BY <2>1, <2>2, PutIdTodo, Typed DEF Pcs
  <2>4. op'[c] = q /\ \A d \in Clients : d # c => op'[d] = op[d]
    BY <2>1, Typed
  <2>5. ASSUME Listed(c)'
        PROVE  Wanted(c)' \subseteq op'[c].todo \cup InHand(c)' \cup touched'[c]
    <3>1. Listed(c)
      BY <1>1, <2>3, <2>4, <2>5 DEF Listed, Drains, Keeps
    <3>2. Wanted(c)' = Wanted(c) /\ touched' = touched
      BY <1>1, <2>3, <2>4 DEF Wanted, OnNode, Keeps
    <3>3. Wanted(c) \subseteq op[c].todo \cup touched[c]
      BY <1>1, <3>1 DEF NoneLost, InHand, Hand
    <3>4. InHand(c)' = {i}
      BY <2>3, <2>4 DEF InHand, Hand
    <3>5. QED
      BY <2>2, <2>3, <2>4, <3>2, <3>3, <3>4
  <2>6. QED
    BY <1>2, <2>4, <2>5, OwnStep
<1>6. QED
  BY <1>3, <1>4, <1>5

LEMMA StopBotLosesNothing ==
    ASSUME FitInv, NoneLost, NEW c \in Clients, StopBot(c)
    PROVE  NoneLost'
<1> DEFINE l == IF IsCustom(op[c].row) THEN "stopRuntime" ELSE "others"
<1>1. PICK i \in Ids : op[c].id = {i} /\ bot' = [bot EXCEPT ![i].desired = "stopped"]
  BY Zenon DEF StopBot, Of, SetBot
<1>2. touched' = touched /\ op[c].pc = "stopBot" /\ Goto(c, l) /\ l \in {"stopRuntime", "others"}
  BY DEF StopBot, history
<1> HIDE DEF l
<1>3. bot[i] \in [exists : {TRUE}, node : Nodes, rt : RuntimeNames, port : Ports, desired : Desired]
  BY <1>1, Typed, RowTypes DEF RequestOK
<1>4. /\ \A j \in Ids : bot'[j].node = bot[j].node /\ bot'[j].exists = bot[j].exists
      /\ \A j \in Ids : j # i => bot'[j] = bot[j]
      /\ bot'[i].desired = "stopped"
  BY <1>1, <1>3, Typed
<1>5. \A n \in Nodes : OnNode(n)' = OnNode(n)
  BY <1>4 DEF OnNode
<1>6. \A j \in Ids : bot'[j].desired = "running" => bot[j].desired = "running"
  BY <1>4
<1>7. Noted
  BY <1>2, <1>5, <1>6 DEF Noted
<1>8. PICK q \in Requests : op' = [op EXCEPT ![c] = q] /\ At(q, op[c], l)
  BY <1>2, GotoRequest DEF Pcs
<1>9. op'[c] = q /\ \A d \in Clients : d # c => op'[d] = op[d]
  BY <1>8, Typed
<1>10. CASE op[c].kind # "drain"
  <2>1. Carries(c)
    BY <1>2, <1>8, <1>9, <1>10 DEF Carries, Listed, Drains, At, Keeps, Hand
  <2>2. QED
    BY <1>7, <2>1, CarriedOn
<1>11. CASE op[c].kind = "drain"
  <2>1. ASSUME Listed(c)'
        PROVE  Wanted(c)' \subseteq op'[c].todo \cup InHand(c)' \cup touched'[c]
    <3>1. Listed(c) /\ op[c].from \in Nodes
      BY <1>2, <1>11, FromNode DEF Listed, Drains
    <3>2. Wanted(c) \subseteq op[c].todo \cup {i} \cup touched[c]
      BY <1>1, <3>1 DEF NoneLost, InHand
    <3>3. Wanted(c)' \subseteq Wanted(c) \ {i}
      <4>1. op'[c].kind = "drain" /\ op'[c].from = op[c].from
        BY <1>8, <1>9, <1>11 DEF At, Keeps
      <4>2. QED
        BY <1>4, <1>5, <1>6, <1>11, <3>1, <4>1 DEF Wanted, OnNode
    <3>4. op'[c].todo = op[c].todo
      BY <1>8, <1>9 DEF At
    <3>5. QED
      BY <1>2, <3>2, <3>3, <3>4
  <2>2. QED
    BY <1>7, <1>9, <2>1, OwnStep
<1>12. QED
  BY <1>10, <1>11

LEMMA AssignLosesNothing ==
    ASSUME FitInv, NoneLost, NEW c \in Clients, Assign(c)
    PROVE  NoneLost'
<1> DEFINE row == [op[c].row EXCEPT !.node = op[c].to, !.rt = op[c].name, !.desired = "stopped"]
<1>1. PICK i \in Ids : op[c].id = {i} /\ bot' = [bot EXCEPT ![i] = row] /\ Touch(i)
  BY Zenon DEF Assign, Of, PutBot
<1> HIDE DEF row
<1>2. Noted /\ \A d \in Clients : Drains(d) => i \in touched'[d]
  BY <1>1, TouchNoted
<1>3. op[c].pc = "assign" /\ Goto(c, "startRead")
  BY DEF Assign
<1>4. PICK q \in Requests : op' = [op EXCEPT ![c] = q] /\ At(q, op[c], "startRead")
  BY <1>3, GotoRequest DEF Pcs
<1>5. op'[c] = q /\ \A d \in Clients : d # c => op'[d] = op[d]
  BY <1>4, Typed
<1>6. ASSUME Listed(c)'
      PROVE  Wanted(c)' \subseteq op'[c].todo \cup InHand(c)' \cup touched'[c]
  <2>1. Listed(c) /\ Drains(c) /\ op'[c].from = op[c].from /\ op'[c].kind = op[c].kind
        /\ op'[c].todo = op[c].todo
    BY <1>3, <1>4, <1>5, <1>6 DEF Listed, Drains, At, Keeps
  <2>2. op[c].from \in Nodes /\ touched[c] \subseteq touched'[c] /\ i \in touched'[c]
    BY <1>2, <2>1, FromNode DEF Noted
  <2>3. Wanted(c) \subseteq op[c].todo \cup {i} \cup touched[c]
    BY <1>1, <2>1 DEF NoneLost, InHand
  <2>4. ASSUME NEW j \in Wanted(c)' PROVE j \in Wanted(c) \/ j \in touched'[c]
    BY <1>2, <2>1, <2>2, <2>4 DEF Wanted, Noted, OnNode
  <2>5. QED
    BY <2>1, <2>2, <2>3, <2>4
<1>7. QED
  BY <1>2, <1>5, <1>6, OwnStep

----------------------------------------------------------------------------

LEMMA NoneLostStep ==
    ASSUME FitInv, NoneLost, [Next]_vars
    PROVE  NoneLost'
<1>1. ASSUME NEW c \in Clients, Request(c) PROVE NoneLost'
  <2>1. CASE \/ BeginCreate(c) \/ BeginStart(c) \/ BeginStop(c) \/ BeginMigrate(c)
             \/ BeginPatch(c) \/ BeginDrain(c)
    BY <2>1, BeginCarries, SameNoted, CarriedOn
  <2>2. CASE StartRead(c) \/ StopRead(c) \/ Reread(c) \/ ReadRuntime(c)
    BY <2>2, ReadCarries, SameNoted, CarriedOn
  <2>3. CASE \/ Limit(c) \/ CreateCustomRuntime(c) \/ FindRunner(c) \/ RefreshRunner(c) \/ CreateRunner(c)
             \/ StartLimit(c) \/ StartRuntime(c) \/ Others(c) \/ StopRuntime(c) \/ MoveRuntime(c)
             \/ SetDraining(c) \/ DrainDone(c)
    BY <2>3, CallCarries, SameNoted, CarriedOn
  <2>4. CASE CreateBot(c) \/ StartBot(c) \/ Patch(c)
    BY <2>4, CreateBotNotes, StartBotNotes, PatchNotes, CarriedOn
  <2>5. CASE Abandon(c)
    BY <2>5, ReturnCarries, SameNoted, CarriedOn DEF Abandon
  <2>6. QED
    BY <1>1, <2>1, <2>2, <2>3, <2>4, <2>5, DrainListLosesNothing, DrainNextLosesNothing,
       StopBotLosesNothing, AssignLosesNothing DEF Request
<1>2. ASSUME UNCHANGED <<op, bot, touched>> PROVE NoneLost'
  BY <1>2 DEF NoneLost, Listed, Drains, Wanted, OnNode, InHand
<1>3. ASSUME NEW n \in Agents,
             AgentStarts(n) \/ AgentEnds(n) \/ HeartbeatReads(n) \/ HeartbeatWrites(n)
      PROVE  NoneLost'
  BY <1>2, <1>3 DEF AgentStarts, AgentEnds, HeartbeatReads, HeartbeatWrites, history
<1>4. CASE UNCHANGED vars
  BY <1>2, <1>4 DEF vars
<1>5. QED
  BY <1>1, <1>3, <1>4 DEF Next

\* When drain-node is done, a bot that still wants to run on the node, or with
\* --to-node is still there, was started or placed by somebody else meanwhile
\* (cmd/drain-node/main.go).
THEOREM DrainLosesNothing == Spec => DrainEmpties
<1>1. Init => NoneLost
  BY DEF Init, NoneLost, Listed, Drains, NoRequest
<1>2. FitInv /\ NoneLost /\ [Next]_vars => NoneLost'
  BY NoneLostStep
<1>3. ASSUME FitInv, NoneLost, NEW c \in Clients, DrainDone(c), NEW i \in OnNode(op[c].from),
             op[c].kind = "drainTo" \/ bot[i].desired = "running"
      PROVE  i \in touched[c]
  <2>1. op[c].pc = "drainNext" /\ op[c].todo = {}
    BY <1>3 DEF DrainDone
  <2>2. Drains(c)
    BY <2>1, Typed, <1>3 DEF RequestOK, Drains, Draining
  <2>3. i \in Wanted(c) /\ InHand(c) = {}
    BY <1>3, <2>1 DEF Wanted, InHand, Hand
  <2>4. QED
    BY <1>3, <2>1, <2>2, <2>3 DEF NoneLost, Listed
<1>4. FitInv /\ NoneLost /\ [Next]_vars =>
        [ \A c \in Clients : DrainDone(c) =>
            \A i \in OnNode(op[c].from) :
                op[c].kind = "drainTo" \/ bot[i].desired = "running" => i \in touched[c] ]_vars
  BY <1>3
<1>5. QED
  BY <1>1, <1>2, <1>4, Fit, PTL DEF Spec, DrainEmpties
=============================================================================
