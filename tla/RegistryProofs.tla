--------------------------- MODULE RegistryProofs ---------------------------
(***************************************************************************)
(* The rows of the registry, for any number of nodes, names, ports, bots,  *)
(* requests at the same time and requests in all: they fit together.       *)
(***************************************************************************)
EXTENDS Registry, TLAPS, FiniteSetTheorems

Creating == {"createCustom", "createDefault"}
Moving == {"migrate", "drainTo"}
Draining == {"drain", "drainTo"}

\* Two versions of the row of one bot: the port stays, and a custom bot keeps
\* its runtime.
SameBot(a, b) ==
    /\ a.exists /\ b.exists
    /\ a.port = b.port
    /\ a.rt \in Names \/ b.rt \in Names => a.rt = b.rt

\* The runtime the bot of a move will have.
RightName(q) == q.name = IF IsCustom(q.row) THEN q.row.rt ELSE q.to

\* What holds of a request between two calls.
RequestOK(q) ==
    /\ q.pc \in WithRow => q.row.exists
    /\ q.row.exists => rt[q.row.rt].exists
    /\ \A i \in q.id : bot[i].exists
    /\ \A i \in q.todo : bot[i].exists
    /\ q.pc \in WithRow \cup {"limit", "byName", "refresh", "newRunner"}
          => \A i \in q.id : SameBot(q.row, bot[i])
    /\ q.kind \in Creating \cup Moving \cup Draining => q.to \in Nodes
    /\ q.kind \in Creating => q.port \in Ports
    /\ q.kind = "createCustom" => q.name \in Names
    /\ q.kind = "createDefault" => q.name = q.to
    /\ q.pc \in {"limit", "byName", "refresh", "newRunner"} =>
          /\ q.kind \in Creating \cup Moving
          /\ q.kind \in Moving => q.row.exists /\ RightName(q)
    /\ q.pc \in {"byName", "refresh", "newRunner"} =>
          /\ q.kind # "createCustom"
          /\ q.kind \in Moving => ~IsCustom(q.row)
    /\ q.pc = "newRuntime" => q.kind = "createCustom"
    /\ q.pc = "newBot" => q.kind \in Creating /\ rt[q.name].exists
    /\ q.pc \in {"readRuntime", "moveRuntime"} =>
          q.kind \in Moving /\ RightName(q) /\ IsCustom(q.row)
    /\ q.pc \in {"moveRuntime", "refresh"} => q.rtrow.exists
    /\ q.pc = "assign" => q.kind \in Moving /\ RightName(q) /\ rt[q.name].exists
    /\ q.pc = "reread" => q.kind \in Moving
    /\ q.pc \in {"drain", "drainList", "drainNext"} => q.kind \in Draining
    /\ q.kind \in Draining => q.from \in Nodes

\* A runtime that is being made has no bot, and nobody else makes it.
MakingAlone ==
    \A c \in Clients, x \in Names : Making(c, x) =>
        /\ \A i \in Ids : bot[i].exists => bot[i].rt # x
        /\ \A d \in Clients : Making(d, x) => d = c

\* The agent that is up has a row for its node.
Recorded == \A n \in Nodes : beat[n] = "down" \/ node[n] # "absent"

FitInv ==
    /\ TypeOK
    /\ \A c \in Clients : RequestOK(op[c])
    /\ RowsFit
    /\ MakingAlone
    /\ Recorded

----------------------------------------------------------------------------
(* Requests that change.                                                   *)

\* What no call changes of a request.
Keeps(r, q) ==
    /\ r \in Requests
    /\ r.kind = q.kind /\ r.from = q.from /\ r.to = q.to
    /\ r.port = q.port /\ r.start = q.start

\* r is q at another place.
At(r, q, l) ==
    /\ Keeps(r, q) /\ r.pc = l /\ r.id = q.id /\ r.name = q.name /\ r.row = q.row
    /\ r.rtrow = q.rtrow /\ r.todo = q.todo

LEMMA PutPc ==
    ASSUME NEW q \in Requests, NEW l \in Pcs, NEW r, r = [q EXCEPT !.pc = l]
    PROVE  At(r, q, l)
  BY DEF Requests, Keeps, At

\* The request after it has read the row of its bot, that of a runtime, has got its
\* bot, or has listed the bots of the node.
WithBot(q, l, row) == [q EXCEPT !.pc = l, !.row = row]
WithBotName(q, l, row, x) == [q EXCEPT !.pc = l, !.row = row, !.name = x]
WithRuntime(q, l, row) == [q EXCEPT !.pc = l, !.rtrow = row]
WithId(q, l, i) == [q EXCEPT !.pc = l, !.id = {i}]
WithTodo(q, l, list) == [q EXCEPT !.pc = l, !.todo = list]
WithIdTodo(q, l, i, list) == [q EXCEPT !.pc = l, !.id = {i}, !.todo = list]

LEMMA PutRow ==
    ASSUME NEW q \in Requests, NEW l \in Pcs, NEW row \in BotRow, NEW r,
           r = WithBot(q, l, row)
    PROVE  /\ Keeps(r, q) /\ r.pc = l /\ r.id = q.id /\ r.name = q.name /\ r.row = row
           /\ r.rtrow = q.rtrow /\ r.todo = q.todo
  BY DEF Requests, Keeps, WithBot

LEMMA PutRowName ==
    ASSUME NEW q \in Requests, NEW l \in Pcs, NEW row \in BotRow, NEW x \in RuntimeNames, NEW r,
           r = WithBotName(q, l, row, x)
    PROVE  /\ Keeps(r, q) /\ r.pc = l /\ r.id = q.id /\ r.name = x /\ r.row = row
           /\ r.rtrow = q.rtrow /\ r.todo = q.todo
  BY DEF Requests, Keeps, WithBotName

LEMMA PutRuntimeRow ==
    ASSUME NEW q \in Requests, NEW l \in Pcs, NEW row \in RuntimeRow, NEW r,
           r = WithRuntime(q, l, row)
    PROVE  /\ Keeps(r, q) /\ r.pc = l /\ r.id = q.id /\ r.name = q.name /\ r.row = q.row
           /\ r.rtrow = row /\ r.todo = q.todo
  BY DEF Requests, Keeps, WithRuntime

LEMMA PutId ==
    ASSUME NEW q \in Requests, NEW l \in Pcs, NEW i \in Ids, NEW r,
           r = WithId(q, l, i)
    PROVE  /\ Keeps(r, q) /\ r.pc = l /\ r.id = {i} /\ r.name = q.name /\ r.row = q.row
           /\ r.rtrow = q.rtrow /\ r.todo = q.todo
  BY DEF Requests, Keeps, WithId

LEMMA PutTodo ==
    ASSUME NEW q \in Requests, NEW l \in Pcs, NEW list \in SUBSET Ids, NEW r,
           r = WithTodo(q, l, list)
    PROVE  /\ Keeps(r, q) /\ r.pc = l /\ r.id = q.id /\ r.name = q.name /\ r.row = q.row
           /\ r.rtrow = q.rtrow /\ r.todo = list
  BY DEF Requests, Keeps, WithTodo

LEMMA PutIdTodo ==
    ASSUME NEW q \in Requests, NEW l \in Pcs, NEW i \in Ids, NEW list \in SUBSET Ids, NEW r,
           r = WithIdTodo(q, l, i, list)
    PROVE  /\ Keeps(r, q) /\ r.pc = l /\ r.id = {i} /\ r.name = q.name /\ r.row = q.row
           /\ r.rtrow = q.rtrow /\ r.todo = list
  BY DEF Requests, Keeps, WithIdTodo

LEMMA NoRequestOK == NoRequest \in Requests /\ RequestOK(NoRequest)
<1>1. NoRequest \in Requests
  BY DEF NoRequest, Requests, Pcs, AllKinds, BotRow, RuntimeRow
<1>2. RequestOK(NoRequest)
  BY DEF NoRequest, RequestOK, WithRow, NoBot, Creating, Moving, Draining
<1>3. QED
  BY <1>1, <1>2

----------------------------------------------------------------------------
(* Steps of one request.                                                   *)

OtherTypes ==
    /\ node \in [Nodes -> {"absent", "online", "draining"}]
    /\ beat \in [Nodes -> {"down", "up", "online", "draining"}]
    /\ ops \in Nat
    /\ patched \subseteq Ids /\ torn \subseteq Names
    /\ touched \in [Clients -> SUBSET Ids]
    /\ \A n \in Nodes : beat[n] = "down" \/ node[n] # "absent"

\* No row goes away, a bot keeps its port and a custom one its runtime.
Grows ==
    /\ rt' \in [RuntimeNames -> RuntimeRow]
    /\ bot' \in [Ids -> BotRow]
    /\ \A x \in RuntimeNames : rt[x].exists => rt'[x].exists
    /\ \A i \in Ids : bot[i].exists => SameBot(bot[i], bot'[i])

LEMMA RowTypes ==
    /\ \A row \in BotRow : row.exists =>
          row \in [exists : {TRUE}, node : Nodes, rt : RuntimeNames, port : Ports, desired : Desired]
    /\ \A row \in RuntimeRow : row.exists =>
          row \in [exists : {TRUE}, node : Nodes, desired : Desired]
<1>1. ~NoBot.exists /\ ~NoRuntime.exists
  BY DEF NoBot, NoRuntime
<1>2. QED
  BY <1>1, Zenon DEF BotRow, RuntimeRow

LEMMA SameBots ==
    ASSUME NEW a, NEW b, NEW d, SameBot(a, b), SameBot(b, d)
    PROVE  SameBot(a, d)
  BY DEF SameBot

\* A request does not notice that rows grow.
LEMMA StaysOK ==
    ASSUME NEW q \in Requests, RequestOK(q), Grows
    PROVE  RequestOK(q)'
<1>1. \A i \in Ids : bot[i].exists => bot'[i].exists /\ (SameBot(q.row, bot[i]) => SameBot(q.row, bot'[i]))
  BY SameBots DEF Grows, SameBot
<1>2. q.id \subseteq Ids /\ q.todo \subseteq Ids
  BY DEF Requests
<1>3. \A i \in q.id : bot'[i].exists
  BY <1>1, <1>2 DEF RequestOK
<1>4. \A i \in q.todo : bot'[i].exists
  BY <1>1, <1>2 DEF RequestOK
<1>5. q.pc \in WithRow \cup {"limit", "byName", "refresh", "newRunner"}
         => \A i \in q.id : SameBot(q.row, bot'[i])
  BY <1>1, <1>2 DEF RequestOK
<1>6. q.row.exists => rt'[q.row.rt].exists
  <2>1. q.row.exists => q.row.rt \in RuntimeNames
    BY RowTypes DEF Requests
  <2>2. QED
    BY <2>1 DEF RequestOK, Grows
<1>7. q.pc = "newBot" => rt'[q.name].exists
  <2>1. q.pc = "newBot" => q.name \in RuntimeNames
    BY DEF RequestOK, Creating, RuntimeNames
  <2>2. QED
    BY <2>1 DEF RequestOK, Grows
<1>8. q.pc = "assign" => rt'[q.name].exists
  <2>1. q.pc = "assign" => q.name \in RuntimeNames
    BY DEF RequestOK, Moving, RightName, IsCustom, RuntimeNames
  <2>2. QED
    BY <2>1 DEF RequestOK, Grows
<1>9. QED
  BY <1>3, <1>4, <1>5, <1>6, <1>7, <1>8 DEF RequestOK

LEMMA RequestsOK ==
    ASSUME FitInv, NEW c \in Clients, NEW q \in Requests, op' = [op EXCEPT ![c] = q],
           Grows, RequestOK(q)'
    PROVE  op' \in [Clients -> Requests] /\ \A d \in Clients : RequestOK(op[d])'
<1>1. op \in [Clients -> Requests] /\ \A d \in Clients : RequestOK(op[d])
  BY DEF FitInv, TypeOK
<1>2. op' \in [Clients -> Requests]
  BY <1>1
<1>3. ASSUME NEW d \in Clients PROVE RequestOK(op[d])'
  <2>1. CASE d = c
    BY <1>1, <2>1
  <2>2. CASE d # c
    <3>1. op'[d] = op[d] /\ op[d] \in Requests /\ RequestOK(op[d])
      BY <1>1, <2>2
    <3>2. QED
      BY <3>1, StaysOK
  <2>3. QED
    BY <2>1, <2>2
<1>4. QED
  BY <1>2, <1>3

\* Rows that do not change grow.
LEMMA SameRowsGrow ==
    ASSUME FitInv, UNCHANGED <<rt, bot>>
    PROVE  Grows
  BY DEF FitInv, TypeOK, Grows, SameBot

\* A step of a request that changes no row of bots and runtimes, and after which
\* it is not making a runtime.
LEMMA QuietStep ==
    ASSUME FitInv, NEW c \in Clients, NEW q \in Requests, op' = [op EXCEPT ![c] = q],
           RequestOK(q), UNCHANGED <<rt, bot>>, OtherTypes', torn \subseteq torn',
           q.pc = "newBot" => q.kind # "createCustom",
           \A x \in Names : Making(c, x) => x \in torn'
    PROVE  FitInv'
<1>1. Grows
  BY SameRowsGrow
<1>2. RequestOK(q)'
  BY <1>1, StaysOK
<1>3. op' \in [Clients -> Requests] /\ \A d \in Clients : RequestOK(op[d])'
  BY <1>1, <1>2, RequestsOK
<1>4. op \in [Clients -> Requests]
  BY DEF FitInv, TypeOK
<1>5. \A d \in Clients, x \in Names : Making(d, x)' <=> Making(d, x) /\ d # c
  BY <1>4 DEF Making
<1>6. MakingAlone'
  BY <1>5 DEF FitInv, MakingAlone
<1>7. TypeOK'
  BY <1>1, <1>3 DEF TypeOK, OtherTypes, Grows, RequestOK
<1>8. RowsFit'
  BY <1>5 DEF FitInv, RowsFit
<1>9. QED
  BY <1>3, <1>6, <1>7, <1>8 DEF FitInv, OtherTypes, Recorded

LEMMA Typed ==
    ASSUME FitInv, NEW c \in Clients
    PROVE  /\ op \in [Clients -> Requests] /\ op[c] \in Requests /\ RequestOK(op[c])
           /\ rt \in [RuntimeNames -> RuntimeRow] /\ bot \in [Ids -> BotRow]
           /\ OtherTypes
  BY DEF FitInv, TypeOK, OtherTypes, Recorded

LEMMA GotoRequest ==
    ASSUME FitInv, NEW c \in Clients, NEW l \in Pcs, Goto(c, l)
    PROVE  \E q \in Requests : op' = [op EXCEPT ![c] = q] /\ At(q, op[c], l)
<1> DEFINE q == [op[c] EXCEPT !.pc = l]
<1>1. op' = [op EXCEPT ![c] = q]
  BY Zenon DEF Goto
<1>2. op[c] \in Requests
  BY Typed
<1>3. q = [op[c] EXCEPT !.pc = l]
  OBVIOUS
<1> HIDE DEF q
<1>4. At(q, op[c], l)
  BY <1>2, <1>3, PutPc
<1>5. q \in Requests
  BY <1>4 DEF At, Keeps
<1>6. QED
  BY <1>1, <1>4, <1>5

\* A request that ends without having been between two writes.
LEMMA ReturnStep ==
    ASSUME FitInv, NEW c \in Clients, Return(c), UNCHANGED <<rt, bot>>, OtherTypes',
           torn \subseteq torn', \A x \in Names : Making(c, x) => x \in torn'
    PROVE  FitInv'
<1>1. op' = [op EXCEPT ![c] = NoRequest] /\ NoRequest.pc # "newBot"
  BY Zenon DEF Return, NoRequest
<1>2. QED
  BY <1>1, NoRequestOK, QuietStep

\* A step to another call that changes no row of bots and runtimes.
LEMMA GotoStep ==
    ASSUME FitInv, NEW c \in Clients, NEW l \in Pcs, Goto(c, l), UNCHANGED <<rt, bot>>,
           OtherTypes', torn \subseteq torn', l # "newBot" \/ op[c].kind # "createCustom",
           op[c].pc # "newBot",
           \A q \in Requests : At(q, op[c], l) => RequestOK(q)
    PROVE  FitInv'
<1>1. PICK q \in Requests : op' = [op EXCEPT ![c] = q] /\ At(q, op[c], l)
  BY GotoRequest
<1>2. \A x \in Names : ~Making(c, x)
  BY DEF Making
<1>3. q.pc = "newBot" => q.kind # "createCustom"
  BY <1>1 DEF At, Keeps
<1>4. QED
  BY <1>1, <1>2, <1>3, QuietStep

----------------------------------------------------------------------------
(* The first part of a request: one that no bot is changed by.             *)

LEMMA BeginStep ==
    ASSUME FitInv, NEW c \in Clients, NEW q \in Requests, BeginWith(c, q), RequestOK(q),
           q.pc # "newBot"
    PROVE  FitInv'
<1>1. OtherTypes' /\ torn' = torn /\ UNCHANGED <<rt, bot>> /\ op' = [op EXCEPT ![c] = q]
  BY Typed DEF BeginWith, OtherTypes, history
<1>2. \A x \in Names : ~Making(c, x)
  BY DEF BeginWith, Making
<1>3. QED
  BY <1>1, <1>2, QuietStep

LEMMA LimitFits ==
    ASSUME FitInv, NEW c \in Clients, Limit(c)
    PROVE  FitInv'
<1>1. OtherTypes' /\ torn' = torn /\ UNCHANGED <<rt, bot>> /\ op[c].pc = "limit"
  BY Typed DEF Limit, OtherTypes, history
<1>2. \A x \in Names : ~Making(c, x)
  BY <1>1 DEF Making
<1>3. CASE Return(c)
  BY <1>1, <1>2, <1>3, ReturnStep
<1>4. CASE Goto(c, AfterLimit(c))
  <2>1. AfterLimit(c) \in {"newRuntime", "readRuntime", "byName"}
    BY DEF AfterLimit
  <2>2. ASSUME NEW q \in Requests, At(q, op[c], AfterLimit(c)) PROVE RequestOK(q)
    BY <1>1, <2>2, Typed DEF AfterLimit, RequestOK, At, Keeps, WithRow, Creating, Moving, Draining,
                             RightName, IsCustom
  <2>3. QED
    BY <1>1, <1>4, <2>1, <2>2, GotoStep DEF Pcs
<1>5. QED
  BY <1>3, <1>4 DEF Limit

LEMMA BeginCreateFits ==
    ASSUME FitInv, NEW c \in Clients, BeginCreate(c)
    PROVE  FitInv'
<1>1. PICK kind \in Kinds \cap {"createCustom", "createDefault"}, n \in Nodes, p \in Ports,
           x \in Names, start \in BOOLEAN :
        BeginWith(c, [NoRequest EXCEPT
            !.pc = "limit", !.kind = kind, !.to = n, !.port = p, !.start = start,
            !.name = IF kind = "createCustom" THEN x ELSE n])
  BY Zenon DEF BeginCreate
<1> DEFINE q == [NoRequest EXCEPT
            !.pc = "limit", !.kind = kind, !.to = n, !.port = p, !.start = start,
            !.name = IF kind = "createCustom" THEN x ELSE n]
<1>2. /\ q \in Requests
      /\ q.pc = "limit" /\ q.kind = kind /\ q.id = {} /\ q.to = n /\ q.port = p /\ q.row = NoBot
      /\ q.todo = {}
      /\ q.name = IF kind = "createCustom" THEN x ELSE n
  BY DEF NoRequest, Requests, Pcs, AllKinds, RuntimeNames, BotRow, RuntimeRow
<1>3. BeginWith(c, q)
  BY <1>1
<1> HIDE DEF q
<1>4. RequestOK(q)
  BY <1>2 DEF RequestOK, WithRow, NoBot, Creating, Moving, Draining
<1>5. QED
  BY <1>2, <1>3, <1>4, BeginStep

\* A request that begins with the row of a bot.
LEMMA BeginWithBot ==
    ASSUME FitInv, NEW c \in Clients, NEW i \in Ids, bot[i].exists,
           NEW q \in Requests, BeginWith(c, q), q.pc \in {"startLimit", "stopBot", "stopRead"},
           q.kind \in {"start", "stop", "migrate"}, q.kind = "migrate" => q.to \in Nodes,
           q.id = {i}, q.row = bot[i], q.todo = {}
    PROVE  FitInv'
<1>1. rt[bot[i].rt].exists
  BY DEF FitInv, RowsFit
<1>2. RequestOK(q)
  BY <1>1 DEF RequestOK, WithRow, Creating, Moving, Draining, SameBot
<1>3. QED
  BY <1>2, BeginStep

LEMMA BeginStartFits ==
    ASSUME FitInv, NEW c \in Clients, BeginStart(c)
    PROVE  FitInv'
<1>1. PICK i \in Ids :
         bot[i].exists /\ BeginWith(c, [NoRequest EXCEPT !.pc = "startLimit", !.id = {i}, !.row = bot[i]])
  BY Zenon DEF BeginStart
<1> DEFINE q == [NoRequest EXCEPT !.pc = "startLimit", !.id = {i}, !.row = bot[i]]
<1>2. /\ q \in Requests
      /\ q.pc = "startLimit" /\ q.kind = "start" /\ q.id = {i} /\ q.row = bot[i] /\ q.todo = {}
  BY Typed DEF NoRequest, Requests, Pcs, AllKinds, RuntimeNames, RuntimeRow
<1>3. BeginWith(c, q)
  BY <1>1
<1> HIDE DEF q
<1>4. QED
  BY <1>1, <1>2, <1>3, BeginWithBot

LEMMA BeginStopFits ==
    ASSUME FitInv, NEW c \in Clients, BeginStop(c)
    PROVE  FitInv'
<1>1. PICK i \in Ids :
         /\ bot[i].exists
         /\ BeginWith(c, [NoRequest EXCEPT !.pc = "stopBot", !.kind = "stop", !.id = {i}, !.row = bot[i]])
  BY Zenon DEF BeginStop
<1> DEFINE q == [NoRequest EXCEPT !.pc = "stopBot", !.kind = "stop", !.id = {i}, !.row = bot[i]]
<1>2. /\ q \in Requests
      /\ q.pc = "stopBot" /\ q.kind = "stop" /\ q.id = {i} /\ q.row = bot[i] /\ q.todo = {}
  BY Typed DEF NoRequest, Requests, Pcs, AllKinds, RuntimeNames, RuntimeRow
<1>3. BeginWith(c, q)
  BY <1>1
<1> HIDE DEF q
<1>4. QED
  BY <1>1, <1>2, <1>3, BeginWithBot

LEMMA BeginMigrateFits ==
    ASSUME FitInv, NEW c \in Clients, BeginMigrate(c)
    PROVE  FitInv'
<1>1. PICK i \in Ids, n \in Nodes :
        /\ bot[i].exists
        /\ BeginWith(c, [NoRequest EXCEPT !.pc = "stopRead", !.kind = "migrate",
                                          !.id = {i}, !.to = n, !.row = bot[i]])
  BY Zenon DEF BeginMigrate
<1> DEFINE q == [NoRequest EXCEPT !.pc = "stopRead", !.kind = "migrate",
                                  !.id = {i}, !.to = n, !.row = bot[i]]
<1>2. /\ q \in Requests
      /\ q.pc = "stopRead" /\ q.kind = "migrate" /\ q.id = {i} /\ q.to = n
      /\ q.row = bot[i] /\ q.todo = {}
  BY Typed DEF NoRequest, Requests, Pcs, AllKinds, RuntimeNames, RuntimeRow
<1>3. BeginWith(c, q)
  BY <1>1
<1> HIDE DEF q
<1>4. QED
  BY <1>1, <1>2, <1>3, BeginWithBot

LEMMA BeginPatchFits ==
    ASSUME FitInv, NEW c \in Clients, BeginPatch(c)
    PROVE  FitInv'
<1>1. PICK i \in Ids, n \in Nodes, desired \in Desired :
        /\ bot[i].exists
        /\ BeginWith(c, [NoRequest EXCEPT
              !.pc = "patch", !.kind = "patch", !.id = {i},
              !.row = [bot[i] EXCEPT !.node = n, !.desired = desired]])
  BY Zenon DEF BeginPatch
<1> DEFINE row == [bot[i] EXCEPT !.node = n, !.desired = desired]
           q == [NoRequest EXCEPT !.pc = "patch", !.kind = "patch", !.id = {i}, !.row = row]
<1>2. bot[i] \in [exists : {TRUE}, node : Nodes, rt : RuntimeNames, port : Ports, desired : Desired]
  BY <1>1, Typed, RowTypes
<1>3. row \in BotRow /\ row.exists /\ row.rt = bot[i].rt /\ row.port = bot[i].port
  BY <1>2 DEF BotRow
<1>4. BeginWith(c, q)
  BY <1>1
<1> HIDE DEF row
<1>5. /\ q \in Requests
      /\ q.pc = "patch" /\ q.kind = "patch" /\ q.id = {i} /\ q.row = row /\ q.todo = {}
  BY <1>3 DEF NoRequest, Requests, Pcs, AllKinds, RuntimeNames, RuntimeRow
<1> HIDE DEF q
<1>6. rt[bot[i].rt].exists
  BY <1>1 DEF FitInv, RowsFit
<1>7. RequestOK(q)
  BY <1>1, <1>3, <1>5, <1>6 DEF RequestOK, WithRow, Creating, Moving, Draining, SameBot
<1>8. QED
  BY <1>4, <1>5, <1>7, BeginStep

LEMMA BeginDrainFits ==
    ASSUME FitInv, NEW c \in Clients, BeginDrain(c)
    PROVE  FitInv'
<1>1. PICK kind \in Kinds \cap {"drain", "drainTo"}, n \in Nodes, m \in Nodes :
        BeginWith(c, [NoRequest EXCEPT !.pc = "drain", !.kind = kind, !.from = n, !.to = m])
  BY Zenon DEF BeginDrain
<1> DEFINE q == [NoRequest EXCEPT !.pc = "drain", !.kind = kind, !.from = n, !.to = m]
<1>2. /\ q \in Requests
      /\ q.pc = "drain" /\ q.kind = kind /\ q.from = n /\ q.to = m /\ q.id = {} /\ q.row = NoBot
      /\ q.todo = {}
  BY DEF NoRequest, Requests, Pcs, AllKinds, BotRow, RuntimeRow
<1>3. BeginWith(c, q)
  BY <1>1
<1> HIDE DEF q
<1>4. RequestOK(q)
  BY <1>2 DEF RequestOK, WithRow, NoBot, Creating, Moving, Draining
<1>5. QED
  BY <1>2, <1>3, <1>4, BeginStep

\* A call that reads the row of the bot.
LEMMA ReadFits ==
    ASSUME FitInv, NEW c \in Clients, NEW l \in {"startLimit", "stopBot"}, NEW i \in Ids,
           op[c].id = {i}, op' = [op EXCEPT ![c] = [@ EXCEPT !.pc = l, !.row = bot[i]]],
           UNCHANGED <<rt, bot>>, OtherTypes', torn' = torn, op[c].pc # "newBot"
    PROVE  FitInv'
<1> DEFINE q == WithBot(op[c], l, bot[i])
<1>1. op' = [op EXCEPT ![c] = q]
  BY Zenon DEF WithBot
<1>2. q = WithBot(op[c], l, bot[i])
  OBVIOUS
<1> HIDE DEF q
<1>3. l \in Pcs /\ op[c] \in Requests /\ bot[i] \in BotRow
  BY Typed DEF Pcs
<1>4. /\ Keeps(q, op[c]) /\ q.pc = l /\ q.id = op[c].id /\ q.name = op[c].name /\ q.row = bot[i]
      /\ q.rtrow = op[c].rtrow /\ q.todo = op[c].todo
  BY <1>2, <1>3, PutRow
<1>5. bot[i].exists /\ rt[bot[i].rt].exists
  BY Typed DEF RequestOK, FitInv, RowsFit
<1>6. RequestOK(q)
  BY <1>4, <1>5, Typed DEF RequestOK, Keeps, WithRow, Creating, Moving, Draining, SameBot
<1>7. \A x \in Names : ~Making(c, x)
  BY DEF Making
<1>8. q \in Requests
  BY <1>4 DEF Keeps
<1>9. QED
  BY <1>1, <1>4, <1>6, <1>7, <1>8, QuietStep

LEMMA StartReadFits ==
    ASSUME FitInv, NEW c \in Clients, StartRead(c)
    PROVE  FitInv'
<1>1. PICK i \in Ids : op[c].id = {i} /\ op' = [op EXCEPT ![c] = [@ EXCEPT !.pc = "startLimit",
                                                                       !.row = bot[i]]]
  BY Zenon DEF StartRead, Of
<1>2. UNCHANGED <<rt, bot>> /\ OtherTypes' /\ torn' = torn /\ op[c].pc # "newBot"
  BY Typed DEF StartRead, OtherTypes, history
<1>3. QED
  BY <1>1, <1>2, ReadFits

LEMMA StopReadFits ==
    ASSUME FitInv, NEW c \in Clients, StopRead(c)
    PROVE  FitInv'
<1>1. PICK i \in Ids : op[c].id = {i} /\ op' = [op EXCEPT ![c] = [@ EXCEPT !.pc = "stopBot",
                                                                       !.row = bot[i]]]
  BY Zenon DEF StopRead, Of
<1>2. UNCHANGED <<rt, bot>> /\ OtherTypes' /\ torn' = torn /\ op[c].pc # "newBot"
  BY Typed DEF StopRead, OtherTypes, history
<1>3. QED
  BY <1>1, <1>2, ReadFits

LEMMA StartLimitFits ==
    ASSUME FitInv, NEW c \in Clients, StartLimit(c)
    PROVE  FitInv'
<1>1. UNCHANGED <<rt, bot>> /\ OtherTypes' /\ torn' = torn /\ op[c].pc = "startLimit"
  BY Typed DEF StartLimit, OtherTypes, history
<1>2. CASE Return(c)
  BY <1>1, <1>2, ReturnStep DEF Making
<1>3. CASE Goto(c, "startBot")
  <2>1. ASSUME NEW q \in Requests, At(q, op[c], "startBot") PROVE RequestOK(q)
    BY <1>1, <2>1, Typed DEF RequestOK, At, Keeps, WithRow, Creating, Moving, Draining
  <2>2. QED
    BY <1>1, <1>3, <2>1, GotoStep DEF Pcs
<1>4. QED
  BY <1>2, <1>3 DEF StartLimit

\* Where a stop goes on.
LEMMA AfterStopOK ==
    ASSUME FitInv, NEW c \in Clients, AfterStop(c), op[c].pc \in {"others", "stopRuntime"}
    PROVE  \E q \in Requests : op' = [op EXCEPT ![c] = q] /\ RequestOK(q) /\ q.pc # "newBot"
<1>1. CASE op[c].kind \in Moving /\ Goto(c, "reread")
  <2>1. PICK q \in Requests : op' = [op EXCEPT ![c] = q] /\ At(q, op[c], "reread")
    BY <1>1, GotoRequest DEF Pcs
  <2>2. RequestOK(q) /\ q.pc # "newBot"
    BY <1>1, <2>1, Typed DEF RequestOK, At, Keeps, WithRow, Creating, Moving, Draining
  <2>3. QED
    BY <2>1, <2>2
<1>2. CASE op[c].kind = "drain" /\ Goto(c, "drainNext")
  <2>1. PICK q \in Requests : op' = [op EXCEPT ![c] = q] /\ At(q, op[c], "drainNext")
    BY <1>2, GotoRequest DEF Pcs
  <2>2. RequestOK(q) /\ q.pc # "newBot"
    BY <1>2, <2>1, Typed DEF RequestOK, At, Keeps, WithRow, Creating, Moving, Draining
  <2>3. QED
    BY <2>1, <2>2
<1>3. CASE Return(c)
  <2>1. op' = [op EXCEPT ![c] = NoRequest] /\ NoRequest.pc # "newBot"
    BY <1>3, Zenon DEF Return, NoRequest
  <2>2. QED
    BY <2>1, NoRequestOK
<1>4. QED
  BY <1>1, <1>2, <1>3 DEF AfterStop, Moving

LEMMA OthersFits ==
    ASSUME FitInv, NEW c \in Clients, Others(c)
    PROVE  FitInv'
<1>1. UNCHANGED <<rt, bot>> /\ OtherTypes' /\ torn' = torn /\ op[c].pc = "others"
  BY Typed DEF Others, OtherTypes, history
<1>2. CASE AfterStop(c)
  <2>1. PICK q \in Requests : op' = [op EXCEPT ![c] = q] /\ RequestOK(q) /\ q.pc # "newBot"
    BY <1>1, <1>2, AfterStopOK
  <2>2. QED
    BY <1>1, <2>1, QuietStep DEF Making
<1>3. CASE Goto(c, "stopRuntime")
  <2>1. ASSUME NEW q \in Requests, At(q, op[c], "stopRuntime") PROVE RequestOK(q)
    BY <1>1, <2>1, Typed DEF RequestOK, At, Keeps, WithRow, Creating, Moving, Draining
  <2>2. QED
    BY <1>1, <1>3, <2>1, GotoStep DEF Pcs
<1>4. QED
  BY <1>2, <1>3 DEF Others

LEMMA RereadFits ==
    ASSUME FitInv, NEW c \in Clients, Reread(c)
    PROVE  FitInv'
<1>1. PICK i \in Ids : op[c].id = {i} /\ op' = [op EXCEPT ![c] = [@ EXCEPT
                          !.pc = "limit", !.row = bot[i],
                          !.name = IF IsCustom(bot[i]) THEN bot[i].rt ELSE op[c].to]]
  BY Zenon DEF Reread, Of
<1>2. UNCHANGED <<rt, bot>> /\ OtherTypes' /\ torn' = torn /\ op[c].pc = "reread"
  BY Typed DEF Reread, OtherTypes, history
<1> DEFINE x == IF IsCustom(bot[i]) THEN bot[i].rt ELSE op[c].to
           q == WithBotName(op[c], "limit", bot[i], x)
<1>3. op' = [op EXCEPT ![c] = q] /\ q = WithBotName(op[c], "limit", bot[i], x)
  BY <1>1, Zenon DEF WithBotName
<1>4. op[c].kind \in Moving /\ op[c].to \in Nodes
  BY <1>2, Typed DEF RequestOK
<1>5. x \in RuntimeNames /\ x = IF IsCustom(bot[i]) THEN bot[i].rt ELSE op[c].to
  BY <1>4 DEF IsCustom, RuntimeNames
<1> HIDE DEF x, q
<1>6. "limit" \in Pcs /\ op[c] \in Requests /\ bot[i] \in BotRow
  BY Typed DEF Pcs
<1>7. /\ Keeps(q, op[c]) /\ q.pc = "limit" /\ q.id = op[c].id /\ q.name = x /\ q.row = bot[i]
      /\ q.rtrow = op[c].rtrow /\ q.todo = op[c].todo
  BY <1>3, <1>5, <1>6, PutRowName
<1>8. bot[i].exists /\ rt[bot[i].rt].exists
  BY <1>1, Typed DEF RequestOK, FitInv, RowsFit
<1>9. RightName(q)
  BY <1>5, <1>7 DEF RightName, Keeps
<1>10. RequestOK(q)
  BY <1>1, <1>4, <1>7, <1>8, <1>9, Typed DEF RequestOK, Keeps, WithRow, Creating, Moving, Draining, SameBot
<1>11. q \in Requests /\ \A y \in Names : ~Making(c, y)
  BY <1>2, <1>7 DEF Keeps, Making
<1>12. QED
  BY <1>2, <1>3, <1>7, <1>10, <1>11, QuietStep

\* A call that reads the row of a runtime.
LEMMA ReadRuntimeRow ==
    ASSUME FitInv, NEW c \in Clients, NEW l \in {"moveRuntime", "refresh"}, NEW x \in RuntimeNames,
           op' = [op EXCEPT ![c] = [@ EXCEPT !.pc = l, !.rtrow = rt[x]]],
           op[c].pc # "newBot", UNCHANGED <<rt, bot>>, OtherTypes', torn' = torn,
           \A q \in Requests :
              /\ Keeps(q, op[c]) /\ q.pc = l /\ q.id = op[c].id /\ q.name = op[c].name
              /\ q.row = op[c].row /\ q.rtrow = rt[x] /\ q.todo = op[c].todo
              => RequestOK(q)
    PROVE  FitInv'
<1> DEFINE q == WithRuntime(op[c], l, rt[x])
<1>1. op' = [op EXCEPT ![c] = q]
  BY Zenon DEF WithRuntime
<1>2. q = WithRuntime(op[c], l, rt[x])
  OBVIOUS
<1> HIDE DEF q
<1>3. l \in Pcs /\ op[c] \in Requests /\ rt[x] \in RuntimeRow
  BY Typed DEF Pcs
<1>4. /\ Keeps(q, op[c]) /\ q.pc = l /\ q.id = op[c].id /\ q.name = op[c].name /\ q.row = op[c].row
      /\ q.rtrow = rt[x] /\ q.todo = op[c].todo
  BY <1>2, <1>3, PutRuntimeRow
<1>5. q \in Requests
  BY <1>4 DEF Keeps
<1>6. RequestOK(q)
  BY <1>4, <1>5
<1>7. \A y \in Names : ~Making(c, y)
  BY DEF Making
<1>8. QED
  BY <1>1, <1>4, <1>5, <1>6, <1>7, QuietStep

LEMMA ReadRuntimeFits ==
    ASSUME FitInv, NEW c \in Clients, ReadRuntime(c)
    PROVE  FitInv'
<1>1. UNCHANGED <<rt, bot>> /\ OtherTypes' /\ torn' = torn /\ op[c].pc = "readRuntime"
  BY Typed DEF ReadRuntime, OtherTypes, history
<1>2. op[c].name \in RuntimeNames /\ rt[op[c].name].exists
  BY <1>1, Typed DEF RequestOK, RightName, WithRow, IsCustom, RuntimeNames
<1>3. ASSUME NEW q \in Requests,
             Keeps(q, op[c]), q.pc = "moveRuntime", q.id = op[c].id, q.name = op[c].name,
             q.row = op[c].row, q.rtrow = rt[op[c].name], q.todo = op[c].todo
      PROVE  RequestOK(q)
  BY <1>1, <1>2, <1>3, Typed DEF RequestOK, Keeps, WithRow, Creating, Moving, Draining, RightName, IsCustom
<1>4. op' = [op EXCEPT ![c] = [@ EXCEPT !.pc = "moveRuntime", !.rtrow = rt[op[c].name]]]
  BY Zenon DEF ReadRuntime
<1>5. QED
  BY <1>1, <1>2, <1>3, <1>4, ReadRuntimeRow

\* Where a request goes on that has found or made the runner.
LEMMA AfterRunnerOK ==
    ASSUME FitInv, NEW c \in Clients, op[c].pc \in {"byName", "refresh", "newRunner"}
    PROVE  /\ op[c].kind # "createCustom" /\ op[c].to \in Nodes
           /\ rt[op[c].to].exists => \A q \in Requests :
                 At(q, op[c], IF op[c].kind = "createDefault" THEN "newBot" ELSE "assign")
                    => RequestOK(q)
<1>1. op[c].kind # "createCustom" /\ op[c].to \in Nodes
  BY Typed DEF RequestOK, WithRow
<1>2. ASSUME rt[op[c].to].exists, NEW q \in Requests,
             At(q, op[c], IF op[c].kind = "createDefault" THEN "newBot" ELSE "assign")
      PROVE  RequestOK(q)
  BY <1>1, <1>2, Typed DEF RequestOK, At, Keeps, WithRow, Creating, Moving, Draining, RightName, IsCustom
<1>3. QED
  BY <1>1, <1>2

LEMMA FindRunnerFits ==
    ASSUME FitInv, NEW c \in Clients, FindRunner(c)
    PROVE  FitInv'
<1>1. UNCHANGED <<rt, bot>> /\ OtherTypes' /\ torn' = torn /\ op[c].pc = "byName"
  BY Typed DEF FindRunner, OtherTypes, history
<1>2. op[c].kind # "createCustom" /\ op[c].to \in Nodes
  BY <1>1, AfterRunnerOK
<1>3. CASE rt[op[c].to].exists /\ AfterRunner(c)
  <2> DEFINE l == IF op[c].kind = "createDefault" THEN "newBot" ELSE "assign"
  <2>1. Goto(c, l) /\ l \in Pcs
    BY <1>3 DEF AfterRunner, Pcs
  <2>2. \A q \in Requests : At(q, op[c], l) => RequestOK(q)
    BY <1>1, <1>3, AfterRunnerOK
  <2> HIDE DEF l
  <2>3. QED
    BY <1>1, <1>2, <2>1, <2>2, GotoStep
<1>4. CASE /\ rt[op[c].to].exists
           /\ op' = [op EXCEPT ![c] = [@ EXCEPT !.pc = "refresh", !.rtrow = rt[op[c].to]]]
  <2>1. ASSUME NEW q \in Requests,
               Keeps(q, op[c]), q.pc = "refresh", q.id = op[c].id, q.name = op[c].name,
               q.row = op[c].row, q.rtrow = rt[op[c].to], q.todo = op[c].todo
        PROVE  RequestOK(q)
    BY <1>1, <1>2, <1>4, <2>1, Typed DEF RequestOK, Keeps, WithRow, Creating, Moving, Draining, RightName, IsCustom
  <2>2. op[c].to \in RuntimeNames
    BY <1>2 DEF RuntimeNames
  <2>3. QED
    BY <1>1, <1>4, <2>1, <2>2, ReadRuntimeRow
<1>5. CASE ~rt[op[c].to].exists /\ Goto(c, "newRunner")
  <2>1. ASSUME NEW q \in Requests, At(q, op[c], "newRunner") PROVE RequestOK(q)
    BY <1>1, <1>2, <2>1, Typed DEF RequestOK, At, Keeps, WithRow, Creating, Moving, Draining, RightName, IsCustom
  <2>2. QED
    BY <1>1, <1>5, <2>1, GotoStep DEF Pcs
<1>6. QED
  BY <1>3, <1>4, <1>5 DEF FindRunner

----------------------------------------------------------------------------
(* Steps that change the rows of bots and runtimes that exist.             *)

LEMMA ChangeStep ==
    ASSUME FitInv, NEW c \in Clients, NEW q \in Requests, op' = [op EXCEPT ![c] = q],
           RequestOK(q)', q.pc = "newBot" => q.kind # "createCustom", op[c].pc # "newBot",
           Grows, OtherTypes', torn' = torn,
           \A x \in RuntimeNames : rt'[x].exists => rt[x].exists \/ x \notin Names,
           \A i \in Ids : bot'[i].exists => bot[i].exists /\ rt'[bot'[i].rt].exists
    PROVE  FitInv'
<1>1. op' \in [Clients -> Requests] /\ \A d \in Clients : RequestOK(op[d])'
  BY RequestsOK
<1>2. op \in [Clients -> Requests]
  BY Typed
<1>3. \A d \in Clients, x \in Names : Making(d, x)' <=> Making(d, x)
  BY <1>2 DEF Making
<1>4. \A i \in Ids : bot'[i].exists => bot[i].exists /\ SameBot(bot[i], bot'[i])
  BY DEF Grows
<1>5. \A i \in Ids : bot[i].exists => bot'[i].exists
  BY DEF Grows, SameBot
<1>6. \A i \in Ids, x \in Names : (bot'[i].exists /\ bot'[i].rt = x) <=> (bot[i].exists /\ bot[i].rt = x)
  BY <1>4, <1>5 DEF Grows, SameBot
<1>7. TypeOK'
  BY <1>1 DEF TypeOK, OtherTypes, Grows, RequestOK
<1>8. MakingAlone'
  BY <1>3, <1>6 DEF FitInv, MakingAlone
<1>9. RowsFit'
  <2>1. \A i, j \in Ids : bot'[i].exists /\ bot'[j].exists /\ bot'[i].port = bot'[j].port => i = j
    BY <1>4 DEF FitInv, RowsFit, SameBot
  <2>2. \A i, j \in Ids : /\ bot'[i].exists /\ bot'[j].exists
                           /\ bot'[i].rt = bot'[j].rt /\ bot'[i].rt \in Names
                           => i = j
    BY <1>6 DEF FitInv, RowsFit
  <2>3. \A x \in Names :
           rt'[x].exists /\ (\A i \in Ids : bot'[i].exists => bot'[i].rt # x)
              => x \in torn' \/ \E d \in Clients : Making(d, x)'
    BY <1>3, <1>6 DEF FitInv, RowsFit, RuntimeNames
  <2>4. QED
    BY <2>1, <2>2, <2>3 DEF RowsFit
<1>10. QED
  BY <1>1, <1>7, <1>8, <1>9 DEF FitInv, OtherTypes, Recorded

\* A write of the row of a runtime.
LEMMA RuntimeGrows ==
    ASSUME FitInv, NEW x \in RuntimeNames, NEW row \in RuntimeRow, row.exists,
           rt' = [rt EXCEPT ![x] = row], bot' = bot
    PROVE  /\ Grows
           /\ \A y \in RuntimeNames : rt'[y].exists => rt[y].exists \/ y = x
           /\ \A i \in Ids : bot'[i].exists => bot[i].exists /\ rt'[bot'[i].rt].exists
<1>1. Grows
  BY Typed DEF Grows, SameBot, FitInv, TypeOK
<1>2. \A y \in RuntimeNames : rt'[y].exists => rt[y].exists \/ y = x
  BY DEF FitInv, TypeOK
<1>3. ASSUME NEW i \in Ids, bot'[i].exists PROVE bot[i].exists /\ rt'[bot'[i].rt].exists
  <2>1. bot[i].exists /\ bot[i] \in BotRow /\ rt[bot[i].rt].exists
    BY <1>3 DEF FitInv, TypeOK, RowsFit
  <2>2. bot[i].rt \in RuntimeNames
    BY <2>1, RowTypes
  <2>3. QED
    BY <1>1, <2>1, <2>2 DEF Grows
<1>4. QED
  BY <1>1, <1>2, <1>3

LEMMA SetRuntimeGrows ==
    ASSUME FitInv, NEW x \in RuntimeNames, NEW d \in Desired, rt[x].exists,
           SetRuntime(x, d), bot' = bot
    PROVE  /\ Grows
           /\ \A y \in RuntimeNames : rt'[y].exists => rt[y].exists
           /\ \A i \in Ids : bot'[i].exists => bot[i].exists /\ rt'[bot'[i].rt].exists
<1> DEFINE row == [rt[x] EXCEPT !.desired = d]
<1>1. rt' = [rt EXCEPT ![x] = row]
  BY Zenon DEF SetRuntime
<1>2. rt[x] \in [exists : {TRUE}, node : Nodes, desired : Desired]
  BY RowTypes DEF FitInv, TypeOK
<1>3. row \in RuntimeRow /\ row.exists
  BY <1>2 DEF RuntimeRow
<1> HIDE DEF row
<1>4. QED
  BY <1>1, <1>3, RuntimeGrows

LEMMA StartRuntimeFits ==
    ASSUME FitInv, NEW c \in Clients, StartRuntime(c)
    PROVE  FitInv'
<1>1. bot' = bot /\ OtherTypes' /\ torn' = torn /\ op[c].pc = "startRuntime" /\ SetRuntime(op[c].row.rt, "running")
  BY Typed DEF StartRuntime, OtherTypes, history
<1>2. op[c].row.exists /\ op[c].row \in BotRow /\ rt[op[c].row.rt].exists
  BY <1>1, Typed DEF RequestOK, WithRow, Requests
<1>3. op[c].row.rt \in RuntimeNames
  BY <1>2, RowTypes
<1>4. /\ Grows
      /\ \A y \in RuntimeNames : rt'[y].exists => rt[y].exists
      /\ \A i \in Ids : bot'[i].exists => bot[i].exists /\ rt'[bot'[i].rt].exists
  BY <1>1, <1>2, <1>3, SetRuntimeGrows DEF Desired
<1>5. CASE op[c].kind = "drainTo" /\ Goto(c, "drainNext")
  <2>1. PICK q \in Requests : op' = [op EXCEPT ![c] = q] /\ At(q, op[c], "drainNext")
    BY <1>5, GotoRequest DEF Pcs
  <2>2. RequestOK(q) /\ q.pc # "newBot"
    BY <1>5, <2>1, Typed DEF RequestOK, At, Keeps, WithRow, Creating, Moving, Draining
  <2>3. QED
    BY <1>1, <1>4, <2>1, <2>2, StaysOK, ChangeStep
<1>6. CASE Return(c)
  <2>1. op' = [op EXCEPT ![c] = NoRequest] /\ NoRequest.pc # "newBot"
    BY <1>6, Zenon DEF Return, NoRequest
  <2>2. QED
    BY <1>1, <1>4, <2>1, NoRequestOK, StaysOK, ChangeStep
<1>7. QED
  BY <1>5, <1>6 DEF StartRuntime, AfterStart

LEMMA StopRuntimeFits ==
    ASSUME FitInv, NEW c \in Clients, StopRuntime(c)
    PROVE  FitInv'
<1>1. bot' = bot /\ OtherTypes' /\ torn' = torn /\ op[c].pc = "stopRuntime" /\ SetRuntime(op[c].row.rt, "stopped")
  BY Typed DEF StopRuntime, OtherTypes, history
<1>2. op[c].row.exists /\ op[c].row \in BotRow /\ rt[op[c].row.rt].exists
  BY <1>1, Typed DEF RequestOK, WithRow, Requests
<1>3. op[c].row.rt \in RuntimeNames
  BY <1>2, RowTypes
<1>4. /\ Grows
      /\ \A y \in RuntimeNames : rt'[y].exists => rt[y].exists
      /\ \A i \in Ids : bot'[i].exists => bot[i].exists /\ rt'[bot'[i].rt].exists
  BY <1>1, <1>2, <1>3, SetRuntimeGrows DEF Desired
<1>5. PICK q \in Requests : op' = [op EXCEPT ![c] = q] /\ RequestOK(q) /\ q.pc # "newBot"
  BY <1>1, AfterStopOK DEF StopRuntime
<1>6. QED
  BY <1>1, <1>4, <1>5, StaysOK, ChangeStep

\* It goes on right when the runner exists after its step.
LEMMA RunnerMade ==
    ASSUME NEW p \in Requests, RequestOK(p), Grows, p.pc \in {"refresh", "newRunner"}, rt'[p.to].exists,
           NEW q \in Requests, At(q, p, IF p.kind = "createDefault" THEN "newBot" ELSE "assign")
    PROVE  RequestOK(q)' /\ q.kind # "createCustom"
<1>1. RequestOK(p)'
  BY StaysOK
<1>2. p.kind # "createCustom" /\ p.to \in Nodes
  BY DEF RequestOK, WithRow
<1>3. QED
  BY <1>1, <1>2 DEF RequestOK, At, Keeps, WithRow, Creating, Moving, Draining, RightName, IsCustom

\* Where a request goes on that writes the runner.
LEMMA AfterRunnerRequest ==
    ASSUME FitInv, NEW c \in Clients, op[c].pc \in {"refresh", "newRunner"}, AfterRunner(c)
    PROVE  \E q \in Requests : /\ op' = [op EXCEPT ![c] = q]
                                /\ At(q, op[c], IF op[c].kind = "createDefault" THEN "newBot" ELSE "assign")
<1> DEFINE l == IF op[c].kind = "createDefault" THEN "newBot" ELSE "assign"
<1>1. Goto(c, l) /\ l \in Pcs
  BY DEF AfterRunner, Pcs
<1> HIDE DEF l
<1>2. \E q \in Requests : op' = [op EXCEPT ![c] = q] /\ At(q, op[c], l)
  BY <1>1, GotoRequest
<1>3. QED
  BY <1>2 DEF l

LEMMA RefreshRunnerFits ==
    ASSUME FitInv, NEW c \in Clients, RefreshRunner(c)
    PROVE  FitInv'
<1>1. bot' = bot /\ OtherTypes' /\ torn' = torn /\ op[c].pc = "refresh" /\ AfterRunner(c)
      /\ rt' = [rt EXCEPT ![op[c].to] = op[c].rtrow]
  BY Typed DEF RefreshRunner, OtherTypes, history
<1>2. op[c].to \in RuntimeNames /\ op[c].to \in Nodes /\ op[c].kind # "createCustom"
  BY <1>1, AfterRunnerOK DEF RuntimeNames
<1>3. op[c].rtrow \in RuntimeRow /\ op[c].rtrow.exists
  BY <1>1, Typed DEF RequestOK, Requests
<1>4. /\ Grows
      /\ \A y \in RuntimeNames : rt'[y].exists => rt[y].exists \/ y \notin Names
      /\ \A i \in Ids : bot'[i].exists => bot[i].exists /\ rt'[bot'[i].rt].exists
  BY <1>1, <1>2, <1>3, RuntimeGrows, RegistryAssumption DEF RegistryAssumption
<1>5. PICK q \in Requests : /\ op' = [op EXCEPT ![c] = q]
                             /\ At(q, op[c], IF op[c].kind = "createDefault" THEN "newBot" ELSE "assign")
  BY <1>1, AfterRunnerRequest
<1>6. op[c] \in Requests /\ RequestOK(op[c]) /\ rt'[op[c].to].exists
  BY <1>1, <1>2, <1>3, Typed
<1>7. RequestOK(q)' /\ q.kind # "createCustom"
  BY <1>1, <1>4, <1>5, <1>6, RunnerMade
<1>8. QED
  BY <1>1, <1>4, <1>5, <1>7, ChangeStep

LEMMA CreateRunnerFits ==
    ASSUME FitInv, NEW c \in Clients, CreateRunner(c)
    PROVE  FitInv'
<1>1. bot' = bot /\ OtherTypes' /\ torn' = torn /\ op[c].pc = "newRunner"
  BY Typed DEF CreateRunner, OtherTypes, history
<1>2. CASE Return(c) /\ UNCHANGED rt
  BY <1>1, <1>2, ReturnStep DEF Making
<1>3. CASE rt' = [rt EXCEPT ![op[c].to] = NewRuntime(op[c].to)] /\ AfterRunner(c)
  <2>1. op[c].to \in RuntimeNames /\ op[c].to \in Nodes /\ op[c].kind # "createCustom"
    BY <1>1, AfterRunnerOK DEF RuntimeNames
  <2>2. NewRuntime(op[c].to) \in RuntimeRow /\ NewRuntime(op[c].to).exists
    BY <2>1 DEF NewRuntime, RuntimeRow, Desired
  <2>3. /\ Grows
        /\ \A y \in RuntimeNames : rt'[y].exists => rt[y].exists \/ y \notin Names
        /\ \A i \in Ids : bot'[i].exists => bot[i].exists /\ rt'[bot'[i].rt].exists
    BY <1>1, <1>3, <2>1, <2>2, RuntimeGrows, RegistryAssumption DEF RegistryAssumption
  <2>4. PICK q \in Requests : /\ op' = [op EXCEPT ![c] = q]
                               /\ At(q, op[c], IF op[c].kind = "createDefault" THEN "newBot" ELSE "assign")
    BY <1>1, <1>3, AfterRunnerRequest
  <2>5. op[c] \in Requests /\ RequestOK(op[c]) /\ rt'[op[c].to].exists
    BY <1>3, <2>1, <2>2, Typed
  <2>6. RequestOK(q)' /\ q.kind # "createCustom"
    BY <1>1, <2>3, <2>4, <2>5, RunnerMade
  <2>7. QED
    BY <1>1, <2>3, <2>4, <2>6, ChangeStep
<1>4. QED
  BY <1>2, <1>3 DEF CreateRunner

LEMMA MoveRuntimeFits ==
    ASSUME FitInv, NEW c \in Clients, MoveRuntime(c)
    PROVE  FitInv'
<1> DEFINE row == [op[c].rtrow EXCEPT !.node = op[c].to, !.desired = "stopped"]
<1>1. bot' = bot /\ OtherTypes' /\ torn' = torn /\ op[c].pc = "moveRuntime" /\ Goto(c, "assign")
  BY Typed DEF MoveRuntime, OtherTypes, history
<1>2. rt' = [rt EXCEPT ![op[c].name] = row]
  BY Zenon DEF MoveRuntime
<1>3. op[c].kind \in Moving /\ RightName(op[c]) /\ op[c].to \in Nodes /\ op[c].name \in RuntimeNames
      /\ IsCustom(op[c].row) /\ rt[op[c].name].exists
  BY <1>1, Typed DEF RequestOK, RightName, WithRow, IsCustom, RuntimeNames
<1>4. op[c].rtrow \in [exists : {TRUE}, node : Nodes, desired : Desired]
  BY <1>1, Typed, RowTypes DEF RequestOK, Requests
<1>5. row \in RuntimeRow /\ row.exists
  BY <1>3, <1>4 DEF RuntimeRow, Desired
<1> HIDE DEF row
<1>6. /\ Grows
      /\ \A y \in RuntimeNames : rt'[y].exists => rt[y].exists
      /\ \A i \in Ids : bot'[i].exists => bot[i].exists /\ rt'[bot'[i].rt].exists
  BY <1>1, <1>2, <1>3, <1>5, RuntimeGrows
<1>7. PICK q \in Requests : op' = [op EXCEPT ![c] = q] /\ At(q, op[c], "assign")
  BY <1>1, GotoRequest DEF Pcs
<1>8. RequestOK(q) /\ q.pc # "newBot"
  BY <1>1, <1>3, <1>7, Typed DEF RequestOK, At, Keeps, WithRow, Creating, Moving, Draining, RightName, IsCustom
<1>9. QED
  BY <1>1, <1>6, <1>7, <1>8, StaysOK, ChangeStep

\* A write of the row of a bot.
LEMMA BotGrows ==
    ASSUME FitInv, NEW i \in Ids, NEW row \in BotRow, bot[i].exists, SameBot(bot[i], row),
           bot' = [bot EXCEPT ![i] = row], rt' = rt, rt[row.rt].exists
    PROVE  /\ Grows
           /\ \A y \in RuntimeNames : rt'[y].exists => rt[y].exists
           /\ \A j \in Ids : bot'[j].exists => bot[j].exists /\ rt'[bot'[j].rt].exists
<1>1. \A j \in Ids : bot'[j] = IF j = i THEN row ELSE bot[j]
  BY DEF FitInv, TypeOK
<1>2. Grows
  BY <1>1 DEF Grows, SameBot, FitInv, TypeOK
<1>3. \A j \in Ids : bot'[j].exists => bot[j].exists /\ rt'[bot'[j].rt].exists
  BY <1>1 DEF FitInv, RowsFit
<1>4. QED
  BY <1>2, <1>3

LEMMA SetBotGrows ==
    ASSUME FitInv, NEW i \in Ids, NEW d \in Desired, bot[i].exists, SetBot(i, d), rt' = rt
    PROVE  /\ Grows
           /\ \A y \in RuntimeNames : rt'[y].exists => rt[y].exists
           /\ \A j \in Ids : bot'[j].exists => bot[j].exists /\ rt'[bot'[j].rt].exists
<1> DEFINE row == [bot[i] EXCEPT !.desired = d]
<1>1. bot' = [bot EXCEPT ![i] = row]
  BY Zenon DEF SetBot
<1>2. bot[i] \in [exists : {TRUE}, node : Nodes, rt : RuntimeNames, port : Ports, desired : Desired]
  BY RowTypes DEF FitInv, TypeOK
<1>3. row \in BotRow /\ row.exists /\ row.rt = bot[i].rt /\ row.port = bot[i].port
  BY <1>2 DEF BotRow
<1> HIDE DEF row
<1>4. rt[row.rt].exists
  BY <1>3 DEF FitInv, RowsFit
<1>5. QED
  BY <1>1, <1>3, <1>4, BotGrows DEF SameBot

LEMMA TouchTypes ==
    ASSUME FitInv, NEW i \in Ids, Touch(i)
    PROVE  touched' \in [Clients -> SUBSET Ids]
  BY DEF FitInv, TypeOK, Touch

LEMMA StartBotFits ==
    ASSUME FitInv, NEW c \in Clients, StartBot(c)
    PROVE  FitInv'
<1>1. PICK i \in Ids : op[c].id = {i} /\ SetBot(i, "running") /\ Touch(i)
  BY Zenon DEF StartBot, Of
<1>2. touched' \in [Clients -> SUBSET Ids]
  BY <1>1, TouchTypes
<1>3. rt' = rt /\ OtherTypes' /\ torn' = torn /\ op[c].pc = "startBot" /\ Goto(c, "startRuntime")
  BY <1>2, Typed DEF StartBot, OtherTypes
<1>4. bot[i].exists
  BY <1>1, Typed DEF RequestOK
<1>5. /\ Grows
      /\ \A y \in RuntimeNames : rt'[y].exists => rt[y].exists
      /\ \A j \in Ids : bot'[j].exists => bot[j].exists /\ rt'[bot'[j].rt].exists
  BY <1>1, <1>3, <1>4, SetBotGrows DEF Desired
<1>6. PICK q \in Requests : op' = [op EXCEPT ![c] = q] /\ At(q, op[c], "startRuntime")
  BY <1>3, GotoRequest DEF Pcs
<1>7. RequestOK(q) /\ q.pc # "newBot"
  BY <1>3, <1>6, Typed DEF RequestOK, At, Keeps, WithRow, Creating, Moving, Draining
<1>8. QED
  BY <1>3, <1>5, <1>6, <1>7, StaysOK, ChangeStep

LEMMA StopBotFits ==
    ASSUME FitInv, NEW c \in Clients, StopBot(c)
    PROVE  FitInv'
<1> DEFINE l == IF IsCustom(op[c].row) THEN "stopRuntime" ELSE "others"
<1>1. PICK i \in Ids : op[c].id = {i} /\ SetBot(i, "stopped")
  BY Zenon DEF StopBot, Of
<1>2. rt' = rt /\ OtherTypes' /\ torn' = torn /\ op[c].pc = "stopBot" /\ Goto(c, l)
  BY Typed DEF StopBot, OtherTypes, history
<1>3. bot[i].exists
  BY <1>1, Typed DEF RequestOK
<1>4. /\ Grows
      /\ \A y \in RuntimeNames : rt'[y].exists => rt[y].exists
      /\ \A j \in Ids : bot'[j].exists => bot[j].exists /\ rt'[bot'[j].rt].exists
  BY <1>1, <1>2, <1>3, SetBotGrows DEF Desired
<1>5. l \in {"stopRuntime", "others"}
  OBVIOUS
<1> HIDE DEF l
<1>6. PICK q \in Requests : op' = [op EXCEPT ![c] = q] /\ At(q, op[c], l)
  BY <1>2, <1>5, GotoRequest DEF Pcs
<1>7. RequestOK(q) /\ q.pc # "newBot"
  BY <1>2, <1>5, <1>6, Typed DEF RequestOK, At, Keeps, WithRow, Creating, Moving, Draining
<1>8. QED
  BY <1>2, <1>4, <1>6, <1>7, StaysOK, ChangeStep

LEMMA AssignFits ==
    ASSUME FitInv, NEW c \in Clients, Assign(c)
    PROVE  FitInv'
<1> DEFINE row == [op[c].row EXCEPT !.node = op[c].to, !.rt = op[c].name, !.desired = "stopped"]
<1>1. PICK i \in Ids : op[c].id = {i} /\ bot' = [bot EXCEPT ![i] = row] /\ Touch(i)
                       /\ patched' = patched \ {i}
  BY Zenon DEF Assign, Of, PutBot
<1>2. touched' \in [Clients -> SUBSET Ids]
  BY <1>1, TouchTypes
<1>3. rt' = rt /\ OtherTypes' /\ torn' = torn /\ op[c].pc = "assign" /\ Goto(c, "startRead")
  BY <1>1, <1>2, Typed DEF Assign, OtherTypes
<1>4. /\ op[c].row.exists /\ op[c].kind \in Moving /\ op[c].to \in Nodes /\ RightName(op[c])
      /\ SameBot(op[c].row, bot[i]) /\ rt[op[c].name].exists
  BY <1>1, <1>3, Typed DEF RequestOK, WithRow
<1>5. op[c].row \in [exists : {TRUE}, node : Nodes, rt : RuntimeNames, port : Ports, desired : Desired]
  BY <1>4, Typed, RowTypes DEF Requests
<1>6. op[c].name \in RuntimeNames
  BY <1>4 DEF RightName, IsCustom, RuntimeNames
<1>7. row \in BotRow /\ row.exists /\ row.rt = op[c].name /\ row.port = op[c].row.port
  BY <1>4, <1>5, <1>6 DEF BotRow, Desired
<1> HIDE DEF row
<1>8. op[c].to \notin Names
  BY <1>4, RegistryAssumption DEF RegistryAssumption
<1>9. SameBot(bot[i], row)
  BY <1>4, <1>7, <1>8 DEF SameBot, RightName, IsCustom
<1>10. bot[i].exists
  BY <1>4 DEF SameBot
<1>11. /\ Grows
       /\ \A y \in RuntimeNames : rt'[y].exists => rt[y].exists
       /\ \A j \in Ids : bot'[j].exists => bot[j].exists /\ rt'[bot'[j].rt].exists
  BY <1>1, <1>3, <1>4, <1>7, <1>9, <1>10, BotGrows
<1>12. PICK q \in Requests : op' = [op EXCEPT ![c] = q] /\ At(q, op[c], "startRead")
  BY <1>3, GotoRequest DEF Pcs
<1>13. RequestOK(q) /\ q.pc # "newBot"
  BY <1>3, <1>12, Typed DEF RequestOK, At, Keeps, WithRow, Creating, Moving, Draining
<1>14. QED
  BY <1>3, <1>11, <1>12, <1>13, StaysOK, ChangeStep

LEMMA PatchFits ==
    ASSUME FitInv, NEW c \in Clients, Patch(c)
    PROVE  FitInv'
<1>1. PICK i \in Ids :
          /\ op[c].id = {i}
          /\ bot' = [bot EXCEPT ![i] = op[c].row]
          /\ patched' = IF bot[i].node # op[c].row.node \/ bot[i].rt # op[c].row.rt
                        THEN patched \cup {i} ELSE patched
          /\ IF bot[i].desired = op[c].row.desired /\ bot[i].node = op[c].row.node
             THEN UNCHANGED touched ELSE Touch(i)
  BY Zenon DEF Patch, Of, PutBot
<1>2. touched' \in [Clients -> SUBSET Ids]
  BY <1>1, TouchTypes, Typed DEF OtherTypes
<1>3. rt' = rt /\ OtherTypes' /\ torn' = torn /\ op[c].pc = "patch" /\ Return(c)
  BY <1>1, <1>2, Typed DEF Patch, OtherTypes
<1>4. /\ op[c].row.exists /\ SameBot(op[c].row, bot[i]) /\ rt[op[c].row.rt].exists
      /\ op[c].row \in BotRow
  BY <1>1, <1>3, Typed DEF RequestOK, WithRow, Requests
<1>5. SameBot(bot[i], op[c].row) /\ bot[i].exists
  BY <1>4 DEF SameBot
<1>6. /\ Grows
      /\ \A y \in RuntimeNames : rt'[y].exists => rt[y].exists
      /\ \A j \in Ids : bot'[j].exists => bot[j].exists /\ rt'[bot'[j].rt].exists
  BY <1>1, <1>3, <1>4, <1>5, BotGrows
<1>7. op' = [op EXCEPT ![c] = NoRequest] /\ NoRequest.pc # "newBot"
  BY <1>3, Zenon DEF Return, NoRequest
<1>8. QED
  BY <1>3, <1>6, <1>7, NoRequestOK, StaysOK, ChangeStep

----------------------------------------------------------------------------
(* Draining, and requests that are given up.                               *)

LEMMA SetDrainingFits ==
    ASSUME FitInv, NEW c \in Clients, SetDraining(c)
    PROVE  FitInv'
<1>1. UNCHANGED <<rt, bot>> /\ OtherTypes' /\ torn' = torn /\ op[c].pc = "drain"
  BY Typed DEF SetDraining, OtherTypes, history
<1>2. ASSUME NEW q \in Requests, At(q, op[c], "drainList") PROVE RequestOK(q)
  BY <1>1, <1>2, Typed DEF RequestOK, At, Keeps, WithRow, Creating, Moving, Draining
<1>3. Goto(c, "drainList")
  BY DEF SetDraining
<1>4. QED
  BY <1>1, <1>2, <1>3, GotoStep DEF Pcs

LEMMA DrainListFits ==
    ASSUME FitInv, NEW c \in Clients, DrainList(c)
    PROVE  FitInv'
<1> DEFINE list == {i \in OnNode(op[c].from) : op[c].kind = "drainTo" \/ bot[i].desired = "running"}
           q == WithTodo(op[c], "drainNext", list)
<1>1. UNCHANGED <<rt, bot>> /\ OtherTypes' /\ torn' = torn /\ op[c].pc = "drainList"
  BY Typed DEF DrainList, OtherTypes
<1>2. op' = [op EXCEPT ![c] = q] /\ q = WithTodo(op[c], "drainNext", list)
  BY Zenon DEF DrainList, WithTodo
<1>3. list \in SUBSET Ids /\ \A i \in list : bot[i].exists
  BY DEF OnNode
<1> HIDE DEF list, q
<1>4. "drainNext" \in Pcs /\ op[c] \in Requests
  BY Typed DEF Pcs
<1>5. /\ Keeps(q, op[c]) /\ q.pc = "drainNext" /\ q.id = op[c].id /\ q.name = op[c].name
      /\ q.row = op[c].row /\ q.rtrow = op[c].rtrow /\ q.todo = list
  BY <1>2, <1>3, <1>4, PutTodo
<1>6. RequestOK(q)
  BY <1>1, <1>3, <1>5, Typed DEF RequestOK, Keeps, WithRow, Creating, Moving, Draining
<1>7. q \in Requests
  BY <1>5 DEF Keeps
<1>8. QED
  BY <1>1, <1>2, <1>5, <1>6, <1>7, QuietStep DEF Making

LEMMA DrainNextFits ==
    ASSUME FitInv, NEW c \in Clients, DrainNext(c)
    PROVE  FitInv'
<1>1. UNCHANGED <<rt, bot>> /\ OtherTypes' /\ torn' = torn /\ op[c].pc = "drainNext"
  BY Typed DEF DrainNext, OtherTypes, history
<1>2. PICK i \in op[c].todo :
          \/ Return(c)
          \/ op' = [op EXCEPT ![c] = [@ EXCEPT !.pc = "stopRead", !.id = {i}, !.todo = op[c].todo \ {i}]]
  BY Zenon DEF DrainNext
<1>3. CASE Return(c)
  BY <1>1, <1>3, ReturnStep DEF Making
<1>4. CASE op' = [op EXCEPT ![c] = [@ EXCEPT !.pc = "stopRead", !.id = {i}, !.todo = op[c].todo \ {i}]]
  <2> DEFINE list == op[c].todo \ {i}
             q == WithIdTodo(op[c], "stopRead", i, list)
  <2>1. op' = [op EXCEPT ![c] = q] /\ q = WithIdTodo(op[c], "stopRead", i, list)
    BY <1>4, Zenon DEF WithIdTodo
  <2>2. /\ i \in Ids /\ bot[i].exists /\ list \in SUBSET Ids /\ op[c] \in Requests
        /\ \A j \in list : bot[j].exists
    BY Typed DEF Requests, RequestOK
  <2> HIDE DEF list, q
  <2>3. /\ Keeps(q, op[c]) /\ q.pc = "stopRead" /\ q.id = {i} /\ q.name = op[c].name
        /\ q.row = op[c].row /\ q.rtrow = op[c].rtrow /\ q.todo = list
    BY <2>1, <2>2, PutIdTodo DEF Pcs
  <2>4. RequestOK(q)
    BY <1>1, <2>2, <2>3, Typed DEF RequestOK, Keeps, WithRow, Creating, Moving, Draining
  <2>5. q \in Requests
    BY <2>3 DEF Keeps
  <2>6. QED
    BY <1>1, <2>1, <2>3, <2>4, <2>5, QuietStep DEF Making
<1>5. QED
  BY <1>2, <1>3, <1>4

LEMMA DrainDoneFits ==
    ASSUME FitInv, NEW c \in Clients, DrainDone(c)
    PROVE  FitInv'
<1>1. UNCHANGED <<rt, bot>> /\ OtherTypes' /\ torn' = torn /\ op[c].pc = "drainNext" /\ Return(c)
  BY Typed DEF DrainDone, OtherTypes, history
<1>2. QED
  BY <1>1, ReturnStep DEF Making

\* A name that was being made is counted as torn.
LEMMA TearTypes ==
    ASSUME FitInv, NEW c \in Clients, Tear(c)
    PROVE  torn' \subseteq Names /\ torn \subseteq torn' /\ \A x \in Names : Making(c, x) => x \in torn'
  BY DEF Tear, Making, FitInv, TypeOK

LEMMA AbandonFits ==
    ASSUME FitInv, NEW c \in Clients, Abandon(c)
    PROVE  FitInv'
<1>1. UNCHANGED <<rt, bot>> /\ Return(c)
  BY DEF Abandon
<1>2. CASE Tear(c)
  <2>1. OtherTypes'
    BY <1>2, TearTypes, Typed DEF Abandon, OtherTypes
  <2>2. QED
    BY <1>1, <1>2, <2>1, TearTypes, ReturnStep
<1>3. CASE torn' = torn /\ op[c].pc # "newBot"
  <2>1. OtherTypes'
    BY <1>3, Typed DEF Abandon, OtherTypes
  <2>2. QED
    BY <1>1, <1>3, <2>1, ReturnStep DEF Making
<1>4. QED
  BY <1>2, <1>3 DEF Abandon

\* The agents write statuses of nodes.
LEMMA BeatFits ==
    ASSUME FitInv, NEW n \in Agents,
           AgentStarts(n) \/ AgentEnds(n) \/ HeartbeatReads(n) \/ HeartbeatWrites(n)
    PROVE  FitInv'
<1>1. UNCHANGED <<rt, bot, op, ops, history>>
  BY DEF AgentStarts, AgentEnds, HeartbeatReads, HeartbeatWrites
<1>2. n \in Nodes
  BY RegistryAssumption DEF RegistryAssumption
<1>3. TypeOK' /\ Recorded'
  <2>1. CASE AgentStarts(n)
    BY <1>1, <1>2, <2>1 DEF FitInv, TypeOK, Recorded, AgentStarts, history
  <2>2. CASE AgentEnds(n)
    BY <1>1, <1>2, <2>2 DEF FitInv, TypeOK, Recorded, AgentEnds, history
  <2>3. CASE HeartbeatReads(n)
    BY <1>1, <1>2, <2>3 DEF FitInv, TypeOK, Recorded, HeartbeatReads, history
  <2>4. CASE HeartbeatWrites(n)
    BY <1>1, <1>2, <2>4 DEF FitInv, TypeOK, Recorded, HeartbeatWrites, history
  <2>5. QED
    BY <2>1, <2>2, <2>3, <2>4
<1>4. /\ \A d \in Clients : RequestOK(op[d])'
      /\ RowsFit' /\ MakingAlone'
  BY <1>1 DEF FitInv, RequestOK, RowsFit, MakingAlone, Making, history
<1>5. QED
  BY <1>3, <1>4 DEF FitInv

----------------------------------------------------------------------------
(* Rows that are made.                                                     *)

LEMMA CreateCustomRuntimeFits ==
    ASSUME FitInv, NEW c \in Clients, CreateCustomRuntime(c)
    PROVE  FitInv'
<1> DEFINE x == op[c].name
<1>1. bot' = bot /\ OtherTypes' /\ torn' = torn /\ op[c].pc = "newRuntime"
  BY Typed DEF CreateCustomRuntime, OtherTypes, history
<1>2. CASE Return(c) /\ UNCHANGED rt
  BY <1>1, <1>2, ReturnStep DEF Making
<1>3. CASE ~rt[x].exists /\ rt' = [rt EXCEPT ![x] = NewRuntime(op[c].to)] /\ Goto(c, "newBot")
  <2>1. op[c].kind = "createCustom" /\ x \in Names /\ x \in RuntimeNames /\ op[c].to \in Nodes
    BY <1>1, Typed DEF RequestOK, Creating, RuntimeNames
  <2>2. NewRuntime(op[c].to) \in RuntimeRow /\ NewRuntime(op[c].to).exists
    BY <2>1 DEF NewRuntime, RuntimeRow, Desired
  <2>3. /\ Grows
        /\ \A y \in RuntimeNames : rt'[y].exists => rt[y].exists \/ y = x
        /\ \A i \in Ids : bot'[i].exists => bot[i].exists /\ rt'[bot'[i].rt].exists
    BY <1>1, <1>3, <2>1, <2>2, RuntimeGrows
  <2>4. PICK q \in Requests : op' = [op EXCEPT ![c] = q] /\ At(q, op[c], "newBot")
    BY <1>3, GotoRequest DEF Pcs
  <2>5. rt'[x].exists
    BY <1>3, <2>1, <2>2, Typed
  <2>6. RequestOK(q)'
    <3>1. \A p \in Requests : RequestOK(p) => RequestOK(p)'
      BY <2>3, StaysOK
    <3>2. PICK r \in Requests : r = op[c] /\ RequestOK(r)'
      <4>1. op[c] \in Requests /\ RequestOK(op[c])
        BY Typed
      <4>2. PICK r \in Requests : r = op[c] /\ RequestOK(r)
        BY <4>1
      <4>3. QED
        BY <3>1, <4>2
    <3>3. r.kind = "createCustom" /\ r.pc = "newRuntime" /\ rt'[r.name].exists /\ At(q, r, "newBot")
      BY <1>1, <2>1, <2>4, <2>5, <3>2
    <3>4. QED
      BY <3>2, <3>3 DEF RequestOK, At, Keeps, WithRow, Creating, Moving, Draining
  <2>7. op' \in [Clients -> Requests] /\ \A d \in Clients : RequestOK(op[d])'
    BY <2>3, <2>4, <2>6, RequestsOK
  <2>8. /\ ~Making(c, x)
        /\ \A d \in Clients, y \in Names : Making(d, y)' <=> Making(d, y) \/ (d = c /\ y = x)
    BY <1>1, <2>1, <2>4, Typed DEF Making, At, Keeps
  <2>9. \A i \in Ids : bot[i].exists => bot[i].rt # x
    BY <1>3 DEF FitInv, RowsFit
  <2>10. \A d \in Clients : ~Making(d, x)
    BY <1>3 DEF FitInv, RequestOK, Making
  <2>11. MakingAlone'
    BY <1>1, <2>8, <2>9, <2>10 DEF FitInv, MakingAlone
  <2>12. RowsFit'
    <3>1. ASSUME NEW y \in Names, rt'[y].exists, \A i \in Ids : bot'[i].exists => bot'[i].rt # y
          PROVE  y \in torn' \/ \E d \in Clients : Making(d, y)'
      BY <1>1, <2>3, <2>8, <3>1 DEF FitInv, RowsFit, RuntimeNames
    <3>2. /\ \A i, j \in Ids : bot'[i].exists /\ bot'[j].exists /\ bot'[i].port = bot'[j].port => i = j
          /\ \A i, j \in Ids : /\ bot'[i].exists /\ bot'[j].exists
                                /\ bot'[i].rt = bot'[j].rt /\ bot'[i].rt \in Names
                                => i = j
      BY <1>1 DEF FitInv, RowsFit
    <3>3. QED
      BY <2>3, <3>1, <3>2 DEF RowsFit
  <2>13. TypeOK'
    BY <1>1, <2>3, <2>7 DEF TypeOK, OtherTypes, Grows, RequestOK
  <2>14. QED
    BY <1>1, <2>7, <2>11, <2>12, <2>13 DEF FitInv, OtherTypes, Recorded
<1>4. QED
  BY <1>2, <1>3 DEF CreateCustomRuntime

\* The bot that a create makes.
LEMMA BotMade ==
    ASSUME FitInv, NEW c \in Clients, op[c].pc = "newBot", ~PortTaken(op[c].port),
           NEW i \in Ids, ~bot[i].exists, NEW row \in BotRow, row.exists,
           row.rt = op[c].name, row.port = op[c].port, bot' = [bot EXCEPT ![i] = row],
           rt' = rt, torn' = torn, OtherTypes',
           NEW q \in Requests, op' = [op EXCEPT ![c] = q], RequestOK(q)', q.pc # "newBot"
    PROVE  FitInv'
<1>1. \A j \in Ids : bot'[j] = IF j = i THEN row ELSE bot[j]
  BY DEF FitInv, TypeOK
<1>2. Grows
  BY <1>1 DEF Grows, SameBot, FitInv, TypeOK
<1>3. op' \in [Clients -> Requests] /\ \A d \in Clients : RequestOK(op[d])'
  BY <1>2, RequestsOK
<1>4. rt[row.rt].exists /\ (row.rt \in Names => Making(c, row.rt))
  BY Typed, RegistryAssumption DEF RequestOK, Creating, Making, RegistryAssumption
<1>5. \A d \in Clients, x \in Names : Making(d, x)' <=> Making(d, x) /\ d # c
  BY Typed DEF Making
<1>6. MakingAlone'
  <2>1. ASSUME NEW d \in Clients, NEW x \in Names, Making(d, x)'
        PROVE  /\ \A j \in Ids : bot'[j].exists => bot'[j].rt # x
               /\ \A e \in Clients : Making(e, x)' => e = d
    <3>1. Making(d, x) /\ d # c
      BY <1>5, <2>1
    <3>2. x # row.rt
      BY <1>4, <3>1 DEF FitInv, MakingAlone
    <3>3. QED
      BY <1>1, <1>5, <3>1, <3>2 DEF FitInv, MakingAlone
  <2>2. QED
    BY <2>1 DEF MakingAlone
<1>7. RowsFit'
  <2>1. \A j \in Ids : bot'[j].exists => rt'[bot'[j].rt].exists
    BY <1>1, <1>4 DEF FitInv, RowsFit
  <2>2. \A j \in Ids : bot[j].exists => bot[j].port # row.port
    BY DEF PortTaken
  <2>3. \A k, j \in Ids : bot'[k].exists /\ bot'[j].exists /\ bot'[k].port = bot'[j].port => k = j
    BY <1>1, <2>2 DEF FitInv, RowsFit
  <2>4. \A j \in Ids : bot[j].exists /\ row.rt \in Names => bot[j].rt # row.rt
    BY <1>4 DEF FitInv, MakingAlone
  <2>5. \A k, j \in Ids : /\ bot'[k].exists /\ bot'[j].exists
                           /\ bot'[k].rt = bot'[j].rt /\ bot'[k].rt \in Names
                           => k = j
    BY <1>1, <2>4 DEF FitInv, RowsFit
  <2>6. ASSUME NEW x \in Names, rt'[x].exists, \A j \in Ids : bot'[j].exists => bot'[j].rt # x
        PROVE  x \in torn' \/ \E d \in Clients : Making(d, x)'
    <3>1. x # row.rt /\ \A j \in Ids : bot[j].exists => bot[j].rt # x
      BY <1>1, <2>6
    <3>2. x \in torn \/ \E d \in Clients : Making(d, x)
      BY <2>6, <3>1 DEF FitInv, RowsFit
    <3>3. ~Making(c, x)
      BY <3>1 DEF Making
    <3>4. QED
      BY <1>5, <3>2, <3>3
  <2>7. QED
    BY <2>1, <2>3, <2>5, <2>6 DEF RowsFit
<1>8. TypeOK'
  BY <1>2, <1>3 DEF TypeOK, OtherTypes, Grows, RequestOK
<1>9. QED
  BY <1>3, <1>6, <1>7, <1>8 DEF FitInv, OtherTypes, Recorded

LEMMA CreateBotFits ==
    ASSUME FitInv, NEW c \in Clients, CreateBot(c)
    PROVE  FitInv'
<1>1. op[c].pc = "newBot" /\ UNCHANGED <<node, beat, rt, ops, patched>>
  BY DEF CreateBot
<1>2. CASE Return(c) /\ Tear(c) /\ UNCHANGED <<bot, touched>>
  <2>1. OtherTypes'
    BY <1>1, <1>2, TearTypes, Typed DEF OtherTypes
  <2>2. QED
    BY <1>1, <1>2, <2>1, TearTypes, ReturnStep
<1>3. CASE /\ ~PortTaken(op[c].port)
           /\ \E i \in Ids :
                 /\ ~bot[i].exists
                 /\ PutBot(i, [exists |-> TRUE, node |-> op[c].to, rt |-> op[c].name,
                               port |-> op[c].port, desired |-> "stopped"])
                 /\ Touch(i)
                 /\ IF op[c].start
                    THEN op' = [op EXCEPT ![c] = [@ EXCEPT !.pc = "startRead", !.id = {i}]]
                    ELSE Return(c)
           /\ UNCHANGED torn
  <2> DEFINE row == [exists |-> TRUE, node |-> op[c].to, rt |-> op[c].name,
                     port |-> op[c].port, desired |-> "stopped"]
  <2>1. PICK i \in Ids :
           /\ ~bot[i].exists /\ bot' = [bot EXCEPT ![i] = row] /\ Touch(i)
           /\ op' = [op EXCEPT ![c] = [@ EXCEPT !.pc = "startRead", !.id = {i}]] \/ Return(c)
    BY <1>3, Zenon DEF PutBot
  <2>2. op[c].to \in Nodes /\ op[c].port \in Ports /\ op[c].name \in RuntimeNames
    BY <1>1, Typed DEF RequestOK, Creating, RuntimeNames
  <2>3. row \in BotRow /\ row.exists /\ row.rt = op[c].name /\ row.port = op[c].port
    BY <2>2 DEF BotRow, Desired
  <2> HIDE DEF row
  <2>4. touched' \in [Clients -> SUBSET Ids]
    BY <2>1, TouchTypes
  <2>5. rt' = rt /\ torn' = torn /\ OtherTypes'
    BY <1>1, <1>3, <2>4, Typed DEF OtherTypes
  <2>6. \A j \in Ids : bot'[j] = IF j = i THEN row ELSE bot[j]
    BY <2>1, Typed
  <2>7. Grows
    BY <2>1, <2>3, <2>5, <2>6, Typed DEF Grows, SameBot
  <2>8. CASE op' = [op EXCEPT ![c] = [@ EXCEPT !.pc = "startRead", !.id = {i}]]
    <3> DEFINE q == WithId(op[c], "startRead", i)
    <3>1. op' = [op EXCEPT ![c] = q] /\ q = WithId(op[c], "startRead", i)
      BY <2>8, Zenon DEF WithId
    <3> HIDE DEF q
    <3>2. op[c] \in Requests /\ RequestOK(op[c])
      BY Typed
    <3>3. /\ Keeps(q, op[c]) /\ q.pc = "startRead" /\ q.id = {i} /\ q.name = op[c].name
          /\ q.row = op[c].row /\ q.rtrow = op[c].rtrow /\ q.todo = op[c].todo
      BY <3>1, <3>2, PutId DEF Pcs
    <3>4. PICK r \in Requests : r = op[c] /\ RequestOK(r)
      BY <3>2
    <3>5. RequestOK(r)'
      BY <2>7, <3>4, StaysOK
    <3>6. bot'[i].exists
      BY <2>3, <2>6
    <3>7. q \in Requests
      BY <3>3 DEF Keeps
    <3>8. PICK p \in Requests :
             /\ op' = [op EXCEPT ![c] = p]
             /\ Keeps(p, r) /\ p.pc = "startRead" /\ p.id = {i} /\ p.name = r.name
             /\ p.row = r.row /\ p.rtrow = r.rtrow /\ p.todo = r.todo
      BY <3>1, <3>3, <3>4, <3>7
    <3>9. RequestOK(p)'
      BY <3>5, <3>6, <3>8 DEF RequestOK, Keeps, WithRow, Creating, Moving, Draining
    <3>10. QED
      BY <1>1, <1>3, <2>1, <2>3, <2>5, <3>8, <3>9, BotMade
  <2>9. CASE Return(c)
    <3>1. op' = [op EXCEPT ![c] = NoRequest] /\ NoRequest.pc # "newBot"
      BY <2>9, Zenon DEF Return, NoRequest
    <3>2. NoRequest \in Requests /\ RequestOK(NoRequest)'
      BY <2>7, NoRequestOK, StaysOK
    <3>3. QED
      BY <1>1, <1>3, <2>1, <2>3, <2>5, <3>1, <3>2, BotMade
  <2>10. QED
    BY <2>1, <2>8, <2>9
<1>4. QED
  BY <1>2, <1>3 DEF CreateBot

----------------------------------------------------------------------------

LEMMA FitInit ==
    ASSUME Init
    PROVE  FitInv
<1>1. TypeOK
  BY NoRequestOK DEF Init, TypeOK, BotRow, RuntimeRow, RequestOK, RuntimeNames
<1>2. \A c \in Clients : RequestOK(op[c])
  BY NoRequestOK DEF Init
<1>3. RowsFit
  BY DEF Init, RowsFit, NoBot, NoRuntime, RuntimeNames
<1>4. MakingAlone
  BY DEF Init, MakingAlone, Making, NoRequest
<1>5. Recorded
  BY DEF Init, Recorded
<1>6. QED
  BY <1>1, <1>2, <1>3, <1>4, <1>5 DEF FitInv

LEMMA FitStep ==
    ASSUME FitInv, [Next]_vars
    PROVE  FitInv'
<1>1. ASSUME NEW c \in Clients, Request(c) PROVE FitInv'
  BY <1>1, BeginCreateFits, LimitFits, CreateCustomRuntimeFits, FindRunnerFits, RefreshRunnerFits,
     CreateRunnerFits, CreateBotFits, BeginStartFits, StartReadFits, StartLimitFits, StartBotFits,
     StartRuntimeFits, BeginStopFits, StopReadFits, StopBotFits, OthersFits, StopRuntimeFits,
     BeginMigrateFits, RereadFits, ReadRuntimeFits, MoveRuntimeFits, AssignFits, BeginPatchFits,
     PatchFits, BeginDrainFits, SetDrainingFits, DrainListFits, DrainNextFits, DrainDoneFits,
     AbandonFits, Zenon DEF Request
<1>2. ASSUME NEW n \in Agents,
             AgentStarts(n) \/ AgentEnds(n) \/ HeartbeatReads(n) \/ HeartbeatWrites(n)
      PROVE  FitInv'
  BY <1>2, BeatFits
<1>3. CASE UNCHANGED vars
  BY <1>3 DEF FitInv, TypeOK, RequestOK, RowsFit, MakingAlone, Making, Recorded, vars
<1>4. QED
  BY <1>1, <1>2, <1>3 DEF Next

LEMMA Fit == Spec => []FitInv
<1>1. Init => FitInv
  BY FitInit
<1>2. FitInv /\ [Next]_vars => FitInv'
  BY FitStep
<1>3. QED
  BY <1>1, <1>2, PTL DEF Spec

\* Every row and every request has its type, and a request never works with a
\* row it has not read (the handlers of internal/api and internal/ops).
THEOREM RegistryTypes == Spec => []TypeOK
<1>1. FitInv => TypeOK
  BY DEF FitInv
<1>2. QED
  BY <1>1, Fit, PTL

\* The rows of bots and runtimes fit together, whatever requests interleave,
\* fail and are given up between their calls.
THEOREM RegistryFits == Spec => []RowsFit
<1>1. FitInv => RowsFit
  BY DEF FitInv
<1>2. QED
  BY <1>1, Fit, PTL
=============================================================================
