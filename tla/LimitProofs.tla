---------------------------- MODULE LimitProofs ----------------------------
(***************************************************************************)
(* The bot limit, for any number of nodes and of requests at the same      *)
(* time: a request that has passed the check of the limit and has not      *)
(* placed its bot yet takes the place of a bot.                            *)
(***************************************************************************)
EXTENDS RegistryProofs

\* Where a request has passed the check for its target and still has to place
\* its bot.
Placing == {"newRuntime", "byName", "refresh", "newRunner", "newBot", "readRuntime",
            "moveRuntime", "assign"}

Pending(n) == {c \in Clients : op[c].pc \in Placing /\ op[c].to = n}

Room ==
    \A n \in Nodes :
        Cardinality(Placed(n)) + Cardinality(Pending(n)) <= MaxBots + Cardinality(Clients) - 1

\* Nothing is placed and nothing passes the check.
Calm ==
    \A n \in Nodes : Placed(n)' \subseteq Placed(n) /\ Pending(n)' \subseteq Pending(n)

LEMMA FiniteSets ==
    ASSUME NEW n \in Nodes
    PROVE  /\ IsFiniteSet(Placed(n)) /\ IsFiniteSet(Pending(n))
           /\ IsFiniteSet(Placed(n)') /\ IsFiniteSet(Pending(n)')
           /\ Cardinality(Placed(n)) \in Nat /\ Cardinality(Pending(n)) \in Nat
           /\ Cardinality(Placed(n)') \in Nat /\ Cardinality(Pending(n)') \in Nat
           /\ Cardinality(Pending(n)') <= Cardinality(Clients)
           /\ Cardinality(Clients) \in Nat /\ MaxBots \in Nat
<1>1. IsFiniteSet(Ids) /\ IsFiniteSet(Clients) /\ MaxBots \in Nat
  BY RegistryAssumption DEF RegistryAssumption
<1>2. Placed(n) \subseteq Ids /\ Placed(n)' \subseteq Ids
  BY DEF Placed, OnNode
<1>3. Pending(n) \subseteq Clients /\ Pending(n)' \subseteq Clients
  BY DEF Pending
<1>4. IsFiniteSet(Placed(n)) /\ IsFiniteSet(Placed(n)')
  BY <1>1, <1>2, FS_Subset
<1>5. IsFiniteSet(Pending(n)) /\ IsFiniteSet(Pending(n)') /\ Cardinality(Pending(n)') <= Cardinality(Clients)
  BY <1>1, <1>3, FS_Subset
<1>6. QED
  BY <1>1, <1>4, <1>5, FS_CardinalityType

LEMMA CalmRoom ==
    ASSUME Room, Calm
    PROVE  Room'
<1>1. ASSUME NEW n \in Nodes
      PROVE  Cardinality(Placed(n)') + Cardinality(Pending(n)') <= MaxBots + Cardinality(Clients) - 1
  <2>1. Cardinality(Placed(n)') <= Cardinality(Placed(n)) /\ Cardinality(Pending(n)') <= Cardinality(Pending(n))
    BY FiniteSets, FS_Subset DEF Calm
  <2>2. Cardinality(Placed(n)) + Cardinality(Pending(n)) <= MaxBots + Cardinality(Clients) - 1
    BY DEF Room
  <2>3. QED
    BY <2>1, <2>2, FiniteSets
<1>2. QED
  BY <1>1 DEF Room

----------------------------------------------------------------------------
(* Steps of one request.                                                   *)

\* The step of c, after which it is not placing, or still is, on the same node.
Settles(c) ==
    /\ \A d \in Clients : d # c => op'[d] = op[d]
    /\ op'[c].pc \in Placing => op[c].pc \in Placing /\ op'[c].to = op[c].to

LEMMA SettlesPending ==
    ASSUME NEW c \in Clients, Settles(c), NEW n \in Nodes
    PROVE  Pending(n)' \subseteq Pending(n)
  BY DEF Settles, Pending

LEMMA SameRowsCalm ==
    ASSUME NEW c \in Clients, Settles(c), UNCHANGED <<bot, patched>>
    PROVE  Calm
<1>1. \A n \in Nodes : Placed(n)' = Placed(n)
  BY DEF Placed, OnNode
<1>2. QED
  BY <1>1, SettlesPending DEF Calm

LEMMA ReturnSettles ==
    ASSUME FitInv, NEW c \in Clients, Return(c)
    PROVE  Settles(c)
  BY Typed DEF Return, Settles, NoRequest, Placing

LEMMA GotoSettles ==
    ASSUME FitInv, NEW c \in Clients, NEW l \in Pcs, Goto(c, l), l \notin Placing \/ op[c].pc \in Placing
    PROVE  Settles(c)
<1>1. PICK q \in Requests : op' = [op EXCEPT ![c] = q] /\ At(q, op[c], l)
  BY GotoRequest
<1>2. QED
  BY <1>1, Typed DEF Settles, At, Keeps

LEMMA MovesSettles ==
    ASSUME NEW c \in Clients, \A d \in Clients : d # c => op'[d] = op[d], NEW l, op'[c].pc = l,
           l \notin Placing
    PROVE  Settles(c)
  BY DEF Settles

\* What begins has not passed the check.
LEMMA BeginSettles ==
    ASSUME FitInv, NEW c \in Clients,
           BeginCreate(c) \/ BeginStart(c) \/ BeginStop(c) \/ BeginMigrate(c) \/ BeginPatch(c) \/ BeginDrain(c)
    PROVE  Settles(c) /\ UNCHANGED <<bot, patched>>
<1>1. CASE BeginCreate(c)
  <2>1. op'[c].pc = "limit" /\ \A d \in Clients : d # c => op'[d] = op[d]
    BY <1>1, Typed DEF BeginCreate, BeginWith, NoRequest
  <2>2. UNCHANGED <<bot, patched>>
    BY <1>1 DEF BeginCreate, BeginWith, history
  <2>3. QED
    BY <2>1, <2>2, MovesSettles DEF Placing
<1>2. CASE BeginStart(c)
  <2>1. op'[c].pc = "startLimit" /\ \A d \in Clients : d # c => op'[d] = op[d]
    BY <1>2, Typed DEF BeginStart, BeginWith, NoRequest
  <2>2. UNCHANGED <<bot, patched>>
    BY <1>2 DEF BeginStart, BeginWith, history
  <2>3. QED
    BY <2>1, <2>2, MovesSettles DEF Placing
<1>3. CASE BeginStop(c)
  <2>1. op'[c].pc = "stopBot" /\ \A d \in Clients : d # c => op'[d] = op[d]
    BY <1>3, Typed DEF BeginStop, BeginWith, NoRequest
  <2>2. UNCHANGED <<bot, patched>>
    BY <1>3 DEF BeginStop, BeginWith, history
  <2>3. QED
    BY <2>1, <2>2, MovesSettles DEF Placing
<1>4. CASE BeginMigrate(c)
  <2>1. op'[c].pc = "stopRead" /\ \A d \in Clients : d # c => op'[d] = op[d]
    BY <1>4, Typed DEF BeginMigrate, BeginWith, NoRequest
  <2>2. UNCHANGED <<bot, patched>>
    BY <1>4 DEF BeginMigrate, BeginWith, history
  <2>3. QED
    BY <2>1, <2>2, MovesSettles DEF Placing
<1>5. CASE BeginPatch(c)
  <2>1. op'[c].pc = "patch" /\ \A d \in Clients : d # c => op'[d] = op[d]
    BY <1>5, Typed DEF BeginPatch, BeginWith, NoRequest
  <2>2. UNCHANGED <<bot, patched>>
    BY <1>5 DEF BeginPatch, BeginWith, history
  <2>3. QED
    BY <2>1, <2>2, MovesSettles DEF Placing
<1>6. CASE BeginDrain(c)
  <2>1. op'[c].pc = "drain" /\ \A d \in Clients : d # c => op'[d] = op[d]
    BY <1>6, Typed DEF BeginDrain, BeginWith, NoRequest
  <2>2. UNCHANGED <<bot, patched>>
    BY <1>6 DEF BeginDrain, BeginWith, history
  <2>3. QED
    BY <2>1, <2>2, MovesSettles DEF Placing
<1>7. QED
  BY <1>1, <1>2, <1>3, <1>4, <1>5, <1>6

\* Calls that read.
LEMMA ReadSettles ==
    ASSUME FitInv, NEW c \in Clients,
           StartRead(c) \/ StopRead(c) \/ Reread(c) \/ ReadRuntime(c) \/ StartLimit(c) \/ Others(c)
    PROVE  Settles(c) /\ UNCHANGED <<bot, patched>>
<1>1. CASE StartRead(c)
  <2>1. op'[c].pc = "startLimit" /\ \A d \in Clients : d # c => op'[d] = op[d]
    BY <1>1, Typed DEF StartRead, Requests
  <2>2. UNCHANGED <<bot, patched>>
    BY <1>1 DEF StartRead, history
  <2>3. QED
    BY <2>1, <2>2, MovesSettles DEF Placing
<1>2. CASE StopRead(c)
  <2>1. op'[c].pc = "stopBot" /\ \A d \in Clients : d # c => op'[d] = op[d]
    BY <1>2, Typed DEF StopRead, Requests
  <2>2. UNCHANGED <<bot, patched>>
    BY <1>2 DEF StopRead, history
  <2>3. QED
    BY <2>1, <2>2, MovesSettles DEF Placing
<1>3. CASE Reread(c)
  <2>1. op'[c].pc = "limit" /\ \A d \in Clients : d # c => op'[d] = op[d]
    BY <1>3, Typed DEF Reread, Requests
  <2>2. UNCHANGED <<bot, patched>>
    BY <1>3 DEF Reread, history
  <2>3. QED
    BY <2>1, <2>2, MovesSettles DEF Placing
<1>4. CASE ReadRuntime(c)
  BY <1>4, Typed DEF ReadRuntime, Requests, Settles, Placing, history
<1>5. CASE StartLimit(c)
  BY <1>5, ReturnSettles, GotoSettles DEF StartLimit, Pcs, Placing, history
<1>6. CASE Others(c)
  BY <1>6, ReturnSettles, GotoSettles DEF Others, AfterStop, Pcs, Placing, history
<1>7. QED
  BY <1>1, <1>2, <1>3, <1>4, <1>5, <1>6

\* Calls that write rows of runtimes.
LEMMA RuntimeSettles ==
    ASSUME FitInv, NEW c \in Clients,
           CreateCustomRuntime(c) \/ FindRunner(c) \/ RefreshRunner(c) \/ CreateRunner(c)
             \/ StartRuntime(c) \/ StopRuntime(c) \/ MoveRuntime(c)
    PROVE  Settles(c) /\ UNCHANGED <<bot, patched>>
<1>1. CASE CreateCustomRuntime(c)
  BY <1>1, ReturnSettles, GotoSettles DEF CreateCustomRuntime, Pcs, Placing, history
<1>2. CASE FindRunner(c)
  <2>1. UNCHANGED <<bot, patched>> /\ op[c].pc = "byName"
    BY <1>2 DEF FindRunner, history
  <2>2. CASE AfterRunner(c)
    BY <2>1, <2>2, GotoSettles DEF AfterRunner, Pcs, Placing
  <2>3. CASE op' = [op EXCEPT ![c] = [@ EXCEPT !.pc = "refresh", !.rtrow = rt[op[c].to]]]
    BY <2>1, <2>3, Typed DEF Requests, Settles, Placing
  <2>4. CASE Goto(c, "newRunner")
    BY <2>1, <2>4, GotoSettles DEF Pcs, Placing
  <2>5. QED
    BY <1>2, <2>1, <2>2, <2>3, <2>4 DEF FindRunner
<1>3. CASE RefreshRunner(c)
  BY <1>3, GotoSettles DEF RefreshRunner, AfterRunner, Pcs, Placing, history
<1>4. CASE CreateRunner(c)
  BY <1>4, ReturnSettles, GotoSettles DEF CreateRunner, AfterRunner, Pcs, Placing, history
<1>5. CASE StartRuntime(c)
  BY <1>5, ReturnSettles, GotoSettles DEF StartRuntime, AfterStart, Pcs, Placing, history
<1>6. CASE StopRuntime(c)
  BY <1>6, ReturnSettles, GotoSettles DEF StopRuntime, AfterStop, Pcs, Placing, history
<1>7. CASE MoveRuntime(c)
  BY <1>7, GotoSettles DEF MoveRuntime, Pcs, Placing, history
<1>8. QED
  BY <1>1, <1>2, <1>3, <1>4, <1>5, <1>6, <1>7

LEMMA DrainSettles ==
    ASSUME FitInv, NEW c \in Clients,
           SetDraining(c) \/ DrainList(c) \/ DrainNext(c) \/ DrainDone(c) \/ Abandon(c)
    PROVE  Settles(c) /\ UNCHANGED <<bot, patched>>
<1>1. CASE SetDraining(c)
  BY <1>1, GotoSettles DEF SetDraining, Pcs, Placing, history
<1>2. CASE DrainList(c)
  BY <1>2, Typed DEF DrainList, Requests, Settles, Placing
<1>3. CASE DrainNext(c)
  <2>1. UNCHANGED <<bot, patched>>
    BY <1>3 DEF DrainNext, history
  <2>2. PICK i \in op[c].todo :
          \/ Return(c)
          \/ op' = [op EXCEPT ![c] = [@ EXCEPT !.pc = "stopRead", !.id = {i}, !.todo = op[c].todo \ {i}]]
    BY <1>3, Zenon DEF DrainNext
  <2>3. CASE op' = [op EXCEPT ![c] = [@ EXCEPT !.pc = "stopRead", !.id = {i}, !.todo = op[c].todo \ {i}]]
    <3>1. op'[c].pc = "stopRead" /\ \A d \in Clients : d # c => op'[d] = op[d]
      BY <2>3, Typed DEF Requests
    <3>2. QED
      BY <2>1, <3>1, MovesSettles DEF Placing
  <2>4. QED
    BY <2>1, <2>2, <2>3, ReturnSettles
<1>4. CASE DrainDone(c)
  BY <1>4, ReturnSettles DEF DrainDone, history
<1>5. CASE Abandon(c)
  BY <1>5, ReturnSettles DEF Abandon
<1>6. QED
  BY <1>1, <1>2, <1>3, <1>4, <1>5

----------------------------------------------------------------------------
(* Steps that write a bot or pass the check.                               *)

LEMMA DesiredCalm ==
    ASSUME FitInv, NEW c \in Clients, StartBot(c) \/ StopBot(c)
    PROVE  Calm
<1>1. patched' = patched /\ Settles(c)
  BY GotoSettles DEF StartBot, StopBot, Pcs, Placing, history
<1>2. PICK i \in Ids, d \in Desired : bot' = [bot EXCEPT ![i].desired = d] /\ op[c].id = {i}
  BY DEF StartBot, StopBot, SetBot, Of, Desired
<1>3. bot[i] \in [exists : {TRUE}, node : Nodes, rt : RuntimeNames, port : Ports, desired : Desired]
  BY <1>2, Typed, RowTypes DEF RequestOK
<1>4. \A j \in Ids : bot'[j].node = bot[j].node /\ bot'[j].exists = bot[j].exists
  BY <1>2, <1>3, Typed
<1>5. \A n \in Nodes : Placed(n)' = Placed(n)
  BY <1>1, <1>4 DEF Placed, OnNode
<1>6. QED
  BY <1>1, <1>5, SettlesPending DEF Calm

\* A PATCH that moves a bot marks it.
LEMMA PatchCalm ==
    ASSUME FitInv, NEW c \in Clients, Patch(c)
    PROVE  Calm
<1>1. Settles(c)
  BY ReturnSettles DEF Patch
<1>2. PICK i \in Ids :
          /\ op[c].id = {i}
          /\ bot' = [bot EXCEPT ![i] = op[c].row]
          /\ patched' = IF bot[i].node # op[c].row.node \/ bot[i].rt # op[c].row.rt
                        THEN patched \cup {i} ELSE patched
  BY Zenon DEF Patch, Of, PutBot
<1>3. bot[i].exists
  BY <1>2, Typed DEF RequestOK
<1>4. \A n \in Nodes : Placed(n)' \subseteq Placed(n)
  BY <1>2, <1>3, Typed DEF Placed, OnNode
<1>5. QED
  BY <1>1, <1>4, SettlesPending DEF Calm

\* A bot is placed by a request that had passed the check.
LEMMA PlaceRoom ==
    ASSUME FitInv, Room, NEW c \in Clients, op[c].pc \in {"newBot", "assign"},
           NEW i \in Ids, NEW row, row.node = op[c].to,
           bot' = [bot EXCEPT ![i] = row], patched \subseteq patched' \cup {i},
           Settles(c), op'[c].pc \notin Placing
    PROVE  Room'
<1>1. ASSUME NEW n \in Nodes
      PROVE  Cardinality(Placed(n)') + Cardinality(Pending(n)') <= MaxBots + Cardinality(Clients) - 1
  <2>1. Cardinality(Placed(n)) + Cardinality(Pending(n)) <= MaxBots + Cardinality(Clients) - 1
    BY DEF Room
  <2>2. \A j \in Ids : bot'[j] = IF j = i THEN row ELSE bot[j]
    BY Typed
  <2>3. CASE n = op[c].to
    <3>1. Placed(n)' \subseteq Placed(n) \cup {i}
      BY <2>2 DEF Placed, OnNode
    <3>2. c \in Pending(n) /\ Pending(n)' \subseteq Pending(n) \ {c}
      BY <2>3 DEF Pending, Placing, Settles
    <3>3. /\ IsFiniteSet(Placed(n) \cup {i})
          /\ Cardinality(Placed(n) \cup {i}) <= Cardinality(Placed(n)) + 1
      <4>1. IsFiniteSet(Placed(n)) /\ Cardinality(Placed(n)) \in Nat
        BY FiniteSets
      <4>2. /\ IsFiniteSet(Placed(n) \cup {i})
            /\ Cardinality(Placed(n) \cup {i}) =
                 IF i \in Placed(n) THEN Cardinality(Placed(n)) ELSE Cardinality(Placed(n)) + 1
        BY <4>1, FS_AddElement, Zenon
      <4>3. QED
        BY <4>1, <4>2
    <3>4. /\ IsFiniteSet(Pending(n) \ {c})
          /\ Cardinality(Pending(n) \ {c}) = Cardinality(Pending(n)) - 1
      BY <3>2, FiniteSets, FS_RemoveElement
    <3>5. /\ Cardinality(Placed(n)') <= Cardinality(Placed(n) \cup {i})
          /\ Cardinality(Pending(n)') <= Cardinality(Pending(n) \ {c})
      BY <3>1, <3>2, <3>3, <3>4, FS_Subset
    <3>6. Cardinality(Placed(n) \cup {i}) \in Nat
      BY <3>3, FS_CardinalityType
    <3>7. QED
      BY <2>1, <3>3, <3>4, <3>5, <3>6, FiniteSets
  <2>4. CASE n # op[c].to
    <3>1. Placed(n)' \subseteq Placed(n)
      BY <2>2, <2>4 DEF Placed, OnNode
    <3>2. Pending(n)' \subseteq Pending(n)
      BY SettlesPending
    <3>3. Cardinality(Placed(n)') <= Cardinality(Placed(n)) /\ Cardinality(Pending(n)') <= Cardinality(Pending(n))
      BY <3>1, <3>2, FiniteSets, FS_Subset
    <3>4. QED
      BY <2>1, <3>3, FiniteSets
  <2>5. QED
    BY <2>3, <2>4
<1>2. QED
  BY <1>1 DEF Room

LEMMA AssignRoom ==
    ASSUME FitInv, Room, NEW c \in Clients, Assign(c)
    PROVE  Room'
<1> DEFINE row == [op[c].row EXCEPT !.node = op[c].to, !.rt = op[c].name, !.desired = "stopped"]
<1>1. PICK i \in Ids : bot' = [bot EXCEPT ![i] = row] /\ patched' = patched \ {i}
  BY Zenon DEF Assign, PutBot
<1>2. op[c].pc = "assign" /\ Goto(c, "startRead")
  BY DEF Assign
<1>3. op[c].row \in [exists : {TRUE}, node : Nodes, rt : RuntimeNames, port : Ports, desired : Desired]
  BY <1>2, Typed, RowTypes DEF RequestOK, WithRow, Requests
<1>4. row.node = op[c].to
  BY <1>3
<1>5. Settles(c) /\ op'[c].pc \notin Placing
  <2>1. PICK q \in Requests : op' = [op EXCEPT ![c] = q] /\ At(q, op[c], "startRead")
    BY <1>2, GotoRequest DEF Pcs
  <2>2. QED
    BY <2>1, Typed DEF Settles, At, Placing
<1> HIDE DEF row
<1>6. QED
  BY <1>1, <1>2, <1>4, <1>5, PlaceRoom

LEMMA CreateBotRoom ==
    ASSUME FitInv, Room, NEW c \in Clients, CreateBot(c)
    PROVE  Room'
<1>1. op[c].pc = "newBot" /\ patched' = patched
  BY DEF CreateBot
<1>2. CASE Return(c) /\ bot' = bot
  BY <1>1, <1>2, ReturnSettles, SameRowsCalm, CalmRoom
<1> DEFINE row == [exists |-> TRUE, node |-> op[c].to, rt |-> op[c].name,
                   port |-> op[c].port, desired |-> "stopped"]
<1>3. CASE \E i \in Ids :
              /\ bot' = [bot EXCEPT ![i] = row]
              /\ op' = [op EXCEPT ![c] = [@ EXCEPT !.pc = "startRead", !.id = {i}]] \/ Return(c)
  <2>1. PICK i \in Ids :
              /\ bot' = [bot EXCEPT ![i] = row]
              /\ op' = [op EXCEPT ![c] = [@ EXCEPT !.pc = "startRead", !.id = {i}]] \/ Return(c)
    BY <1>3
  <2>2. row.node = op[c].to
    OBVIOUS
  <2> HIDE DEF row
  <2>3. CASE op' = [op EXCEPT ![c] = [@ EXCEPT !.pc = "startRead", !.id = {i}]]
    <3>1. Settles(c) /\ op'[c].pc \notin Placing
      BY <2>3, Typed DEF Requests, Settles, Placing
    <3>2. QED
      BY <1>1, <2>1, <2>2, <3>1, PlaceRoom
  <2>4. CASE Return(c)
    <3>1. op'[c].pc \notin Placing
      BY <2>4, Typed DEF Return, NoRequest, Placing
    <3>2. QED
      BY <1>1, <2>1, <2>2, <2>4, <3>1, ReturnSettles, PlaceRoom
  <2>5. QED
    BY <2>1, <2>3, <2>4
<1>4. QED
  BY <1>2, <1>3, Zenon DEF CreateBot, PutBot

\* The check: the node has room for one bot, whatever the other requests place.
LEMMA LimitRoom ==
    ASSUME FitInv, Room, NEW c \in Clients, Limit(c)
    PROVE  Room'
<1>1. UNCHANGED <<bot, patched>> /\ op[c].pc = "limit"
  BY DEF Limit, history
<1>2. CASE Return(c)
  BY <1>1, <1>2, ReturnSettles, SameRowsCalm, CalmRoom
<1>3. CASE ~LimitExceeded(op[c].to) /\ Goto(c, AfterLimit(c))
  <2>1. AfterLimit(c) \in Pcs
    BY DEF AfterLimit, Pcs
  <2>2. PICK q \in Requests : op' = [op EXCEPT ![c] = q] /\ At(q, op[c], AfterLimit(c))
    BY <1>3, <2>1, GotoRequest
  <2>3. ASSUME NEW n \in Nodes
        PROVE  Cardinality(Placed(n)') + Cardinality(Pending(n)') <= MaxBots + Cardinality(Clients) - 1
    <3>1. Placed(n)' = Placed(n)
      BY <1>1 DEF Placed, OnNode
    <3>2. CASE n = op[c].to
      <4>1. Placed(n) \subseteq OnNode(n) /\ IsFiniteSet(OnNode(n))
        BY RegistryAssumption, FS_Subset DEF RegistryAssumption, Placed, OnNode
      <4>2. Cardinality(Placed(n)) <= Cardinality(OnNode(n)) /\ Cardinality(OnNode(n)) \in Nat
        BY <4>1, FS_Subset, FS_CardinalityType
      <4>3. Cardinality(Placed(n)) <= MaxBots - 1
        BY <1>3, <3>2, <4>2, FiniteSets DEF LimitExceeded
      <4>4. QED
        BY <3>1, <4>3, FiniteSets
    <3>3. CASE n # op[c].to
      <4>1. Pending(n)' \subseteq Pending(n)
        BY <2>2, <3>3, Typed DEF Pending, At, Keeps
      <4>2. Cardinality(Pending(n)') <= Cardinality(Pending(n))
        BY <4>1, FiniteSets, FS_Subset
      <4>3. Cardinality(Placed(n)) + Cardinality(Pending(n)) <= MaxBots + Cardinality(Clients) - 1
        BY DEF Room
      <4>4. QED
        BY <3>1, <4>2, <4>3, FiniteSets
    <3>4. QED
      BY <3>2, <3>3
  <2>4. QED
    BY <2>3 DEF Room
<1>4. QED
  BY <1>2, <1>3 DEF Limit

----------------------------------------------------------------------------

LEMMA RoomInit ==
    ASSUME Init
    PROVE  Room
<1>1. ASSUME NEW n \in Nodes
      PROVE  Cardinality(Placed(n)) + Cardinality(Pending(n)) <= MaxBots + Cardinality(Clients) - 1
  <2>1. Placed(n) = {} /\ Pending(n) = {}
    BY DEF Init, Placed, OnNode, Pending, NoBot, NoRequest, Placing
  <2>2. MaxBots \in Nat \ {0} /\ Cardinality(Clients) \in Nat
    BY RegistryAssumption, FiniteSets DEF RegistryAssumption
  <2>3. QED
    BY <2>1, <2>2, FS_EmptySet
<1>2. QED
  BY <1>1 DEF Room

LEMMA RoomStep ==
    ASSUME FitInv, Room, [Next]_vars
    PROVE  Room'
<1>1. ASSUME NEW c \in Clients, Request(c) PROVE Room'
  <2>1. CASE \/ BeginCreate(c) \/ BeginStart(c) \/ BeginStop(c) \/ BeginMigrate(c)
             \/ BeginPatch(c) \/ BeginDrain(c)
    BY <2>1, BeginSettles, SameRowsCalm, CalmRoom
  <2>2. CASE StartRead(c) \/ StopRead(c) \/ Reread(c) \/ ReadRuntime(c) \/ StartLimit(c) \/ Others(c)
    BY <2>2, ReadSettles, SameRowsCalm, CalmRoom
  <2>3. CASE \/ CreateCustomRuntime(c) \/ FindRunner(c) \/ RefreshRunner(c) \/ CreateRunner(c)
             \/ StartRuntime(c) \/ StopRuntime(c) \/ MoveRuntime(c)
    BY <2>3, RuntimeSettles, SameRowsCalm, CalmRoom
  <2>4. CASE SetDraining(c) \/ DrainList(c) \/ DrainNext(c) \/ DrainDone(c) \/ Abandon(c)
    BY <2>4, DrainSettles, SameRowsCalm, CalmRoom
  <2>5. CASE StartBot(c) \/ StopBot(c)
    BY <2>5, DesiredCalm, CalmRoom
  <2>6. CASE Patch(c)
    BY <2>6, PatchCalm, CalmRoom
  <2>7. QED
    BY <1>1, <2>1, <2>2, <2>3, <2>4, <2>5, <2>6, AssignRoom, CreateBotRoom, LimitRoom DEF Request
<1>2. ASSUME NEW n \in Agents,
             AgentStarts(n) \/ AgentEnds(n) \/ HeartbeatReads(n) \/ HeartbeatWrites(n)
      PROVE  Room'
  BY <1>2 DEF AgentStarts, AgentEnds, HeartbeatReads, HeartbeatWrites, Room, Placed, OnNode, Pending, history
<1>3. CASE UNCHANGED vars
  BY <1>3 DEF Room, Placed, OnNode, Pending, vars
<1>4. QED
  BY <1>1, <1>2, <1>3 DEF Next

\* However many requests check the limit of a node at the same time, it is
\* exceeded by at most one bot for each of them but one (CheckBotLimit counts
\* the bots before the create or the move that uses the answer).
THEOREM LimitHolds == Spec => []LimitBounded
<1>1. Init => Room
  BY RoomInit
<1>2. FitInv /\ Room /\ [Next]_vars => Room'
  BY RoomStep
<1>3. Room => LimitBounded
  <2>1. ASSUME Room, NEW n \in Nodes
        PROVE  Cardinality(Placed(n)) <= MaxBots + Cardinality(Clients) - 1
    <3>1. Cardinality(Placed(n)) + Cardinality(Pending(n)) <= MaxBots + Cardinality(Clients) - 1
      BY <2>1 DEF Room
    <3>2. QED
      BY <3>1, FiniteSets
  <2>2. QED
    BY <2>1 DEF LimitBounded
<1>4. QED
  BY <1>1, <1>2, <1>3, Fit, PTL DEF Spec
=============================================================================
