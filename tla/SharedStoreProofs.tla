------------------------- MODULE SharedStoreProofs -------------------------
(***************************************************************************)
(* That a call of the shared store is atomic, for any number of processes, *)
(* rows, calls, kills and full disks, on both backends.                    *)
(***************************************************************************)
EXTENDS SharedStore, TLAPS

\* The answer of a call is one a process may get.
LEMMA AnswersAreReplies ==
    ASSUME NEW data \in Data, NEW p, NEW r \in Request
    PROVE  Answer(data, p, r) \in Processes \cup {Free, "ok", "refused"}
<1>1. r.row \in Rows
  BY DEF Request
<1>2. data[r.row] \in Processes \cup {Free}
  BY <1>1 DEF Data
<1>3. QED
  BY <1>2 DEF Answer

\* The effect of a call of p leaves rows that can be rows.
LEMMA EffectIsData ==
    ASSUME NEW data \in Data, NEW p \in Processes, NEW r \in Request
    PROVE  Effect(data, p, r) \in Data
  BY DEF Effect, Data, Request

LEMMA EmptyIsData == Empty \in Data
  BY DEF Empty, Data

----------------------------------------------------------------------------
(* Type correctness.                                                       *)

LEMMA InitTypes == Init => TypeOK
<1> SUFFICES ASSUME Init PROVE TypeOK
  OBVIOUS
<1>1. backend \in {"memory", "postgres"}
  BY SharedStoreAssumption DEF Init
<1>2. disk \in [kind : {"absent", "empty", "partial", "whole"}, data : Data]
  BY EmptyIsData DEF Init, Hollow, Whole
<1>3. req \in [Processes -> Request]
  BY StoreCallsAssumption DEF Init, Request, Kinds
<1>4. watch \in [have : BOOLEAN, last : Nat, pending : BOOLEAN]
  BY DEF Init, NoWatch
<1>5. \A p \in Processes : pc[p] \in Inside <=> p \in lock
  BY DEF Init, Inside
<1>6. QED
  BY <1>1, <1>2, <1>3, <1>4, <1>5, EmptyIsData DEF Init, TypeOK, Pcs

LEMMA ChangeTypes ==
    ASSUME NEW d \in [kind : {"absent", "empty", "partial", "whole"}, data : Data],
           version \in Nat, stamp \in Nat, Change(d)
    PROVE  /\ disk' \in [kind : {"absent", "empty", "partial", "whole"}, data : Data]
           /\ version' \in Nat /\ stamp' \in Nat
  BY DEF Change

LEMMA ReturnTypes ==
    ASSUME TypeOK, NEW p \in Processes,
           NEW a \in Processes \cup {Free, "ok", "refused", "error"}, Return(p, a)
    PROVE  /\ pc' \in [Processes -> Pcs]
           /\ reply' \in [Processes -> Replies \cup {Nothing}]
           /\ loop' \in {"start", "select", "tick", "heartbeat"}
           /\ \A q \in Processes : pc'[q] = IF q = p THEN "idle" ELSE pc[q]
           /\ lock' = lock \ {p}
<1>1. [req |-> req[p], answer |-> a] \in Replies
  BY DEF TypeOK, Replies
<1>2. QED
  BY <1>1 DEF TypeOK, Return, Goto, Pcs

LEMMA BeginTypes ==
    ASSUME TypeOK, NEW p \in Processes, NEW r \in Request, Begin(p, r)
    PROVE  /\ pc' \in [Processes -> Pcs]
           /\ req' \in [Processes -> Request]
           /\ \A q \in Processes : pc'[q] \in Inside <=> pc[q] \in Inside
           /\ UNCHANGED <<backend, file, reply>>
<1>1. pc' = [pc EXCEPT ![p] = pc'[p]] /\ pc'[p] \in {"open", "query"} /\ pc[p] = "idle"
  BY DEF TypeOK, Begin, Goto
<1>2. QED
  BY <1>1 DEF TypeOK, Begin, Pcs, Inside

\* The flock has one owner, the process inside.
LEMMA OneInside ==
    ASSUME TypeOK, NEW p \in Processes, NEW q \in Processes, pc[p] \in Inside, pc[q] \in Inside
    PROVE  p = q
  BY DEF TypeOK

LEMMA FileStepTypes ==
    ASSUME TypeOK, NEW p \in Processes,
           Open(p) \/ Flock(p) \/ Load(p) \/ Apply(p) \/ Truncate(p) \/ Write(p)
               \/ WriteFails(p) \/ SyncFails(p)
    PROVE  TypeOK'
<1> DEFINE Files == [kind : {"absent", "empty", "partial", "whole"}, data : Data]
<1>1. Hollow("empty") \in Files /\ Hollow("partial") \in Files
  BY EmptyIsData DEF Hollow
<1>2. Whole(mem[p]) \in Files
  BY DEF Whole, TypeOK
<1>3. version \in Nat /\ stamp \in Nat /\ disk \in Files
  BY DEF TypeOK
<1>4. CASE Open(p)
  <2>1. disk' \in Files /\ version' \in Nat /\ stamp' \in Nat
    BY <1>1, <1>3, <1>4, ChangeTypes DEF Open
  <2>2. pc' = [pc EXCEPT ![p] = "flock"] /\ pc[p] = "open"
    BY <1>4 DEF Open, Goto
  <2>3. QED
    BY <1>4, <2>1, <2>2 DEF Open, TypeOK, Pcs, Inside, bounds, watcher
<1>5. CASE Flock(p)
  BY <1>5 DEF Flock, Goto, TypeOK, Pcs, Inside, bounds, watcher
<1>6. CASE Load(p)
  <2>1. seen' \in Nat
    BY <1>3, <1>6 DEF Load, Looks, TypeOK
  <2>2. UNCHANGED <<backend, disk, version, stamp, cuts, req, watch, wake>>
    BY <1>6 DEF Load, watcher
  <2>3. CASE disk.kind = "partial"
    <3>1. Return(p, "error") /\ mem' = mem
      BY <1>6, <2>3 DEF Load
    <3>2. QED
      BY <2>1, <2>2, <3>1, ReturnTypes DEF TypeOK, Inside
  <2>4. CASE disk.kind # "partial"
    <3>1. mem' \in [Processes -> Data]
      BY <1>6, <2>4, EmptyIsData DEF Load, TypeOK
    <3>2. pc' = [pc EXCEPT ![p] = "apply"] /\ pc[p] = "load" /\ UNCHANGED <<lock, reply, loop>>
      BY <1>6, <2>4 DEF Load, Goto
    <3>3. QED
      BY <2>1, <2>2, <3>1, <3>2 DEF TypeOK, Pcs, Inside
  <2>5. QED
    BY <2>3, <2>4
<1>7. CASE Apply(p)
  <2>1. UNCHANGED <<backend, disk, version, stamp, cuts, req, watch, wake, seen>>
    BY <1>7 DEF Apply, watcher
  <2>2. mem[p] \in Data /\ req[p] \in Request
    BY DEF TypeOK
  <2>3. CASE req[p].kind = "read" \/ ~Accepts(mem[p], p, req[p])
    <3>1. Return(p, Answer(mem[p], p, req[p])) /\ mem' = mem
      BY <1>7, <2>3 DEF Apply
    <3>2. QED
      BY <2>1, <2>2, <3>1, ReturnTypes, AnswersAreReplies DEF TypeOK, Inside
  <2>4. CASE req[p].kind # "read" /\ Accepts(mem[p], p, req[p])
    <3>1. mem' = [mem EXCEPT ![p] = Effect(mem[p], p, req[p])]
      BY <1>7, <2>4 DEF Apply
    <3>2. mem' \in [Processes -> Data]
      BY <2>2, <3>1, EffectIsData DEF TypeOK
    <3>3. pc' = [pc EXCEPT ![p] = "truncate"] /\ pc[p] = "apply" /\ UNCHANGED <<lock, reply, loop>>
      BY <1>7, <2>4 DEF Apply, Goto
    <3>4. QED
      BY <2>1, <3>2, <3>3 DEF TypeOK, Pcs, Inside
  <2>5. QED
    BY <2>3, <2>4
<1>8. CASE Truncate(p)
  <2>1. disk' \in Files /\ version' \in Nat /\ stamp' \in Nat
    BY <1>1, <1>3, <1>8, ChangeTypes DEF Truncate
  <2>2. pc' = [pc EXCEPT ![p] = "write"] /\ pc[p] = "truncate"
    BY <1>8 DEF Truncate, Goto
  <2>3. QED
    BY <1>8, <2>1, <2>2 DEF Truncate, TypeOK, Pcs, Inside, bounds, watcher
<1>9. CASE Write(p) \/ WriteFails(p) \/ SyncFails(p)
  <2>1. disk' \in Files /\ version' \in Nat /\ stamp' \in Nat
    BY <1>1, <1>2, <1>3, <1>9, ChangeTypes DEF Write, WriteFails, SyncFails
  <2>2. UNCHANGED <<backend, mem, req, watch, wake, seen>> /\ cuts' \in Nat
    BY <1>9 DEF Write, WriteFails, SyncFails, watcher, TypeOK
  <2>3. Return(p, "ok") \/ Return(p, "error")
    BY <1>9 DEF Write, WriteFails, SyncFails
  <2>4. QED
    BY <2>1, <2>2, <2>3, ReturnTypes DEF TypeOK, Inside
<1>10. QED
  BY <1>4, <1>5, <1>6, <1>7, <1>8, <1>9

LEMMA QueryTypes ==
    ASSUME TypeOK, NEW p \in Processes, Query(p) \/ QueryFails(p)
    PROVE  TypeOK'
<1> DEFINE Files == [kind : {"absent", "empty", "partial", "whole"}, data : Data]
<1>1. disk.data \in Data /\ req[p] \in Request /\ disk \in Files
  BY DEF TypeOK
<1>2. Whole(Effect(disk.data, p, req[p])) \in Files
  BY <1>1, EffectIsData DEF Whole
<1>3. /\ disk' \in Files /\ version' \in Nat /\ stamp' \in Nat
      /\ watch' \in [have : BOOLEAN, last : Nat, pending : BOOLEAN]
  <2>1. CASE UNCHANGED <<disk, version, stamp, watch>>
    BY <1>1, <2>1 DEF TypeOK
  <2>2. CASE Execute(p) /\ req[p].kind # "read" /\ Accepts(disk.data, p, req[p])
    <3>1. Change(Whole(Effect(disk.data, p, req[p])))
      BY <2>2 DEF Execute
    <3>2. watch' = [watch EXCEPT !.pending = @ \/ watch.have]
      BY <2>2 DEF Execute
    <3>3. watch.have \in BOOLEAN /\ watch.pending \in BOOLEAN /\ watch.last \in Nat
      BY DEF TypeOK
    <3>4. QED
      BY <1>2, <3>1, <3>2, <3>3, ChangeTypes DEF TypeOK
  <2>3. QED
    BY <2>1, <2>2 DEF Query, QueryFails, Execute
<1>4. seen' \in Nat
  BY DEF Query, QueryFails, Looks, TypeOK
<1>5. /\ Return(p, Answer(disk.data, p, req[p])) \/ Return(p, "error")
      /\ UNCHANGED <<backend, mem, cuts, req, wake>>
  BY DEF Query, QueryFails
<1>6. QED
  BY <1>1, <1>3, <1>4, <1>5, ReturnTypes, AnswersAreReplies DEF TypeOK, Inside

LEMMA KillTypes ==
    ASSUME TypeOK, NEW p \in Processes, Kill(p)
    PROVE  TypeOK'
<1> DEFINE Files == [kind : {"absent", "empty", "partial", "whole"}, data : Data]
<1>1. Hollow("empty") \in Files /\ Hollow("partial") \in Files /\ Whole(mem[p]) \in Files
  BY EmptyIsData DEF Hollow, Whole, TypeOK
<1>2. disk' \in Files /\ version' \in Nat /\ stamp' \in Nat /\ cuts' \in Nat
  <2>1. CASE pc[p] = "write"
    BY <1>1, <2>1, ChangeTypes DEF Kill, TypeOK
  <2>2. CASE pc[p] # "write"
    BY <2>2 DEF Kill, TypeOK
  <2>3. QED
    BY <2>1, <2>2
<1>3. /\ watch' \in [have : BOOLEAN, last : Nat, pending : BOOLEAN]
      /\ wake' \in BOOLEAN /\ loop' \in {"start", "select", "tick", "heartbeat"}
  <2>1. NoWatch \in [have : BOOLEAN, last : Nat, pending : BOOLEAN]
    BY DEF NoWatch
  <2>2. \/ watch' = NoWatch /\ wake' = FALSE /\ loop' = "start"
        \/ watch' = watch /\ wake' = wake /\ loop' = loop
    BY DEF Kill, watcher
  <2>3. QED
    BY <2>1, <2>2 DEF TypeOK
<1>4. mem' \in [Processes -> Data] /\ reply' \in [Processes -> Replies \cup {Nothing}]
  BY EmptyIsData DEF Kill, TypeOK
<1>5. pc' = [pc EXCEPT ![p] = "idle"] /\ lock' = lock \ {p} /\ UNCHANGED <<backend, req, seen>>
  BY DEF Kill, Goto
<1>6. QED
  BY <1>2, <1>3, <1>4, <1>5 DEF TypeOK, Pcs, Inside

LEMMA WatcherTypes ==
    ASSUME TypeOK, Watching \/ ConnectionLost
    PROVE  TypeOK'
<1> DEFINE Watches == [have : BOOLEAN, last : Nat, pending : BOOLEAN]
<1>1. watch.have \in BOOLEAN /\ watch \in Watches /\ NoWatch \in Watches /\ stamp \in Nat
  BY DEF TypeOK, NoWatch
<1>2. watch' \in Watches
  BY <1>1 DEF Watching, Poll, Listen, WaitForNotification, ConnectionLost
<1>3. wake' \in BOOLEAN
  <2>1. CASE Poll
    <3>1. wake' = (wake \/ watch.have)
      BY <2>1 DEF Poll
    <3>2. QED
      BY <3>1, Zenon
  <2>2. CASE Listen \/ WaitForNotification \/ ConnectionLost
    BY <2>2 DEF Listen, WaitForNotification, ConnectionLost, TypeOK
  <2>3. QED
    BY <2>1, <2>2 DEF Watching
<1>4. UNCHANGED <<backend, file, pc, req, reply, loop, seen>>
  BY DEF Watching, Poll, Listen, WaitForNotification, ConnectionLost
<1>5. QED
  BY <1>2, <1>3, <1>4 DEF TypeOK, file

\* A call that begins leaves everything else as it is.
LEMMA BegunTypes ==
    ASSUME TypeOK, NEW p \in Processes, NEW r \in Request, Begin(p, r),
           wake' \in BOOLEAN, watch' = watch, seen' = seen,
           loop' \in {"start", "select", "tick", "heartbeat"}
    PROVE  TypeOK'
  BY BeginTypes DEF TypeOK, file

LEMMA CallTypes ==
    ASSUME TypeOK, (\E p \in Processes : Call(p)) \/ FirstTick \/ OnTicker \/ OnWake \/ OnHeartbeat
    PROVE  TypeOK'
<1>1. CASE \E p \in Processes : Call(p)
  <2>1. PICK p \in Processes : Call(p)
    BY <1>1
  <2>2. PICK r \in Request : Begin(p, r)
    BY <2>1 DEF Call
  <2>3. QED
    BY <2>1, <2>2, BegunTypes DEF Call, TypeOK, watcher
<1>2. CASE FirstTick \/ OnTicker \/ OnWake
  <2>1. BeginTick /\ wake' \in BOOLEAN
    BY <1>2 DEF FirstTick, OnTicker, OnWake, TypeOK
  <2>2. PICK row \in Rows : Begin(Agent, [kind |-> "read", row |-> row])
    BY <2>1 DEF BeginTick
  <2>3. [kind |-> "read", row |-> row] \in Request
    BY DEF Request, Kinds
  <2>4. QED
    BY <2>1, <2>2, <2>3, BegunTypes, SharedStoreAssumption DEF BeginTick
<1>3. CASE OnHeartbeat
  <2>1. PICK r \in Request : Begin(Agent, r)
    BY <1>3 DEF OnHeartbeat
  <2>2. QED
    BY <1>3, <2>1, BegunTypes, SharedStoreAssumption DEF OnHeartbeat, TypeOK, watcher
<1>4. QED
  BY <1>1, <1>2, <1>3

LEMMA NextTypes == TypeOK /\ [Next]_vars => TypeOK'
<1> SUFFICES ASSUME TypeOK, [Next]_vars PROVE TypeOK'
  OBVIOUS
<1>1. CASE \E p \in Processes : Call(p) \/ Step(p) \/ CallFails(p) \/ Kill(p)
  BY <1>1, CallTypes, FileStepTypes, QueryTypes, KillTypes DEF Step, CallFails
<1>2. CASE Watching \/ ConnectionLost
  BY <1>2, WatcherTypes
<1>3. CASE FirstTick \/ OnTicker \/ OnWake \/ OnHeartbeat
  BY <1>3, CallTypes
<1>4. CASE UNCHANGED vars
  BY <1>4 DEF vars, file, watcher, TypeOK
<1>5. QED
  BY <1>1, <1>2, <1>3, <1>4 DEF Next

\* Rows, requests, answers and the watcher keep their types, and whoever works
\* on the file holds its only lock, for any number of processes and faults.
THEOREM SharedTypes == Spec => []TypeOK
  BY InitTypes, NextTypes, PTL DEF Spec

----------------------------------------------------------------------------
(* The refinement.                                                         *)

\* What a call knows at each of its steps: the rows it has loaded are the rows
\* of the store until it has saved its own, and it saves only what is accepted.
CallInv ==
    /\ \A p \in Processes :
          /\ backend = "postgres" => pc[p] \in {"idle", "query"}
          /\ backend = "memory" => pc[p] # "query"
          /\ pc[p] \in {"apply", "truncate"} => disk.kind # "partial"
          /\ pc[p] = "apply" => mem[p] = Db
          /\ pc[p] = "truncate" => /\ req[p].kind # "read"
                                   /\ Accepts(Db, p, req[p])
                                   /\ mem[p] = Effect(Db, p, req[p])
    /\ backend = "postgres" => disk.kind = "whole"

\* The rows of the file when nobody saves.
OnDisk == IF disk.kind = "partial" THEN Unreadable
          ELSE IF disk.kind = "whole" THEN disk.data ELSE Empty

LEMMA DbOfSaver ==
    ASSUME TypeOK, NEW p \in Processes, Saving(p)
    PROVE  Db = mem[p]
<1>1. \A q \in Processes : Saving(q) => q = p
  BY OneInside DEF Saving, Inside
<1>2. (CHOOSE q \in Processes : Saving(q)) = p
  BY <1>1
<1>3. QED
  BY <1>2 DEF Db

LEMMA DbOnDisk ==
    ASSUME \A p \in Processes : ~Saving(p)
    PROVE  Db = OnDisk
  BY DEF Db, OnDisk

\* While a process is inside, nobody else saves.
LEMMA NobodyElse ==
    ASSUME TypeOK, NEW p \in Processes, pc[p] \in Inside, pc[p] # "write"
    PROVE  Db = OnDisk
<1>1. \A q \in Processes : ~Saving(q)
  BY OneInside DEF Saving, Inside
<1>2. QED
  BY <1>1, DbOnDisk

LEMMA RowsAreReadable == \A data \in Data : data # Unreadable
<1> SUFFICES ASSUME NEW data \in Data, data = Unreadable PROVE FALSE
  OBVIOUS
<1>1. PICK r \in Rows : TRUE
  BY StoreCallsAssumption
<1>2. data[r] \in Processes \cup {Free}
  BY DEF Data
<1>3. data[r] = "unreadable"
  BY <1>1 DEF Unreadable
<1>4. QED
  BY <1>2, <1>3, StoreCallsAssumption DEF Free

\* A step that neither saves, nor loads, nor touches a save, nor changes the
\* file but for making it, leaves the rows as they are.
LEMMA DbStays ==
    ASSUME UNCHANGED mem,
           \A p \in Processes : Saving(p)' <=> Saving(p),
           OnDisk' = OnDisk
    PROVE  Db' = Db
<1>1. (CHOOSE p \in Processes : Saving(p))' = CHOOSE p \in Processes : Saving(p)
  OBVIOUS
<1>2. QED
  BY <1>1 DEF Db, OnDisk

\* What processes have been told, when nobody begins or ends a save.
LEMMA ToldStays ==
    ASSUME UNCHANGED reply,
           \A q \in Processes : /\ Saving(q)' <=> Saving(q)
                                /\ Saving(q) => req'[q] = req[q]
    PROVE  Told' = Told
  BY DEF Told

LEMMA ToldChanges ==
    ASSUME TypeOK, NEW p \in Processes, NEW a, Told'[p] = a,
           \A q \in Processes \ {p} : /\ Saving(q)' <=> Saving(q)
                                      /\ req'[q] = req[q] /\ reply'[q] = reply[q]
    PROVE  Told' = [Told EXCEPT ![p] = a]
<1>1. \A q \in Processes \ {p} : Told'[q] = Told[q]
  BY DEF Told
<1>2. Told = [q \in Processes |-> Told[q]] /\ Told' = [q \in Processes |-> Told'[q]]
  BY DEF Told
<1>3. QED
  BY <1>1, <1>2

LEMMA SameCalls ==
    /\ Abstract!Request = Request
    /\ Abstract!Unreadable = Unreadable
    /\ Abstract!Empty = Empty
    /\ Abstract!Nothing = Nothing
    /\ \A data, p, r : /\ Abstract!Effect(data, p, r) = Effect(data, p, r)
                       /\ Abstract!Answer(data, p, r) = Answer(data, p, r)
  BY DEF Abstract!Request, Request, Abstract!Kinds, Kinds, Abstract!Unreadable, Unreadable,
         Abstract!Empty, Empty, Abstract!Free, Free, Abstract!Nothing, Nothing,
         Abstract!Effect, Effect, Abstract!Answer, Answer, Abstract!Accepts, Accepts

\* The steps of the abstract store, in terms of the detailed one.
LEMMA Serves ==
    ASSUME NEW p \in Processes, NEW r \in Request, Db # Unreadable,
           Db' = Effect(Db, p, r), UNCHANGED cuts,
           Told' = [Told EXCEPT ![p] = [req |-> r, answer |-> Answer(Db, p, r)]]
    PROVE  Abstract!Next
<1>1. Abstract!Serve(p)
  BY SameCalls DEF Abstract!Serve, Abstract!Reply
<1>2. QED
  BY <1>1 DEF Abstract!Next

LEMMA Fails ==
    ASSUME NEW p \in Processes, NEW r \in Request, UNCHANGED <<Db, cuts>>,
           Told' = [Told EXCEPT ![p] = [req |-> r, answer |-> "error"]]
    PROVE  Abstract!Next
<1>1. Abstract!Fail(p)
  BY SameCalls DEF Abstract!Fail, Abstract!Reply
<1>2. QED
  BY <1>1 DEF Abstract!Next

LEMMA IsUnsure ==
    ASSUME NEW p \in Processes, NEW r \in Request, Db # Unreadable,
           Db' = Effect(Db, p, r), UNCHANGED cuts,
           Told' = [Told EXCEPT ![p] = [req |-> r, answer |-> "error"]]
    PROVE  Abstract!Next
<1>1. Abstract!Unsure(p)
  BY SameCalls DEF Abstract!Unsure, Abstract!Reply
<1>2. QED
  BY <1>1 DEF Abstract!Next

LEMMA Forgets ==
    ASSUME NEW p \in Processes, UNCHANGED <<Db, cuts>>,
           Told' = [Told EXCEPT ![p] = Nothing]
    PROVE  Abstract!Next
<1>1. Abstract!Forget(p)
  BY SameCalls DEF Abstract!Forget
<1>2. QED
  BY <1>1 DEF Abstract!Next

LEMMA Loses ==
    ASSUME NEW p \in Processes, NEW r \in Request, Db' \in {Empty, Unreadable},
           cuts' = cuts + 1,
           \/ Told' = [Told EXCEPT ![p] = [req |-> r, answer |-> "error"]]
           \/ Told' = [Told EXCEPT ![p] = Nothing]
    PROVE  Abstract!Next
<1>1. Abstract!Lose(p)
  BY SameCalls DEF Abstract!Lose, Abstract!Reply
<1>2. QED
  BY <1>1 DEF Abstract!Next

\* When the rows stay and nobody else moves, the others know what they knew.
LEMMA OthersKeep ==
    ASSUME TypeOK, CallInv, NEW p \in Processes,
           Db' = Db, UNCHANGED <<backend, disk, mem>>,
           \A q \in Processes \ {p} : pc'[q] = pc[q] /\ req'[q] = req[q],
           backend = "postgres" => pc'[p] \in {"idle", "query"},
           backend = "memory" => pc'[p] # "query",
           pc'[p] \notin {"apply", "truncate"}
    PROVE  CallInv'
  BY DEF CallInv

LEMMA BeginStep ==
    ASSUME TypeOK, CallInv, NEW p \in Processes, NEW r \in Request, Begin(p, r)
    PROVE  CallInv' /\ UNCHANGED <<Db, Told, cuts>>
<1>1. /\ pc[p] = "idle" /\ pc' = [pc EXCEPT ![p] = pc'[p]]
      /\ pc'[p] = IF backend = "memory" THEN "open" ELSE "query"
      /\ req' = [req EXCEPT ![p] = r] /\ UNCHANGED <<backend, disk, mem, cuts, reply>>
  BY DEF Begin, Goto, TypeOK, file
<1>2. \A q \in Processes : Saving(q)' <=> Saving(q)
  BY <1>1 DEF Saving, TypeOK
<1>3. UNCHANGED Db
  BY <1>1, <1>2, DbStays DEF OnDisk
<1>4. UNCHANGED Told
  BY <1>1, <1>2, ToldStays DEF Saving, TypeOK
<1>5. CallInv'
  BY <1>1, <1>3, OthersKeep DEF TypeOK
<1>6. QED
  BY <1>1, <1>3, <1>4, <1>5

LEMMA OpenStep ==
    ASSUME TypeOK, CallInv, NEW p \in Processes, Open(p)
    PROVE  CallInv' /\ UNCHANGED <<Db, Told, cuts>>
<1>1. /\ pc[p] = "open" /\ pc' = [pc EXCEPT ![p] = "flock"]
      /\ UNCHANGED <<backend, mem, cuts, req, reply>>
      /\ disk' = IF disk.kind = "absent" THEN Hollow("empty") ELSE disk
  BY DEF Open, Goto, Change
<1>2. \A q \in Processes : Saving(q)' <=> Saving(q)
  BY <1>1 DEF Saving, TypeOK
<1>3. OnDisk' = OnDisk
  BY <1>1 DEF OnDisk, Hollow
<1>4. UNCHANGED <<Db, Told>>
  BY <1>1, <1>2, <1>3, DbStays, ToldStays
<1>5. disk.kind # "partial" => disk'.kind # "partial"
  BY <1>1 DEF Hollow
<1>6. backend = "memory"
  BY <1>1 DEF CallInv, TypeOK
<1>7. CallInv'
  BY <1>1, <1>4, <1>5, <1>6 DEF CallInv, TypeOK
<1>8. QED
  BY <1>1, <1>4, <1>7

LEMMA FlockStep ==
    ASSUME TypeOK, CallInv, NEW p \in Processes, Flock(p)
    PROVE  CallInv' /\ UNCHANGED <<Db, Told, cuts>>
<1>1. /\ pc[p] = "flock" /\ pc' = [pc EXCEPT ![p] = "load"]
      /\ UNCHANGED <<backend, disk, mem, cuts, req, reply>>
  BY DEF Flock, Goto
<1>2. \A q \in Processes : Saving(q)' <=> Saving(q)
  BY <1>1 DEF Saving, TypeOK
<1>3. UNCHANGED <<Db, Told>>
  BY <1>1, <1>2, DbStays, ToldStays DEF OnDisk
<1>4. CallInv'
  BY <1>1, <1>3, OthersKeep DEF TypeOK, CallInv
<1>5. QED
  BY <1>1, <1>3, <1>4

\* A call returns: what follows for a process that is not saving.
LEMMA ReturnStep ==
    ASSUME TypeOK, CallInv, NEW p \in Processes, NEW a, Return(p, a), pc[p] # "write",
           UNCHANGED <<backend, disk, mem, req>>
    PROVE  /\ CallInv' /\ Db' = Db
           /\ Told' = [Told EXCEPT ![p] = [req |-> req[p], answer |-> a]]
<1>1. /\ pc' = [pc EXCEPT ![p] = "idle"]
      /\ reply' = [reply EXCEPT ![p] = [req |-> req[p], answer |-> a]]
  BY DEF Return, Goto
<1>2. \A q \in Processes : Saving(q)' <=> Saving(q)
  BY <1>1 DEF Saving, TypeOK
<1>3. Db' = Db
  BY <1>2, DbStays DEF OnDisk
<1>4. Told'[p] = [req |-> req[p], answer |-> a]
  BY <1>1, <1>2 DEF Told, Saving, TypeOK
<1>5. Told' = [Told EXCEPT ![p] = [req |-> req[p], answer |-> a]]
  BY <1>1, <1>2, <1>4, ToldChanges DEF TypeOK
<1>6. CallInv'
  BY <1>1, <1>3, OthersKeep DEF TypeOK
<1>7. QED
  BY <1>3, <1>5, <1>6

LEMMA LoadStep ==
    ASSUME TypeOK, CallInv, NEW p \in Processes, Load(p)
    PROVE  CallInv' /\ (Abstract!Next \/ UNCHANGED <<Db, Told, cuts>>)
<1>1. pc[p] = "load" /\ UNCHANGED <<backend, disk, cuts, req>>
  BY DEF Load
<1>2. CASE disk.kind = "partial"
  <2>1. Return(p, "error") /\ UNCHANGED mem
    BY <1>2 DEF Load
  <2>2. req[p] \in Request
    BY DEF TypeOK
  <2>3. QED
    BY <1>1, <2>1, <2>2, ReturnStep, Fails
<1>3. CASE disk.kind # "partial"
  <2>1. /\ mem' = [mem EXCEPT ![p] = IF disk.kind = "whole" THEN disk.data ELSE Empty]
        /\ pc' = [pc EXCEPT ![p] = "apply"] /\ UNCHANGED reply
    BY <1>3 DEF Load, Goto
  <2>2. \A q \in Processes : ~Saving(q)
    BY <1>1, OneInside DEF Saving, Inside
  <2>3. \A q \in Processes : ~Saving(q)'
    BY <2>1, <2>2 DEF Saving, TypeOK
  <2>4. Db = OnDisk
    BY <2>2, DbOnDisk
  <2>5. Db' = OnDisk'
    BY <2>3 DEF Db, OnDisk
  <2>6. Db' = Db /\ mem'[p] = Db
    BY <1>1, <1>3, <2>1, <2>4, <2>5 DEF OnDisk, TypeOK
  <2>7. UNCHANGED Told
    BY <1>1, <2>1, <2>2, <2>3, ToldStays
  <2>8. CallInv'
    BY <1>1, <1>3, <2>1, <2>6 DEF CallInv, TypeOK, Inside
  <2>9. QED
    BY <1>1, <2>6, <2>7, <2>8
<1>4. QED
  BY <1>2, <1>3

LEMMA ApplyStep ==
    ASSUME TypeOK, CallInv, NEW p \in Processes, Apply(p)
    PROVE  CallInv' /\ (Abstract!Next \/ UNCHANGED <<Db, Told, cuts>>)
<1>1. pc[p] = "apply" /\ UNCHANGED <<backend, disk, cuts, req>>
  BY DEF Apply
<1>2. mem[p] = Db /\ disk.kind # "partial" /\ req[p] \in Request /\ mem[p] \in Data
  BY <1>1 DEF CallInv, TypeOK
<1>3. CASE req[p].kind = "read" \/ ~Accepts(mem[p], p, req[p])
  <2>1. Return(p, Answer(Db, p, req[p])) /\ UNCHANGED mem
    BY <1>2, <1>3 DEF Apply
  <2>2. Db' = Effect(Db, p, req[p])
    BY <1>1, <1>2, <1>3, <2>1, ReturnStep DEF Effect
  <2>3. QED
    BY <1>1, <1>2, <2>1, <2>2, ReturnStep, Serves, RowsAreReadable
<1>4. CASE req[p].kind # "read" /\ Accepts(mem[p], p, req[p])
  <2>1. /\ mem' = [mem EXCEPT ![p] = Effect(Db, p, req[p])]
        /\ pc' = [pc EXCEPT ![p] = "truncate"] /\ UNCHANGED reply
    BY <1>2, <1>4 DEF Apply, Goto
  <2>2. \A q \in Processes : ~Saving(q)
    BY <1>1, OneInside DEF Saving, Inside
  <2>3. \A q \in Processes : ~Saving(q)'
    BY <2>1, <2>2 DEF Saving, TypeOK
  <2>4. Db' = Db
    BY <1>1, <2>2, <2>3 DEF Db
  <2>5. UNCHANGED Told
    BY <1>1, <2>1, <2>2, <2>3, ToldStays
  <2>6. CallInv'
    BY <1>1, <1>2, <1>4, <2>1, <2>4 DEF CallInv, TypeOK, Inside
  <2>7. QED
    BY <1>1, <2>4, <2>5, <2>6
<1>5. QED
  BY <1>3, <1>4

\* The call takes effect when the old rows are gone.
LEMMA TruncateStep ==
    ASSUME TypeOK, CallInv, NEW p \in Processes, Truncate(p)
    PROVE  CallInv' /\ Abstract!Next
<1>1. /\ pc[p] = "truncate" /\ pc' = [pc EXCEPT ![p] = "write"]
      /\ disk' = Hollow("empty") /\ UNCHANGED <<backend, lock, mem, cuts, req, reply>>
  BY DEF Truncate, Goto, Change
<1>2. /\ req[p].kind # "read" /\ Accepts(Db, p, req[p]) /\ mem[p] = Effect(Db, p, req[p])
      /\ req[p] \in Request /\ mem[p] \in Data
  BY <1>1 DEF CallInv, TypeOK
<1>3. \A q \in Processes : Saving(q)' <=> q = p
  BY <1>1, OneInside DEF Saving, TypeOK, Inside
<1>4. Db' = mem[p]
  <2>1. (CHOOSE q \in Processes : Saving(q))' = p
    BY <1>3
  <2>2. QED
    BY <1>1, <1>3, <2>1 DEF Db
<1>5. Db # Unreadable
  <2>1. \A q \in Processes : ~Saving(q)
    BY <1>1, OneInside DEF Saving, Inside
  <2>2. Db \in Data
    BY <1>1, <2>1, DbOnDisk, EmptyIsData DEF OnDisk, CallInv, TypeOK
  <2>3. QED
    BY <2>2, RowsAreReadable
<1>6. Answer(Db, p, req[p]) = "ok"
  BY <1>2 DEF Answer
<1>7. Told'[p] = [req |-> req[p], answer |-> "ok"]
  BY <1>1, <1>3 DEF Told
<1>8. \A q \in Processes \ {p} : Saving(q)' <=> Saving(q)
  BY <1>1 DEF Saving, TypeOK
<1>9. Told' = [Told EXCEPT ![p] = [req |-> req[p], answer |-> "ok"]]
  BY <1>1, <1>7, <1>8, ToldChanges
<1>10. CallInv'
  BY <1>1 DEF CallInv, TypeOK, Inside
<1>11. QED
  BY <1>1, <1>2, <1>4, <1>5, <1>6, <1>9, <1>10, Serves

LEMMA WriteStep ==
    ASSUME TypeOK, CallInv, NEW p \in Processes, Write(p) \/ WriteFails(p) \/ SyncFails(p)
    PROVE  CallInv' /\ (Abstract!Next \/ UNCHANGED <<Db, Told, cuts>>)
<1>1. /\ pc[p] = "write" /\ pc' = [pc EXCEPT ![p] = "idle"] /\ req[p] \in Request
      /\ UNCHANGED <<backend, mem, req>>
  BY DEF Write, WriteFails, SyncFails, Return, Goto, TypeOK
<1>2. \A q \in Processes : ~Saving(q)'
  BY <1>1, OneInside DEF Saving, TypeOK, Inside
<1>3. Db' = OnDisk'
  BY <1>2 DEF Db, OnDisk
<1>4. Db = mem[p]
  BY <1>1, DbOfSaver DEF Saving
<1>5. CallInv'
  <2>1. \A q \in Processes : pc'[q] \notin {"apply", "truncate"}
    BY <1>1, OneInside DEF TypeOK, Inside
  <2>2. backend = "memory"
    BY <1>1 DEF CallInv, TypeOK
  <2>3. QED
    BY <1>1, <2>1, <2>2 DEF CallInv, TypeOK
<1>6. \A q \in Processes \ {p} : Saving(q)' <=> Saving(q)
  BY <1>1 DEF Saving, TypeOK
<1>7. CASE Write(p)
  <2>1. disk' = Whole(mem[p]) /\ reply' = [reply EXCEPT ![p] = [req |-> req[p], answer |-> "ok"]]
        /\ UNCHANGED cuts
    BY <1>7 DEF Write, Return, Change
  <2>2. Db' = Db
    BY <1>3, <1>4, <2>1 DEF OnDisk, Whole
  <2>3. Told'[p] = [req |-> req[p], answer |-> "ok"] /\ Told[p] = [req |-> req[p], answer |-> "ok"]
    BY <1>1, <1>2, <2>1 DEF Told, Saving, TypeOK
  <2>4. Told' = [Told EXCEPT ![p] = Told[p]]
    BY <1>1, <1>6, <2>1, <2>3, ToldChanges DEF TypeOK
  <2>5. UNCHANGED Told
    BY <2>4 DEF Told
  <2>6. QED
    BY <1>5, <2>1, <2>2, <2>5
<1>8. CASE WriteFails(p)
  <2>1. /\ disk' \in {Hollow("empty"), Hollow("partial")} /\ cuts' = cuts + 1
        /\ reply' = [reply EXCEPT ![p] = [req |-> req[p], answer |-> "error"]]
    BY <1>8 DEF WriteFails, Return, Change
  <2>2. Db' \in {Empty, Unreadable}
    BY <1>3, <2>1 DEF OnDisk, Hollow
  <2>3. Told'[p] = [req |-> req[p], answer |-> "error"]
    BY <1>1, <1>2, <2>1 DEF Told, TypeOK
  <2>4. Told' = [Told EXCEPT ![p] = [req |-> req[p], answer |-> "error"]]
    BY <1>1, <1>6, <2>1, <2>3, ToldChanges DEF TypeOK
  <2>5. QED
    BY <1>1, <1>5, <2>1, <2>2, <2>4, Loses
<1>9. CASE SyncFails(p)
  <2>1. /\ disk' = Whole(mem[p]) /\ UNCHANGED cuts
        /\ reply' = [reply EXCEPT ![p] = [req |-> req[p], answer |-> "error"]]
    BY <1>9 DEF SyncFails, Return, Change
  <2>2. Db' = Db
    BY <1>3, <1>4, <2>1 DEF OnDisk, Whole
  <2>3. Told'[p] = [req |-> req[p], answer |-> "error"]
    BY <1>1, <1>2, <2>1 DEF Told, TypeOK
  <2>4. Told' = [Told EXCEPT ![p] = [req |-> req[p], answer |-> "error"]]
    BY <1>1, <1>6, <2>1, <2>3, ToldChanges DEF TypeOK
  <2>5. QED
    BY <1>1, <1>5, <2>1, <2>2, <2>4, Fails
<1>10. QED
  BY <1>7, <1>8, <1>9

LEMMA QueryStep ==
    ASSUME TypeOK, CallInv, NEW p \in Processes, Query(p) \/ QueryFails(p)
    PROVE  CallInv' /\ Abstract!Next
<1> DEFINE Replied(a) == [reply EXCEPT ![p] = [req |-> req[p], answer |-> a]]
<1>1. /\ pc[p] = "query" /\ pc' = [pc EXCEPT ![p] = "idle"] /\ req[p] \in Request
      /\ UNCHANGED <<backend, mem, cuts, req>>
  BY DEF Query, QueryFails, Return, Goto, TypeOK
<1>2. backend = "postgres" /\ disk.kind = "whole" /\ disk.data \in Data
  BY <1>1 DEF CallInv, TypeOK
<1>3. \A q \in Processes : ~Saving(q) /\ ~Saving(q)'
  BY <1>1, <1>2 DEF CallInv, Saving, TypeOK
<1>4. Db = disk.data /\ Db # Unreadable
  BY <1>2, <1>3, DbOnDisk, RowsAreReadable DEF OnDisk
<1>5. ASSUME NEW a, reply' = Replied(a)
      PROVE  Told' = [Told EXCEPT ![p] = [req |-> req[p], answer |-> a]]
  <2>1. Told'[p] = [req |-> req[p], answer |-> a]
    BY <1>1, <1>3, <1>5 DEF Told, TypeOK
  <2>2. QED
    BY <1>1, <1>3, <1>5, <2>1, ToldChanges DEF TypeOK
<1>6. CASE Execute(p)
  <2>1. disk'.kind = "whole" /\ disk'.data = Effect(disk.data, p, req[p])
    BY <1>2, <1>6 DEF Execute, Effect, Change, Whole
  <2>2. Db' = Effect(Db, p, req[p])
    BY <1>3, <1>4, <2>1 DEF Db
  <2>3. CallInv'
    BY <1>1, <1>2, <2>1 DEF CallInv, TypeOK
  <2>4. reply' = Replied(Answer(Db, p, req[p])) \/ reply' = Replied("error")
    BY <1>4 DEF Query, QueryFails, Return
  <2>5. QED
    BY <1>1, <1>4, <1>5, <2>2, <2>3, <2>4, Serves, IsUnsure
<1>7. CASE QueryFails(p) /\ UNCHANGED disk
  <2>1. Db' = Db /\ CallInv'
    BY <1>1, <1>2, <1>3, <1>7 DEF Db, CallInv, TypeOK
  <2>2. reply' = Replied("error")
    BY <1>7 DEF QueryFails, Return
  <2>3. QED
    BY <1>1, <1>5, <2>1, <2>2, Fails
<1>8. QED
  BY <1>6, <1>7 DEF Query, QueryFails

LEMMA KillStep ==
    ASSUME TypeOK, CallInv, NEW p \in Processes, Kill(p)
    PROVE  CallInv' /\ Abstract!Next
<1>1. /\ pc' = [pc EXCEPT ![p] = "idle"] /\ reply' = [reply EXCEPT ![p] = Nothing]
      /\ mem' = [mem EXCEPT ![p] = Empty] /\ UNCHANGED <<backend, req>>
      /\ req[p] \in Request
  BY DEF Kill, Goto, TypeOK
<1>2. \A q \in Processes \ {p} : Saving(q)' <=> Saving(q)
  BY <1>1 DEF Saving, TypeOK
<1>3. ~Saving(p)'
  BY <1>1 DEF Saving, TypeOK
<1>4. Told'[p] = Nothing
  BY <1>1, <1>3 DEF Told, TypeOK
<1>5. Told' = [Told EXCEPT ![p] = Nothing]
  BY <1>1, <1>2, <1>4, ToldChanges DEF TypeOK
<1>6. CASE pc[p] = "write"
  <2>1. \A q \in Processes : ~Saving(q)'
    BY <1>2, <1>3, <1>6, OneInside DEF Saving, Inside
  <2>2. Db' = OnDisk'
    BY <2>1 DEF Db, OnDisk
  <2>3. Db = mem[p] /\ backend = "memory"
    BY <1>6, DbOfSaver DEF Saving, CallInv, TypeOK
  <2>4. CallInv'
    <3>1. \A q \in Processes : pc'[q] \notin {"apply", "truncate"}
      BY <1>1, <1>6, OneInside DEF TypeOK, Inside
    <3>2. QED
      BY <1>1, <2>3, <3>1 DEF CallInv, TypeOK
  <2>5. \/ disk' = Whole(mem[p]) /\ UNCHANGED cuts
        \/ disk' \in {Hollow("empty"), Hollow("partial")} /\ cuts' = cuts + 1
    BY <1>6 DEF Kill, Change
  <2>6. CASE disk' = Whole(mem[p]) /\ UNCHANGED cuts
    <3>1. Db' = Db
      BY <2>2, <2>3, <2>6 DEF OnDisk, Whole
    <3>2. QED
      BY <1>5, <2>4, <2>6, <3>1, Forgets
  <2>7. CASE disk' \in {Hollow("empty"), Hollow("partial")} /\ cuts' = cuts + 1
    <3>1. Db' \in {Empty, Unreadable}
      BY <2>2, <2>7 DEF OnDisk, Hollow
    <3>2. QED
      BY <1>1, <1>5, <2>4, <2>7, <3>1, Loses
  <2>8. QED
    BY <2>5, <2>6, <2>7
<1>7. CASE pc[p] # "write"
  <2>1. UNCHANGED <<disk, cuts>>
    BY <1>7 DEF Kill
  <2>2. \A q \in Processes : Saving(q)' <=> Saving(q)
    BY <1>2, <1>3, <1>7 DEF Saving
  <2>3. Db' = Db
    <3>1. CASE \E q \in Processes : Saving(q)
      <4>1. PICK q \in Processes : Saving(q)
        BY <3>1
      <4>2. q # p /\ \A x \in Processes : Saving(x) <=> x = q
        BY <1>7, <4>1, OneInside DEF Saving, Inside
      <4>3. (CHOOSE x \in Processes : Saving(x))' = q
        BY <2>2, <4>2
      <4>4. Db' = mem[q]
        BY <1>1, <2>2, <4>1, <4>2, <4>3 DEF Db, TypeOK
      <4>5. QED
        BY <4>1, <4>4, DbOfSaver
    <3>2. CASE \A q \in Processes : ~Saving(q)
      BY <2>1, <2>2, <3>2 DEF Db
    <3>3. QED
      BY <3>1, <3>2
  <2>4. CallInv'
    BY <1>1, <2>1, <2>3 DEF CallInv, TypeOK
  <2>5. QED
    BY <1>5, <2>1, <2>3, <2>4, Forgets
<1>8. QED
  BY <1>6, <1>7

\* Nothing of the store is changed.
LEMMA RestStep ==
    ASSUME CallInv, UNCHANGED <<backend, disk, pc, mem, req, reply, cuts>>
    PROVE  CallInv' /\ UNCHANGED <<Db, Told, cuts>>
<1>1. \A q \in Processes : Saving(q)' <=> Saving(q)
  BY DEF Saving
<1>2. UNCHANGED <<Db, Told>>
  BY <1>1, DbStays, ToldStays DEF OnDisk
<1>3. QED
  BY <1>2 DEF CallInv

LEMMA CallStep ==
    ASSUME TypeOK, CallInv,
           (\E p \in Processes : Call(p)) \/ FirstTick \/ OnTicker \/ OnWake \/ OnHeartbeat
    PROVE  CallInv' /\ UNCHANGED <<Db, Told, cuts>>
<1>1. PICK p \in Processes, r \in Request : Begin(p, r)
  <2>1. \A row \in Rows : [kind |-> "read", row |-> row] \in Request
    BY DEF Request, Kinds
  <2>2. QED
    BY <2>1, SharedStoreAssumption DEF Call, FirstTick, OnTicker, OnWake, OnHeartbeat, BeginTick
<1>2. QED
  BY <1>1, BeginStep

\* Calls of all processes are atomic, on either backend, for any number of
\* processes, rows, calls and faults: each takes effect in one step, finds what
\* the calls before it left, and is lost only when its save is cut short.
THEOREM StoreIsAtomic == Spec => ImplementsAtomicStore
<1>1. Init => Abstract!Init /\ CallInv
  <2> SUFFICES ASSUME Init PROVE Abstract!Init /\ CallInv
    OBVIOUS
  <2>1. \A p \in Processes : ~Saving(p)
    BY DEF Init, Saving
  <2>2. Db = Empty
    BY <2>1 DEF Init, Db, Whole, Hollow
  <2>3. Told = [p \in Processes |-> Nothing]
    BY <2>1 DEF Init, Told
  <2>4. CallInv
    BY DEF Init, CallInv, Whole
  <2>5. QED
    BY <2>2, <2>3, <2>4, SameCalls DEF Abstract!Init, Init
<1>2. TypeOK /\ CallInv /\ [Next]_vars => CallInv' /\ [Abstract!Next]_<<Db, Told, cuts>>
  <2> SUFFICES ASSUME TypeOK, CallInv, [Next]_vars
               PROVE  CallInv' /\ (Abstract!Next \/ UNCHANGED <<Db, Told, cuts>>)
    OBVIOUS
  <2>1. CASE \E p \in Processes : Step(p) \/ CallFails(p) \/ Kill(p)
    BY <2>1, OpenStep, FlockStep, LoadStep, ApplyStep, TruncateStep, WriteStep, QueryStep,
       KillStep DEF Step, CallFails
  <2>2. CASE (\E p \in Processes : Call(p)) \/ FirstTick \/ OnTicker \/ OnWake \/ OnHeartbeat
    BY <2>2, CallStep
  <2>3. CASE Watching \/ ConnectionLost \/ UNCHANGED vars
    <3>1. UNCHANGED <<backend, disk, pc, mem, req, reply, cuts>>
      BY <2>3 DEF Watching, Poll, Listen, WaitForNotification, ConnectionLost, vars, file
    <3>2. QED
      BY <3>1, RestStep
  <2>4. QED
    BY <2>1, <2>2, <2>3 DEF Next
<1>3. QED
  BY <1>1, <1>2, SharedTypes, PTL DEF Spec, ImplementsAtomicStore, Abstract!Spec
=============================================================================
