----------------------------- MODULE SharedStore -----------------------------
(***************************************************************************)
(* The store all processes share and the watcher that wakes the agent.     *)
(*                                                                         *)
(* STORE=memory (internal/store/memory): a JSON file that every call reads *)
(* under a flock, changes in the memory of the process, and truncates and  *)
(* rewrites in place.  The mutex of a process lets one of its calls        *)
(* through at a time, so a process is a program counter.  FileWatcher      *)
(* (internal/watch) polls mtime and size of the file.                      *)
(*                                                                         *)
(* STORE=postgres: a call is one statement, its triggers notify, and       *)
(* ListenWatcher listens, reconnecting when the connection is lost.        *)
(*                                                                         *)
(* Either watcher wakes the loop of the agent through a channel that holds *)
(* one signal.                                                             *)
(***************************************************************************)
EXTENDS StoreCalls, Naturals

CONSTANTS
    Backends,    \* the values of STORE, a subset of {"memory", "postgres"}
    Agent,       \* the process with the reconcile loop that is watched here
    MaxCalls,    \* bound on the number of calls but for those of a tick
    MaxFaults,   \* bound on the number of processes killed and of disk errors
    MaxDrops     \* bound on the number of lost database connections

ASSUME SharedStoreAssumption ==
    /\ Backends \subseteq {"memory", "postgres"}
    /\ Agent \in Processes
    /\ MaxCalls \in Nat
    /\ MaxFaults \in Nat
    /\ MaxDrops \in Nat

VARIABLES
    backend,
    disk,     \* the file, or the database: [kind, data]
    version,  \* how often it was changed
    stamp,    \* mtime and size of the file
    lock,     \* who holds the flock
    pc,       \* where each process is in its call
    mem,      \* the maps of each process
    req,      \* the request each process serves
    reply,    \* the answer it got last
    cuts,     \* history: saves that were cut short
    watch,    \* the watcher of the agent
    wake,     \* its channel holds a signal
    loop,     \* Loop.Run: "start", "select", or "tick" with a call under way
    seen,     \* history: the version its last tick has read
    calls, faults, drops

file == <<disk, version, stamp, lock, mem, cuts>>
watcher == <<watch, wake>>
bounds == <<calls, faults, drops>>
vars == <<backend, file, pc, req, reply, watcher, loop, seen, bounds>>

Whole(data) == [kind |-> "whole", data |-> data]
Hollow(kind) == [kind |-> kind, data |-> Empty]

NoWatch == [have |-> FALSE, last |-> 0, pending |-> FALSE]

Init ==
    /\ backend \in Backends
    /\ disk = IF backend = "memory" THEN Hollow("absent") ELSE Whole(Empty)
    /\ version = 0 /\ stamp = 0
    /\ lock = {}
    /\ pc = [p \in Processes |-> "idle"]
    /\ mem = [p \in Processes |-> Empty]
    /\ req = [p \in Processes |-> [kind |-> "read", row |-> CHOOSE r \in Rows : TRUE]]
    /\ reply = [p \in Processes |-> Nothing]
    /\ cuts = 0
    /\ watch = NoWatch /\ wake = FALSE
    /\ loop = "start" /\ seen = 0
    /\ calls = 0 /\ faults = 0 /\ drops = 0

----------------------------------------------------------------------------
(* A call of a repository: doRead and doWrite, withDiskLocked.             *)

Goto(p, l) == pc' = [pc EXCEPT ![p] = l]

\* The call returns, closing the file and with it the lock.
Return(p, answer) ==
    /\ Goto(p, "idle")
    /\ lock' = lock \ {p}
    /\ reply' = [reply EXCEPT ![p] = [req |-> req[p], answer |-> answer]]
    /\ loop' = IF p = Agent THEN "select" ELSE loop

\* The file is changed; its size differs, or its mtime, or neither.
Change(d) ==
    /\ disk' = d
    /\ version' = version + 1
    /\ stamp' \in {stamp, stamp + 1}

\* The request p is to serve; the file is created when it is opened.
Begin(p, r) ==
    /\ pc[p] = "idle"
    /\ req' = [req EXCEPT ![p] = r]
    /\ Goto(p, IF backend = "memory" THEN "open" ELSE "query")
    /\ UNCHANGED <<backend, file, reply, faults, drops>>

Counted ==
    /\ calls < MaxCalls
    /\ calls' = calls + 1

\* The loop of the agent makes its own calls, below.
Call(p) ==
    /\ p # Agent
    /\ Counted
    /\ \E r \in Request : Begin(p, r)
    /\ UNCHANGED <<watcher, loop, seen>>

Open(p) ==
    /\ pc[p] = "open"
    /\ IF disk.kind = "absent" THEN Change(Hollow("empty"))
       ELSE UNCHANGED <<disk, version, stamp>>
    /\ Goto(p, "flock")
    /\ UNCHANGED <<backend, lock, mem, cuts, req, reply, watcher, loop, seen, bounds>>

\* A mutant: nobody waits.
Mut_Flock(p) ==
    /\ pc[p] = "flock"
    /\ lock' = lock \cup {p}
    /\ Goto(p, "load")
    /\ UNCHANGED <<backend, disk, version, stamp, mem, cuts, req, reply, watcher, loop, seen, bounds>>

Flock(p) ==
    /\ pc[p] = "flock"
    /\ lock = {}
    /\ lock' = {p}
    /\ Goto(p, "load")
    /\ UNCHANGED <<backend, disk, version, stamp, mem, cuts, req, reply, watcher, loop, seen, bounds>>

\* What a pass of the agent's loop has read.
Looks(p) == seen' = IF p = Agent /\ loop = "tick" THEN version ELSE seen

\* Mutants: a process that has the rows does not read them again; a file that
\* cannot be parsed is read again until it can.
Mut_LoadOnce(p) ==
    /\ pc[p] = "load"
    /\ mem' = [mem EXCEPT ![p] = IF @ = Empty /\ disk.kind = "whole" THEN disk.data ELSE @]
    /\ Goto(p, "apply")
    /\ Looks(p)
    /\ UNCHANGED <<backend, disk, version, stamp, cuts, lock, req, reply, loop, watcher, bounds>>

Mut_LoadRetries(p) ==
    /\ pc[p] = "load"
    /\ \/ /\ disk.kind = "partial"
          /\ Goto(p, "flock")
          /\ lock' = lock \ {p}
          /\ UNCHANGED <<reply, loop, mem>>
       \/ /\ disk.kind # "partial"
          /\ mem' = [mem EXCEPT ![p] = IF disk.kind = "whole" THEN disk.data ELSE Empty]
          /\ Goto(p, "apply")
          /\ UNCHANGED <<lock, reply, loop>>
    /\ Looks(p)
    /\ UNCHANGED <<backend, disk, version, stamp, cuts, req, watcher, bounds>>

\* loadFromFileLocked: an empty file is an empty store.
Load(p) ==
    /\ pc[p] = "load"
    /\ \/ /\ disk.kind = "partial"
          /\ Return(p, "error")
          /\ UNCHANGED <<mem, seen>>
       \/ /\ disk.kind # "partial"
          /\ mem' = [mem EXCEPT ![p] = IF disk.kind = "whole" THEN disk.data ELSE Empty]
          /\ Goto(p, "apply")
          /\ Looks(p)
          /\ UNCHANGED <<lock, reply, loop>>
    /\ UNCHANGED <<backend, disk, version, stamp, cuts, req, watcher, bounds>>

\* fn; a read or a refused write has nothing to save.
Apply(p) ==
    /\ pc[p] = "apply"
    /\ \/ /\ req[p].kind = "read" \/ ~Accepts(mem[p], p, req[p])
          /\ Return(p, Answer(mem[p], p, req[p]))
          /\ UNCHANGED mem
       \/ /\ req[p].kind # "read" /\ Accepts(mem[p], p, req[p])
          /\ mem' = [mem EXCEPT ![p] = Effect(mem[p], p, req[p])]
          /\ Goto(p, "truncate")
          /\ UNCHANGED <<lock, reply, loop>>
    /\ UNCHANGED <<backend, disk, version, stamp, cuts, req, watcher, seen, bounds>>

\* saveToFileLocked.
Truncate(p) ==
    /\ pc[p] = "truncate"
    /\ Change(Hollow("empty"))
    /\ Goto(p, "write")
    /\ UNCHANGED <<backend, lock, mem, cuts, req, reply, watcher, loop, seen, bounds>>

Write(p) ==
    /\ pc[p] = "write"
    /\ Change(Whole(mem[p]))
    /\ Return(p, "ok")
    /\ UNCHANGED <<backend, mem, cuts, req, watcher, seen, bounds>>

\* The disk is full: all that was there is gone already.
WriteFails(p) ==
    /\ pc[p] = "write"
    /\ Change(Hollow("empty")) \/ Change(Hollow("partial"))
    /\ cuts' = cuts + 1
    /\ Return(p, "error")
    /\ faults < MaxFaults
    /\ faults' = faults + 1
    /\ UNCHANGED <<backend, mem, req, watcher, seen, calls, drops>>

\* Everything is written, but the file cannot be synced: the call reports an
\* error of a change that all others will see.
SyncFails(p) ==
    /\ pc[p] = "write"
    /\ Change(Whole(mem[p]))
    /\ Return(p, "error")
    /\ faults < MaxFaults
    /\ faults' = faults + 1
    /\ UNCHANGED <<backend, mem, cuts, req, watcher, seen, calls, drops>>

\* One statement of postgres: the database sees to isolation and, if rows of
\* bots or runtimes changed, to a notification of whoever listens.
Execute(p) ==
    IF req[p].kind = "read" \/ ~Accepts(disk.data, p, req[p])
    THEN UNCHANGED <<disk, version, stamp, watch>>
    ELSE /\ Change(Whole(Effect(disk.data, p, req[p])))
         /\ watch' = [watch EXCEPT !.pending = @ \/ watch.have]

Query(p) ==
    /\ pc[p] = "query"
    /\ Execute(p)
    /\ Return(p, Answer(disk.data, p, req[p]))
    /\ Looks(p)
    /\ UNCHANGED <<backend, mem, cuts, req, wake, bounds>>

\* The connection breaks before the statement is executed, or after it.
QueryFails(p) ==
    /\ pc[p] = "query"
    /\ Execute(p) \/ UNCHANGED <<disk, version, stamp, watch>>
    /\ Return(p, "error")
    /\ drops < MaxDrops
    /\ drops' = drops + 1
    /\ UNCHANGED <<backend, mem, cuts, req, wake, seen, calls, faults>>

----------------------------------------------------------------------------
(* SIGKILL and the processes that are started in place.                    *)

\* The flock goes with the process; of a save, nothing, a part or all may have
\* reached the file.
Kill(p) ==
    /\ faults < MaxFaults
    /\ pc[p] # "idle"
    /\ IF pc[p] = "write"
       THEN \/ Change(Whole(mem[p])) /\ UNCHANGED cuts
            \/ /\ Change(Hollow("empty")) \/ Change(Hollow("partial"))
               /\ cuts' = cuts + 1
       ELSE UNCHANGED <<disk, version, stamp, cuts>>
    /\ faults' = faults + 1
    /\ Goto(p, "idle")
    /\ lock' = lock \ {p}
    /\ mem' = [mem EXCEPT ![p] = Empty]
    /\ reply' = [reply EXCEPT ![p] = Nothing]
    /\ IF p = Agent THEN watch' = NoWatch /\ wake' = FALSE /\ loop' = "start"
       ELSE UNCHANGED <<watcher, loop>>
    /\ UNCHANGED <<backend, req, seen, calls, drops>>

----------------------------------------------------------------------------
(* The watchers and the select of Loop.Run.                                *)

\* A mutant: the channel has no room, a signal that nobody waits for is dropped.
Mut_Poll ==
    /\ backend = "memory"
    /\ disk.kind # "absent"
    /\ ~watch.have \/ stamp # watch.last
    /\ watch' = [watch EXCEPT !.have = TRUE, !.last = stamp]
    /\ wake' = (wake \/ (watch.have /\ loop = "select"))
    /\ UNCHANGED <<backend, file, pc, req, reply, loop, seen, bounds>>

\* FileWatcher.loop: the first look is only remembered.
Poll ==
    /\ backend = "memory"
    /\ disk.kind # "absent"
    /\ ~watch.have \/ stamp # watch.last
    /\ watch' = [watch EXCEPT !.have = TRUE, !.last = stamp]
    /\ wake' = (wake \/ watch.have)
    /\ UNCHANGED <<backend, file, pc, req, reply, loop, seen, bounds>>

\* ListenWatcher.listenOnce.
Listen ==
    /\ backend = "postgres"
    /\ ~watch.have
    /\ watch' = [watch EXCEPT !.have = TRUE]
    /\ UNCHANGED <<backend, file, pc, req, reply, wake, loop, seen, bounds>>

WaitForNotification ==
    /\ watch.pending
    /\ watch' = [watch EXCEPT !.pending = FALSE]
    /\ wake' = TRUE
    /\ UNCHANGED <<backend, file, pc, req, reply, loop, seen, bounds>>

\* What was on its way is lost; the poll of the loop makes up for it.
ConnectionLost ==
    /\ backend = "postgres"
    /\ watch.have
    /\ drops < MaxDrops
    /\ drops' = drops + 1
    /\ watch' = NoWatch
    /\ UNCHANGED <<backend, file, pc, req, reply, wake, loop, seen, calls, faults>>

\* A pass reads the store; it stands for the first of the calls of Tick.
BeginTick ==
    /\ \E row \in Rows : Begin(Agent, [kind |-> "read", row |-> row])
    /\ loop' = "tick"
    /\ UNCHANGED <<watch, seen, calls>>

\* The first pass, and every RECONCILE_INTERVAL.
FirstTick == loop = "start" /\ BeginTick /\ UNCHANGED wake
OnTicker == loop = "select" /\ BeginTick /\ UNCHANGED wake

\* The signal is taken before the pass begins.
OnWake == loop = "select" /\ wake /\ BeginTick /\ wake' = FALSE

\* Heartbeat, and the other writes of the agent.
OnHeartbeat ==
    /\ loop = "select"
    /\ Counted
    /\ \E r \in Request : r.kind # "read" /\ Begin(Agent, r)
    /\ loop' = "heartbeat"
    /\ UNCHANGED <<watcher, seen>>

----------------------------------------------------------------------------

Step(p) ==
    \/ Open(p) \/ Flock(p) \/ Load(p) \/ Apply(p) \/ Truncate(p) \/ Write(p) \/ Query(p)

CallFails(p) == WriteFails(p) \/ SyncFails(p) \/ QueryFails(p)

Watching == Poll \/ Listen \/ WaitForNotification

Next ==
    \/ \E p \in Processes : Call(p) \/ Step(p) \/ CallFails(p) \/ Kill(p)
    \/ Watching \/ ConnectionLost
    \/ FirstTick \/ OnTicker \/ OnWake \/ OnHeartbeat

Spec == Init /\ [][Next]_vars

\* A call goes on, the kernel serves those who wait for a flock in turn, the
\* watcher polls or listens, and the loop's select takes up a signal.  The
\* ticker of the loop is not relied on.
Fairness ==
    /\ \A p \in Processes : WF_vars(Step(p) \/ CallFails(p)) /\ SF_vars(Flock(p))
    /\ WF_vars(Watching)
    /\ WF_vars(FirstTick) /\ WF_vars(OnWake)

FairSpec == Spec /\ Fairness

----------------------------------------------------------------------------

Pcs == {"idle", "open", "flock", "load", "apply", "truncate", "write", "query"}

\* Between Flock and Return.
Inside == {"load", "apply", "truncate", "write"}

\* Types, and what the flock is for: whoever is inside holds it, and only a
\* save under way, or one that was cut short, leaves the file without content.
TypeOK ==
    /\ backend \in {"memory", "postgres"}
    /\ disk \in [kind : {"absent", "empty", "partial", "whole"}, data : Data]
    /\ version \in Nat /\ stamp \in Nat /\ seen \in Nat
    /\ pc \in [Processes -> Pcs]
    /\ mem \in [Processes -> Data]
    /\ req \in [Processes -> Request]
    /\ reply \in [Processes -> Replies \cup {Nothing}]
    /\ cuts \in Nat
    /\ watch \in [have : BOOLEAN, last : Nat, pending : BOOLEAN]
    /\ wake \in BOOLEAN
    /\ loop \in {"start", "select", "tick", "heartbeat"}
    /\ \A p \in Processes : pc[p] \in Inside <=> p \in lock
    /\ \A p, q \in lock : p = q

\* The store as the processes see it.  A save counts from the moment the old
\* content is gone; a file that holds nothing is an empty store.
Saving(p) == pc[p] = "write"

Db == IF \E p \in Processes : Saving(p) THEN mem[CHOOSE p \in Processes : Saving(p)]
      ELSE IF disk.kind = "partial" THEN Unreadable
      ELSE IF disk.kind = "whole" THEN disk.data ELSE Empty

Told == [p \in Processes |-> IF Saving(p) THEN [req |-> req[p], answer |-> "ok"] ELSE reply[p]]

Abstract == INSTANCE AtomicStore WITH db <- Db, reply <- Told

\* Calls of all processes are atomic, no write is lost between the read and the
\* write of another process, and nothing is lost when a process is killed, the
\* disk is full or a connection breaks, unless that cuts a save short; but a call
\* that reports an error may have had its effect.
ImplementsAtomicStore == Abstract!Spec

\* A call returns, whoever else calls, is killed or finds the file unreadable.
CallsReturn == \A p \in Processes : pc[p] # "idle" ~> pc[p] = "idle"

\* There is something for the watcher to notice.
Noticeable ==
    /\ watch.have
    /\ watch.pending \/ (backend = "memory" /\ stamp # watch.last)

\* A pass of the loop that could not read the store: the signal that woke it is
\* used up, and the next pass waits for the ticker or another change.
PassFailed == reply[Agent].answer = "error" /\ reply[Agent].req.kind = "read"

\* A change that the watcher can notice is read by a pass of the loop that was
\* not waiting for its ticker, also when the signal comes while a pass is under
\* way or the channel is full; unless the watcher itself is cut off, or that
\* pass fails.
NoticedIsSeen ==
    \A v \in 0 .. 2 * MaxCalls + 1 + MaxFaults :
        Noticeable /\ version = v ~> seen >= v \/ ~watch.have \/ PassFailed
==============================================================================
