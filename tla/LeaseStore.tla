---------------------------- MODULE LeaseStore ----------------------------
(***************************************************************************)
(* The lease of one runtime (internal/lease on top of the store's          *)
(* compare-and-set): every node computes lease_until from its own clock,   *)
(* the store compares lease_until with the store's clock, and between the  *)
(* two calls of a node the others run.  Leases of different runtimes are   *)
(* independent rows, so one row is enough: that of a custom runtime.  The  *)
(* row of a bot_runner is contended for by one node only, but clients that *)
(* refresh its start command write the whole row back, with the lease      *)
(* columns as they read them (ops/bots.go:284, cmd/ctl/main.go:336, and    *)
(* the agent at runner.go:144); those writes are not modelled.             *)
(*                                                                         *)
(* A call that computes a deadline first and reaches the store later (it   *)
(* waits for the flock or for a connection) is two steps: the first fixes  *)
(* deadline[n], the second is the atomic store operation.                  *)
(***************************************************************************)
EXTENDS Integers

CONSTANTS
    Nodes,        \* node ids of the agents that contend for the runtime
    NoNode,       \* lease_owner = NULL
    TTL,          \* LEASE_TTL in ticks
    Skew,         \* Skew[n]: clock of node n minus clock of the store
    Backends,     \* the stores, a subset of {"memory", "postgres"}
    MaxClock      \* bound of the store's clock, for TLC only

ASSUME LeaseAssumption ==
    /\ NoNode \notin Nodes
    /\ TTL \in Nat \ {0}
    /\ Skew \in [Nodes -> Int]
    /\ Backends \subseteq {"memory", "postgres"}
    /\ MaxClock \in Nat

VARIABLES
    backend,   \* STORE_BACKEND, the same for every process
    clock,     \* the store's clock
    lease,     \* lease_owner, lease_until of the runtime row
    pc,        \* what the agent of each node does with the lease
    seen,      \* the row the last ByID of Holds returned
    deadline,  \* the until of the node's pending Acquire or Renew
    moved      \* history: the nodes that read the row before the last ResetLease

vars == <<backend, clock, lease, pc, seen, deadline, moved>>

NoLease == [owner |-> NoNode, until |-> 0]

Lease == [owner : Nodes \cup {NoNode}, until : Int]

\* With the memory store every process reads the clock of one host.
Ahead(n) == IF backend = "postgres" THEN Skew[n] ELSE 0

NodeClock(n) == clock + Ahead(n)

\* The store's own test that a lease has run out: `!until.After(now)` in
\* memory, `lease_until < now()` in postgres.
Expired(l) == IF backend = "postgres" THEN l.until < clock ELSE l.until <= clock

\* leaseAcquirable: free, expired, or already ours.
leaseAcquirable(n) == lease.owner = NoNode \/ Expired(lease) \/ lease.owner = n

\* leaseOwnedBy: an expired lease of ours may be renewed too.
leaseOwnedBy(n) == lease.owner = n

leaseHeldByOther(n) == lease.owner # NoNode /\ ~Expired(lease) /\ lease.owner # n

\* until(): the deadline a node asks for, on its own clock.
until(n) == NodeClock(n) + TTL

Init ==
    /\ backend \in Backends
    /\ clock = 0
    /\ lease = NoLease
    /\ pc = [n \in Nodes |-> "idle"]
    /\ seen = [n \in Nodes |-> NoLease]
    /\ deadline = [n \in Nodes |-> 0]
    /\ moved = {}

Goto(n, l) == pc' = [pc EXCEPT ![n] = l]

\* Holds, first half: Runtimes.ByID.
ReadRow(n) ==
    /\ pc[n] = "idle"
    /\ seen' = [seen EXCEPT ![n] = lease]
    /\ moved' = moved \ {n}
    /\ Goto(n, "read")
    /\ UNCHANGED <<backend, clock, lease, deadline>>

Mut_HoldsAnswer(n) == seen[n].owner = n

HoldsAnswer(n) == seen[n].owner = n /\ seen[n].until > NodeClock(n)

\* Holds, second half: the answer, on the node's clock, about the row read.
Holds(n) ==
    /\ pc[n] = "read"
    /\ HoldsAnswer(n)
    /\ Goto(n, "granted")
    /\ UNCHANGED <<backend, clock, lease, seen, deadline, moved>>

\* Holds said no: ensureRunning calls Acquire, which fixes the deadline.
NotHolds(n) ==
    /\ pc[n] = "read"
    /\ ~HoldsAnswer(n)
    /\ deadline' = [deadline EXCEPT ![n] = until(n)]
    /\ Goto(n, "acquire")
    /\ UNCHANGED <<backend, clock, lease, seen, moved>>

\* Holds said yes and there is no live process: the start needs no store call.
StartHeld(n) ==
    /\ pc[n] = "granted"
    /\ Goto(n, "idle")
    /\ UNCHANGED <<backend, clock, lease, seen, deadline, moved>>

\* Holds said yes and the process lives: Renew fixes the deadline.
Renew(n) ==
    /\ pc[n] = "granted"
    /\ deadline' = [deadline EXCEPT ![n] = until(n)]
    /\ Goto(n, "renew")
    /\ UNCHANGED <<backend, clock, lease, seen, moved>>

Mut_TryAcquireLease(n) ==
    /\ pc[n] = "acquire"
    /\ lease' = [owner |-> n, until |-> deadline[n]]
    /\ Goto(n, "idle")
    /\ UNCHANGED <<backend, clock, seen, deadline, moved>>

TryAcquireLease(n) ==
    /\ pc[n] = "acquire"
    /\ lease' = IF leaseAcquirable(n) THEN [owner |-> n, until |-> deadline[n]]
                                      ELSE lease
    /\ Goto(n, "idle")
    /\ UNCHANGED <<backend, clock, seen, deadline, moved>>

Mut_RenewLease(n) ==
    /\ pc[n] = "renew"
    /\ lease' = IF leaseOwnedBy(n) THEN [lease EXCEPT !.until = @ + TTL] ELSE lease
    /\ Goto(n, "idle")
    /\ UNCHANGED <<backend, clock, seen, deadline, moved>>

RenewLease(n) ==
    /\ pc[n] = "renew"
    /\ lease' = IF leaseOwnedBy(n) THEN [owner |-> n, until |-> deadline[n]] ELSE lease
    /\ Goto(n, "idle")
    /\ UNCHANGED <<backend, clock, seen, deadline, moved>>

Mut_ReleaseLease(n) ==
    /\ pc[n] = "idle"
    /\ ~leaseHeldByOther(n)
    /\ lease' = [lease EXCEPT !.owner = NoNode]
    /\ UNCHANGED <<backend, clock, pc, seen, deadline, moved>>

Mut_UnguardedRelease(n) ==
    /\ pc[n] = "idle"
    /\ lease' = NoLease
    /\ UNCHANGED <<backend, clock, pc, seen, deadline, moved>>

\* ReleaseLease computes no deadline: one atomic call.
ReleaseLease(n) ==
    /\ pc[n] = "idle"
    /\ ~leaseHeldByOther(n)
    /\ lease' = NoLease
    /\ UNCHANGED <<backend, clock, pc, seen, deadline, moved>>

\* Migrate resets lease_owner and lease_until with a plain Runtimes.Update, the
\* only one there is of a custom runtime's row.
ResetLease ==
    /\ lease' = NoLease
    /\ moved' = Nodes
    /\ UNCHANGED <<backend, clock, pc, seen, deadline>>

AdvanceClock ==
    /\ clock < MaxClock
    /\ clock' = clock + 1
    /\ UNCHANGED <<backend, lease, pc, seen, deadline, moved>>

NodeStep(n) ==
    \/ ReadRow(n) \/ Holds(n) \/ NotHolds(n) \/ StartHeld(n) \/ Renew(n)
    \/ TryAcquireLease(n) \/ RenewLease(n) \/ ReleaseLease(n)

Next == ResetLease \/ AdvanceClock \/ \E n \in Nodes : NodeStep(n)

Spec == Init /\ [][Next]_vars

----------------------------------------------------------------------------

\* Types, and the shape of a free row: without an owner there is no deadline
\* (ReleaseLease and Migrate clear both columns).
TypeOK ==
    /\ backend \in Backends
    /\ clock \in Nat
    /\ lease \in Lease
    /\ pc \in [Nodes -> {"idle", "read", "granted", "acquire", "renew"}]
    /\ seen \in [Nodes -> Lease]
    /\ deadline \in [Nodes -> Int]
    /\ moved \subseteq Nodes
    /\ lease.owner = NoNode => lease.until = 0

\* A node that Holds tells "the lease is yours" does own an unexpired lease at
\* that moment, although the row was read earlier and other nodes and the
\* clock ran in between.  It needs a node clock that is not behind the store's,
\* and that no migration has reset the row since it was read.
HoldsSound ==
    [][ \A n \in Nodes :
          pc[n] = "read" /\ pc'[n] = "granted" /\ Ahead(n) >= 0 /\ n \notin moved
            => lease.owner = n /\ ~Expired(lease) ]_vars

\* However calls and delays interleave, no lease reaches further than TTL
\* (plus the owner's clock error) into the future, so a dead owner blocks the
\* other nodes no longer than that.
LeaseBounded ==
    lease.owner # NoNode => lease.until <= clock + TTL + Ahead(lease.owner)

\* While the owner of an unexpired lease is in the middle of an operation
\* (asking Holds, about to start, renewing), no call of another node displaces
\* it: neither Acquire, nor Renew, nor the ReleaseLease of a node that believes
\* it is cleaning up after itself.  Of a custom runtime only a migration does.
GrantedIsKept ==
    [][ lease.owner # NoNode /\ ~Expired(lease) /\ pc[lease.owner] # "idle"
          => lease'.owner = lease.owner \/ ResetLease ]_vars

\* The holder the rest of the system relies on.
Holder == IF lease.owner # NoNode /\ ~Expired(lease) THEN lease.owner ELSE NoNode

Abstract == INSTANCE AbstractLease WITH holder <- Holder

\* The store's compare-and-set implements the abstract lease on both backends:
\* the holder changes only through a moment without a holder.
ImplementsAbstractLease == Abstract!Spec
=============================================================================
