-------------------------- MODULE LeaseStoreProofs --------------------------
(***************************************************************************)
(* Theorems about LeaseStore, for every set of nodes, TTL, clock error and *)
(* both backends.                                                          *)
(***************************************************************************)
EXTENDS LeaseStore, TLAPS

USE LeaseAssumption

\* The clock error of a node is a number, and the backend never changes.
LEMMA AheadIsInt == \A n \in Nodes : Ahead(n) \in Int
BY DEF Ahead

LEMMA BackendIsFixed ==
    ASSUME [Next]_vars
    PROVE  backend' = backend /\ \A n \in Nodes : Ahead(n)' = Ahead(n)
<1>1. backend' = backend
  BY DEF Next, NodeStep, vars, ResetLease, AdvanceClock, ReadRow, Holds, NotHolds,
         StartHeld, Renew, TryAcquireLease, RenewLease, ReleaseLease
<1>2. QED
  BY <1>1 DEF Ahead

\* The types of LeaseStore and the shape of a free row hold in every state:
\* whatever interleaving of Acquire, Renew and Release the agents run.
THEOREM LeaseTypes == Spec => []TypeOK
<1>1. Init => TypeOK
  BY DEF Init, TypeOK, NoLease, Lease
<1>2. TypeOK /\ [Next]_vars => TypeOK'
  <2> SUFFICES ASSUME TypeOK, [Next]_vars
               PROVE  TypeOK'
    OBVIOUS
  <2> USE DEF TypeOK, Lease, NoLease, Goto
  <2>1. CASE ResetLease
    BY <2>1 DEF ResetLease
  <2>2. CASE AdvanceClock
    BY <2>2 DEF AdvanceClock
  <2>3. ASSUME NEW n \in Nodes, ReadRow(n) PROVE TypeOK'
    BY <2>3 DEF ReadRow
  <2>4. ASSUME NEW n \in Nodes, Holds(n) PROVE TypeOK'
    BY <2>4 DEF Holds
  <2>5. ASSUME NEW n \in Nodes, NotHolds(n) PROVE TypeOK'
    <3>1. until(n) \in Int
      BY AheadIsInt DEF until, NodeClock
    <3>2. QED
      BY <2>5, <3>1 DEF NotHolds
  <2>6. ASSUME NEW n \in Nodes, StartHeld(n) PROVE TypeOK'
    BY <2>6 DEF StartHeld
  <2>7. ASSUME NEW n \in Nodes, Renew(n) PROVE TypeOK'
    <3>1. until(n) \in Int
      BY AheadIsInt DEF until, NodeClock
    <3>2. QED
      BY <2>7, <3>1 DEF Renew
  <2>8. ASSUME NEW n \in Nodes, TryAcquireLease(n) PROVE TypeOK'
    BY <2>8 DEF TryAcquireLease
  <2>9. ASSUME NEW n \in Nodes, RenewLease(n) PROVE TypeOK'
    BY <2>9 DEF RenewLease
  <2>10. ASSUME NEW n \in Nodes, ReleaseLease(n) PROVE TypeOK'
    BY <2>10 DEF ReleaseLease
  <2>11. CASE UNCHANGED vars
    BY <2>11 DEF vars
  <2>12. QED
    BY <2>1, <2>2, <2>3, <2>4, <2>5, <2>6, <2>7, <2>8, <2>9, <2>10, <2>11
       DEF Next, NodeStep
<1>3. QED
  BY <1>1, <1>2, PTL DEF Spec

\* What a node reads stays true as long as the deadline it read lies ahead of
\* the store's clock: nobody but the node itself touches its unexpired lease,
\* and the node is busy asking.
SeenIsCurrent ==
    \A n \in Nodes :
        pc[n] = "read" /\ n \notin moved /\ seen[n].owner = n /\ seen[n].until > clock
            => lease = seen[n]

\* Every step keeps SeenIsCurrent.
LEMMA SeenIsCurrentStep ==
    ASSUME TypeOK, SeenIsCurrent, [Next]_vars
    PROVE  SeenIsCurrent'
<1> USE DEF TypeOK, Lease, SeenIsCurrent, Goto
<1>1. CASE ResetLease
  BY <1>1 DEF ResetLease
<1>2. CASE AdvanceClock
  BY <1>2 DEF AdvanceClock
<1>3. ASSUME NEW n \in Nodes, ReadRow(n) PROVE SeenIsCurrent'
  BY <1>3 DEF ReadRow
<1>4. ASSUME NEW n \in Nodes, Holds(n) PROVE SeenIsCurrent'
  BY <1>4 DEF Holds
<1>5. ASSUME NEW n \in Nodes, NotHolds(n) PROVE SeenIsCurrent'
  BY <1>5 DEF NotHolds
<1>6. ASSUME NEW n \in Nodes, StartHeld(n) PROVE SeenIsCurrent'
  BY <1>6 DEF StartHeld
<1>7. ASSUME NEW n \in Nodes, Renew(n) PROVE SeenIsCurrent'
  BY <1>7 DEF Renew
<1>8. ASSUME NEW n \in Nodes, TryAcquireLease(n) PROVE SeenIsCurrent'
  <2> SUFFICES ASSUME NEW m \in Nodes, pc'[m] = "read", m \notin moved', seen'[m].owner = m,
                      seen'[m].until > clock'
               PROVE  lease' = seen'[m]
    OBVIOUS
  <2>1. pc[m] = "read" /\ seen' = seen /\ clock' = clock /\ moved' = moved /\ m # n
    BY <1>8 DEF TryAcquireLease
  <2>2. lease = seen[m]
    BY <2>1
  <2>3. ~leaseAcquirable(n)
    BY <2>1, <2>2 DEF leaseAcquirable, Expired
  <2>4. QED
    BY <1>8, <2>1, <2>2, <2>3 DEF TryAcquireLease
<1>9. ASSUME NEW n \in Nodes, RenewLease(n) PROVE SeenIsCurrent'
  BY <1>9 DEF RenewLease, leaseOwnedBy
<1>10. ASSUME NEW n \in Nodes, ReleaseLease(n) PROVE SeenIsCurrent'
  <2> SUFFICES ASSUME NEW m \in Nodes, pc'[m] = "read", m \notin moved', seen'[m].owner = m,
                      seen'[m].until > clock'
               PROVE  lease' = seen'[m]
    OBVIOUS
  <2>1. pc[m] = "read" /\ seen' = seen /\ clock' = clock /\ moved' = moved /\ m # n
    BY <1>10 DEF ReleaseLease
  <2>2. lease = seen[m]
    BY <2>1
  <2>3. leaseHeldByOther(n)
    BY <2>1, <2>2 DEF leaseHeldByOther, Expired
  <2>4. QED
    BY <1>10, <2>3 DEF ReleaseLease
<1>11. CASE UNCHANGED vars
  BY <1>11 DEF vars
<1>12. QED
  BY <1>1, <1>2, <1>3, <1>4, <1>5, <1>6, <1>7, <1>8, <1>9, <1>10, <1>11
     DEF Next, NodeStep

\* Holds is sound: a node whose clock is not behind the store's and that is
\* told "the lease is yours" owns an unexpired lease at that moment, although the
\* row was read earlier, unless a migration has reset it since.
THEOREM HoldsIsSound == Spec => HoldsSound
<1>1. Init => SeenIsCurrent
  BY DEF Init, SeenIsCurrent
<1>2. TypeOK /\ SeenIsCurrent /\ [Next]_vars => SeenIsCurrent'
  BY SeenIsCurrentStep
<1>3. TypeOK /\ SeenIsCurrent /\ [Next]_vars =>
        [ \A n \in Nodes :
            pc[n] = "read" /\ pc'[n] = "granted" /\ Ahead(n) >= 0 /\ n \notin moved
              => lease.owner = n /\ ~Expired(lease) ]_vars
  <2> SUFFICES ASSUME TypeOK, SeenIsCurrent, Next,
                      NEW n \in Nodes, pc[n] = "read", pc'[n] = "granted", Ahead(n) >= 0,
                      n \notin moved
               PROVE  lease.owner = n /\ ~Expired(lease)
    BY DEF vars
  <2> USE DEF TypeOK, Lease, Goto
  <2>1. Holds(n)
    BY DEF Next, NodeStep, ResetLease, AdvanceClock, ReadRow, Holds, NotHolds,
           StartHeld, Renew, TryAcquireLease, RenewLease, ReleaseLease
  <2>2. seen[n].owner = n /\ seen[n].until > clock
    BY <2>1, AheadIsInt DEF Holds, HoldsAnswer, NodeClock
  <2>3. lease = seen[n]
    BY <2>2 DEF SeenIsCurrent
  <2>4. QED
    BY <2>2, <2>3 DEF Expired
<1>4. QED
  BY <1>1, <1>2, <1>3, LeaseTypes, PTL DEF Spec, HoldsSound

\* The compare-and-set lease implements the abstract one, on both backends and
\* with migrations: nobody becomes the holder while somebody else is.
THEOREM LeaseRefines == Spec => ImplementsAbstractLease
<1> USE DEF Holder, Expired
<1>1. Init => Abstract!Init
  BY DEF Init, Abstract!Init, NoLease
<1>2. TypeOK /\ [Next]_vars => [Abstract!Next]_Holder
  <2> SUFFICES ASSUME TypeOK, [Next]_vars
               PROVE  Abstract!Next \/ UNCHANGED Holder
    OBVIOUS
  <2> USE DEF TypeOK, Lease, Abstract!Next, Abstract!Take, Abstract!Drop
  <2>1. CASE ResetLease
    BY <2>1 DEF ResetLease, NoLease
  <2>2. CASE AdvanceClock
    BY <2>2 DEF AdvanceClock
  <2>3. ASSUME NEW n \in Nodes,
               ReadRow(n) \/ Holds(n) \/ NotHolds(n) \/ StartHeld(n) \/ Renew(n)
        PROVE  UNCHANGED Holder
    BY <2>3 DEF ReadRow, Holds, NotHolds, StartHeld, Renew
  <2>4. ASSUME NEW n \in Nodes, TryAcquireLease(n)
        PROVE  Abstract!Next \/ UNCHANGED Holder
    <3>1. Holder \in {NoNode, n} \/ lease' = lease
      BY <2>4 DEF TryAcquireLease, leaseAcquirable
    <3>2. Holder' \in {NoNode, n} \/ lease' = lease
      BY <2>4 DEF TryAcquireLease
    <3>3. clock' = clock
      BY <2>4 DEF TryAcquireLease
    <3>4. QED
      BY <3>1, <3>2, <3>3
  <2>5. ASSUME NEW n \in Nodes, RenewLease(n)
        PROVE  Abstract!Next \/ UNCHANGED Holder
    <3>1. Holder \in {NoNode, n} \/ lease' = lease
      BY <2>5 DEF RenewLease, leaseOwnedBy
    <3>2. Holder' \in {NoNode, n} \/ lease' = lease
      BY <2>5 DEF RenewLease
    <3>3. clock' = clock
      BY <2>5 DEF RenewLease
    <3>4. QED
      BY <3>1, <3>2, <3>3
  <2>6. ASSUME NEW n \in Nodes, ReleaseLease(n) PROVE Abstract!Drop
    BY <2>6 DEF ReleaseLease, NoLease
  <2>7. CASE UNCHANGED vars
    BY <2>7 DEF vars
  <2>8. QED
    BY <2>1, <2>2, <2>3, <2>4, <2>5, <2>6, <2>7 DEF Next, NodeStep
<1>3. QED
  BY <1>1, <1>2, LeaseTypes, PTL DEF Spec, ImplementsAbstractLease, Abstract!Spec

\* A deadline that waits for its store call was computed at or before now.
DeadlineBounded ==
    \A n \in Nodes :
        pc[n] \in {"acquire", "renew"} => deadline[n] <= clock + TTL + Ahead(n)

\* No lease reaches further into the future than the TTL plus the clock error
\* of its owner, so the row of a dead node is free after that time.
THEOREM LeaseIsBounded == Spec => []LeaseBounded
<1> DEFINE IInv == DeadlineBounded /\ LeaseBounded
<1>1. Init => IInv
  BY DEF Init, NoLease, DeadlineBounded, LeaseBounded
<1>2. TypeOK /\ IInv /\ [Next]_vars => IInv'
  <2> SUFFICES ASSUME TypeOK, IInv, [Next]_vars
               PROVE  IInv'
    OBVIOUS
  <2> USE AheadIsInt, BackendIsFixed DEF TypeOK, Lease, Goto, DeadlineBounded, LeaseBounded
  <2>1. CASE ResetLease
    BY <2>1 DEF ResetLease, NoLease
  <2>2. CASE AdvanceClock
    BY <2>2 DEF AdvanceClock
  <2>3. ASSUME NEW n \in Nodes, ReadRow(n) \/ Holds(n) \/ StartHeld(n) PROVE IInv'
    BY <2>3 DEF ReadRow, Holds, StartHeld
  <2>4. ASSUME NEW n \in Nodes, NotHolds(n) \/ Renew(n) PROVE IInv'
    <3>1. until(n) = clock + Ahead(n) + TTL
      BY AheadIsInt DEF until, NodeClock
    <3>2. QED
      BY <2>4, <3>1 DEF NotHolds, Renew
  <2>5. ASSUME NEW n \in Nodes, TryAcquireLease(n) PROVE IInv'
    BY <2>5 DEF TryAcquireLease
  <2>6. ASSUME NEW n \in Nodes, RenewLease(n) PROVE IInv'
    BY <2>6 DEF RenewLease
  <2>7. ASSUME NEW n \in Nodes, ReleaseLease(n) PROVE IInv'
    BY <2>7 DEF ReleaseLease, NoLease
  <2>8. CASE UNCHANGED vars
    BY <2>8 DEF vars
  <2>9. QED
    BY <2>1, <2>2, <2>3, <2>4, <2>5, <2>6, <2>7, <2>8 DEF Next, NodeStep
<1>3. QED
  BY <1>1, <1>2, LeaseTypes, PTL DEF Spec

\* No call of another node displaces the owner of an unexpired lease while the
\* owner is in the middle of an operation; of a custom runtime only a migration
\* does.
THEOREM GrantedLeaseIsKept == Spec => GrantedIsKept
<1>1. TypeOK /\ [Next]_vars =>
        [ lease.owner # NoNode /\ ~Expired(lease) /\ pc[lease.owner] # "idle"
            => lease'.owner = lease.owner \/ ResetLease ]_vars
  <2> SUFFICES ASSUME TypeOK, Next, lease.owner # NoNode, ~Expired(lease),
                      pc[lease.owner] # "idle", ~ResetLease
               PROVE  lease'.owner = lease.owner
    BY DEF vars
  <2> USE DEF TypeOK, Lease, Goto
  <2>1. CASE ResetLease
    BY <2>1 DEF ResetLease
  <2>2. CASE AdvanceClock
    BY <2>2 DEF AdvanceClock
  <2>3. ASSUME NEW n \in Nodes,
               ReadRow(n) \/ Holds(n) \/ NotHolds(n) \/ StartHeld(n) \/ Renew(n)
        PROVE  lease' = lease
    BY <2>3 DEF ReadRow, Holds, NotHolds, StartHeld, Renew
  <2>4. ASSUME NEW n \in Nodes, TryAcquireLease(n) PROVE lease'.owner = lease.owner
    BY <2>4 DEF TryAcquireLease, leaseAcquirable
  <2>5. ASSUME NEW n \in Nodes, RenewLease(n) PROVE lease'.owner = lease.owner
    BY <2>5 DEF RenewLease, leaseOwnedBy
  <2>6. ASSUME NEW n \in Nodes, ReleaseLease(n) PROVE lease'.owner = lease.owner
    BY <2>6 DEF ReleaseLease, leaseHeldByOther
  <2>7. QED
    BY <2>1, <2>2, <2>3, <2>4, <2>5, <2>6 DEF Next, NodeStep
<1>2. QED
  BY <1>1, LeaseTypes, PTL DEF Spec, GrantedIsKept
============================================================================
