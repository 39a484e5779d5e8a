-------------------------- MODULE AbstractRestart --------------------------
(***************************************************************************)
(* What the reconcile loop relies on of the restart tracker of a runtime:  *)
(* a restart is planned, comes due some time later and is then taken, and  *)
(* no more than limit are planned until the tracker is reset.  The time is *)
(* reduced to whether the planned moment has come.                         *)
(***************************************************************************)
EXTENDS Naturals

VARIABLES
    limit,      \* RESTART_MAX_ATTEMPTS, fixed
    attempts,   \* restarts planned since the last reset
    nextAt      \* the planned restart: none, ahead or due

vars == <<limit, attempts, nextAt>>

Init ==
    /\ limit \in Nat
    /\ attempts = 0
    /\ nextAt = "zero"

Plan ==
    /\ nextAt = "zero" /\ attempts < limit
    /\ nextAt' = "later" /\ attempts' = attempts + 1
    /\ UNCHANGED limit

Elapse == nextAt = "later" /\ nextAt' = "due" /\ UNCHANGED <<limit, attempts>>

Take == nextAt = "due" /\ nextAt' = "zero" /\ UNCHANGED <<limit, attempts>>

Reset == attempts' = 0 /\ nextAt' = "zero" /\ UNCHANGED limit

Next == Plan \/ Elapse \/ Take \/ Reset

Spec == Init /\ [][Next]_vars
============================================================================
