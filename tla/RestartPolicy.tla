--------------------------- MODULE RestartPolicy ---------------------------
(***************************************************************************)
(* The restart tracker of one runtime (internal/reconcile/restart.go) with *)
(* its clock: backoffFor, recordFailure, resetAfterSuccess and clear,      *)
(* called in any order at any time by the reconcile loop, which reports a  *)
(* failure on every tick that finds the runtime failed.                    *)
(***************************************************************************)
EXTENDS Integers

CONSTANTS
    Policies,      \* RestartPolicy values: MaxAttempts, Base and Max, in ticks
    DefaultBase,   \* one second, used when Base <= 0
    DefaultMax,    \* sixty seconds, used when Max <= 0
    MaxClock       \* bound of the clock, for TLC only

ASSUME RestartAssumption ==
    /\ Policies \subseteq [MaxAttempts : Nat, Base : Nat, Max : Nat]
    /\ DefaultBase \in Nat \ {0}
    /\ DefaultMax \in Nat \ {0}
    /\ MaxClock \in Nat

VARIABLES
    policy,     \* the configuration of the agent, fixed
    clock,
    attempts,   \* restartState.attempts
    planned,    \* restartState.nextAt is not zero
    nextAt,     \* restartState.nextAt
    lastFailAt, \* restartState.lastFailAt
    allowed     \* history: restarts allowed since the state was created

vars == <<policy, clock, attempts, planned, nextAt, lastFailAt, allowed>>
state == <<attempts, planned, nextAt, lastFailAt, allowed>>

Base(p) == IF p.Base = 0 THEN DefaultBase ELSE p.Base
Cap(p) == IF p.Max = 0 THEN DefaultMax ELSE p.Max

Mut_Doubled(p, attempt) ==
    LET d[i \in 0..attempt] ==
          IF i = 0 THEN Base(p)
          ELSE IF d[i - 1] >= Cap(p) \div 2 THEN Cap(p) ELSE 2 * d[i - 1]
    IN  d[attempt]

\* The loop of backoffFor: the duration after attempt - 1 doublings; once it
\* reaches half of the ceiling it jumps to the ceiling and stays there.
Doubled(p, attempt) ==
    LET d[i \in 1..attempt] ==
          IF i = 1 THEN Base(p)
          ELSE IF d[i - 1] >= Cap(p) \div 2 THEN Cap(p) ELSE 2 * d[i - 1]
    IN  d[attempt]

backoffFor(p, attempt) ==
    LET d == Doubled(p, IF attempt < 1 THEN 1 ELSE attempt)
    IN  IF d > Cap(p) THEN Cap(p) ELSE d

Init ==
    /\ policy \in Policies
    /\ clock = 0
    /\ attempts = 0
    /\ planned = FALSE
    /\ nextAt = 0
    /\ lastFailAt = 0
    /\ allowed = 0

Enabled == policy.MaxAttempts > 0

\* recordFailure: the planned restart is still ahead.
Wait ==
    /\ Enabled
    /\ planned
    /\ clock < nextAt
    /\ UNCHANGED vars

\* recordFailure: the planned restart is due and is taken.
Allow ==
    /\ Enabled
    /\ planned
    /\ ~(clock < nextAt)
    /\ planned' = FALSE
    /\ allowed' = allowed + 1
    /\ UNCHANGED <<policy, clock, attempts, nextAt, lastFailAt>>

Mut_Plan ==
    /\ Enabled
    /\ ~planned
    /\ attempts < policy.MaxAttempts
    /\ attempts' = attempts + 1
    /\ lastFailAt' = clock
    /\ planned' = TRUE
    /\ nextAt' = clock + backoffFor(policy, attempts)
    /\ UNCHANGED <<policy, clock, allowed>>

Mut_PlanTooMany ==
    /\ Enabled
    /\ ~planned
    /\ attempts <= policy.MaxAttempts
    /\ attempts' = attempts + 1
    /\ lastFailAt' = clock
    /\ planned' = TRUE
    /\ nextAt' = clock + backoffFor(policy, attempts + 1)
    /\ UNCHANGED <<policy, clock, allowed>>

\* A mutant: a failure reported again while a restart is planned counts again.
Mut_Replan ==
    /\ Enabled
    /\ attempts < policy.MaxAttempts
    /\ attempts' = attempts + 1
    /\ lastFailAt' = clock
    /\ planned' = TRUE
    /\ nextAt' = clock + backoffFor(policy, attempts + 1)
    /\ UNCHANGED <<policy, clock, allowed>>

\* recordFailure: a new failure plans the next restart.
Plan ==
    /\ Enabled
    /\ ~planned
    /\ attempts < policy.MaxAttempts
    /\ attempts' = attempts + 1
    /\ lastFailAt' = clock
    /\ planned' = TRUE
    /\ nextAt' = clock + backoffFor(policy, attempts + 1)
    /\ UNCHANGED <<policy, clock, allowed>>

\* recordFailure: switched off, or every attempt is spent.
Refuse ==
    /\ ~Enabled \/ (~planned /\ attempts >= policy.MaxAttempts)
    /\ UNCHANGED vars

\* resetAfterSuccess and clear both delete the state.
Delete ==
    /\ attempts' = 0
    /\ planned' = FALSE
    /\ nextAt' = 0
    /\ lastFailAt' = 0
    /\ allowed' = 0
    /\ UNCHANGED <<policy, clock>>

AdvanceClock ==
    /\ clock < MaxClock
    /\ clock' = clock + 1
    /\ UNCHANGED <<policy, state>>

Next == Wait \/ Allow \/ Plan \/ Refuse \/ Delete \/ AdvanceClock

Spec == Init /\ [][Next]_vars

----------------------------------------------------------------------------

\* Between two resets no more than MaxAttempts restarts are allowed, however
\* often the loop reports the same failure.
RestartsBounded == allowed <= policy.MaxAttempts

\* A restart is never allowed before the backoff of its attempt has passed
\* since the failure that planned it.
NotBeforeBackoff ==
    [][ allowed' > allowed
          => ~(clock < lastFailAt + backoffFor(policy, attempts)) ]_vars

\* The documented formula, Base * 2^(attempt - 1) capped at Max, for the first
\* six attempts (BackoffFormula is about all of them).  An odd ceiling (an odd number of
\* nanoseconds) may be reached one doubling early, because half of it is
\* rounded down.
BackoffIsExponential ==
    \A attempt \in 1..6 :
        LET exact == Base(policy) * 2 ^ (attempt - 1)
            d == backoffFor(policy, attempt)
        IN  \/ d = IF exact <= Cap(policy) THEN exact ELSE Cap(policy)
            \/ Cap(policy) % 2 = 1 /\ d = Cap(policy) /\ exact = Cap(policy) - 1

\* The tracker as the reconcile loop sees it.
Abstract == INSTANCE AbstractRestart WITH
    limit <- policy.MaxAttempts,
    nextAt <- IF ~planned THEN "zero" ELSE IF clock < nextAt THEN "later" ELSE "due"

\* With its clock and its backoff the tracker does what the loop relies on: a
\* planned restart is first ahead and then due, is taken once, and no failure
\* reported meanwhile plans another or moves it.
ImplementsAbstractRestart == Abstract!Spec
============================================================================
