----------------------------- MODULE AtomicStore -----------------------------
(***************************************************************************)
(* What the processes that share a store rely on: a call happens at once   *)
(* and finds what the calls before it left.  The promise has one hole: a   *)
(* save that is cut short may leave an empty or an unreadable store.       *)
(***************************************************************************)
EXTENDS StoreCalls, Naturals

VARIABLES
    db,      \* the rows, or Unreadable
    reply,   \* the answer each process got last
    cuts     \* saves that were cut short

Init ==
    /\ db = Empty
    /\ reply = [p \in Processes |-> Nothing]
    /\ cuts = 0

Reply(p, req, answer) ==
    reply' = [reply EXCEPT ![p] = [req |-> req, answer |-> answer]]

Serve(p) ==
    \E req \in Request :
        /\ db # Unreadable
        /\ db' = Effect(db, p, req)
        /\ Reply(p, req, Answer(db, p, req))
        /\ UNCHANGED cuts

\* A call that fails, of which nothing is seen.
Fail(p) == (\E req \in Request : Reply(p, req, "error")) /\ UNCHANGED <<db, cuts>>

\* A call that fails after it has taken effect.
Unsure(p) ==
    \E req \in Request :
        /\ db # Unreadable
        /\ db' = Effect(db, p, req)
        /\ Reply(p, req, "error")
        /\ UNCHANGED cuts

\* A process that is killed does not know what became of its call.
Forget(p) == reply' = [reply EXCEPT ![p] = Nothing] /\ UNCHANGED <<db, cuts>>

Lose(p) ==
    /\ db' \in {Empty, Unreadable}
    /\ cuts' = cuts + 1
    /\ (\E req \in Request : Reply(p, req, "error")) \/ reply' = [reply EXCEPT ![p] = Nothing]

Next == \E p \in Processes : Serve(p) \/ Fail(p) \/ Unsure(p) \/ Forget(p) \/ Lose(p)

Spec == Init /\ [][Next]_<<db, reply, cuts>>
==============================================================================
