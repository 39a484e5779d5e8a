----------------------------- MODULE StoreCalls -----------------------------
(***************************************************************************)
(* The calls of a repository, as far as sharing the store is concerned: a  *)
(* read, a write that is refused by what it finds (UNIQUE, a lease that is *)
(* held), and a write that is not.                                         *)
(***************************************************************************)
CONSTANTS
    Processes,   \* agents, bot-runners, ctl, control-api
    Rows         \* rows of the store, or UNIQUE keys

ASSUME StoreCallsAssumption ==
    /\ "unreadable" \notin Processes
    /\ Rows # {}

Free == "free"

\* A row that can be taken: a port, a name, a lease, and by whom it is.
Data == [Rows -> Processes \cup {Free}]

Empty == [r \in Rows |-> Free]

\* What an unparsable file holds.
Unreadable == [r \in Rows |-> "unreadable"]

Kinds == {"read", "take", "drop"}
Request == [kind : Kinds, row : Rows]

Accepts(data, p, req) == req.kind = "take" => data[req.row] \in {Free, p}

Effect(data, p, req) ==
    IF req.kind = "read" \/ ~Accepts(data, p, req) THEN data
    ELSE [data EXCEPT ![req.row] = IF req.kind = "take" THEN p ELSE Free]

Answer(data, p, req) ==
    IF req.kind = "read" THEN data[req.row]
    ELSE IF Accepts(data, p, req) THEN "ok" ELSE "refused"

\* What a process knows of its last call.
Replies == [req : Request, answer : Processes \cup {Free, "ok", "refused", "error"}]
Nothing == [answer |-> "nothing"]
=============================================================================
