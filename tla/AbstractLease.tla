--------------------------- MODULE AbstractLease ---------------------------
(***************************************************************************)
(* What the lease of a runtime promises: at any time it has at most one    *)
(* holder, and it goes from one holder to another only through a moment    *)
(* when nobody holds it.                                                   *)
(***************************************************************************)
CONSTANTS Nodes, NoNode

VARIABLE holder

Init == holder = NoNode

Take(n) == holder = NoNode /\ holder' = n

Drop == holder' = NoNode

Next == Drop \/ \E n \in Nodes : Take(n)

Spec == Init /\ [][Next]_holder
=============================================================================
