--------------------------- MODULE MCLeaseStore ---------------------------
(* Instances of LeaseStore for TLC. *)
EXTENDS LeaseStore, TLC

CONSTANTS n1, n2

MCNodes2 == {n1, n2}
\* n1 runs ahead of the database, n2 behind it
SkewBoth == (n1 :> 1) @@ (n2 :> -1)
BothBackends == {"memory", "postgres"}
=============================================================================
