-------------------------- MODULE MCRestartPolicy --------------------------
(* Instances of RestartPolicy for TLC: switched off, one attempt, three     *)
(* attempts; ceilings below, at and above the doubled base, odd and even,   *)
(* and the two defaults.                                                    *)
EXTENDS RestartPolicy

MCPolicies == [MaxAttempts : {0, 1, 3}, Base : 0..3, Max : {0, 1, 2, 4, 5, 6, 7}]
============================================================================
