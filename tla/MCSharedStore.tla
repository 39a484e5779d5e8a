---------------------------- MODULE MCSharedStore ----------------------------
(* An instance of SharedStore for TLC: an agent and two other processes. *)
EXTENDS SharedStore, TLC

CONSTANTS agent, ctl, r1

MCProcesses == {agent, ctl}
MCRows == {r1}
MCBackends == {"memory", "postgres"}
==============================================================================
