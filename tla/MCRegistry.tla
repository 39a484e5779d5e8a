----------------------------- MODULE MCRegistry -----------------------------
(* An instance of Registry for TLC: two nodes, three bots, two requests at   *)
(* the same time and a limit of one bot.                                     *)
EXTENDS Registry, TLC

CONSTANTS n1, n2, x1, p1, p2, p3, i1, i2, i3, c1, c2

MCNodes == {n1, n2}
MCNames == {x1}
MCPorts == {p1, p2, p3}
MCIds == {i1, i2, i3}
MCClients == {c1, c2}
MCAgents == {n1}
Symmetry == Permutations(MCPorts) \cup Permutations(MCIds) \cup Permutations(MCClients)
=============================================================================
