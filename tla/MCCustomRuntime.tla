-------------------------- MODULE MCCustomRuntime --------------------------
(* Instances of CustomRuntime for TLC: two nodes, two pids per node, the    *)
(* second pid lets a restarted process have a pid of its own.               *)
EXTENDS CustomRuntime, TLC

CONSTANTS n1, n2, p1, p2, c1, c2

MCNodes1 == {n1}
MCNodes2 == {n1, n2}
MCPids == {p1, p2}
MCPids1 == {p1}
MCClients1 == {c1}
MCClients2 == {c1, c2}
StartStop == {"start", "stop"}
BotOps == {"start", "stop", "migrate"}
AllBotOps == AllKinds \ {"rtstart", "rtstop"}
NotMoved == AllKinds \ {"migrate", "patch"}
NoErrors == {}
LimitOnly == {"limit"}
InTick == {"tick"}
InShutdown == {"shutdown"}
CommandSpawn == {"command", "spawn"}

Symmetry1 == Permutations(MCPids)
Symmetry2 == Permutations(MCPids) \cup Permutations(MCClients2)
============================================================================
