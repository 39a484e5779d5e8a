---------------------------- MODULE MCBotRunner ----------------------------
(* Instances of BotRunner for TLC: two bots that share the runner of one     *)
(* node, and one bot that moves between two nodes.                           *)
EXTENDS BotRunner, TLC

CONSTANTS n1, n2, b1, b2, c1, c2

MCNodes1 == {n1}
MCNodes2 == {n1, n2}
MCBots1 == {b1}
MCBots2 == {b1, b2}
MCWebhook == {b1}
NoBots == {}
MCClients1 == {c1}
MCClients2 == {c1, c2}
OnOneNode == {"start", "stop", "rtstart", "rtstop"}
OnTwoNodes == {"start", "stop", "migrate", "patchConfig", "patchNode"}
StartStop == {"start", "stop"}
============================================================================
