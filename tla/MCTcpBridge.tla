---------------------------- MODULE MCTcpBridge ----------------------------
(* Four configurations, two ports, two slots and three connections.        *)
EXTENDS TcpBridge

CONSTANTS shipped, moved, odd, hanging

Configurations == {shipped, moved, odd, hanging}
Ports == [c \in Configurations |-> IF c = moved THEN 1502 ELSE 502]
=============================================================================
