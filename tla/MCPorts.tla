------------------------------ MODULE MCPorts ------------------------------
(* Three ports for two listeners, with or without a pin.                   *)
EXTENDS Ports

CONSTANTS mqtt, ws

MCApps  == {mqtt, ws}
MCPorts == 1 .. 3
MCPins  == {[a \in MCApps |-> 0], [a \in MCApps |-> IF a = mqtt THEN 2 ELSE 0]}
=============================================================================
