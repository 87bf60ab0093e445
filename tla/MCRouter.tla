----------------------------- MODULE MCRouter -----------------------------
(* Three deliveries at a time, each for two agents.                        *)
EXTENDS Router

CONSTANTS d1, d2, d3, a1, a2

MCAgentNames == <<a1, a2>>
MCDeliveries == {d1, d2, d3}
=============================================================================
