----------------------------- MODULE MCGateway -----------------------------
(* Two messages, two signals, one restart.                                 *)
EXTENDS Gateway

CONSTANTS m1, m2, sigint, sigterm

MCMessages == {m1, m2}
MCSignals  == {sigint, sigterm}
=============================================================================
