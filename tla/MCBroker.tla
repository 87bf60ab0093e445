----------------------------- MODULE MCBroker -----------------------------
(* One agent, its inbox, and whoever connects with its client id.          *)
EXTENDS Broker, TLC

CONSTANTS mAlice, inAlice, i1, i2, i3

MCClients    == {mAlice}
MCTopics     == {inAlice}
MCOwner      == inAlice :> mAlice
MCAgentInbox == {inAlice}
ThreeIds     == {i1, i2, i3}
Symmetry     == Permutations({i1, i2, i3})
=============================================================================
