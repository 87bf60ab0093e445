----------------------------- MODULE MCConsumer -----------------------------
(* One agent, its inbox, its listeners and a poll.                         *)
EXTENDS Consumer, TLC

CONSTANTS mAlice, inAlice, i1, i2

MCClients    == {mAlice}
MCTopics     == {inAlice}
MCOwner      == inAlice :> mAlice
MCAgentInbox == {inAlice}
TwoIds       == {i1, i2}
=============================================================================
