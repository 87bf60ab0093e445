----------------------------- MODULE MCMailbox -----------------------------
(* One agent mailbox and one topic that is nobody's inbox.  The mailboxes  *)
(* of a store are independent but for the dirty flag and the snapshot,     *)
(* which one mailbox already exercises.                                    *)
EXTENDS Mailbox, TLC

CONSTANTS mAlice, inAlice, broadcast, i1

MCClients    == {mAlice}
MCTopics     == {inAlice, broadcast}
MCOwner      == inAlice :> mAlice @@ broadcast :> NoClient
MCAgentInbox == {inAlice}
MCMessageIds == {i1}
=============================================================================
