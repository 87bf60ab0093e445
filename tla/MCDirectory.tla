---------------------------- MODULE MCDirectory ----------------------------
(* One environment is read by another, over one transport or two, by the   *)
(* timer's synchronisations and one that overlaps them.                    *)
EXTENDS Directory

CONSTANTS home, peer, nostr, gist, timer, direct

MCEnvNames   == <<peer>>
MCTransports == {nostr, gist}
MCCallers    == {timer, direct}
=============================================================================
