--------------------------- MODULE MCRelayChain ---------------------------
(* Two relays (Nostr first, then Gist) and two concurrent calls.           *)
EXTENDS RelayChain

CONSTANTS nostr, gist, c1, c2

MCChain == <<nostr, gist>>
MCCalls == {c1, c2}
=============================================================================
