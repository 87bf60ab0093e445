--------------------------- MODULE MCRelayInbox ---------------------------
(* Two messages, one more than the seen-set holds.                         *)
EXTENDS RelayInbox

CONSTANTS m1, m2

MCMessages == {m1, m2}
=============================================================================
