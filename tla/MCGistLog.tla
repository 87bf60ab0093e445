----------------------------- MODULE MCGistLog -----------------------------
(* Two environments, of which the first sends two messages.                *)
EXTENDS GistLog

CONSTANTS e1, e2, m1, m2, m3

MCEnvs     == {e1, e2}
MCMessages == {m1, m2, m3}
MCSender   == [m \in MCMessages |-> IF m = m3 THEN e2 ELSE e1]
=============================================================================
