------------------------- MODULE MCDirectTransport -------------------------
EXTENDS DirectTransport

CONSTANTS t1, t2, c1, c2, c3

MCTransports == {t1, t2}
MCClients    == {c1, c2, c3}
=============================================================================
