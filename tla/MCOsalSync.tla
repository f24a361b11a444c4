----------------------------- MODULE MCOsalSync -----------------------------
EXTENDS OsalSync

CONSTANTS w1, w2, b1, b2, m1, m2

MCWorkers == {w1, w2}
MCBits == {b1, b2}
MCMsgs == {m1, m2}
=============================================================================
