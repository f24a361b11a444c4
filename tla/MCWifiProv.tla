----------------------------- MODULE MCWifiProv -----------------------------
EXTENDS WifiProv

CONSTANTS c1, c2

MCCreds == {c1, c2}

MCRefuseBoth == {"scan", "connect"}
=============================================================================
