--------------------------- MODULE MCSensorPosix ---------------------------
EXTENDS SensorPosix

CONSTANTS e1, e2

MCSessions == {e1, e2}

MCMisuseNone == {}
=============================================================================
