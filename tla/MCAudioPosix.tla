--------------------------- MODULE MCAudioPosix ----------------------------
EXTENDS AudioPosix

CONSTANTS a1, a2

MCHandles == {a1, a2}

\* configs the tests open with: the speaker's profile
MCConfigsProfile == {[fmt |-> "S16", mask |-> m] : m \in {"mono", "stereo"}}

\* a 32-bit stereo config, outside every port's profile
MCConfigsWide == MCConfigsProfile \cup {[fmt |-> "S32", mask |-> "stereo"]}

\* below, inside and above the speaker's [-6000, 0] range
MCGains == {-7000, -100, 50}

MCMisuseNone == {}
MCMisuseCloseTwice == {"close_unopened"}
MCMisuseOffProfile == {"off_profile"}
=============================================================================
