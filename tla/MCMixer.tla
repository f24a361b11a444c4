------------------------------ MODULE MCMixer ------------------------------
(* Model-checking instance of Mixer: a small slot table, a two-sample      *)
(* period (one channel) so the ring holds two periods, and writes of one   *)
(* or five frames so that short writes, a full ring and partial-period     *)
(* underruns all happen.                                                   *)
EXTENDS Mixer

CONSTANTS s1, s2, s3

MCStreams2 == {s1, s2}

\* one sample value: what is checked is where samples go, not their value
MCSamplesOne == {1000}
\* loud samples: two of them overflow int16 when summed
MCSamplesLoud == {20000, -20000}
\* half and double volume
MCVolumesHalf == {32768}
\* unity only, where volume plays no part
MCVolumesUnity == {65536}
MCVolumesDouble == {131072}
====
