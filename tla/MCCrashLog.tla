----------------------------- MODULE MCCrashLog -----------------------------
EXTENDS CrashLog

\* a dump with the "ZE" coredump header and one more byte (six hex digits),
\* a four-byte one (two full lines, nothing left to flush), and a
\* five-byte dump without the header (ten hex digits)
MCDumps == {<<90, 69, 171>>, <<90, 69, 3, 0>>, <<255, 0, 18, 52, 86>>}
=============================================================================
