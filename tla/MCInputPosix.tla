--------------------------- MODULE MCInputPosix ----------------------------
(* Model-checking instance of the POSIX input backend beside the crash    *)
(* log.  The two share no state: a step of the specification is a step of *)
(* one of them, and each property is about one.                           *)
EXTENDS InputPosix

CONSTANTS ev1, ev2

MCEvents == {ev1, ev2}

VARIABLES stored, booting, out, ret, infoOut, emitted

cvars == <<stored, booting, out, ret, infoOut, emitted>>

(* The crash log over a store that may fail a copy or an erase and may   *)
(* copy short, with the boot-time report on: copies of 2 bytes and lines  *)
(* of 4 hex digits (COPY_BUF_SZ 128 and HEX_LINE_SZ 64 scaled down, so    *)
(* chunk and line boundaries fall apart), and the dumps of MCCrashLog.    *)
MCDumps == {<<90, 69, 171>>, <<90, 69, 3, 0>>, <<255, 0, 18, 52, 86>>}

CL == INSTANCE CrashLog
        WITH Dumps <- MCDumps,
             CopyBuf <- 2, LineChars <- 4, AutoReport <- TRUE,
             StoreFaults <- {"copy", "erase", "short"}

BothInit == Init /\ CL!Init

(* A step of the input backend (InputPosix's Next, action by action) or  *)
(* of the crash log (CrashLog's Next).                                    *)
BothNext ==
  \/ \E cb \in BOOLEAN : InputInit(cb) /\ UNCHANGED cvars
  \/ InputDeinit /\ UNCHANGED cvars
  \/ Read /\ UNCHANGED cvars
  \/ \E e \in Events : InjectEvent(e) /\ UNCHANGED cvars
  \/ TestReset /\ UNCHANGED cvars
  \/ \E d \in MCDumps : CL!Crash(d) /\ UNCHANGED vars
  \/ CL!BootCheck /\ UNCHANGED vars
  \/ CL!ShellDump /\ UNCHANGED vars
  \/ CL!ShellClear /\ UNCHANGED vars
  \/ CL!ShellInfo /\ UNCHANGED vars

BothSpec == BothInit /\ [][BothNext]_<<vars, cvars>>

(* The input ring's cells and indices, and the crash log's store, output *)
(* and return values, keep the types the code gives them.                 *)
DeviceTypeOK == TypeOK /\ CL!TypeOK

(* Crash log: an emission that returns 0 logged BEGIN, the dump's hex in  *)
(* lines of HEX_LINE_SZ digits but the last, and END, however the store   *)
(* cut its copies; one that returns -EIO logged BEGIN and a prefix of     *)
(* those lines (CrashLog's EmitOutputSound).                              *)
CrashEmitOutputSound == CL!EmitOutputSound
=============================================================================
