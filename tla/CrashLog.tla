------------------------------ MODULE CrashLog ------------------------------
(***************************************************************************)
(* The crash-capture component: src/lib/crash_log/src/crash_log.c (has,   *)
(* clear, emit, the boot-time report) and the "crash" shell commands of    *)
(* src/lib/crash_log/src/crash_log_shell.c, over the Zephyr coredump      *)
(* store they call.                                                        *)
(*                                                                         *)
(* A stored dump is a sequence of bytes.  The store answers a copy with   *)
(* the number of bytes it copied (crash_log_emit relies on this: it stops *)
(* on ret <= 0 and advances by ret), or with an error when "copy" is a    *)
(* store fault; with "short" it may copy fewer bytes than asked.  A hex   *)
(* character is modelled by its nibble (hex[] maps 0..15 one to one).     *)
(* The log keeps the #CD: lines of the last emission; the shell's other   *)
(* text is left out except the outcome of "crash info".  Every call runs  *)
(* to completion on one thread (a shell command, or SYS_INIT at boot):    *)
(* one step.                                                              *)
(***************************************************************************)
EXTENDS Integers, Sequences, SequencesExt

CONSTANTS
  Dumps,        \* dumps a crash may leave in the store (byte sequences)
  CopyBuf,      \* COPY_BUF_SZ
  LineChars,    \* HEX_LINE_SZ
  AutoReport,   \* CONFIG_CRASH_LOG_AUTO_REPORT
  StoreFaults   \* subset of {"copy", "erase", "short"}

ASSUME /\ \A d \in Dumps : d # <<>> /\ \A i \in 1..Len(d) : d[i] \in 0..255
       /\ CopyBuf \in Nat \ {0}
       /\ LineChars \in Nat \ {0} /\ LineChars % 2 = 0
       /\ AutoReport \in BOOLEAN
       /\ StoreFaults \subseteq {"copy", "erase", "short"}

EIO == -5
NoRet == 1                     \* no emission yet

BeginLine == [k |-> "begin", hex |-> <<>>]       \* #CD:BEGIN#
EndLine == [k |-> "end", hex |-> <<>>]           \* #CD:END#
Data(s) == [k |-> "data", hex |-> s]             \* #CD:<hex>

VARIABLES
  stored,       \* the store's dump, <<>> if none
  booting,      \* rebooted after a crash, SYS_INIT hooks not yet run
  out,          \* the #CD: lines of the last emission
  ret,          \* what the last crash_log_emit returned
  infoOut,      \* what the last "crash info" printed
  \* history, not program state:
  emitted       \* the dump the last emission read

vars == <<stored, booting, out, ret, infoOut, emitted>>

\* crash_log_has_coredump
HasDump == stored # <<>>

Init ==
  /\ stored = <<>> /\ booting = FALSE
  /\ out = <<>> /\ ret = NoRet /\ infoOut = "none" /\ emitted = <<>>

-----------------------------------------------------------------------------
(* The hex loop of crash_log_emit for one byte: append its two nibbles to *)
(* hex_line and log the line once it holds HEX_LINE_SZ characters.        *)
HexByteLate(acc, b) ==
  LET l == acc.line \o <<b \div 16, b % 16>>
  IN IF Len(l) > LineChars THEN [line |-> <<>>, lines |-> Append(acc.lines, Data(l))]
                           ELSE [acc EXCEPT !.line = l]

\* the low nibble taken without the & 0xf mask
HexByteNoMask(acc, b) ==
  LET l == acc.line \o <<b \div 16, b>>
  IN IF Len(l) >= LineChars THEN [line |-> <<>>, lines |-> Append(acc.lines, Data(l))]
                            ELSE [acc EXCEPT !.line = l]

HexByte(acc, b) ==
  LET l == acc.line \o <<b \div 16, b % 16>>
  IN IF Len(l) >= LineChars THEN [line |-> <<>>, lines |-> Append(acc.lines, Data(l))]
                            ELSE [acc EXCEPT !.line = l]

\* the bytes a copy of r bytes at offset hands back
CopyAt(offset, r) == SubSeq(stored, offset + 1, offset + r)

\* what the store may answer a copy of len bytes with
CopySizes(len) == IF "short" \in StoreFaults THEN 1..len ELSE {len}

(* The emit loop from state st (copy.offset, size, copy.length, hex_line, *)
(* the lines logged so far): every way the store's answers can play out, *)
(* each as the value returned and the lines logged.                       *)
RECURSIVE EmitLoop(_)
EmitLoop(st) ==
  IF st.size <= 0
    THEN {[ret |-> 0,
           out |-> st.lines \o (IF st.line # <<>> THEN <<Data(st.line)>> ELSE <<>>)
                            \o <<EndLine>>]}
    ELSE LET len == IF st.size < CopyBuf THEN st.size ELSE st.len
         IN (IF "copy" \in StoreFaults THEN {[ret |-> EIO, out |-> st.lines]} ELSE {})
            \cup UNION {LET acc == FoldLeft(HexByte, [line |-> st.line, lines |-> st.lines],
                                            CopyAt(st.offset, r))
                        IN EmitLoop([offset |-> st.offset + r, size |-> st.size - r,
                                     len |-> len, line |-> acc.line, lines |-> acc.lines])
                        : r \in CopySizes(len)}

(* crash_log_emit with a dump stored (size > 0): log BEGIN, the dump as   *)
(* hex lines, END; or stop with -EIO at a failed copy.                    *)
EmitOutcomes ==
  EmitLoop([offset |-> 0, size |-> Len(stored), len |-> CopyBuf,
            line |-> <<>>, lines |-> <<BeginLine>>])

Emit ==
  /\ HasDump
  /\ \E o \in EmitOutcomes : out' = o.out /\ ret' = o.ret
  /\ emitted' = stored

-----------------------------------------------------------------------------
(* The firmware faults: the platform stores a core dump (overwriting any  *)
(* earlier one) and the device reboots.                                   *)
Crash(d) ==
  /\ ~booting
  /\ stored' = d
  /\ booting' = TRUE
  /\ UNCHANGED <<out, ret, infoOut, emitted>>

(* crash_log_boot_check (SYS_INIT, APPLICATION 99) with                   *)
(* CONFIG_CRASH_LOG_AUTO_REPORT: emit a stored dump; the result is not    *)
(* looked at.  Without the option boot does nothing here.                 *)
BootCheck ==
  /\ booting
  /\ booting' = FALSE
  /\ IF AutoReport /\ HasDump THEN Emit ELSE UNCHANGED <<out, ret, emitted>>
  /\ UNCHANGED <<stored, infoOut>>

(* "crash dump": crash_log_emit if a dump is stored. *)
ShellDump ==
  /\ ~booting
  /\ Emit
  /\ UNCHANGED <<stored, booting, infoOut>>

(* "crash clear": crash_log_clear, the store's erase; it may fail. *)
ShellClear ==
  /\ ~booting
  /\ \/ stored' = <<>>
     \/ "erase" \in StoreFaults /\ UNCHANGED stored
  /\ UNCHANGED <<booting, out, ret, infoOut, emitted>>

\* the header check of "crash info": 'Z', 'E'
ZeHeader(bytes) == Len(bytes) >= 2 /\ bytes[1] = 90 /\ bytes[2] = 69

(* "crash info" with a dump stored: copy the first COPY_BUF_SZ bytes; a   *)
(* copy result other than 0 is reported as a read failure; otherwise     *)
(* check the "ZE" header and print the details.                           *)
ShellInfo ==
  /\ ~booting
  /\ HasDump
  /\ LET len == IF Len(stored) < CopyBuf THEN Len(stored) ELSE CopyBuf
     IN \E r \in CopySizes(len) \cup (IF "copy" \in StoreFaults THEN {EIO} ELSE {}) :
          infoOut' = IF r # 0 THEN "failed"
                     ELSE IF ZeHeader(CopyAt(0, len)) THEN "details" ELSE "bad_header"
  /\ UNCHANGED <<stored, booting, out, ret, emitted>>

Next ==
  \/ \E d \in Dumps : Crash(d)
  \/ BootCheck
  \/ ShellDump
  \/ ShellClear
  \/ ShellInfo

Spec == Init /\ [][Next]_vars

-----------------------------------------------------------------------------
TypeOK ==
  /\ stored \in Dumps \cup {<<>>}
  /\ booting \in BOOLEAN
  /\ out \in Seq([k : {"begin", "end", "data"}, hex : Seq(0..15)])
  /\ ret \in {NoRet, 0, EIO}
  /\ infoOut \in {"none", "failed", "details", "bad_header"}
  /\ emitted \in Dumps \cup {<<>>}

\* reference: the dump's hex digits, high nibble first
HexOf(d) == FlattenSeq([i \in 1..Len(d) |-> <<d[i] \div 16, d[i] % 16>>])

\* reference: s cut into pieces of w, the last one shorter
RECURSIVE ChunksOf(_, _)
ChunksOf(s, w) ==
  IF Len(s) <= w THEN IF s = <<>> THEN <<>> ELSE <<s>>
  ELSE <<SubSeq(s, 1, w)>> \o ChunksOf(SubSeq(s, w + 1, Len(s)), w)

RefLines(d) == LET c == ChunksOf(HexOf(d), LineChars) IN [i \in 1..Len(c) |-> Data(c[i])]

(* The crash-capture format (spec 4.7): an emission that returns 0 logs   *)
(* BEGIN, the dump's bytes as hex, two nibbles each, in lines of exactly  *)
(* HEX_LINE_SZ characters but the last, and END, however the store splits *)
(* its copies; one that fails with -EIO has logged BEGIN and a prefix of  *)
(* those lines, never a garbled or partial-looking one.                   *)
EmitOutputSound ==
  /\ ret = 0 => out = <<BeginLine>> \o RefLines(emitted) \o <<EndLine>>
  /\ ret = EIO => out # <<>> /\ Head(out) = BeginLine /\ IsPrefix(Tail(out), RefLines(emitted))

(* "crash info" shows the crash details of a stored dump with a "ZE"     *)
(* header whenever the store reads it without error.                      *)
InfoShowsCrash ==
  [][ShellInfo /\ ZeHeader(stored) /\ "copy" \notin StoreFaults => infoOut' = "details"]_vars
=============================================================================
