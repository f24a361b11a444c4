---------------------------- MODULE EventQueue -----------------------------
(***************************************************************************)
(* What the polling path of eai_input promises (eai_input.h: "Event is     *)
(* queued and delivered via callback or eai_input_read()"): a bounded      *)
(* first-in first-out queue of events.  An event offered to a full queue  *)
(* is refused and the queue is unchanged; a read takes the oldest event;  *)
(* the queue may be emptied as a whole (init, test_reset).  Events taken  *)
(* by the callback never enter the queue and are stuttering steps here.   *)
(***************************************************************************)
EXTENDS Sequences, Naturals

CONSTANTS Events, Capacity

VARIABLE q

Post(e) == Len(q) < Capacity /\ q' = Append(q, e)

Take == q # <<>> /\ q' = Tail(q)

Flush == q' = <<>>

Init == q = <<>>

Next == (\E e \in Events : Post(e)) \/ Take \/ Flush

Spec == Init /\ [][Next]_q
=============================================================================
