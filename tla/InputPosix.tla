---------------------------- MODULE InputPosix -----------------------------
(***************************************************************************)
(* The POSIX simulation backend of eai_input                               *)
(* (src/lib/eai_input/src/posix/input.c).                                  *)
(*                                                                         *)
(* Module state: initialized, device_count (the three default devices are *)
(* fixed), whether an event callback is registered, and the event ring    *)
(* event_queue[EVENT_QUEUE_MAX] with eq_head, eq_tail and eq_count.  An   *)
(* event is a model value; the ring's cells start as the zeroed struct.   *)
(* Single-threaded (test harness): one step per call.  Calls that only    *)
(* return an error (-EINVAL, -EAGAIN) change nothing and are not steps;   *)
(* neither is an injection handed to the callback, which the backend      *)
(* does not record.                                                       *)
(***************************************************************************)
EXTENDS Integers, Sequences

CONSTANTS
  Events,       \* event structs passed to test_inject_event (model values)
  QueueMax      \* EVENT_QUEUE_MAX

ASSUME QueueMax \in Nat \ {0}

\* setup_default_devices: the touchscreen and buttons A and B
DefaultDeviceCount == 3

ZeroEvent == "zero"            \* a static, zero-initialised event_queue cell
Cells == 0..(QueueMax - 1)

VARIABLES
  initialized,     \* initialized
  deviceCount,     \* device_count
  callback,        \* event_callback != NULL
  eqHead,          \* eq_head (next write)
  eqTail,          \* eq_tail (next read)
  eqCount,         \* eq_count
  eventQueue       \* event_queue[]

vars == <<initialized, deviceCount, callback, eqHead, eqTail, eqCount, eventQueue>>

-----------------------------------------------------------------------------
Init ==
  /\ initialized = FALSE
  /\ deviceCount = 0
  /\ callback = FALSE
  /\ eqHead = 0 /\ eqTail = 0 /\ eqCount = 0
  /\ eventQueue = [i \in Cells |-> ZeroEvent]

(* eai_input_init: empty the ring, register the callback (or none), set up *)
(* the three default devices.                                             *)
InputInit(cb) ==
  /\ eqHead' = 0 /\ eqTail' = 0 /\ eqCount' = 0
  /\ callback' = cb
  /\ deviceCount' = DefaultDeviceCount
  /\ initialized' = TRUE
  /\ UNCHANGED eventQueue

(* eai_input_deinit: drop the callback; the ring keeps its events. *)
InputDeinit ==
  /\ initialized
  /\ callback' = FALSE
  /\ initialized' = FALSE
  /\ UNCHANGED <<deviceCount, eqHead, eqTail, eqCount, eventQueue>>

\* a read that counts the event off but leaves eq_tail where it was
ReadNoAdvance ==
  /\ initialized
  /\ eqCount # 0
  /\ eqCount' = eqCount - 1
  /\ UNCHANGED <<initialized, deviceCount, callback, eqHead, eqTail, eventQueue>>

(* eai_input_read with an event queued: take event_queue[eq_tail]. *)
Read ==
  /\ initialized
  /\ eqCount # 0
  /\ eqTail' = (eqTail + 1) % QueueMax
  /\ eqCount' = eqCount - 1
  /\ UNCHANGED <<initialized, deviceCount, callback, eqHead, eventQueue>>

\* a full check one cell late: eq_count > EVENT_QUEUE_MAX
RingFullLate == eqCount > QueueMax

\* the ring is full: eq_count >= EVENT_QUEUE_MAX
RingFull == eqCount >= QueueMax

(* eai_input_test_inject_event when the event is not handed to a callback *)
(* (not initialized, or no callback): append it to the ring, or drop it   *)
(* if the ring is full.                                                   *)
InjectEvent(e) ==
  /\ ~(initialized /\ callback)
  /\ ~RingFull
  /\ eventQueue' = [eventQueue EXCEPT ![eqHead] = e]
  /\ eqHead' = (eqHead + 1) % QueueMax
  /\ eqCount' = eqCount + 1
  /\ UNCHANGED <<initialized, deviceCount, callback, eqTail>>

(* eai_input_test_reset: forget devices and callback, empty the ring. *)
TestReset ==
  /\ initialized' = FALSE
  /\ deviceCount' = 0
  /\ callback' = FALSE
  /\ eqHead' = 0 /\ eqTail' = 0 /\ eqCount' = 0
  /\ UNCHANGED eventQueue

Next ==
  \/ \E cb \in BOOLEAN : InputInit(cb)
  \/ InputDeinit
  \/ Read
  \/ \E e \in Events : InjectEvent(e)
  \/ TestReset

Spec == Init /\ [][Next]_vars

-----------------------------------------------------------------------------
TypeOK ==
  /\ initialized \in BOOLEAN /\ callback \in BOOLEAN
  /\ deviceCount \in {0, DefaultDeviceCount}
  /\ eqHead \in Cells /\ eqTail \in Cells /\ eqCount \in 0..QueueMax
  /\ eventQueue \in [Cells -> Events \cup {ZeroEvent}]

\* the events the ring holds, oldest first
RingContents == [i \in 1..eqCount |-> eventQueue[(eqTail + i - 1) % QueueMax]]

Queue == INSTANCE EventQueue WITH q <- RingContents, Capacity <- QueueMax

(* The ring implements a bounded FIFO queue: under the mapping of the      *)
(* eq_count cells from eq_tail, every inject, read, init, deinit and       *)
(* test_reset is a step of EventQueue (an append below capacity, a take of *)
(* the oldest, an emptying) or leaves the queue as it is, across the      *)
(* wrap-around of eq_head and eq_tail and at the full boundary.           *)
QueueRefinement == Queue!Spec
=============================================================================
