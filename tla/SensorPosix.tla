---------------------------- MODULE SensorPosix ----------------------------
(***************************************************************************)
(* The POSIX simulation backend of eai_sensor                              *)
(* (src/lib/eai_sensor/src/posix/sensor.c).                                *)
(*                                                                         *)
(* Module tables: the two default devices (0 accel, 1 temperature),        *)
(* device_has_session[], and the injected-data ring test_data[] with its  *)
(* head, tail and count.  Sessions are caller-allocated structs; the      *)
(* model holds the fields the code reads (device_id, callback, opened,    *)
(* active), zeroed before the first open.  A reading is [dev, n]: the     *)
(* device it is for and its injection number (history, to tell readings   *)
(* apart).  Single-threaded (test harness): every call is one step, and a *)
(* flush delivers through the callback within its step.                   *)
(***************************************************************************)
EXTENDS Integers, Sequences

CONSTANTS
  Sessions,      \* caller-allocated session structs (model values)
  TestDataMax,   \* TEST_DATA_MAX
  ReadCounts,    \* counts passed to session_read
  MaxInjected,   \* bound: readings injected between two inits
  Misuse         \* caller errors allowed: subset of {"close_unopened"}

ASSUME /\ TestDataMax \in Nat \ {0}
       /\ ReadCounts \subseteq Nat \ {0}
       /\ MaxInjected \in Nat
       /\ Misuse \subseteq {"close_unopened"}

MaxDevices == 8                       \* CONFIG_EAI_SENSOR_MAX_DEVICES
DeviceIds == 0..1                     \* setup_default_devices
Readings == [dev : DeviceIds, n : 1..MaxInjected]
NoReading == [dev |-> 0, n |-> 0]     \* a zeroed struct eai_sensor_data

ZeroSession == [dev |-> 0, callback |-> FALSE, opened |-> FALSE, active |-> FALSE]

VARIABLES
  initialized,       \* initialized
  deviceCount,       \* device_count (the devices themselves are fixed)
  deviceHasSession,  \* device_has_session[]
  testData,          \* test_data[]
  head, tail, count, \* test_data_head, test_data_tail, test_data_count
  session,           \* the fields of each caller's struct
  \* history, not program state:
  nInjected,         \* the number of readings injected since init
  queued,            \* the injected readings not yet consumed, oldest first
  got,               \* what each session received (read or callback) since
                     \*   it was opened
  held               \* the caller's view: open returned 0 and no close,
                     \*   init, deinit or test_reset since

vars == <<initialized, deviceCount, deviceHasSession, testData, head, tail,
          count, session, nInjected, queued, got, held>>

\* find_device_by_id
DeviceExists(id) == id \in 0..(deviceCount - 1)

-----------------------------------------------------------------------------
Init ==
  /\ initialized = FALSE
  /\ deviceCount = 0
  /\ deviceHasSession = [d \in 0..(MaxDevices - 1) |-> FALSE]
  /\ testData = [k \in 0..(TestDataMax - 1) |-> NoReading]
  /\ head = 0 /\ tail = 0 /\ count = 0
  /\ session = [s \in Sessions |-> ZeroSession]
  /\ nInjected = 0
  /\ queued = <<>>
  /\ got = [s \in Sessions |-> <<>>]
  /\ held = [s \in Sessions |-> FALSE]

(* eai_sensor_init: clear the session flags and the ring indices, set up   *)
(* the default devices.  The ring's contents are left as they are.        *)
SensorInit ==
  /\ initialized' = TRUE
  /\ deviceCount' = 2
  /\ deviceHasSession' = [d \in 0..(MaxDevices - 1) |-> FALSE]
  /\ head' = 0 /\ tail' = 0 /\ count' = 0
  /\ nInjected' = 0
  /\ queued' = <<>>
  /\ held' = [s \in Sessions |-> FALSE]
  /\ UNCHANGED <<testData, session, got>>

(* eai_sensor_deinit: clear device_has_session only. *)
SensorDeinit ==
  /\ initialized
  /\ initialized' = FALSE
  /\ deviceHasSession' = [d \in 0..(MaxDevices - 1) |-> FALSE]
  /\ held' = [s \in Sessions |-> FALSE]
  /\ UNCHANGED <<deviceCount, testData, head, tail, count, session, nInjected,
                 queued, got>>

(* eai_sensor_test_reset: forget the devices, clear flags and indices. *)
TestReset ==
  /\ initialized' = FALSE
  /\ deviceCount' = 0
  /\ deviceHasSession' = [d \in 0..(MaxDevices - 1) |-> FALSE]
  /\ head' = 0 /\ tail' = 0 /\ count' = 0
  /\ nInjected' = 0
  /\ queued' = <<>>
  /\ held' = [s \in Sessions |-> FALSE]
  /\ UNCHANGED <<testData, session, got>>

\* an open that does not look at device_has_session
SessionOpenNoBusyCheck(s, d) ==
  /\ initialized
  /\ DeviceExists(d)
  /\ session' = [session EXCEPT ![s] = [dev |-> d, callback |-> FALSE,
                                        opened |-> TRUE, active |-> FALSE]]
  /\ deviceHasSession' = [deviceHasSession EXCEPT ![d] = TRUE]
  /\ got' = [got EXCEPT ![s] = <<>>]
  /\ held' = [held EXCEPT ![s] = TRUE]
  /\ UNCHANGED <<initialized, deviceCount, testData, head, tail, count,
                 nInjected, queued>>

(* eai_sensor_session_open on an existing device with no session: memset   *)
(* the struct, record the device, mark it opened and the device taken.    *)
SessionOpen(s, d) ==
  /\ initialized
  /\ DeviceExists(d)
  /\ ~deviceHasSession[d]
  /\ session' = [session EXCEPT ![s] = [dev |-> d, callback |-> FALSE,
                                        opened |-> TRUE, active |-> FALSE]]
  /\ deviceHasSession' = [deviceHasSession EXCEPT ![d] = TRUE]
  /\ got' = [got EXCEPT ![s] = <<>>]
  /\ held' = [held EXCEPT ![s] = TRUE]
  /\ UNCHANGED <<initialized, deviceCount, testData, head, tail, count,
                 nInjected, queued>>

(* eai_sensor_session_start on an opened struct: set the callback (or NULL *)
(* for read mode) and mark it active.                                     *)
SessionStart(s, cb) ==
  /\ initialized
  /\ held[s]
  /\ session[s].opened
  /\ session' = [session EXCEPT ![s].callback = cb, ![s].active = TRUE]
  /\ UNCHANGED <<initialized, deviceCount, deviceHasSession, testData, head,
                 tail, count, nInjected, queued, got, held>>

(* eai_sensor_session_stop: clear active and the callback. *)
SessionStop(s) ==
  /\ initialized
  /\ held[s]
  /\ session' = [session EXCEPT ![s].active = FALSE, ![s].callback = FALSE]
  /\ UNCHANGED <<initialized, deviceCount, deviceHasSession, testData, head,
                 tail, count, nInjected, queued, got, held>>

(* eai_sensor_session_close: stop if active, free the device the struct    *)
(* names, clear opened.  Nothing checks that the struct is open.          *)
SessionClose(s) ==
  /\ initialized
  /\ held[s] \/ "close_unopened" \in Misuse
  /\ deviceHasSession' = IF session[s].dev < MaxDevices
                           THEN [deviceHasSession EXCEPT ![session[s].dev] = FALSE]
                           ELSE deviceHasSession
  /\ session' = [session EXCEPT ![s].opened = FALSE,
                                ![s].active = FALSE,
                                ![s].callback = IF session[s].active THEN FALSE
                                                ELSE session[s].callback]
  /\ held' = [held EXCEPT ![s] = FALSE]
  /\ UNCHANGED <<initialized, deviceCount, testData, head, tail, count,
                 nInjected, queued, got>>

\* the first k readings from the tail of the ring
RingPrefix(k) == [j \in 1..k |-> testData[(tail + j - 1) % TestDataMax]]

\* the k readings popped from the tail, all delivered
PoppedUnfiltered(k, d) == RingPrefix(k)

\* the k readings popped from the tail, keeping those of device d
Popped(k, d) == SelectSeq(RingPrefix(k), LAMBDA r : r.dev = d)

\* the number of readings session_read pops to return `want` readings of d:
\* it stops after the want-th match or when the ring is empty
ReadPops(want, d) ==
  IF \E k \in 1..count : Len(Popped(k, d)) = want
    THEN CHOOSE k \in 1..count : Len(Popped(k, d)) = want
                                 /\ \A i \in 1..(k - 1) : Len(Popped(i, d)) < want
    ELSE count

\* a pop that advances the tail without wrapping it
ConsumeNoWrap(s, k) ==
  /\ tail' = tail + k
  /\ count' = count - k
  /\ queued' = SubSeq(queued, k + 1, Len(queued))
  /\ got' = [got EXCEPT ![s] = @ \o Popped(k, session[s].dev)]

\* pop k readings from the ring and deliver those of the session's device
Consume(s, k) ==
  /\ tail' = (tail + k) % TestDataMax
  /\ count' = count - k
  /\ queued' = SubSeq(queued, k + 1, Len(queued))
  /\ got' = [got EXCEPT ![s] = @ \o Popped(k, session[s].dev)]

(* eai_sensor_session_read on an active session: pop readings from the     *)
(* tail until `want` of this device are returned or the ring is empty;    *)
(* readings of other devices popped on the way are discarded.             *)
SessionRead(s, want) ==
  /\ initialized
  /\ held[s]
  /\ session[s].active
  /\ Consume(s, ReadPops(want, session[s].dev))
  /\ UNCHANGED <<initialized, deviceCount, deviceHasSession, testData, head,
                 session, nInjected, held>>

(* eai_sensor_session_flush on an active session: with a callback, pop the *)
(* whole ring, calling it for this device's readings; without, nothing.   *)
SessionFlush(s) ==
  /\ initialized
  /\ held[s]
  /\ session[s].active
  /\ IF session[s].callback
       THEN Consume(s, count)
       ELSE UNCHANGED <<tail, count, queued, got>>
  /\ UNCHANGED <<initialized, deviceCount, deviceHasSession, testData, head,
                 session, nInjected, held>>

\* an inject that does not test for a full ring
TestInjectDataNoFullCheck(d) ==
  /\ nInjected < MaxInjected
  /\ LET r == [dev |-> d, n |-> nInjected + 1]
     IN /\ testData' = [testData EXCEPT ![head] = r]
        /\ head' = (head + 1) % TestDataMax
        /\ count' = count + 1
        /\ nInjected' = nInjected + 1
        /\ queued' = Append(queued, r)
  /\ UNCHANGED <<initialized, deviceCount, deviceHasSession, tail, session, got,
                 held>>

(* eai_sensor_test_inject_data: append at the head unless the ring is full, *)
(* in which case the reading is silently dropped (nInjected, never queued).*)
TestInjectData(d) ==
  /\ nInjected < MaxInjected
  /\ LET r == [dev |-> d, n |-> nInjected + 1]
     IN /\ nInjected' = nInjected + 1
        /\ IF count >= TestDataMax
             THEN UNCHANGED <<testData, head, count, queued>>
             ELSE /\ testData' = [testData EXCEPT ![head] = r]
                  /\ head' = (head + 1) % TestDataMax
                  /\ count' = count + 1
                  /\ queued' = Append(queued, r)
  /\ UNCHANGED <<initialized, deviceCount, deviceHasSession, tail, session, got,
                 held>>

Next ==
  \/ SensorInit \/ SensorDeinit \/ TestReset
  \/ \E d \in DeviceIds : TestInjectData(d)
  \/ \E s \in Sessions :
       \/ \E d \in DeviceIds : SessionOpen(s, d)
       \/ \E cb \in BOOLEAN : SessionStart(s, cb)
       \/ SessionStop(s) \/ SessionClose(s) \/ SessionFlush(s)
       \/ \E k \in ReadCounts : SessionRead(s, k)

Spec == Init /\ [][Next]_vars

-----------------------------------------------------------------------------
TypeOK ==
  /\ initialized \in BOOLEAN
  /\ deviceCount \in {0, 2}
  /\ deviceHasSession \in [0..(MaxDevices - 1) -> BOOLEAN]
  /\ testData \in [0..(TestDataMax - 1) -> Readings \cup {NoReading}]
  /\ head \in 0..(TestDataMax - 1) /\ tail \in 0..(TestDataMax - 1)
  /\ count \in 0..TestDataMax
  /\ session \in [Sessions -> [dev : DeviceIds, callback : BOOLEAN,
                                opened : BOOLEAN, active : BOOLEAN]]
  /\ held \in [Sessions -> BOOLEAN]

(* session.h: opening a device that already has a session yields -EBUSY   *)
(* (spec section 4.4: sensor sessions do not multiplex), so no two        *)
(* sessions the caller holds are on one device.                           *)
OneSessionPerDevice ==
  \A s1, s2 \in Sessions :
    s1 # s2 /\ held[s1] /\ held[s2] => session[s1].dev # session[s2].dev

(* test_inject_data queues readings that read and flush return in order:   *)
(* the count readings from test_data_tail (indices modulo TEST_DATA_MAX)  *)
(* are exactly the injected readings not yet consumed, oldest first,      *)
(* whatever mix of injects, reads, flushes and resets came before.        *)
RingIsFifo ==
  /\ count = Len(queued)
  /\ RingPrefix(count) = queued

(* A session receives, by read or by callback, only readings of its own    *)
(* device, each once and in the order they were injected.                 *)
ReceivedOwnInOrder ==
  \A s \in Sessions :
    \A j \in 1..Len(got[s]) :
      /\ got[s][j].dev = session[s].dev
      /\ j > 1 => got[s][j - 1].n < got[s][j].n

=============================================================================
