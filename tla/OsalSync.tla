------------------------------ MODULE OsalSync ------------------------------
(***************************************************************************)
(* The FreeRTOS backend of the OSAL blocking primitives: the recursive     *)
(* mutex (src/lib/eai_osal/src/freertos/mutex.c), the event group          *)
(* (event.c), the counting semaphore (semaphore.c), the message queue      *)
(* (queue.c) and joinable threads (thread.c), over the FreeRTOS kernel     *)
(* objects they wrap (not part of this repository, taken from the spec and *)
(* the FreeRTOS semantics the wrappers rely on).                          *)
(*                                                                         *)
(* A main thread and the worker threads it creates on one                 *)
(* eai_osal_thread_t share one mutex, event group, semaphore and queue.  *)
(* A call that can block (lock, wait, take, send, recv, join) is a step   *)
(* that either completes or leaves                                        *)
(* its thread blocked; a blocked thread is later granted the object or   *)
(* times out (a finite timeout) or stays blocked (EAI_OSAL_WAIT_FOREVER).  *)
(* Calls that only return an error change nothing and are not steps.      *)
(***************************************************************************)
EXTENDS Integers, FiniteSets, Sequences

CONSTANTS
  Main,         \* the thread that creates and joins the workers
  Workers,      \* worker thread instances created on the one struct
  NoThread,     \* no holder
  Bits,         \* event bits in use (a bit is a model value)
  MaxDepth,     \* bound on the mutex's recursion depth
  MaxOps,       \* bound on the calls on the objects
  SemLimit,     \* the limit passed to eai_osal_sem_create
  QueueCap,     \* the max_msgs passed to eai_osal_queue_create
  Msgs,         \* messages a thread may send (model values)
  RecreateAfterTimeout  \* main may create a worker after a timed-out join

ASSUME /\ Main \notin Workers /\ NoThread \notin Workers \cup {Main}
       /\ MaxDepth \in Nat \ {0} /\ MaxOps \in Nat
       /\ SemLimit \in Nat \ {0} /\ QueueCap \in Nat \ {0}
       /\ RecreateAfterTimeout \in BOOLEAN

Threads == {Main} \cup Workers

\* how long a blocking call may wait: a finite timeout or WAIT_FOREVER
Timeouts == {"finite", "forever"}

\* the arguments of eai_osal_event_wait: bits of interest and wait_all
WaitArgs == [bits : (SUBSET Bits) \ {{}}, all : BOOLEAN]

NoWait == [bits |-> {}, all |-> FALSE]

\* the result a wait reports: status and *actual
NoResult == [st |-> "none", actual |-> {}, seen |-> {}, arg |-> NoWait]

VARIABLES
  owner,        \* FreeRTOS: the mutex holder (NoThread if free)
  depth,        \* FreeRTOS: the holder's recursive call count
  mask,         \* FreeRTOS: the event group's bits
  pc,           \* each thread: "run", blocked in "lock", "wait" or "join",
                \* "woken" (unblocked by a set), "unborn", "returned"
                \* (entry done), "exited"
  timeout,      \* each blocked thread's timeout kind
  waitArg,      \* each thread's wait arguments while it waits
  snap,         \* the bits FreeRTOS hands a waiter when a set unblocks it
  joinSem,      \* thread->_join_sem: the worker whose semaphore it is, or NoThread
  semGiven,     \* the binary join semaphores' values
  ops,          \* lock, set, clear, wait, create and destroy calls made
  handle,       \* each object's _handle: "valid" or "null"
  semValue,     \* FreeRTOS: the counting semaphore's count
  q,            \* FreeRTOS: the queue's messages, oldest first
  msgArg,       \* the message each thread blocked in send is sending
  \* history, not program state:
  held,         \* each thread's OK locks minus OK unlocks
  result,       \* the last wait's reported result per thread
  current,      \* the worker the struct was last created for
  created,      \* FreeRTOS objects created for each handle
  deleted,      \* vSemaphoreDelete / vEventGroupDelete calls for each handle
  joinedOk,     \* the worker that was current when a join last returned OK
  timedOut,     \* main's last join returned EAI_OSAL_TIMEOUT
  sent,         \* the messages queue_send returned OK for, in that order
  recvd         \* the messages queue_recv returned, in that order

qvars == <<semValue, q, msgArg, sent, recvd>>

vars == <<owner, depth, mask, pc, timeout, waitArg, snap, joinSem, semGiven,
          ops, handle, created, deleted, held, result, current, joinedOk, timedOut,
          qvars>>

\* the objects, all created before the threads run
Objects == {"mutex", "event", "sem", "queue"}

NoMsg == "none"    \* msgArg of a thread not blocked in send

\* a thread that is running its own code (main, or a worker in its entry)
Running(t) == pc[t] = "run"

Init ==
  /\ owner = NoThread /\ depth = 0
  /\ mask = {}
  /\ pc = [t \in Threads |-> IF t = Main THEN "run" ELSE "unborn"]
  /\ timeout = [t \in Threads |-> "finite"]
  /\ waitArg = [t \in Threads |-> NoWait]
  /\ snap = [t \in Threads |-> {}]
  /\ joinSem = NoThread
  /\ semGiven = [w \in Workers |-> FALSE]
  /\ ops = 0
  /\ handle = [o \in Objects |-> "valid"]
  /\ created = [o \in Objects |-> 1] /\ deleted = [o \in Objects |-> 0]
  /\ held = [t \in Threads |-> 0]
  /\ result = [t \in Threads |-> NoResult]
  /\ current = NoThread /\ joinedOk = NoThread /\ timedOut = FALSE
  /\ semValue = 0 /\ q = <<>> /\ msgArg = [t \in Threads |-> NoMsg]
  /\ sent = <<>> /\ recvd = <<>>

-----------------------------------------------------------------------------
(* eai_osal_mutex_lock: xSemaphoreTakeRecursive.  The holder re-enters    *)
(* at once; a free mutex is taken; otherwise the caller blocks.           *)
MutexLock(t, to) ==
  /\ Running(t) /\ ops < MaxOps /\ handle["mutex"] = "valid"
  /\ ops' = ops + 1
  /\ IF owner \in {NoThread, t}
       THEN /\ depth < MaxDepth
            /\ owner' = t /\ depth' = depth + 1
            /\ held' = [held EXCEPT ![t] = @ + 1]
            /\ UNCHANGED <<pc, timeout>>
       ELSE /\ pc' = [pc EXCEPT ![t] = "lock"]
            /\ timeout' = [timeout EXCEPT ![t] = to]
            /\ UNCHANGED <<owner, depth, held>>
  /\ UNCHANGED <<qvars, handle, created, deleted, mask, waitArg, snap, joinSem, semGiven, result, current,
                 joinedOk, timedOut>>

(* A thread blocked in lock runs again once the mutex is free and takes   *)
(* it; lock returns EAI_OSAL_OK.                                          *)
LockGranted(t) ==
  /\ pc[t] = "lock" /\ owner = NoThread
  /\ owner' = t /\ depth' = 1
  /\ pc' = [pc EXCEPT ![t] = "run"]
  /\ held' = [held EXCEPT ![t] = @ + 1]
  /\ UNCHANGED <<qvars, handle, created, deleted, mask, timeout, waitArg, snap, joinSem, semGiven, ops, result,
                 current, joinedOk, timedOut>>

\* a lock that reports EAI_OSAL_OK when the take timed out
LockTimeoutReportsOk(t) ==
  /\ pc[t] = "lock" /\ timeout[t] = "finite"
  /\ pc' = [pc EXCEPT ![t] = "run"]
  /\ held' = [held EXCEPT ![t] = @ + 1]
  /\ UNCHANGED <<qvars, handle, created, deleted, owner, depth, mask, timeout, waitArg, snap, joinSem, semGiven,
                 ops, result, current, joinedOk, timedOut>>

(* The take times out: lock returns EAI_OSAL_TIMEOUT. *)
LockTimeout(t) ==
  /\ pc[t] = "lock" /\ timeout[t] = "finite"
  /\ pc' = [pc EXCEPT ![t] = "run"]
  /\ UNCHANGED <<qvars, handle, created, deleted, owner, depth, mask, timeout, waitArg, snap, joinSem, semGiven,
                 ops, held, result, current, joinedOk, timedOut>>

\* an unlock that does not check the caller holds the mutex
MutexUnlockNoOwnerCheck(t) ==
  /\ Running(t) /\ handle["mutex"] = "valid"
  /\ depth' = depth - 1
  /\ owner' = IF depth = 1 THEN NoThread ELSE owner
  /\ held' = [held EXCEPT ![t] = @ - 1]
  /\ UNCHANGED <<qvars, handle, created, deleted, mask, pc, timeout, waitArg, snap, joinSem, semGiven, ops,
                 result, current, joinedOk, timedOut>>

(* eai_osal_mutex_unlock by the holder: xSemaphoreGiveRecursive counts   *)
(* the depth down and frees the mutex at zero.  (A give by another       *)
(* thread fails and unlock returns EAI_OSAL_ERROR, changing nothing.)     *)
MutexUnlock(t) ==
  /\ Running(t) /\ owner = t /\ handle["mutex"] = "valid"
  /\ depth' = depth - 1
  /\ owner' = IF depth = 1 THEN NoThread ELSE t
  /\ held' = [held EXCEPT ![t] = @ - 1]
  /\ UNCHANGED <<qvars, handle, created, deleted, mask, pc, timeout, waitArg, snap, joinSem, semGiven, ops,
                 result, current, joinedOk, timedOut>>
-----------------------------------------------------------------------------
\* FreeRTOS's unblock condition for a wait on arg
Satisfied(m, arg) == IF arg.all THEN arg.bits \subseteq m ELSE arg.bits \cap m # {}

(* eai_osal_event_wait after xEventGroupWaitBits returned r: TIMEOUT      *)
(* unless r holds the bits the mode asks for, else OK with *actual =      *)
(* r & bits.                                                              *)
WaitResult(r, arg) ==
  IF (arg.all /\ ~(arg.bits \subseteq r)) \/ (~arg.all /\ r \cap arg.bits = {})
    THEN [st |-> "timeout", actual |-> {}, seen |-> r, arg |-> arg]
    ELSE [st |-> "ok", actual |-> r \cap arg.bits, seen |-> r, arg |-> arg]

(* eai_osal_event_set: xEventGroupSetBits ors the bits in and, in the    *)
(* same critical section, unblocks every waiter whose condition now       *)
(* holds, handing it the bits as they are then (no clear on exit).        *)
EventSet(t, b) ==
  /\ Running(t) /\ ops < MaxOps /\ handle["event"] = "valid"
  /\ ops' = ops + 1
  /\ mask' = mask \cup b
  /\ LET wake == {u \in Threads : pc[u] = "wait" /\ Satisfied(mask \cup b, waitArg[u])}
     IN /\ pc' = [u \in Threads |-> IF u \in wake THEN "woken" ELSE pc[u]]
        /\ snap' = [u \in Threads |-> IF u \in wake THEN mask \cup b ELSE snap[u]]
  /\ UNCHANGED <<qvars, handle, created, deleted, owner, depth, timeout, waitArg, joinSem, semGiven, held, result,
                 current, joinedOk, timedOut>>

(* eai_osal_event_clear: xEventGroupClearBits. *)
EventClear(t, b) ==
  /\ Running(t) /\ ops < MaxOps /\ handle["event"] = "valid"
  /\ ops' = ops + 1
  /\ mask' = mask \ b
  /\ UNCHANGED <<qvars, handle, created, deleted, owner, depth, pc, timeout, waitArg, snap, joinSem, semGiven,
                 held, result, current, joinedOk, timedOut>>

(* eai_osal_event_wait (bits non-zero): return at once if the condition  *)
(* holds, else block.                                                    *)
EventWait(t, arg, to) ==
  /\ Running(t) /\ ops < MaxOps /\ handle["event"] = "valid"
  /\ ops' = ops + 1
  /\ IF Satisfied(mask, arg)
       THEN /\ result' = [result EXCEPT ![t] = WaitResult(mask, arg)]
            /\ UNCHANGED <<pc, timeout, waitArg>>
       ELSE /\ pc' = [pc EXCEPT ![t] = "wait"]
            /\ timeout' = [timeout EXCEPT ![t] = to]
            /\ waitArg' = [waitArg EXCEPT ![t] = arg]
            /\ UNCHANGED result
  /\ UNCHANGED <<qvars, handle, created, deleted, owner, depth, mask, snap, joinSem, semGiven, held, current,
                 joinedOk, timedOut>>

(* A waiter a set has unblocked runs again with the bits it was handed. *)
WaitWoken(t) ==
  /\ pc[t] = "woken"
  /\ pc' = [pc EXCEPT ![t] = "run"]
  /\ result' = [result EXCEPT ![t] = WaitResult(snap[t], waitArg[t])]
  /\ waitArg' = [waitArg EXCEPT ![t] = NoWait]
  /\ UNCHANGED <<qvars, handle, created, deleted, owner, depth, mask, timeout, snap, joinSem, semGiven, ops,
                 held, current, joinedOk, timedOut>>

(* The wait times out: xEventGroupWaitBits returns the bits as they are  *)
(* at that moment.                                                        *)
WaitTimeout(t) ==
  /\ pc[t] = "wait" /\ timeout[t] = "finite"
  /\ pc' = [pc EXCEPT ![t] = "run"]
  /\ result' = [result EXCEPT ![t] = WaitResult(mask, waitArg[t])]
  /\ waitArg' = [waitArg EXCEPT ![t] = NoWait]
  /\ UNCHANGED <<qvars, handle, created, deleted, owner, depth, mask, timeout, snap, joinSem, semGiven, ops,
                 held, current, joinedOk, timedOut>>
-----------------------------------------------------------------------------
(* eai_osal_sem_give: xSemaphoreGive raises the count below the limit; at *)
(* the limit the give fails and the wrapper still returns EAI_OSAL_OK.  A *)
(* taker blocked on the semaphore is made ready and takes the count when  *)
(* it runs (TakeGranted).                                                 *)
SemGive(t) ==
  /\ Running(t) /\ ops < MaxOps /\ handle["sem"] = "valid"
  /\ ops' = ops + 1
  /\ semValue' = IF semValue < SemLimit THEN semValue + 1 ELSE semValue
  /\ UNCHANGED <<q, msgArg, sent, recvd, pc, timeout>>
  /\ UNCHANGED <<handle, created, deleted, owner, depth, mask, waitArg, snap, joinSem, semGiven, held,
                 result, current, joinedOk, timedOut>>

(* eai_osal_sem_take: xSemaphoreTake takes a count at once or blocks. *)
SemTake(t, to) ==
  /\ Running(t) /\ ops < MaxOps /\ handle["sem"] = "valid"
  /\ ops' = ops + 1
  /\ IF semValue > 0
       THEN semValue' = semValue - 1 /\ UNCHANGED <<pc, timeout>>
       ELSE /\ pc' = [pc EXCEPT ![t] = "take"]
            /\ timeout' = [timeout EXCEPT ![t] = to]
            /\ UNCHANGED semValue
  /\ UNCHANGED <<q, msgArg, sent, recvd>>
  /\ UNCHANGED <<handle, created, deleted, owner, depth, mask, waitArg, snap, joinSem, semGiven, held,
                 result, current, joinedOk, timedOut>>

(* A taker blocked on the semaphore runs again with a count there and     *)
(* takes it: take returns EAI_OSAL_OK.                                    *)
TakeGranted(t) ==
  /\ pc[t] = "take" /\ semValue > 0
  /\ semValue' = semValue - 1
  /\ pc' = [pc EXCEPT ![t] = "run"]
  /\ UNCHANGED <<q, msgArg, sent, recvd, timeout, ops>>
  /\ UNCHANGED <<handle, created, deleted, owner, depth, mask, waitArg, snap, joinSem, semGiven, held,
                 result, current, joinedOk, timedOut>>

(* eai_osal_queue_send: xQueueSend copies the message to the back of a    *)
(* queue with room, or blocks.                                            *)
QueueSend(t, m, to) ==
  /\ Running(t) /\ ops < MaxOps /\ handle["queue"] = "valid"
  /\ ops' = ops + 1
  /\ IF Len(q) < QueueCap
       THEN /\ q' = Append(q, m) /\ sent' = Append(sent, m)
            /\ UNCHANGED <<pc, timeout, msgArg>>
       ELSE /\ pc' = [pc EXCEPT ![t] = "send"]
            /\ timeout' = [timeout EXCEPT ![t] = to]
            /\ msgArg' = [msgArg EXCEPT ![t] = m]
            /\ UNCHANGED <<q, sent>>
  /\ UNCHANGED <<semValue, recvd>>
  /\ UNCHANGED <<handle, created, deleted, owner, depth, mask, waitArg, snap, joinSem, semGiven, held,
                 result, current, joinedOk, timedOut>>

(* A sender blocked on a full queue runs again once there is room and    *)
(* copies its message in: send returns EAI_OSAL_OK.                       *)
SendGranted(t) ==
  /\ pc[t] = "send" /\ Len(q) < QueueCap
  /\ q' = Append(q, msgArg[t]) /\ sent' = Append(sent, msgArg[t])
  /\ pc' = [pc EXCEPT ![t] = "run"]
  /\ msgArg' = [msgArg EXCEPT ![t] = NoMsg]
  /\ UNCHANGED <<semValue, recvd, timeout, ops>>
  /\ UNCHANGED <<handle, created, deleted, owner, depth, mask, waitArg, snap, joinSem, semGiven, held,
                 result, current, joinedOk, timedOut>>

\* a recv that copies the oldest message out without removing it (xQueuePeek)
QueueRecvPeek(t, to) ==
  /\ Running(t) /\ ops < MaxOps /\ handle["queue"] = "valid"
  /\ ops' = ops + 1
  /\ IF q # <<>>
       THEN /\ recvd' = Append(recvd, Head(q))
            /\ UNCHANGED <<q, pc, timeout>>
       ELSE /\ pc' = [pc EXCEPT ![t] = "recv"]
            /\ timeout' = [timeout EXCEPT ![t] = to]
            /\ UNCHANGED <<q, recvd>>
  /\ UNCHANGED <<semValue, msgArg, sent>>
  /\ UNCHANGED <<handle, created, deleted, owner, depth, mask, waitArg, snap, joinSem, semGiven, held,
                 result, current, joinedOk, timedOut>>

(* eai_osal_queue_recv: xQueueReceive copies out and removes the oldest  *)
(* message, or blocks on an empty queue.                                  *)
QueueRecv(t, to) ==
  /\ Running(t) /\ ops < MaxOps /\ handle["queue"] = "valid"
  /\ ops' = ops + 1
  /\ IF q # <<>>
       THEN /\ q' = Tail(q) /\ recvd' = Append(recvd, Head(q))
            /\ UNCHANGED <<pc, timeout>>
       ELSE /\ pc' = [pc EXCEPT ![t] = "recv"]
            /\ timeout' = [timeout EXCEPT ![t] = to]
            /\ UNCHANGED <<q, recvd>>
  /\ UNCHANGED <<semValue, msgArg, sent>>
  /\ UNCHANGED <<handle, created, deleted, owner, depth, mask, waitArg, snap, joinSem, semGiven, held,
                 result, current, joinedOk, timedOut>>

(* A receiver blocked on an empty queue runs again once a message is     *)
(* there and takes the oldest: recv returns EAI_OSAL_OK.                  *)
RecvGranted(t) ==
  /\ pc[t] = "recv" /\ q # <<>>
  /\ q' = Tail(q) /\ recvd' = Append(recvd, Head(q))
  /\ pc' = [pc EXCEPT ![t] = "run"]
  /\ UNCHANGED <<semValue, msgArg, sent, timeout, ops>>
  /\ UNCHANGED <<handle, created, deleted, owner, depth, mask, waitArg, snap, joinSem, semGiven, held,
                 result, current, joinedOk, timedOut>>

(* A take, send or recv times out: the FreeRTOS call returns pdFALSE and *)
(* the wrapper returns EAI_OSAL_TIMEOUT; nothing was taken or copied.     *)
BlockTimeout(t) ==
  /\ pc[t] \in {"take", "send", "recv"} /\ timeout[t] = "finite"
  /\ pc' = [pc EXCEPT ![t] = "run"]
  /\ msgArg' = [msgArg EXCEPT ![t] = NoMsg]
  /\ UNCHANGED <<semValue, q, sent, recvd, timeout, ops>>
  /\ UNCHANGED <<handle, created, deleted, owner, depth, mask, waitArg, snap, joinSem, semGiven, held,
                 result, current, joinedOk, timedOut>>
-----------------------------------------------------------------------------
\* a create whose join semaphore starts given
ThreadCreateSemGiven(w) ==
  /\ Running(Main) /\ pc[w] = "unborn"
  /\ joinSem = NoThread \/ (RecreateAfterTimeout /\ timedOut)
  /\ joinSem' = w /\ semGiven' = [semGiven EXCEPT ![w] = TRUE]
  /\ pc' = [pc EXCEPT ![w] = "run"]
  /\ current' = w
  /\ timedOut' = FALSE
  /\ UNCHANGED <<qvars, handle, created, deleted, owner, depth, mask, timeout, waitArg, snap, ops, held, result,
                 joinedOk>>

(* eai_osal_thread_create on the one struct: store the entry, create the *)
(* binary join semaphore (empty) in _join_sem, start the task.  Main     *)
(* creates a worker once the previous one has been joined, or also after *)
(* a join that timed out when RecreateAfterTimeout (as mixer init does   *)
(* after a deinit whose join timed out).                                 *)
ThreadCreate(w) ==
  /\ Running(Main) /\ pc[w] = "unborn"
  /\ joinSem = NoThread \/ (RecreateAfterTimeout /\ timedOut)
  /\ joinSem' = w /\ semGiven' = [semGiven EXCEPT ![w] = FALSE]
  /\ pc' = [pc EXCEPT ![w] = "run"]
  /\ current' = w
  /\ timedOut' = FALSE
  /\ UNCHANGED <<qvars, handle, created, deleted, owner, depth, mask, timeout, waitArg, snap, ops, held, result,
                 joinedOk>>

(* thread_trampoline: the entry function returns. *)
EntryReturn(w) ==
  /\ pc[w] = "run"
  /\ pc' = [pc EXCEPT ![w] = "returned"]
  /\ UNCHANGED <<qvars, handle, created, deleted, owner, depth, mask, timeout, waitArg, snap, joinSem, semGiven,
                 ops, held, result, current, joinedOk, timedOut>>

(* thread_trampoline, after the entry: give thread->_join_sem if it is   *)
(* not NULL (read now, from the struct), then vTaskDelete.               *)
TrampolineExit(w) ==
  /\ pc[w] = "returned"
  /\ pc' = [pc EXCEPT ![w] = "exited"]
  /\ semGiven' = IF joinSem # NoThread THEN [semGiven EXCEPT ![joinSem] = TRUE]
                                        ELSE semGiven
  /\ UNCHANGED <<qvars, handle, created, deleted, owner, depth, mask, timeout, waitArg, snap, joinSem, ops, held,
                 result, current, joinedOk, timedOut>>

\* join succeeds: delete the join semaphore and clear _join_sem
JoinOk ==
  /\ joinSem' = NoThread
  /\ joinedOk' = current
  /\ timedOut' = FALSE

(* eai_osal_thread_join (_join_sem not NULL): take the join semaphore;   *)
(* given already, return OK; else block.                                 *)
ThreadJoin(to) ==
  /\ Running(Main) /\ joinSem # NoThread
  /\ IF semGiven[joinSem]
       THEN JoinOk /\ UNCHANGED <<pc, timeout>>
       ELSE /\ pc' = [pc EXCEPT ![Main] = "join"]
            /\ timeout' = [timeout EXCEPT ![Main] = to]
            /\ UNCHANGED <<joinSem, joinedOk, timedOut>>
  /\ UNCHANGED <<qvars, handle, created, deleted, owner, depth, mask, waitArg, snap, semGiven, ops, held, result,
                 current>>

(* Main, blocked in join, gets the semaphore: join returns OK. *)
JoinGranted ==
  /\ pc[Main] = "join" /\ semGiven[joinSem]
  /\ JoinOk
  /\ pc' = [pc EXCEPT ![Main] = "run"]
  /\ UNCHANGED <<qvars, handle, created, deleted, owner, depth, mask, timeout, waitArg, snap, semGiven, ops,
                 held, result, current>>

(* The take times out: join returns EAI_OSAL_TIMEOUT, _join_sem kept. *)
JoinTimeout ==
  /\ pc[Main] = "join" /\ timeout[Main] = "finite"
  /\ pc' = [pc EXCEPT ![Main] = "run"]
  /\ timedOut' = TRUE
  /\ UNCHANGED <<qvars, handle, created, deleted, owner, depth, mask, timeout, waitArg, snap, joinSem, semGiven,
                 ops, held, result, current, joinedOk>>

\* the states of a thread blocked on each object
BlockedOn == [mutex |-> {"lock"}, event |-> {"wait"}, sem |-> {"take"},
              queue |-> {"send", "recv"}]

\* no thread holds or waits on the object (the callers' contract for destroy)
Unused(o) ==
  /\ o = "mutex" => owner = NoThread
  /\ \A t \in Threads : pc[t] \notin BlockedOn[o]

\* every variable but those of the objects' lifecycle
ObjFrame == <<owner, depth, pc, timeout, waitArg, snap, joinSem, semGiven,
              held, result, current, joinedOk, timedOut, msgArg>>

(* eai_osal_mutex_create / eai_osal_event_create on a destroyed handle:  *)
(* a new FreeRTOS object (a fresh mutex is free, a fresh group has no    *)
(* bits).                                                                *)
ObjCreate(o) ==
  /\ Running(Main) /\ ops < MaxOps /\ handle[o] = "null"
  /\ ops' = ops + 1
  /\ handle' = [handle EXCEPT ![o] = "valid"]
  /\ created' = [created EXCEPT ![o] = @ + 1]
  /\ IF o = "mutex" THEN UNCHANGED mask ELSE mask' = {}
  /\ UNCHANGED <<ObjFrame, deleted, semValue, q, sent, recvd>>

(* eai_osal_sem_create(initial, limit): xSemaphoreCreateCounting with the *)
(* count at initial (at most the limit, the callers' contract).          *)
SemCreate(initial) ==
  /\ Running(Main) /\ ops < MaxOps /\ handle["sem"] = "null"
  /\ ops' = ops + 1
  /\ handle' = [handle EXCEPT !["sem"] = "valid"]
  /\ created' = [created EXCEPT !["sem"] = @ + 1]
  /\ semValue' = initial
  /\ UNCHANGED <<ObjFrame, deleted, mask, q, sent, recvd>>

(* eai_osal_queue_create: xQueueCreate allocates an empty queue of       *)
(* max_msgs (the caller's buffer is not used); the message history       *)
(* starts over with it.                                                  *)
QueueCreate ==
  /\ Running(Main) /\ ops < MaxOps /\ handle["queue"] = "null"
  /\ ops' = ops + 1
  /\ handle' = [handle EXCEPT !["queue"] = "valid"]
  /\ created' = [created EXCEPT !["queue"] = @ + 1]
  /\ q' = <<>> /\ sent' = <<>> /\ recvd' = <<>>
  /\ UNCHANGED <<ObjFrame, deleted, mask, semValue>>

\* a destroy that deletes without looking at _handle
ObjDestroyNoNullCheck(o) ==
  /\ Running(Main) /\ ops < MaxOps /\ Unused(o)
  /\ ops' = ops + 1
  /\ handle' = [handle EXCEPT ![o] = "null"]
  /\ deleted' = [deleted EXCEPT ![o] = @ + 1]
  /\ UNCHANGED <<ObjFrame, mask, created, semValue, q, sent, recvd>>

(* eai_osal_mutex_destroy / eai_osal_event_destroy: delete the FreeRTOS  *)
(* object if _handle is not NULL and set it NULL; on a NULL handle just  *)
(* return OK.                                                            *)
ObjDestroy(o) ==
  /\ Running(Main) /\ ops < MaxOps /\ Unused(o)
  /\ ops' = ops + 1
  /\ IF handle[o] = "valid"
       THEN /\ handle' = [handle EXCEPT ![o] = "null"]
            /\ deleted' = [deleted EXCEPT ![o] = @ + 1]
       ELSE UNCHANGED <<handle, deleted>>
  /\ UNCHANGED <<ObjFrame, mask, created, semValue, q, sent, recvd>>

(* eai_osal_sem_destroy: vSemaphoreDelete under the same NULL check. *)
SemDestroy == ObjDestroy("sem")

(* eai_osal_queue_destroy: vQueueDelete under the same NULL check. *)
QueueDestroy == ObjDestroy("queue")

Next ==
  \/ \E t \in Threads, to \in Timeouts :
        \/ MutexLock(t, to)
        \/ \E arg \in WaitArgs : EventWait(t, arg, to)
        \/ SemTake(t, to)
        \/ \E m \in Msgs : QueueSend(t, m, to)
        \/ QueueRecv(t, to)
  \/ \E t \in Threads :
        \/ LockGranted(t) \/ LockTimeout(t) \/ MutexUnlock(t)
        \/ WaitWoken(t) \/ WaitTimeout(t)
        \/ \E b \in (SUBSET Bits) \ {{}} : EventSet(t, b) \/ EventClear(t, b)
        \/ SemGive(t) \/ TakeGranted(t) \/ SendGranted(t) \/ RecvGranted(t)
        \/ BlockTimeout(t)
  \/ \E w \in Workers : ThreadCreate(w) \/ EntryReturn(w) \/ TrampolineExit(w)
  \/ \E to \in Timeouts : ThreadJoin(to)
  \/ JoinGranted \/ JoinTimeout
  \/ \E o \in {"mutex", "event"} : ObjCreate(o) \/ ObjDestroy(o)
  \/ \E i \in 0..SemLimit : SemCreate(i)
  \/ QueueCreate \/ SemDestroy \/ QueueDestroy

Spec == Init /\ [][Next]_vars

-----------------------------------------------------------------------------
TypeOK ==
  /\ owner \in Threads \cup {NoThread} /\ depth \in 0..MaxDepth
  /\ mask \subseteq Bits
  /\ pc \in [Threads -> {"run", "lock", "wait", "woken", "take", "send", "recv",
                          "join", "unborn", "returned", "exited"}]
  /\ timeout \in [Threads -> Timeouts]
  /\ waitArg \in [Threads -> WaitArgs \cup {NoWait}]
  /\ snap \in [Threads -> SUBSET Bits]
  /\ joinSem \in Workers \cup {NoThread} /\ semGiven \in [Workers -> BOOLEAN]
  /\ ops \in 0..MaxOps
  /\ handle \in [Objects -> {"valid", "null"}]
  /\ created \in [Objects -> Nat] /\ deleted \in [Objects -> Nat]
  /\ held \in [Threads -> 0..MaxDepth]
  /\ current \in Workers \cup {NoThread} /\ joinedOk \in Workers \cup {NoThread}
  /\ timedOut \in BOOLEAN
  /\ semValue \in 0..SemLimit /\ q \in Seq(Msgs) /\ Len(q) <= QueueCap
  /\ msgArg \in [Threads -> Msgs \cup {NoMsg}]
  /\ sent \in Seq(Msgs) /\ recvd \in Seq(Msgs)

(* The recursive mutex (spec 4.1): a thread's OK locks minus its unlocks  *)
(* is positive exactly when FreeRTOS has it as the holder, and then is    *)
(* the recursion depth; a lock that timed out or is still blocked never   *)
(* counts, whatever other threads lock, unlock or exit in between.        *)
LockHeldAsReported ==
  \A t \in Threads : /\ held[t] > 0 <=> owner = t
                     /\ owner = t => held[t] = depth

(* eai_osal_thread_join: when it returns OK, the worker the struct was    *)
(* last created for has returned from its entry function.                 *)
JoinAfterExit ==
  joinedOk # NoThread => pc[joinedOk] \in {"returned", "exited"}

(* Create/destroy balance (spec 3, invariants): every FreeRTOS object a  *)
(* create made is deleted at most once, and a handle is valid exactly    *)
(* while its last object is undeleted; a second destroy of the same      *)
(* handle, after any creates, destroys and uses, deletes nothing.        *)
DestroyBalanced ==
  \A o \in Objects : /\ deleted[o] <= created[o]
                     /\ (handle[o] = "valid") = (deleted[o] < created[o])

(* The queue is first-in first-out and loses or duplicates nothing (spec  *)
(* 4.1, fixed-capacity message queues): the messages recv has returned,  *)
(* followed by those still queued, are exactly the messages send returned *)
(* OK for, in the order the sends completed, across senders that block    *)
(* on a full queue and receivers that block on an empty one, timeouts,    *)
(* and a destroy and re-create of the queue.                              *)
QueueFifo == recvd \o q = sent
=============================================================================
