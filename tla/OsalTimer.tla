----------------------------- MODULE OsalTimer -----------------------------
(***************************************************************************)
(* The FreeRTOS backend of the OSAL software timer                         *)
(* (src/lib/eai_osal/src/freertos/timer.c) over the FreeRTOS timer        *)
(* service it drives.                                                     *)
(*                                                                         *)
(* One eai_osal_timer_t, used by one caller thread, and the timer daemon. *)
(* xTimerChangePeriod, xTimerStart, xTimerStop and xTimerDelete do not    *)
(* act on the timer: they append a command to the daemon's queue, stamped *)
(* with the tick count of the call.  vTimerSetReloadMode and              *)
(* xTimerIsTimerActive act at once.  Each FreeRTOS call of               *)
(* eai_osal_timer_start is a step of its own, so the daemon and the clock *)
(* can run between them.                                                  *)
(*                                                                         *)
(* The daemon (FreeRTOS prvTimerTask, not part of this repository) loops: *)
(* run the callback of the timer if it has expired (reloading or         *)
(* disarming it), or else block until a command comes or the timer       *)
(* expires; then drain the command queue.  CHANGE_PERIOD sets the         *)
(* period and arms the timer from the daemon's tick count; START arms it  *)
(* from the tick count stamped on the command; STOP disarms; DELETE frees.*)
(* Time is the tick count; milliseconds become ticks by pdMS_TO_TICKS.   *)
(***************************************************************************)
EXTENDS Integers, Sequences

CONSTANTS
  Initials,     \* initial_ms values passed to start (non-zero)
  Periods,      \* period_ms values passed to start
  TickHz,       \* configTICK_RATE_HZ
  QueueLen,     \* configTIMER_QUEUE_LENGTH
  MaxTime,      \* bound on the tick count
  MaxStarts     \* bound on calls of start

ASSUME /\ Initials \subseteq Nat \ {0}
       /\ Periods \subseteq Nat
       /\ TickHz \in Nat \ {0}
       /\ QueueLen \in Nat \ {0}
       /\ MaxTime \in Nat /\ MaxStarts \in Nat

\* pdMS_TO_TICKS
MsToTicks(ms) == (ms * TickHz) \div 1000

Placeholder == MsToTicks(1000)  \* the period xTimerCreate is given

\* the start a command belongs to: none for commands of stop and destroy
NoArm == [id |-> 0, at |-> 0, initial |-> 0, period |-> 0]

VARIABLES
  hasHandle,    \* timer->_handle != NULL
  periodMs,     \* timer->_period_ms
  exists,       \* the FreeRTOS timer object is allocated
  active,       \* FreeRTOS: the timer is in the active list
  reload,       \* FreeRTOS: auto-reload bit
  periodTicks,  \* FreeRTOS: xTimerPeriodInTicks
  expiry,       \* FreeRTOS: the tick the timer expires at
  cmdQueue,     \* FreeRTOS: the timer command queue
  dphase,       \* daemon: "check" (expiry), "wait" (blocked), "drain" (commands)
  now,          \* xTaskGetTickCount()
  pc,           \* caller: "idle", or the next step of start: "mode", "send"
  arg,          \* caller: the start in progress
  \* history, not program state:
  nStarts,      \* starts called so far
  served,       \* the start whose command the daemon served last
  fires,        \* callbacks since served changed (capped at 2)
  stopState     \* "none", "returned" (stop or destroy returned, daemon not idle
                \* since), "silenced" (the daemon has drained since)

vars == <<hasHandle, periodMs, exists, active, reload, periodTicks, expiry,
          cmdQueue, dphase, now, pc, arg, nStarts, served, fires, stopState>>

\* a command send blocks (portMAX_DELAY) while the queue is full
CanSend == Len(cmdQueue) < QueueLen

Cmd(kind, val, a) == [kind |-> kind, val |-> val, at |-> now, arm |-> a]

Init ==
  /\ hasHandle = FALSE /\ periodMs = 0
  /\ exists = FALSE /\ active = FALSE /\ reload = FALSE
  /\ periodTicks = Placeholder /\ expiry = 0
  /\ cmdQueue = <<>> /\ dphase = "check" /\ now = 0
  /\ pc = "idle" /\ arg = NoArm
  /\ nStarts = 0 /\ served = NoArm /\ fires = 0 /\ stopState = "none"

-----------------------------------------------------------------------------
(* eai_osal_timer_create: xTimerCreate of a one-shot, dormant timer with  *)
(* the placeholder period.  (One FreeRTOS timer object is modelled: a     *)
(* timer is created again only once the daemon has freed the last one.)   *)
TimerCreate ==
  /\ pc = "idle" /\ ~hasHandle /\ ~exists
  /\ hasHandle' = TRUE /\ periodMs' = 0
  /\ exists' = TRUE /\ active' = FALSE /\ reload' = FALSE
  /\ periodTicks' = Placeholder
  /\ UNCHANGED <<expiry, cmdQueue, dphase, now, pc, arg, nStarts, served,
                 fires, stopState>>

\* a destroy that clears _handle without deleting the FreeRTOS timer
TimerDestroyNoDelete ==
  /\ pc = "idle" /\ hasHandle
  /\ hasHandle' = FALSE
  /\ stopState' = "returned"
  /\ UNCHANGED <<periodMs, exists, active, reload, periodTicks, expiry, cmdQueue,
                 dphase, now, pc, arg, nStarts, served, fires>>

(* eai_osal_timer_destroy: xTimerDelete, then clear _handle.  Like stop,  *)
(* it only queues a command; stopState records that a disarm returned.   *)
TimerDestroy ==
  /\ pc = "idle" /\ hasHandle
  /\ CanSend
  /\ cmdQueue' = Append(cmdQueue, Cmd("delete", 0, NoArm))
  /\ hasHandle' = FALSE
  /\ stopState' = "returned"
  /\ UNCHANGED <<periodMs, exists, active, reload, periodTicks, expiry, dphase,
                 now, pc, arg, nStarts, served, fires>>

StartChangePeriodStoreInitial(i, p) ==
  /\ pc = "idle" /\ hasHandle
  /\ CanSend
  /\ nStarts < MaxStarts
  /\ LET a == [id |-> nStarts + 1, at |-> now, initial |-> i, period |-> p]
     IN /\ cmdQueue' = Append(cmdQueue, Cmd("period", MsToTicks(i), a))
        /\ arg' = a
  /\ periodMs' = i
  /\ nStarts' = nStarts + 1
  /\ stopState' = "none"
  /\ pc' = "mode"
  /\ UNCHANGED <<hasHandle, exists, active, reload, periodTicks, expiry, dphase,
                 now, served, fires>>

(* eai_osal_timer_start, first step: store _period_ms and send            *)
(* CHANGE_PERIOD with initial_ms in ticks.                                 *)
StartChangePeriod(i, p) ==
  /\ pc = "idle" /\ hasHandle
  /\ CanSend
  /\ nStarts < MaxStarts
  /\ LET a == [id |-> nStarts + 1, at |-> now, initial |-> i, period |-> p]
     IN /\ cmdQueue' = Append(cmdQueue, Cmd("period", MsToTicks(i), a))
        /\ arg' = a
  /\ periodMs' = p
  /\ nStarts' = nStarts + 1
  /\ stopState' = "none"
  /\ pc' = "mode"
  /\ UNCHANGED <<hasHandle, exists, active, reload, periodTicks, expiry, dphase,
                 now, served, fires>>

(* second step: vTimerSetReloadMode, auto-reload if period_ms > 0. *)
StartSetReloadMode ==
  /\ pc = "mode"
  /\ reload' = (arg.period > 0)
  /\ pc' = "send"
  /\ UNCHANGED <<hasHandle, periodMs, exists, active, periodTicks, expiry,
                 cmdQueue, dphase, now, arg, nStarts, served, fires, stopState>>

(* third step: xTimerStart, and return. *)
StartSend ==
  /\ pc = "send"
  /\ CanSend
  /\ cmdQueue' = Append(cmdQueue, Cmd("start", 0, arg))
  /\ pc' = "idle"
  /\ UNCHANGED <<hasHandle, periodMs, exists, active, reload, periodTicks,
                 expiry, dphase, now, arg, nStarts, served, fires, stopState>>

\* a stop that sends STOP only when xTimerIsTimerActive says it is armed
TimerStopIfActive ==
  /\ pc = "idle" /\ hasHandle
  /\ CanSend
  /\ cmdQueue' = IF active THEN Append(cmdQueue, Cmd("stop", 0, NoArm)) ELSE cmdQueue
  /\ stopState' = "returned"
  /\ UNCHANGED <<hasHandle, periodMs, exists, active, reload, periodTicks,
                 expiry, dphase, now, pc, arg, nStarts, served, fires>>

(* eai_osal_timer_stop: xTimerStop. *)
TimerStop ==
  /\ pc = "idle" /\ hasHandle
  /\ CanSend
  /\ cmdQueue' = Append(cmdQueue, Cmd("stop", 0, NoArm))
  /\ stopState' = "returned"
  /\ UNCHANGED <<hasHandle, periodMs, exists, active, reload, periodTicks,
                 expiry, dphase, now, pc, arg, nStarts, served, fires>>

-----------------------------------------------------------------------------
\* the timer is armed and its expiry tick has come
Expired == exists /\ active /\ now >= expiry

\* fires counts callbacks of the start last served, up to 2
Counted(n) == IF n >= 2 THEN 2 ELSE n

(* Run the callback (timer_trampoline calls timer->_cb), then reload the  *)
(* timer one period on from the tick it expired at, or disarm it.         *)
RunCallback(exp) ==
  /\ fires' = Counted(fires + 1)
  /\ IF reload THEN active' = TRUE /\ expiry' = exp + periodTicks
               ELSE active' = FALSE /\ expiry' = exp

(* Daemon, top of its loop (prvProcessTimerOrBlockTask): sample the tick *)
(* count; run the callback of an expired timer and go on to the command   *)
(* queue, or else block on the queue until a command comes or the timer  *)
(* expires.                                                               *)
DaemonCheck ==
  /\ dphase = "check"
  /\ IF Expired THEN RunCallback(expiry) /\ dphase' = "drain"
               ELSE UNCHANGED <<fires, active, expiry>> /\ dphase' = "wait"
  /\ UNCHANGED <<hasHandle, periodMs, exists, reload, periodTicks, cmdQueue,
                 now, pc, arg, nStarts, served, stopState>>

(* Daemon, blocked: a queued command or the expiry tick wakes it, and it *)
(* goes on to the command queue without looking at the timer again.       *)
DaemonWake ==
  /\ dphase = "wait"
  /\ cmdQueue # <<>> \/ Expired
  /\ dphase' = "drain"
  /\ UNCHANGED <<hasHandle, periodMs, exists, active, reload, periodTicks,
                 expiry, cmdQueue, now, pc, arg, nStarts, served, fires,
                 stopState>>

\* served and fires once the daemon serves a command of start a
Serve(a) == /\ served' = a
            /\ fires' = IF a.id = served.id THEN fires ELSE 0

(* Daemon, draining: serve the oldest command.  A START whose expiry tick *)
(* (stamp + period) has already passed runs the callback at once.         *)
DaemonServe ==
  /\ dphase = "drain"
  /\ cmdQueue # <<>>
  /\ LET c == Head(cmdQueue)
     IN CASE c.kind = "period" ->
               /\ periodTicks' = c.val /\ active' = TRUE /\ expiry' = now + c.val
               /\ Serve(c.arm)
               /\ UNCHANGED exists
          [] c.kind = "start" ->
               /\ served' = c.arm
               /\ IF c.at + periodTicks <= now
                    THEN /\ fires' = Counted((IF c.arm.id = served.id THEN fires ELSE 0) + 1)
                         /\ IF reload THEN active' = TRUE /\ expiry' = c.at + 2 * periodTicks
                                      ELSE active' = FALSE /\ expiry' = c.at + periodTicks
                    ELSE /\ active' = TRUE /\ expiry' = c.at + periodTicks
                         /\ fires' = IF c.arm.id = served.id THEN fires ELSE 0
               /\ UNCHANGED <<periodTicks, exists>>
          [] c.kind = "stop" ->
               /\ active' = FALSE
               /\ UNCHANGED <<periodTicks, expiry, exists, served, fires>>
          [] c.kind = "delete" ->
               /\ exists' = FALSE /\ active' = FALSE
               /\ UNCHANGED <<periodTicks, expiry, served, fires>>
  /\ cmdQueue' = Tail(cmdQueue)
  /\ UNCHANGED <<hasHandle, periodMs, reload, dphase, now, pc, arg, nStarts,
                 stopState>>

(* Daemon, queue drained: back to the top of the loop.  A stop that has  *)
(* returned has now been served.                                          *)
DaemonIdle ==
  /\ dphase = "drain"
  /\ cmdQueue = <<>>
  /\ dphase' = "check"
  /\ stopState' = IF stopState = "returned" THEN "silenced" ELSE stopState
  /\ UNCHANGED <<hasHandle, periodMs, exists, active, reload, periodTicks,
                 expiry, cmdQueue, now, pc, arg, nStarts, served, fires>>

(* The tick interrupt. *)
Tick ==
  /\ now < MaxTime
  /\ now' = now + 1
  /\ UNCHANGED <<hasHandle, periodMs, exists, active, reload, periodTicks,
                 expiry, cmdQueue, dphase, pc, arg, nStarts, served, fires,
                 stopState>>

Caller ==
  \/ TimerCreate
  \/ TimerDestroy
  \/ \E i \in Initials, p \in Periods : StartChangePeriod(i, p)
  \/ StartSetReloadMode
  \/ StartSend
  \/ TimerStop

Daemon == DaemonCheck \/ DaemonWake \/ DaemonServe \/ DaemonIdle

Next == Caller \/ Daemon \/ Tick

Spec == Init /\ [][Next]_vars

-----------------------------------------------------------------------------
Arms == [id : 0..MaxStarts, at : 0..MaxTime, initial : Initials \cup {0},
         period : Periods \cup {0}]

TypeOK ==
  /\ hasHandle \in BOOLEAN /\ exists \in BOOLEAN
  /\ active \in BOOLEAN /\ reload \in BOOLEAN
  /\ periodMs \in Periods \cup {0}
  /\ periodTicks \in Nat /\ expiry \in Nat
  /\ cmdQueue \in Seq([kind : {"period", "start", "stop", "delete"}, val : Nat,
                       at : 0..MaxTime, arm : Arms])
  /\ dphase \in {"check", "wait", "drain"}
  /\ now \in 0..MaxTime
  /\ pc \in {"idle", "mode", "send"} /\ arg \in Arms /\ served \in Arms
  /\ nStarts \in 0..MaxStarts /\ fires \in 0..2
  /\ stopState \in {"none", "returned", "silenced"}

\* a callback runs in this step: an expired timer at the top of the daemon
\* loop, or a START served after its expiry tick
Fired ==
  \/ DaemonCheck /\ Expired
  \/ DaemonServe /\ Head(cmdQueue).kind = "start"
                 /\ Head(cmdQueue).at + periodTicks <= now

StopSilences ==
  [][Fired => stopState # "silenced"]_vars

(* A one-shot start (period_ms 0) runs the callback at most once before  *)
(* the next start.                                                        *)
OneShotOnce ==
  served.id # 0 /\ served.period = 0 => fires <= 1

(* A periodic start fires first initial_ms after it, then every           *)
(* period_ms: when the daemon reloads the timer of a served periodic      *)
(* start, the next expiry is period_ms on.                                *)
ReloadAtPeriod ==
  [][DaemonCheck /\ Expired /\ reload /\ served.id # 0 /\ served.period > 0
        => expiry' = expiry + MsToTicks(served.period)]_vars
=============================================================================
