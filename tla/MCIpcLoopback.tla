--------------------------- MODULE MCIpcLoopback ---------------------------
(* Model-checking instance of the two eai_ipc backends.  IpcLoopback: three *)
(* handles, a table of three slots (so a third endpoint of a name can wait *)
(* beside a bound pair).  IpcZephyr: one endpoint struct (the backend's    *)
(* endpoints share nothing but ipc_instance).  The two share no state; a   *)
(* step of the specification is a step of one of them.                     *)
EXTENDS IpcLoopback

CONSTANTS h1, h2, h3, stemA, stemB, z1

MCHandles == {h1, h2, h3}

\* two short names
MCNamesShort == {[stem |-> stemA, ext |-> NoExt], [stem |-> stemB, ext |-> NoExt]}

MCOpsPlain == {"deregister", "send"}
MCOpsAll == {"register", "deregister", "send"}

VARIABLES instance, bound, svc, remote, cbPending, callerReg, sendResult, ops

zvars == <<instance, bound, svc, remote, cbPending, callerReg, sendResult, ops>>

\* the caller of the Zephyr backend makes five calls
Z == INSTANCE IpcZephyr WITH Epts <- {z1}, MaxOps <- 5

BothInit == Init /\ Z!Init

(* A step of the loopback runtime (IpcLoopback's Next, action by action) *)
(* or of the Zephyr backend and its service (IpcZephyr's Next).           *)
BothNext ==
  \/ IpcReset /\ UNCHANGED zvars
  \/ CallbackReturn /\ UNCHANGED zvars
  \/ \E h \in Handles, n \in Names : Register(h, n) /\ UNCHANGED zvars
  \/ \E h \in Handles : Deregister(h) /\ UNCHANGED zvars
  \/ \E h \in Handles : Send(h) /\ UNCHANGED zvars
  \/ Z!IpcInit /\ UNCHANGED vars
  \/ Z!IpcDeinit /\ UNCHANGED vars
  \/ Z!Register(z1) /\ UNCHANGED vars
  \/ Z!Deregister(z1) /\ UNCHANGED vars
  \/ Z!Send(z1) /\ UNCHANGED vars
  \/ Z!RemoteRegister(z1) /\ UNCHANGED vars
  \/ Z!Bind(z1) /\ UNCHANGED vars
  \/ Z!EptBoundCb(z1) /\ UNCHANGED vars

BothSpec == BothInit /\ [][BothNext]_<<vars, zvars>> /\ Z!Fairness

(* Every endpoint struct of either backend has the fields and flags the   *)
(* code gives it.                                                         *)
IpcTypeOK == TypeOK /\ Z!TypeOK

(* Zephyr backend: an endpoint registered on this core and on the remote  *)
(* one ends up with d->bound set by ept_bound_cb, unless deregistered.    *)
ZephyrBindsEventually == Z!BindsEventually

(* Zephyr backend: a send that passes the d->bound check is accepted by   *)
(* the service (d->bound is not stale after a deregister).                *)
ZephyrSendPassesOnlyWhenBound == Z!SendPassesOnlyWhenBound
====
