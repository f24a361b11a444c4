----------------------------- MODULE IpcZephyr -----------------------------
(***************************************************************************)
(* The Zephyr IPC Service backend of eai_ipc                              *)
(* (src/lib/eai_ipc/src/zephyr/ipc.c).                                     *)
(*                                                                         *)
(* The wrapper keeps ipc_instance and, in each endpoint's backend storage, *)
(* the flag d->bound; everything else is Zephyr's ipc_service, whose      *)
(* source is not in the repository.  Its contract is modelled from the    *)
(* service's documented behaviour: an endpoint registered on both cores   *)
(* under one name becomes bound, and the service then runs the bound      *)
(* callback (ept_bound_cb) from its own work-queue thread, so the callback *)
(* runs after, and concurrently with, the caller's next calls.  Each local *)
(* endpoint struct has a name of its own; the remote core registers the   *)
(* same name at a time of its choosing and keeps it.                      *)
(*                                                                         *)
(* The received path (ept_received_cb) forwards to the user callback and  *)
(* keeps no state, so it is left out.  The devicetree instance is taken   *)
(* to be ready.                                                           *)
(***************************************************************************)
EXTENDS Naturals

CONSTANTS
  Epts,                 \* user-allocated endpoint structs (model values)
  MaxOps                \* bound on the caller's calls

ASSUME MaxOps \in Nat

VARIABLES
  instance,     \* ipc_instance != NULL
  bound,        \* d->bound of each endpoint struct
  svc,          \* ipc_service: "none", "registered" or "bound" per endpoint
  remote,       \* ipc_service: the remote core has registered the name
  cbPending,    \* ipc_service: ept_bound_cb queued on the service's thread
  \* history, not program state:
  callerReg,    \* the caller's view: register returned 0, no deregister since
  sendResult,   \* what the last eai_ipc_send on the struct returned
  ops           \* caller calls so far

vars == <<instance, bound, svc, remote, cbPending, callerReg, sendResult, ops>>

SendResults == {"none", "ENOTCONN", "ok", "ESERVICE"}

Init ==
  /\ instance = FALSE
  /\ bound = [e \in Epts |-> FALSE]
  /\ svc = [e \in Epts |-> "none"]
  /\ remote = [e \in Epts |-> FALSE]
  /\ cbPending = [e \in Epts |-> FALSE]
  /\ callerReg = [e \in Epts |-> FALSE]
  /\ sendResult = [e \in Epts |-> "none"]
  /\ ops = 0

\* one call of the caller's budget
Call == ops < MaxOps /\ ops' = ops + 1

-----------------------------------------------------------------------------
\* ---- the caller's thread ----

(* eai_ipc_init: set ipc_instance and open the service instance (opening *)
(* an open instance again only returns -EALREADY).                        *)
IpcInit ==
  /\ Call
  /\ instance' = TRUE
  /\ UNCHANGED <<bound, svc, remote, cbPending, callerReg, sendResult>>

(* eai_ipc_deinit: clear ipc_instance.  Endpoints stay registered with    *)
(* the service, and their d->bound stays as it is; the caller, told that  *)
(* init -> deinit -> init fully resets, forgets its registrations.        *)
IpcDeinit ==
  /\ Call
  /\ instance' = FALSE
  /\ callerReg' = [e \in Epts |-> FALSE]
  /\ UNCHANGED <<bound, svc, remote, cbPending, sendResult>>

(* eai_ipc_register_endpoint with an instance: memset the backend data    *)
(* (d->bound = false) and register d->ept with the service.  A struct the *)
(* service still holds (the caller forgot it across deinit) is refused,   *)
(* or taken as a fresh registration: backends differ.                     *)
Register(e) ==
  /\ Call
  /\ instance
  /\ ~callerReg[e]
  /\ bound' = [bound EXCEPT ![e] = FALSE]
  /\ IF svc[e] = "none"
       THEN /\ svc' = [svc EXCEPT ![e] = "registered"]
            /\ callerReg' = [callerReg EXCEPT ![e] = TRUE]
       ELSE \/ UNCHANGED <<svc, callerReg>>
            \/ /\ svc' = [svc EXCEPT ![e] = "registered"]
               /\ callerReg' = [callerReg EXCEPT ![e] = TRUE]
  /\ UNCHANGED <<instance, remote, cbPending, sendResult>>

(* eai_ipc_deregister_endpoint: ipc_service_deregister_endpoint, and on   *)
(* success clear d->bound.  A bound callback the service has already      *)
(* queued is not withdrawn.                                               *)
Deregister(e) ==
  /\ Call
  /\ callerReg[e]
  /\ svc[e] # "none"
  /\ svc' = [svc EXCEPT ![e] = "none"]
  /\ bound' = [bound EXCEPT ![e] = FALSE]
  /\ callerReg' = [callerReg EXCEPT ![e] = FALSE]
  /\ UNCHANGED <<instance, remote, cbPending, sendResult>>

(* eai_ipc_send: -ENOTCONN unless d->bound, else ipc_service_send, which  *)
(* fails unless the service has the endpoint bound.                       *)
Send(e) ==
  /\ Call
  /\ sendResult' = [sendResult EXCEPT ![e] =
                      IF ~bound[e] THEN "ENOTCONN"
                      ELSE IF svc[e] = "bound" THEN "ok" ELSE "ESERVICE"]
  /\ UNCHANGED <<instance, bound, svc, remote, cbPending, callerReg>>

-----------------------------------------------------------------------------
\* ---- the remote core and the service's thread ----

(* The remote core registers the endpoint's name. *)
RemoteRegister(e) ==
  /\ ~remote[e]
  /\ remote' = [remote EXCEPT ![e] = TRUE]
  /\ UNCHANGED <<instance, bound, svc, cbPending, callerReg, sendResult, ops>>

(* The service pairs a registered endpoint with the remote one and queues *)
(* its bound callback.                                                    *)
Bind(e) ==
  /\ svc[e] = "registered" /\ remote[e]
  /\ svc' = [svc EXCEPT ![e] = "bound"]
  /\ cbPending' = [cbPending EXCEPT ![e] = TRUE]
  /\ UNCHANGED <<instance, bound, remote, callerReg, sendResult, ops>>

\* a bound callback that only calls the user's bound()
EptBoundCbNoFlag(e) ==
  /\ cbPending[e]
  /\ cbPending' = [cbPending EXCEPT ![e] = FALSE]
  /\ UNCHANGED <<instance, bound, svc, remote, callerReg, sendResult, ops>>

(* ept_bound_cb on the service's thread: d->bound = true, then the user's *)
(* bound() (no state of the wrapper).                                     *)
EptBoundCb(e) ==
  /\ cbPending[e]
  /\ bound' = [bound EXCEPT ![e] = TRUE]
  /\ cbPending' = [cbPending EXCEPT ![e] = FALSE]
  /\ UNCHANGED <<instance, svc, remote, callerReg, sendResult, ops>>

Next ==
  \/ IpcInit \/ IpcDeinit
  \/ \E e \in Epts :
       \/ Register(e) \/ Deregister(e) \/ Send(e)
       \/ RemoteRegister(e) \/ Bind(e) \/ EptBoundCb(e)

(* The service binds a pair once both cores have registered it, and its   *)
(* thread runs the callbacks it has queued; the caller and the remote     *)
(* core need not call anything.                                          *)
Fairness == \A e \in Epts : WF_vars(Bind(e)) /\ WF_vars(EptBoundCb(e))

Spec == Init /\ [][Next]_vars /\ Fairness

-----------------------------------------------------------------------------
TypeOK ==
  /\ instance \in BOOLEAN
  /\ bound \in [Epts -> BOOLEAN]
  /\ svc \in [Epts -> {"none", "registered", "bound"}]
  /\ remote \in [Epts -> BOOLEAN]
  /\ cbPending \in [Epts -> BOOLEAN]
  /\ callerReg \in [Epts -> BOOLEAN]
  /\ sendResult \in [Epts -> SendResults]
  /\ ops \in 0..MaxOps

(* eai_ipc.h: send returns -ENOTCONN if the endpoint is not bound.  A     *)
(* send that passes the wrapper's d->bound check is one the service       *)
(* accepts: d->bound is never stale against the service.                  *)
SendPassesOnlyWhenBound == \A e \in Epts : sendResult[e] # "ESERVICE"

(* An endpoint the caller has registered, whose peer the remote core has *)
(* registered, ends up bound in the wrapper (sends stop returning         *)
(* -ENOTCONN) unless the caller deregisters it.                          *)
BindsEventually ==
  \A e \in Epts : callerReg[e] /\ remote[e] ~> bound[e] \/ ~callerReg[e]

=============================================================================
