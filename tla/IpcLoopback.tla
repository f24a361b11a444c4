---------------------------- MODULE IpcLoopback ----------------------------
(***************************************************************************)
(* The loopback IPC runtime (src/lib/eai_ipc/src/loopback/ipc.c).          *)
(*                                                                         *)
(* A table of MAX_ENDPOINTS slots; each active slot holds the user's       *)
(* endpoint handle, its name truncated to EAI_IPC_EPT_NAME_MAX - 1 bytes,  *)
(* its callbacks and a peer link.  Registration pairs the new slot with    *)
(* the first active, unbound slot of the same stored name and then calls   *)
(* both bound callbacks; send calls the peer's received callback.  All of  *)
(* this runs on the caller's thread (the backend is not re-entrant across  *)
(* threads, spec section 5), but a callback may itself call the API: the  *)
(* register in progress is then suspended inside the callback.  The       *)
(* variable stack holds those suspended registrations, innermost last.     *)
(*                                                                         *)
(* A name is a record: stem is what survives the strncpy truncation, ext  *)
(* stands for the bytes beyond it (NoExt for a name that fits).  Every     *)
(* endpoint has a bound and a received callback of its own.                *)
(***************************************************************************)
EXTENDS Integers, Sequences, FiniteSets

CONSTANTS
  MaxEndpoints,    \* MAX_ENDPOINTS
  Handles,         \* the user's endpoint structs (model values)
  Names,           \* names passed in eai_ipc_ept_cfg (records [stem, ext])
  NoExt,           \* ext of a name short enough to be stored whole
  None,            \* a NULL peer / no handle
  CallbackOps,     \* API calls a bound callback may make:
                   \*   a subset of {"register", "deregister", "send"}
  MaxDepth,        \* bound: registrations suspended in callbacks at once
  ReRegister       \* may the caller register a handle already registered?

ASSUME /\ MaxEndpoints \in Nat \ {0}
       /\ None \notin Handles
       /\ CallbackOps \subseteq {"register", "deregister", "send"}
       /\ MaxDepth \in Nat \ {0}
       /\ ReRegister \in BOOLEAN

Idx == 0..(MaxEndpoints - 1)

VARIABLES
  epts,       \* epts[]: [Idx -> [active, handle, name, peer]]
  stack,      \* registrations suspended in a bound callback:
              \*   <<[slot, handle, stage]>>, stage "peerCb" or "selfCb",
              \*   handle the one being registered (history)
  \* history, not program state:
  lastEvent   \* the callback the last step invoked, if any

vars == <<epts, stack, lastEvent>>

-----------------------------------------------------------------------------
\* a copy of the name that keeps every byte
StoredUntruncated(n) == n

\* the name as stored: strncpy(slot->name, cfg->name, NAME_MAX - 1)
Stored(n) == n.stem

FreeEpt == [active |-> FALSE, handle |-> None, name |-> None, peer |-> None]

\* to: the handle whose callback ran; of: for a bound callback, the handle
\* the pairing was made for; from: for received, the sender
NoEvent == [kind |-> "none", to |-> None, of |-> None, from |-> None]

(* find_slot: the first inactive slot, or None *)
FindSlot ==
  IF \E i \in Idx : ~epts[i].active
    THEN CHOOSE i \in Idx : ~epts[i].active /\ \A k \in 0..(i - 1) : epts[k].active
    ELSE None

(* find_by_handle: the first active slot holding the handle, or None *)
FindByHandle(h) ==
  LET S == {i \in Idx : epts[i].active /\ epts[i].handle = h}
  IN IF S = {} THEN None ELSE CHOOSE i \in S : \A k \in S : i <= k

(* find_unbound_peer: the first active, unbound slot other than self with  *)
(* the same stored name, or None                                          *)
FindUnboundPeer(e, name, self) ==
  LET S == {i \in Idx : e[i].active /\ i # self /\ e[i].peer = None
                        /\ e[i].name = name}
  IN IF S = {} THEN None ELSE CHOOSE i \in S : \A k \in S : i <= k

\* the code running is a callback of a suspended registration
InCallback == stack # <<>>

MayCall(op) == ~InCallback \/ op \in CallbackOps

-----------------------------------------------------------------------------
Init ==
  /\ epts = [i \in Idx |-> FreeEpt]
  /\ stack = <<>>
  /\ lastEvent = NoEvent

(* eai_ipc_init and eai_ipc_deinit: both clear the whole table. *)
IpcReset ==
  /\ ~InCallback
  /\ epts' = [i \in Idx |-> FreeEpt]
  /\ lastEvent' = NoEvent
  /\ UNCHANGED stack

(* eai_ipc_register_endpoint up to the first callback: take the first free *)
(* slot, store handle, truncated name and callbacks, look for an unbound  *)
(* peer of the same stored name; if there is one, link both and call the  *)
(* peer's bound callback, suspending this registration inside it.         *)
Register(h, n) ==
  /\ MayCall("register")
  /\ Len(stack) < MaxDepth
  /\ ReRegister \/ FindByHandle(h) = None
  /\ FindSlot # None
  /\ LET i  == FindSlot
         e1 == [epts EXCEPT ![i] = [active |-> TRUE, handle |-> h,
                                    name |-> Stored(n), peer |-> None]]
         p  == FindUnboundPeer(e1, Stored(n), i)
     IN IF p = None
          THEN /\ epts' = e1
               /\ lastEvent' = NoEvent
               /\ UNCHANGED stack
          ELSE /\ epts' = [e1 EXCEPT ![i].peer = p, ![p].peer = i]
               /\ lastEvent' = [kind |-> "bound", to |-> e1[p].handle,
                                of |-> e1[p].handle, from |-> None]
               /\ stack' = Append(stack, [slot |-> i, handle |-> h,
                                          stage |-> "peerCb"])

(* The innermost callback of a registration returns.  After the peer's     *)
(* bound callback the code calls slot->cb.bound through the slot pointer  *)
(* it holds, whatever that slot holds now (nothing if it was memset).     *)
CallbackReturn ==
  /\ InCallback
  /\ LET top == stack[Len(stack)]
         i   == top.slot
     IN IF top.stage = "peerCb" /\ epts[i].active
          THEN /\ lastEvent' = [kind |-> "bound", to |-> epts[i].handle,
                                of |-> top.handle, from |-> None]
               /\ stack' = [stack EXCEPT ![Len(stack)].stage = "selfCb"]
          ELSE /\ lastEvent' = NoEvent
               /\ stack' = SubSeq(stack, 1, Len(stack) - 1)
  /\ UNCHANGED epts

\* a deregister that clears its slot but not the peer's back link
DeregisterKeepPeerLink(h) ==
  /\ MayCall("deregister")
  /\ FindByHandle(h) # None
  /\ epts' = [epts EXCEPT ![FindByHandle(h)] = FreeEpt]
  /\ lastEvent' = NoEvent
  /\ UNCHANGED stack

(* eai_ipc_deregister_endpoint: unlink the peer, then memset the slot. *)
Deregister(h) ==
  /\ MayCall("deregister")
  /\ FindByHandle(h) # None
  /\ LET i == FindByHandle(h)
         p == epts[i].peer
     IN epts' = [k \in Idx |->
                   IF k = i THEN FreeEpt
                   ELSE IF k = p THEN [epts[k] EXCEPT !.peer = None]
                   ELSE epts[k]]
  /\ lastEvent' = NoEvent
  /\ UNCHANGED stack

(* eai_ipc_send on a registered, bound endpoint: the peer's received       *)
(* callback runs synchronously.  The other outcomes (-ENOENT, -ENOTCONN)  *)
(* change nothing.                                                        *)
Send(h) ==
  /\ MayCall("send")
  /\ FindByHandle(h) # None
  /\ epts[FindByHandle(h)].peer # None
  /\ lastEvent' = [kind |-> "received",
                   to |-> epts[epts[FindByHandle(h)].peer].handle,
                   of |-> None, from |-> h]
  /\ UNCHANGED <<epts, stack>>

Next ==
  \/ IpcReset
  \/ CallbackReturn
  \/ \E h \in Handles : \/ \E n \in Names : Register(h, n)
                        \/ Deregister(h)
                        \/ Send(h)

Spec == Init /\ [][Next]_vars

-----------------------------------------------------------------------------
TypeOK ==
  /\ epts \in [Idx -> [active : BOOLEAN, handle : Handles \cup {None},
                       name : {n.stem : n \in Names} \cup {None},
                       peer : Idx \cup {None}]]
  /\ stack \in Seq([slot : Idx, handle : Handles, stage : {"peerCb", "selfCb"}])
  /\ Len(stack) <= MaxDepth

(* Spec section 3: an endpoint with a peer has a peer whose peer points    *)
(* back to it.  register links both ends, deregister unlinks the          *)
(* survivor before clearing the slot, whatever callbacks do in between.   *)
MutualPeers ==
  \A i \in Idx :
    epts[i].active /\ epts[i].peer # None =>
      /\ epts[epts[i].peer].active
      /\ epts[epts[i].peer].peer = i
      /\ epts[i].peer # i

(* Spec section 4.5: when a registration pairs two endpoints, the bound   *)
(* callbacks that fire are those of the two endpoints paired.  The code   *)
(* calls the second one through the slot pointer after the first callback *)
(* has returned, so it must still be the registering endpoint's.  (If the *)
(* callback deregistered it the slot is cleared and nothing fires; if it  *)
(* deregistered its own endpoint the second callback still fires.)        *)
BoundCallbackOfPairedEndpoint ==
  lastEvent.kind = "bound" => lastEvent.to = lastEvent.of

(* Spec section 3: an endpoint is in exactly one of unregistered,          *)
(* registered-unbound and registered-bound, so a handle is never held by  *)
(* two table slots.                                                       *)
OneSlotPerHandle ==
  \A h \in Handles :
    Cardinality({i \in Idx : epts[i].active /\ epts[i].handle = h}) <= 1

=============================================================================
