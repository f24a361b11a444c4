------------------------------ MODULE WifiProv ------------------------------
(***************************************************************************)
(* WiFi provisioning (src/lib/wifi_prov/src): the orchestrator            *)
(* wifi_prov.c, the credential store wifi_prov_cred.c, and the glue to     *)
(* the WiFi driver (wifi_prov_wifi.c) and to BLE (wifi_prov_ble.c).        *)
(*                                                                         *)
(* Four threads touch this state:                                          *)
(*   - the BLE host thread runs the GATT write callbacks (scan trigger,    *)
(*     credentials, factory reset);                                        *)
(*   - the system work-queue worker runs cred_work, factory_reset_work and *)
(*     auto_connect_work, one at a time, in submission order;              *)
(*   - the WiFi driver's event thread runs on_wifi_state_changed and       *)
(*     on_scan_done, in the order the driver raised them;                  *)
(*   - the driver itself, whose connect and scan complete later.           *)
(* The provisioning state machine (spec section 4.6) and the work queue    *)
(* (spec section 4.2) are not under src/ and are taken from the spec.      *)
(*                                                                         *)
(* A credential is a model value; a stored or persisted credential is a    *)
(* record of the credential each of its three fields (ssid, psk,           *)
(* security) came from, None for a zeroed or absent field.                 *)
(***************************************************************************)
EXTENDS Integers, Sequences

CONSTANTS
  Creds,            \* credentials a phone may write over BLE
  None,             \* an absent or zeroed field
  MaxRx,            \* bound: credential writes over BLE
  MaxScans,         \* bound: scan triggers over BLE
  MaxResets,        \* bound: factory-reset writes over BLE
  MaxDrops,         \* bound: access-point drops of an up link
  MaxReboots,       \* bound: power cycles
  AutoConnect,      \* CONFIG_WIFI_PROV_AUTO_CONNECT
  WorkQueueCap,     \* items the system work queue holds
  DriverMayRefuse,  \* requests eai_wifi may refuse: subset of {"scan", "connect"}
  InitMayFail       \* eai_settings_init, eai_wifi or eai_ble may fail to initialise

ASSUME /\ None \notin Creds
       /\ {MaxRx, MaxScans, MaxResets, MaxDrops, MaxReboots} \subseteq Nat
       /\ WorkQueueCap \in Nat \ {0}
       /\ AutoConnect \in BOOLEAN
       /\ DriverMayRefuse \subseteq {"scan", "connect"}
       /\ InitMayFail \in BOOLEAN

-----------------------------------------------------------------------------
(* The provisioning state machine, spec section 4.6: an event not in the  *)
(* table leaves the state unchanged.                                       *)
States == {"IDLE", "SCANNING", "SCAN_COMPLETE", "PROVISIONING",
           "CONNECTING", "CONNECTED"}

Transitions ==
  { <<"IDLE",          "SCAN_TRIGGER",      "SCANNING">>,
    <<"SCANNING",      "SCAN_DONE",         "SCAN_COMPLETE">>,
    <<"SCAN_COMPLETE", "CREDENTIALS_RX",    "PROVISIONING">>,
    <<"IDLE",          "CREDENTIALS_RX",    "PROVISIONING">>,
    <<"PROVISIONING",  "WIFI_CONNECTING",   "CONNECTING">>,
    <<"CONNECTING",    "WIFI_CONNECTED",    "CONNECTED">>,
    <<"CONNECTING",    "WIFI_FAILED",       "IDLE">>,
    <<"CONNECTED",     "WIFI_DISCONNECTED", "IDLE">> }

\* wifi_prov_sm_process_event
ProcessEvent(s, e) ==
  IF e = "FACTORY_RESET" THEN "IDLE"
  ELSE IF \E t \in Transitions : t[1] = s /\ t[2] = e
         THEN (CHOOSE t \in Transitions : t[1] = s /\ t[2] = e)[3]
         ELSE s

\* a credential zeroed by memset, or read back with every key absent
EmptyCred == [ssid |-> None, psk |-> None, sec |-> None]

\* the credential c as a whole
Whole(c) == [ssid |-> c, psk |-> c, sec |-> c]

WorkItems == {"cred", "reset", "auto"}

\* a CHAR_CREDENTIALS write that wifi_prov_msg_decode_credentials rejects
Malformed == "malformed"

\* CHAR_FACTORY_RESET payloads: the 0xFF trigger, or anything else
ResetPayloads == {255, 0}

VARIABLES
  sm,          \* the state machine's current state
  pending,     \* pending_cred (wifi_prov.c), written by BLE, read by cred_work
  stored,      \* stored_cred (wifi_prov_cred.c)
  loaded,      \* cred_loaded
  persisted,   \* the settings keys wifi_prov/ssid, /psk, /sec
  queue,       \* the system work queue: work items in submission order
  autoArmed,   \* auto_connect_work's timer is armed
  wpc,         \* where the worker is in cred_work: "idle", "psk", "sec", "connect"
  link,        \* the driver's link: "down", "connecting", "up"
  scanning,    \* the driver has a scan running
  wevents,     \* driver events not yet handled by the event thread
  ble,         \* the BLE link: "adv" (advertising), "conn" (a phone connected) or "off" (init failed)
  \* history, not program state:
  awaiting,    \* the connected phone wrote credentials and has had no status notification since
  nRx, nScans, nResets, nDrops, nReboots   \* counters of the bounds

vars == <<sm, pending, stored, loaded, persisted, queue, autoArmed, wpc,
          link, scanning, wevents, ble, awaiting, nRx, nScans, nResets, nDrops, nReboots>>

-----------------------------------------------------------------------------
(* load_from_storage: once per boot, overlay every key present in settings *)
(* on the in-memory copy; an absent key leaves its field as it was.        *)
Overlay(mem) ==
  [f \in {"ssid", "psk", "sec"} |->
     IF persisted[f] # None THEN persisted[f] ELSE mem[f]]

LoadFromStorage(mem) == IF loaded THEN mem ELSE Overlay(mem)

\* outcomes of an eai_wifi request: TRUE when it is accepted
Outcomes(req) == IF req \in DriverMayRefuse THEN {TRUE, FALSE} ELSE {TRUE}

(* wifi_prov_start -> wifi_prov_ble_start_advertising (eai_ble_adv_start; *)
(* the app starts it after wifi_prov_init), and on_ble_disconnect.         *)
StartAdvertising == ble' = "adv"

\* whether wifi_prov_init runs to its end
InitResults == IF InitMayFail THEN BOOLEAN ELSE {TRUE}

(* What a power-on leaves: the static variables zeroed, then wifi_prov_init *)
(* and wifi_prov_start.  If init runs to its end, cred_exists() loads the   *)
(* credential and auto-connect is armed when one is stored.  A failing      *)
(* eai_settings_init, wifi init, eai_ble_init or GATT registration returns  *)
(* before that: nothing is loaded or armed, the BLE stack is down and       *)
(* advertising fails (every failure leaves these same observable effects).  *)
Boot ==
  /\ sm' = "IDLE"
  /\ pending' = None
  /\ \E ok \in InitResults :
       /\ stored' = IF ok /\ AutoConnect THEN Overlay(EmptyCred) ELSE EmptyCred
       /\ loaded' = (ok /\ AutoConnect)
       /\ autoArmed' = (ok /\ AutoConnect /\ Overlay(EmptyCred).ssid # None)
       /\ IF ok THEN StartAdvertising ELSE ble' = "off"
  /\ queue' = <<>>
  /\ wpc' = "idle"
  /\ link' = "down"
  /\ scanning' = FALSE
  /\ wevents' = <<>>
  /\ awaiting' = FALSE

Init ==
  /\ persisted = EmptyCred
  /\ sm = "IDLE"
  /\ pending = None
  /\ stored = EmptyCred
  /\ \E ok \in InitResults :
       /\ loaded = (ok /\ AutoConnect)
       /\ ble = IF ok THEN "adv" ELSE "off"
  /\ autoArmed = FALSE
  /\ queue = <<>>
  /\ wpc = "idle"
  /\ link = "down"
  /\ scanning = FALSE
  /\ wevents = <<>>
  /\ awaiting = FALSE
  /\ nRx = 0 /\ nScans = 0 /\ nResets = 0 /\ nDrops = 0 /\ nReboots = 0

-----------------------------------------------------------------------------
\* a submit that queues the item even when the queue is full
SubmitNoCapCheck(item) == queue' = Append(queue, item)

(* eai_osal_work_submit: the item is queued again even when it is pending; *)
(* on a full queue it fails, and every caller here ignores the failure.    *)
Submit(item) ==
  queue' = IF Len(queue) < WorkQueueCap THEN Append(queue, item) ELSE queue

(* eai_wifi_connect accepted: the driver starts joining, dropping any link *)
(* it had; the outcome is raised later as an event.                        *)
Connect(ok) == link' = IF ok THEN "connecting" ELSE link

(* eai_wifi_disconnect: a link up or being joined goes down and the driver *)
(* raises EAI_WIFI_EVT_DISCONNECTED.                                       *)
Disconnect ==
  /\ link' = "down"
  /\ wevents' = IF link = "down" THEN wevents
                ELSE Append(wevents, "disconnected")

(* wifi_prov_ble_notify_status: a status notification reaches the phone  *)
(* if one is connected (else -ENOTCONN, which every caller ignores).       *)
NotifyStatus == awaiting' = (awaiting /\ ble # "conn")

\* ---- BLE host thread: connection callbacks and on_write ----

(* A phone connects to the advertising device (the BLE stack stops        *)
(* advertising).                                                          *)
PhoneConnect ==
  /\ ble = "adv"
  /\ ble' = "conn"
  /\ UNCHANGED <<sm, pending, stored, loaded, persisted, queue, autoArmed, wpc,
                 link, scanning, wevents, awaiting, nRx, nScans, nResets, nDrops,
                 nReboots>>

(* The phone disconnects: on_ble_disconnect restarts advertising. *)
PhoneDisconnect ==
  /\ ble = "conn"
  /\ StartAdvertising
  /\ awaiting' = FALSE
  /\ UNCHANGED <<sm, pending, stored, loaded, persisted, queue, autoArmed, wpc,
                 link, scanning, wevents, nRx, nScans, nResets, nDrops, nReboots>>

(* on_scan_trigger: SCAN_TRIGGER, then wifi_prov_wifi_scan, whose result  *)
(* is ignored.                                                             *)
OnScanTrigger ==
  /\ sm' = ProcessEvent(sm, "SCAN_TRIGGER")
  /\ \E ok \in Outcomes("scan") : scanning' = (scanning \/ ok)

(* on_credentials_received: CREDENTIALS_RX, pending_cred = *cred with no   *)
(* lock, submit cred_work.                                                 *)
OnCredentialsReceived(c) ==
  /\ sm' = ProcessEvent(sm, "CREDENTIALS_RX")
  /\ pending' = c
  /\ awaiting' = TRUE
  /\ Submit("cred")

\* on_factory_reset_triggered: submit factory_reset_work
OnFactoryResetTriggered == Submit("reset")

(* on_write, CHAR_SCAN_TRIGGER: call scan_trigger_cb. *)
OnWriteScanTrigger ==
  /\ ble = "conn"
  /\ nScans < MaxScans
  /\ nScans' = nScans + 1
  /\ OnScanTrigger
  /\ UNCHANGED <<ble, awaiting, pending, stored, loaded, persisted, queue, autoArmed, wpc,
                 link, wevents, nRx, nResets, nDrops, nReboots>>

(* on_write, CHAR_CREDENTIALS: decode into a zeroed struct; a message the  *)
(* decoder rejects is logged and dropped, the phone is not told; else      *)
(* credentials_rx_cb.                                                      *)
OnWriteCredentials(msg) ==
  /\ ble = "conn"
  /\ nRx < MaxRx
  /\ nRx' = nRx + 1
  /\ IF msg = Malformed
       THEN UNCHANGED <<sm, pending, awaiting, queue>>
       ELSE OnCredentialsReceived(msg)
  /\ UNCHANGED <<ble, stored, loaded, persisted, autoArmed, wpc, link, scanning,
                 wevents, nScans, nResets, nDrops, nReboots>>

(* on_write, CHAR_FACTORY_RESET: ignored unless the write is at least one  *)
(* byte and the first is 0xFF; then factory_reset_cb.                      *)
OnWriteFactoryReset(b) ==
  /\ ble = "conn"
  /\ nResets < MaxResets
  /\ nResets' = nResets + 1
  /\ IF b = 255 THEN OnFactoryResetTriggered ELSE UNCHANGED queue
  /\ UNCHANGED <<ble, awaiting, sm, pending, stored, loaded, persisted, autoArmed, wpc,
                 link, scanning, wevents, nRx, nScans, nDrops, nReboots>>

\* ---- system work-queue worker ----

(* cred_work_handler, first part: wifi_prov_cred_store(&pending_cred)      *)
(* copies the whole struct into stored_cred, then persists the SSID.       *)
CredStoreSsid ==
  /\ wpc = "idle"
  /\ queue # <<>> /\ Head(queue) = "cred"
  /\ queue' = Tail(queue)
  /\ stored' = Whole(pending)
  /\ loaded' = TRUE
  /\ persisted' = [persisted EXCEPT !.ssid = pending]
  /\ wpc' = "psk"
  /\ UNCHANGED <<ble, awaiting, sm, pending, autoArmed, link, scanning, wevents,
                 nRx, nScans, nResets, nDrops, nReboots>>

(* ... persists the PSK, reading pending_cred again. *)
CredStorePsk ==
  /\ wpc = "psk"
  /\ persisted' = [persisted EXCEPT !.psk = pending]
  /\ wpc' = "sec"
  /\ UNCHANGED <<ble, awaiting, sm, pending, stored, loaded, queue, autoArmed, link,
                 scanning, wevents, nRx, nScans, nResets, nDrops, nReboots>>

(* ... persists the security byte. *)
CredStoreSec ==
  /\ wpc = "sec"
  /\ persisted' = [persisted EXCEPT !.sec = pending]
  /\ wpc' = "connect"
  /\ UNCHANGED <<ble, awaiting, sm, pending, stored, loaded, queue, autoArmed, link,
                 scanning, wevents, nRx, nScans, nResets, nDrops, nReboots>>

\* cred_work without the WIFI_CONNECTING event
CredConnectNoEvent ==
  /\ wpc = "connect"
  /\ \E ok \in Outcomes("connect") :
       /\ sm' = IF ok THEN sm ELSE ProcessEvent(sm, "WIFI_FAILED")
       /\ Connect(ok)
       /\ IF ok THEN UNCHANGED awaiting ELSE NotifyStatus
  /\ wpc' = "idle"
  /\ UNCHANGED <<ble, pending, stored, loaded, persisted, queue, autoArmed,
                 scanning, wevents, nRx, nScans, nResets, nDrops, nReboots>>

\* cred_work without the status notification of a refused request
CredConnectNoNotify ==
  /\ wpc = "connect"
  /\ \E ok \in Outcomes("connect") :
       /\ sm' = IF ok THEN ProcessEvent(sm, "WIFI_CONNECTING")
                ELSE ProcessEvent(ProcessEvent(sm, "WIFI_CONNECTING"),
                                  "WIFI_FAILED")
       /\ Connect(ok)
  /\ wpc' = "idle"
  /\ UNCHANGED <<ble, awaiting, pending, stored, loaded, persisted, queue,
                 autoArmed, scanning, wevents, nRx, nScans, nResets, nDrops,
                 nReboots>>

(* cred_work_handler, last part: WIFI_CONNECTING, then                     *)
(* wifi_prov_wifi_connect(&pending_cred); a refused request is WIFI_FAILED *)
(* and a status notification.                                              *)
CredConnect ==
  /\ wpc = "connect"
  /\ \E ok \in Outcomes("connect") :
       /\ sm' = IF ok THEN ProcessEvent(sm, "WIFI_CONNECTING")
                ELSE ProcessEvent(ProcessEvent(sm, "WIFI_CONNECTING"),
                                  "WIFI_FAILED")
       /\ Connect(ok)
       /\ IF ok THEN UNCHANGED awaiting ELSE NotifyStatus
  /\ wpc' = "idle"
  /\ UNCHANGED <<ble, pending, stored, loaded, persisted, queue, autoArmed,
                 scanning, wevents, nRx, nScans, nResets, nDrops, nReboots>>

(* wifi_prov_cred_erase: memset stored_cred, then delete the three keys. *)
CredErase ==
  /\ stored' = EmptyCred
  /\ loaded' = TRUE
  /\ persisted' = EmptyCred

(* factory_reset_handler -> wifi_prov_factory_reset: FACTORY_RESET,        *)
(* disconnect, erase.                                                      *)
FactoryReset ==
  /\ wpc = "idle"
  /\ queue # <<>> /\ Head(queue) = "reset"
  /\ queue' = Tail(queue)
  /\ sm' = ProcessEvent(sm, "FACTORY_RESET")
  /\ Disconnect
  /\ CredErase
  /\ NotifyStatus
  /\ UNCHANGED <<ble, pending, autoArmed, wpc, scanning,
                 nRx, nScans, nResets, nDrops, nReboots>>

(* auto_connect_work's timer expires: the item is queued. *)
AutoConnectFire ==
  /\ autoArmed
  /\ autoArmed' = FALSE
  /\ Submit("auto")
  /\ UNCHANGED <<ble, awaiting, sm, pending, stored, loaded, persisted, wpc, link, scanning,
                 wevents, nRx, nScans, nResets, nDrops, nReboots>>

(* auto_connect_handler: wifi_prov_cred_load; without an SSID return;      *)
(* otherwise CREDENTIALS_RX, WIFI_CONNECTING, connect to the loaded        *)
(* credential, WIFI_FAILED if the request is refused.                      *)
AutoConnectWork ==
  /\ wpc = "idle"
  /\ queue # <<>> /\ Head(queue) = "auto"
  /\ queue' = Tail(queue)
  /\ stored' = LoadFromStorage(stored)
  /\ loaded' = TRUE
  /\ IF LoadFromStorage(stored).ssid = None
       THEN UNCHANGED <<sm, link>>
       ELSE \E ok \in Outcomes("connect") :
              LET s2 == ProcessEvent(ProcessEvent(sm, "CREDENTIALS_RX"),
                                     "WIFI_CONNECTING")
              IN /\ sm' = IF ok THEN s2 ELSE ProcessEvent(s2, "WIFI_FAILED")
                 /\ Connect(ok)
  /\ UNCHANGED <<pending, persisted, autoArmed, wpc, scanning, wevents, ble,
                 awaiting, nRx, nScans, nResets, nDrops, nReboots>>


\* ---- WiFi driver and its event thread ----

(* The driver finishes a join: EAI_WIFI_EVT_CONNECTED with the link up, or *)
(* EAI_WIFI_EVT_CONNECT_FAILED with it down.                               *)
DriverConnectDone ==
  /\ link = "connecting"
  /\ \E up \in BOOLEAN :
       /\ link' = IF up THEN "up" ELSE "down"
       /\ wevents' = Append(wevents, IF up THEN "connected" ELSE "failed")
  /\ UNCHANGED <<ble, awaiting, sm, pending, stored, loaded, persisted, queue, autoArmed,
                 wpc, scanning, nRx, nScans, nResets, nDrops, nReboots>>

(* The access point goes away: EAI_WIFI_EVT_DISCONNECTED. *)
DriverDrop ==
  /\ link = "up"
  /\ nDrops < MaxDrops
  /\ nDrops' = nDrops + 1
  /\ link' = "down"
  /\ wevents' = Append(wevents, "disconnected")
  /\ UNCHANGED <<ble, awaiting, sm, pending, stored, loaded, persisted, queue, autoArmed,
                 wpc, scanning, nRx, nScans, nResets, nReboots>>

(* The scan ends: on_scan_done (wifi_prov_wifi.c) calls the orchestrator's *)
(* on_scan_done, which sends SCAN_DONE.                                    *)
DriverScanDone ==
  /\ scanning
  /\ scanning' = FALSE
  /\ sm' = ProcessEvent(sm, "SCAN_DONE")
  /\ UNCHANGED <<ble, awaiting, pending, stored, loaded, persisted, queue, autoArmed, wpc,
                 link, wevents, nRx, nScans, nResets, nDrops, nReboots>>

(* on_wifi_event -> on_wifi_state_changed: connected is WIFI_CONNECTED;    *)
(* disconnected and connect-failed are WIFI_FAILED while the machine is    *)
(* CONNECTING or PROVISIONING, WIFI_DISCONNECTED otherwise.                *)
OnWifiStateChanged ==
  /\ wevents # <<>>
  /\ wevents' = Tail(wevents)
  /\ sm' = IF Head(wevents) = "connected"
             THEN ProcessEvent(sm, "WIFI_CONNECTED")
           ELSE IF sm \in {"CONNECTING", "PROVISIONING"}
             THEN ProcessEvent(sm, "WIFI_FAILED")
           ELSE ProcessEvent(sm, "WIFI_DISCONNECTED")
  /\ NotifyStatus
  /\ UNCHANGED <<ble, pending, stored, loaded, persisted, queue, autoArmed, wpc,
                 link, scanning, nRx, nScans, nResets, nDrops, nReboots>>

\* ---- power ----

(* Power is lost at any point; only the settings keys survive. *)
Reboot ==
  /\ nReboots < MaxReboots
  /\ nReboots' = nReboots + 1
  /\ Boot
  /\ UNCHANGED <<persisted, nRx, nScans, nResets, nDrops>>

Worker ==
  \/ CredStoreSsid \/ CredStorePsk \/ CredStoreSec \/ CredConnect
  \/ FactoryReset
  \/ AutoConnectWork

Next ==
  \/ PhoneConnect \/ PhoneDisconnect
  \/ OnWriteScanTrigger
  \/ \E msg \in Creds \cup {Malformed} : OnWriteCredentials(msg)
  \/ \E b \in ResetPayloads : OnWriteFactoryReset(b)
  \/ Worker
  \/ AutoConnectFire
  \/ DriverConnectDone
  \/ DriverDrop
  \/ DriverScanDone
  \/ OnWifiStateChanged
  \/ Reboot

(* The worker, the event thread and the auto-connect timer run whenever    *)
(* they have work, and the driver eventually answers a join or a scan.     *)
(* BLE writes, access-point drops and power loss need never happen.        *)
Fairness ==
  /\ WF_vars(Worker)
  /\ WF_vars(OnWifiStateChanged)
  /\ WF_vars(AutoConnectFire)
  /\ WF_vars(DriverConnectDone)
  /\ WF_vars(DriverScanDone)

Spec == Init /\ [][Next]_vars /\ Fairness

-----------------------------------------------------------------------------
TypeOK ==
  /\ sm \in States
  /\ pending \in Creds \cup {None}
  /\ stored \in [ssid : Creds \cup {None}, psk : Creds \cup {None},
                 sec : Creds \cup {None}]
  /\ persisted \in [ssid : Creds \cup {None}, psk : Creds \cup {None},
                    sec : Creds \cup {None}]
  /\ loaded \in BOOLEAN /\ autoArmed \in BOOLEAN /\ scanning \in BOOLEAN
  /\ queue \in Seq(WorkItems) /\ Len(queue) <= WorkQueueCap
  /\ wpc \in {"idle", "psk", "sec", "connect"}
  /\ link \in {"down", "connecting", "up"}
  /\ wevents \in Seq({"connected", "failed", "disconnected"})
  /\ ble \in {"adv", "conn", "off"} /\ awaiting \in BOOLEAN

\* no credential write is still to be persisted
CredWorkDone ==
  wpc = "idle" /\ \A i \in 1..Len(queue) : queue[i] # "cred"

(* Once cred_work has finished every credential the phone sent, the        *)
(* in-memory credential (what wifi_prov_cred_load returns) is the one in   *)
(* settings (what the next boot loads), across factory resets, overlapping *)
(* BLE writes of pending_cred and power loss.                              *)
PersistedMatchesMemory ==
  CredWorkDone /\ loaded => stored = persisted

(* A provisioning attempt ends: once CREDENTIALS_RX is accepted the state  *)
(* machine leaves PROVISIONING and CONNECTING (to CONNECTED or IDLE).      *)
ProvisioningResolves ==
  sm \in {"PROVISIONING", "CONNECTING"} ~> sm \notin {"PROVISIONING", "CONNECTING"}

(* A phone that wrote credentials over BLE and stays connected is          *)
(* eventually sent a status notification (wifi_prov_ble_notify_status): of *)
(* a refused connect request in cred_work, of the link's outcome in        *)
(* on_wifi_state_changed, or of a factory reset; whatever scans, resets,   *)
(* further writes, drops and the auto-connect work do in between.          *)
CredentialOutcomeNotified == awaiting ~> ~awaiting

\* nothing is queued, running or in flight
Quiescent ==
  /\ queue = <<>> /\ wpc = "idle" /\ ~autoArmed
  /\ wevents = <<>> /\ link # "connecting" /\ ~scanning

(* Once every request has been answered the state machine is in a resting  *)
(* state and reports CONNECTED exactly when the link is up (the status     *)
(* characteristic a phone reads).                                          *)
SettlesWithLink ==
  Quiescent =>
    /\ sm \in {"IDLE", "SCAN_COMPLETE", "CONNECTED"}
    /\ (sm = "CONNECTED") = (link = "up")

====
