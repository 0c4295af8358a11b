---------------------------- MODULE TuyaBleClient ----------------------------
(***************************************************************************)
(* tuya_ble_client.c: the connection to the breaker, from the scan to the  *)
(* end of the Tuya handshake.                                              *)
(*                                                                         *)
(* Two kinds of tasks run this code without a lock.  Application tasks     *)
(* (web server, MQTT client, esp_timer, app_main) call connect, disconnect,*)
(* stop and resume.  The BTC task of Bluedroid runs the GAP and GATT event *)
(* handlers one at a time, in the order the events happened; a handler may *)
(* sleep (vTaskDelay) and then later events wait.  A call or a handler is  *)
(* one step up to the point where another task can observe or change what  *)
(* it goes on to use, and a second step from there.                        *)
(*                                                                         *)
(* The BLE stack and the device are external: link, closing, scanning,     *)
(* searching, ccc_pending, requests and answered hold what the events      *)
(* delivered so far let the stack do next.  An event can be delivered      *)
(* whenever they allow it, so every delay and order the stack and the      *)
(* device can produce is a behaviour.                                      *)
(***************************************************************************)
EXTENDS Naturals

CONSTANTS
    Apps,           \* application tasks that call the client
    Ops,            \* the calls they make: subset of the four names below
    Faults,         \* what may fail: "params" (set_scan_params refused),
                    \* "scan" (the scan does not start), "open" (gattc_open
                    \* refused), "chars" (a Tuya characteristic is missing),
                    \* "ccc" (the CCC write fails), "build" (a request cannot
                    \* be built), "answer" (an answer is malformed,
                    \* undecryptable or negative)
    MaxServices,    \* MAX_DISCOVERED_SERVICES
    MaxConns,       \* bound: links established in a behaviour
    MaxScanReqs     \* bound: scan requests the stack has not confirmed yet

ASSUME OpsAssumption == Ops \subseteq {"connect", "disconnect", "stop", "resume"}
ASSUME FaultsAssumption ==
    Faults \subseteq {"params", "scan", "open", "chars", "ccc", "build", "answer"}
ASSUME BoundsAssumption ==
    MaxServices \in Nat /\ MaxConns \in Nat /\ MaxScanReqs \in Nat

VARIABLES
    \* --- globals of tuya_ble_client.c ---
    g_state,            \* tuya_connection_state_t
    g_ble_stopped,
    g_smp_paired,
    g_service_count,    \* entries of g_services in use
    tuya_listed,        \* one of them is the Tuya service 0x1910
    g_write_handle,     \* 0, or the number of the link it was discovered on
    g_notify_handle,    \* likewise
    g_session_key,      \* number of the link whose srand it was derived from
    g_has_session_key,
    \* --- where each task is ---
    app,                \* application task -> call in progress, or "idle"
    btc,                \* BTC task: "idle", or what a handler has still to do
    \* --- BLE stack and device ---
    link,               \* "down", "opening" or "up", as told by the events
    closing,            \* gattc_close has been accepted for this link
    conn,               \* number of the present or last link
    scan_reqs,          \* set_scan_params calls not confirmed yet
    scanning,
    searching,          \* a service search runs or its completion is queued
    ccc_pending,        \* the CCC write is not confirmed yet
    requests,           \* handshake requests the device got on this link
    answered            \* kinds of request it has answered

client == <<g_state, g_ble_stopped, g_smp_paired, g_service_count, tuya_listed,
            g_write_handle, g_notify_handle, g_session_key, g_has_session_key>>
gatt   == <<g_smp_paired, g_service_count, tuya_listed, g_write_handle,
            g_notify_handle>>
keys   == <<g_session_key, g_has_session_key>>
scan   == <<scan_reqs, scanning>>
gap    == <<link, closing, conn>>
device == <<searching, ccc_pending, requests, answered>>

vars == <<client, app, btc, gap, scan, device>>

States == {"DISCONNECTED", "CONNECTING", "CONNECTED", "SMP_PAIRING",
           "DISCOVERING_SERVICES", "GETTING_DEVICE_INFO", "PAIRING",
           "PAIRED", "READY"}

Request == [kind : {"info", "pair"}, handle : Nat, key : Nat]

TypeOK ==
    /\ g_state \in States
    /\ g_ble_stopped \in BOOLEAN
    /\ g_smp_paired \in BOOLEAN
    /\ g_service_count \in 0..MaxServices
    /\ tuya_listed \in BOOLEAN
    /\ g_write_handle \in 0..conn
    /\ g_notify_handle \in 0..conn
    /\ g_session_key \in 0..conn
    /\ g_has_session_key \in BOOLEAN
    /\ app \in [Apps -> {"idle", "connect", "disconnect"}]
    /\ btc \in {"idle", "seen", "found", "ccc", "key", "clear"}
    /\ link \in {"down", "opening", "up"}
    /\ closing \in BOOLEAN
    /\ conn \in 0..MaxConns
    /\ scan_reqs \in Nat
    /\ scanning \in BOOLEAN
    /\ searching \in BOOLEAN
    /\ ccc_pending \in BOOLEAN
    /\ requests \subseteq Request
    /\ answered \subseteq {"info", "pair"}

Init ==
    /\ g_state = "DISCONNECTED"
    /\ g_ble_stopped = FALSE
    /\ g_smp_paired = FALSE
    /\ g_service_count = 0
    /\ tuya_listed = FALSE
    /\ g_write_handle = 0
    /\ g_notify_handle = 0
    /\ g_session_key = 0
    /\ g_has_session_key = FALSE
    /\ app = [t \in Apps |-> "idle"]
    /\ btc = "idle"
    /\ link = "down"
    /\ closing = FALSE
    /\ conn = 0
    /\ scan_reqs = 0
    /\ scanning = FALSE
    /\ searching = FALSE
    /\ ccc_pending = FALSE
    /\ requests = {}
    /\ answered = {}

-----------------------------------------------------------------------------
(* Calls made by application tasks.                                        *)

\* The two early returns of tuya_ble_client_connect; a call that takes one
\* changes nothing.
ConnectCheck(t) ==
    /\ "connect" \in Ops
    /\ app[t] = "idle"
    /\ scan_reqs < MaxScanReqs
    /\ ~g_ble_stopped
    /\ g_state = "DISCONNECTED"
    /\ app' = [app EXCEPT ![t] = "connect"]
    /\ UNCHANGED <<client, btc, gap, scan, device>>

\* The rest of the call.  When set_scan_params is refused the state just
\* written stays.
ConnectScan(t) ==
    /\ app[t] = "connect"
    /\ g_state' = "CONNECTING"
    /\ \/ scan_reqs' = scan_reqs + 1
       \/ "params" \in Faults /\ UNCHANGED scan_reqs
    /\ app' = [app EXCEPT ![t] = "idle"]
    /\ UNCHANGED <<g_ble_stopped, gatt, keys, btc, gap, scanning, device>>

\* esp_ble_gattc_close(g_conn_id): g_conn_id names the link only once its
\* CONNECT event was handled.  Before that it is a number of the past, which
\* the stack may or may not have given to the link being opened.
CloseLink ==
    \/ link = "up" /\ closing' = TRUE
    \/ link = "opening" /\ closing' \in {closing, TRUE}
    \/ link = "down" /\ UNCHANGED closing

\* tuya_ble_client_disconnect up to the set_state that ends it.
DisconnectClose(t) ==
    /\ "disconnect" \in Ops
    /\ app[t] = "idle"
    /\ g_state # "DISCONNECTED"
    /\ scanning' = FALSE
    /\ CloseLink
    /\ app' = [app EXCEPT ![t] = "disconnect"]
    /\ UNCHANGED <<client, btc, link, conn, scan_reqs, device>>

DisconnectSet(t) ==
    /\ app[t] = "disconnect"
    /\ g_state' = "DISCONNECTED"
    /\ app' = [app EXCEPT ![t] = "idle"]
    /\ UNCHANGED <<g_ble_stopped, gatt, keys, btc, gap, scan, device>>

\* tuya_ble_client_stop up to the set_state that ends it (DisconnectSet too).
StopClose(t) ==
    /\ "stop" \in Ops
    /\ app[t] = "idle"
    /\ g_ble_stopped' = TRUE
    /\ scanning' = FALSE
    /\ IF g_state # "DISCONNECTED" THEN CloseLink ELSE UNCHANGED closing
    /\ app' = [app EXCEPT ![t] = "disconnect"]
    /\ UNCHANGED <<g_state, gatt, keys, btc, link, conn, scan_reqs, device>>

Resume(t) ==
    /\ "resume" \in Ops
    /\ app[t] = "idle"
    /\ g_ble_stopped' = FALSE
    /\ UNCHANGED <<g_state, gatt, keys, app, btc, gap, scan, device>>

-----------------------------------------------------------------------------
(* GAP events, handled by the BTC task.                                    *)

\* ESP_GAP_BLE_SCAN_PARAM_SET_COMPLETE_EVT: the scan is started for whatever
\* state the client is in by now.
ScanParamsSet ==
    /\ btc = "idle"
    /\ scan_reqs > 0
    /\ scan_reqs' = scan_reqs - 1
    /\ \/ scanning' = TRUE
       \/ "scan" \in Faults /\ UNCHANGED scanning
    /\ UNCHANGED <<client, app, btc, gap, device>>

\* ESP_GAP_BLE_SCAN_RESULT_EVT of the target while the state is CONNECTING, up
\* to that test.  A device with a link that is up does not advertise.
ScanResult ==
    /\ btc = "idle"
    /\ scanning
    /\ link # "up"
    /\ g_state = "CONNECTING"
    /\ btc' = "seen"
    /\ UNCHANGED <<client, app, gap, scan, device>>

\* After the advertisement was parsed and logged the state is written ("Prevent
\* duplicate connect"), over whatever a call made of it meanwhile.
AnnounceFound ==
    /\ btc = "seen"
    /\ g_state' = "CONNECTED"
    /\ btc' = "found"
    /\ UNCHANGED <<g_ble_stopped, gatt, keys, app, gap, scan, device>>

\* The rest of that handler: stop_scanning and gattc_open, whose result is
\* ignored.
OpenTarget ==
    /\ btc = "found"
    /\ scanning' = FALSE
    /\ \/ link' = "opening"
       \/ "open" \in Faults /\ UNCHANGED link
    /\ btc' = "idle"
    /\ UNCHANGED <<client, app, closing, conn, scan_reqs, device>>

\* ESP_GAP_BLE_AUTH_CMPL_EVT with success, after a security request of the
\* device.  The state is never SMP_PAIRING, so discovery is not started here.
AuthCmpl ==
    /\ btc = "idle"
    /\ link = "up"
    /\ g_smp_paired' = TRUE
    /\ UNCHANGED <<g_state, g_ble_stopped, g_service_count, tuya_listed,
                   g_write_handle, g_notify_handle, keys, app, btc, gap, scan,
                   device>>

-----------------------------------------------------------------------------
(* GATT events, handled by the BTC task.                                   *)

\* ESP_GATTC_CONNECT_EVT.  Neither g_state nor g_ble_stopped is looked at.
Connected ==
    /\ btc = "idle"
    /\ link = "opening"
    /\ ~searching
    /\ conn < MaxConns
    /\ link' = "up"
    /\ conn' = conn + 1
    /\ g_smp_paired' = FALSE /\ g_service_count' = 0 /\ tuya_listed' = FALSE
    /\ g_state' = "DISCOVERING_SERVICES"
    /\ searching' = TRUE
    /\ UNCHANGED <<g_ble_stopped, g_write_handle, g_notify_handle, keys, app,
                   btc, closing, scan, ccc_pending, requests, answered>>

\* set_state of the DISCONNECT handler (line 665), and without it.
ReportDownDropped == UNCHANGED g_state
ReportDown == g_state' = "DISCONNECTED"

\* ESP_GATTC_DISCONNECT_EVT, for a link that was lost or closed and for one
\* that could not be opened, up to the end of the state callback.  A search
\* that was running may still report its completion.
Disconnected ==
    /\ btc = "idle"
    /\ link # "down"
    /\ link' = "down"
    /\ closing' = FALSE
    /\ ReportDown
    /\ searching' \in {FALSE, searching}
    /\ ccc_pending' = FALSE
    /\ requests' = {}
    /\ answered' = {}
    /\ btc' = "clear"
    /\ UNCHANGED <<g_ble_stopped, gatt, keys, app, conn, scan>>

\* What it clears, and each part forgotten.
ClearHandlesDropped == UNCHANGED <<g_write_handle, g_notify_handle>>
ClearHandles == g_write_handle' = 0 /\ g_notify_handle' = 0

ClearDiscoveryDropped ==
    g_smp_paired' = FALSE /\ UNCHANGED <<g_service_count, tuya_listed>>
ClearDiscovery ==
    g_smp_paired' = FALSE /\ g_service_count' = 0 /\ tuya_listed' = FALSE

\* The rest of that handler; the value of g_session_key stays.
ClearSession ==
    /\ btc = "clear"
    /\ ClearHandles
    /\ g_has_session_key' = FALSE
    /\ ClearDiscovery
    /\ btc' = "idle"
    /\ UNCHANGED <<g_state, g_ble_stopped, g_session_key, app, gap, scan, device>>

\* g_services has room for one more entry; off by one.
RoomOffByOne == g_service_count <= MaxServices
Room == g_service_count < MaxServices

\* ESP_GATTC_SEARCH_RES_EVT for a service that is (tuya) or is not 0x1910;
\* a service that finds g_services full is dropped.
SearchRes(tuya) ==
    /\ btc = "idle"
    /\ searching
    /\ link = "up"
    /\ Room
    /\ tuya => ~tuya_listed
    /\ g_service_count' = g_service_count + 1
    /\ tuya_listed' = (tuya_listed \/ tuya)
    /\ UNCHANGED <<g_state, g_ble_stopped, g_smp_paired, g_write_handle,
                   g_notify_handle, keys, app, btc, gap, scan, device>>

\* Whether a characteristic of the Tuya service is found on this link.
MayFind == IF tuya_listed /\ link = "up"
           THEN {TRUE} \union (IF "chars" \in Faults THEN {FALSE} ELSE {})
           ELSE {FALSE}

\* ESP_GATTC_SEARCH_CMPL_EVT and enumerate_all_characteristics: the handles
\* are taken from the Tuya service, and notifications are switched on if
\* there is a notify handle by then.
SearchCmpl ==
    /\ btc = "idle"
    /\ searching
    /\ searching' = FALSE
    /\ \E write, notify \in MayFind :
          /\ g_write_handle' = IF write THEN conn ELSE g_write_handle
          /\ g_notify_handle' = IF notify THEN conn ELSE g_notify_handle
    /\ ccc_pending' = (g_service_count > 0 /\ g_notify_handle' # 0 /\ link = "up")
    /\ UNCHANGED <<g_state, g_ble_stopped, g_smp_paired, g_service_count,
                   tuya_listed, keys, app, btc, gap, scan, requests, answered>>

\* ESP_GATTC_WRITE_DESCR_EVT, up to the 500 ms pause.
WriteDescr ==
    /\ btc = "idle"
    /\ ccc_pending
    /\ ccc_pending' = FALSE
    /\ \/ btc' = IF g_write_handle # 0 /\ g_notify_handle # 0
                 THEN "ccc" ELSE "idle"
       \/ "ccc" \in Faults /\ UNCHANGED btc
    /\ UNCHANGED <<client, app, gap, scan, searching, requests, answered>>

\* send_device_info_request: every fragment, then the state.
SendDeviceInfo ==
    /\ btc = "ccc"
    /\ requests' = requests \union
          {[kind |-> "info", handle |-> g_write_handle, key |-> 0]}
    /\ g_state' = "GETTING_DEVICE_INFO"
    /\ btc' = "idle"
    /\ UNCHANGED <<g_ble_stopped, gatt, keys, app, gap, scan, searching,
                   ccc_pending, answered>>

\* Either of the two requests cannot be built: it returns, nothing is sent and
\* the state stays.
BuildFails ==
    /\ btc \in {"ccc", "key"}
    /\ "build" \in Faults
    /\ btc' = "idle"
    /\ UNCHANGED <<client, app, gap, scan, device>>

Asked(kind) ==
    /\ \E r \in requests : r.kind = kind
    /\ kind \notin answered
    /\ answered' = answered \union {kind}

\* The session key of this link (lines 455-456), and without its flag.
SetSessionKeyNoFlag == g_session_key' = conn /\ UNCHANGED g_has_session_key
SetSessionKey == g_session_key' = conn /\ g_has_session_key' = TRUE

\* ESP_GATTC_NOTIFY_EVT completing an answer to DEVICE_INFO, up to the 100 ms
\* pause of process_response.
NotifyInfo ==
    /\ btc = "idle"
    /\ Asked("info")
    /\ SetSessionKey
    /\ g_state' = "GETTING_DEVICE_INFO"
    /\ btc' = "key"
    /\ UNCHANGED <<g_ble_stopped, gatt, app, gap, scan, searching, ccc_pending,
                   requests>>

\* send_pair_request: every fragment, then the state.
SendPair ==
    /\ btc = "key"
    /\ requests' = requests \union
          {[kind |-> "pair", handle |-> g_write_handle, key |-> g_session_key]}
    /\ g_state' = "PAIRING"
    /\ btc' = "idle"
    /\ UNCHANGED <<g_ble_stopped, gatt, keys, app, gap, scan, searching,
                   ccc_pending, answered>>

\* A PAIR answer with result 0 or 2.
NotifyPair ==
    /\ btc = "idle"
    /\ Asked("pair")
    /\ g_state' = "READY"
    /\ UNCHANGED <<g_ble_stopped, gatt, keys, app, btc, gap, scan, searching,
                   ccc_pending, requests>>

\* An answer process_response rejects: too short, a flag it does not know, a
\* payload that does not decrypt, or a PAIR result other than 0 and 2.
NotifyRejected ==
    /\ btc = "idle"
    /\ "answer" \in Faults
    /\ \E kind \in {"info", "pair"} : Asked(kind)
    /\ UNCHANGED <<client, app, btc, gap, scan, searching, ccc_pending, requests>>

-----------------------------------------------------------------------------
AppStep(t) ==
    \/ ConnectCheck(t) \/ ConnectScan(t)
    \/ DisconnectClose(t) \/ DisconnectSet(t)
    \/ StopClose(t) \/ Resume(t)

GapEvent ==
    ScanParamsSet \/ ScanResult \/ AnnounceFound \/ OpenTarget \/ AuthCmpl

GattEvent ==
    \/ Connected \/ Disconnected \/ ClearSession
    \/ (\E tuya \in BOOLEAN : SearchRes(tuya)) \/ SearchCmpl
    \/ WriteDescr \/ SendDeviceInfo \/ BuildFails
    \/ NotifyInfo \/ SendPair \/ NotifyPair \/ NotifyRejected

Next == (\E t \in Apps : AppStep(t)) \/ GapEvent \/ GattEvent

Spec == Init /\ [][Next]_vars

\* Every task gets the processor, and the stack reports what it was asked for:
\* the end of a scan request, of a search, of a write, of an open or a close.
\* Nothing is assumed about the device or the radio.
StackFairness ==
    /\ \A t \in Apps : WF_vars(ConnectScan(t)) /\ WF_vars(DisconnectSet(t))
    /\ WF_vars(ScanParamsSet)
    /\ WF_vars(AnnounceFound) /\ WF_vars(OpenTarget) /\ WF_vars(ClearSession)
    /\ WF_vars(SendDeviceInfo) /\ WF_vars(SendPair)
    /\ WF_vars(SearchCmpl) /\ WF_vars(WriteDescr)
    /\ WF_vars((link = "opening" \/ closing) /\ (Connected \/ Disconnected))

\* The device is in range and powered, so that a running scan meets it.
DeviceInRange == WF_vars(ScanResult)

\* The breaker drops a link by itself after about 30 s
\* (docs/TECHNICAL_OVERVIEW.md:304).
DeviceDropsLink == WF_vars(Disconnected)

LiveSpec == Spec /\ StackFairness /\ DeviceInRange /\ DeviceDropsLink

-----------------------------------------------------------------------------
(* Properties.                                                             *)

Handshaking == {"GETTING_DEVICE_INFO", "PAIRING"}

\* A state that claims a link is backed by one, and a state that claims a
\* session is backed by a key and a write handle that belong to the present
\* link, whatever calls interleave with the events and however many links
\* came before (set_state, process_response and the DISCONNECT handler).
StateIsBacked ==
    /\ g_state \in Handshaking \union {"DISCOVERING_SERVICES", "READY"}
          => link = "up"
    /\ g_state \in {"PAIRING", "READY"} =>
          /\ g_has_session_key
          /\ g_session_key = conn
          /\ g_write_handle = conn

\* Every request the device receives on a link goes to the handle discovered
\* on that link, and the PAIR request is encrypted with the key derived from
\* that link's srand: nothing kept from an earlier link is used although
\* g_session_key itself is never cleared.
HandshakeUsesThisLink ==
    \A r \in requests :
        /\ r.handle = conn
        /\ r.kind = "pair" => r.key = conn

\* Once the DISCONNECT handler has run nothing of the session is left, also
\* while a late search completion is still to come: no handles, no usable
\* key, no services.
NoLeftovers ==
    link # "up" /\ btc \in {"idle", "seen", "found"} =>
        /\ g_write_handle = 0 /\ g_notify_handle = 0
        /\ ~g_has_session_key /\ ~g_smp_paired
        /\ g_service_count = 0 /\ ~tuya_listed

\* No attempt gets stuck: from every state the client comes to READY or back
\* to DISCONNECTED, where the reconnect timer can act.
AttemptResolves ==
    (g_state # "READY") ~> (g_state \in {"READY", "DISCONNECTED"})

\* The public state follows the abstract life cycle.
Phase ==
    IF link # "up" THEN "none"
    ELSE IF \E r \in requests : r.kind = "pair" THEN "pair"
    ELSE IF g_has_session_key THEN "key"
    ELSE IF \E r \in requests : r.kind = "info" THEN "info"
    ELSE "none"

LinkSeen == IF btc = "found" /\ link = "down" THEN "found" ELSE link

Lifecycle == INSTANCE BleLifecycle
    WITH link <- LinkSeen, phase <- Phase, sighted <- (btc = "seen")

\* TuyaBleClient implements BleLifecycle: READY is reached only through the
\* three handshake steps, in order, on the link that is up.
LifecycleSpec == Lifecycle!Spec
=============================================================================
