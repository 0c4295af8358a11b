--------------------------------- MODULE Boot ---------------------------------
(***************************************************************************)
(* app_main of main.c, from the start of WiFi to the first search for the  *)
(* breaker, beside the event task that keeps WiFi connected, the web and   *)
(* MQTT tasks, which take commands as soon as they are started, and the    *)
(* Bluetooth task.                                                         *)
(*                                                                         *)
(* What the client does once it searches is TuyaBleClient; here its state  *)
(* is DISCONNECTED or CONNECTING.  A scan whose parameters were set is      *)
(* started without an error.                                               *)
(***************************************************************************)
EXTENDS Naturals, Sequences

\* The tasks that bring commands, and those that call tuya_ble_client_connect.
Users == {"web", "mqtt"}
Callers == Users \union {"main"}

VARIABLES
    \* --- WiFi ---
    station,            \* the driver: "off", "idle", "trying" or "up"
    wifi_events,        \* posted, not yet handled
    connected_bit,      \* WIFI_CONNECTED_BIT
    \* --- app_main ---
    stage,              \* what it does next, "running" or "stopped"
    served,             \* the users whose server was started
    bluedroid_enabled,
    gap_registered,
    \* --- the client ---
    g_state,
    calls,              \* the tasks inside tuya_ble_client_connect, past its checks
    scan,               \* "none", "params" (event due) or "on"
    \* --- history ---
    early               \* a user's task called connect before the client could search

wifi == <<station, wifi_events, connected_bit>>
boot == <<stage, served, bluedroid_enabled, gap_registered>>
client == <<g_state, calls, scan, early>>
vars == <<wifi, boot, client>>

Stages == {"init_wifi", "wait_wifi", "waiting", "web", "mqtt", "bluetooth", "gattc", "gap",
           "timer", "connect", "running", "stopped"}

TypeOK ==
    /\ station \in {"off", "idle", "trying", "up"}
    /\ wifi_events \in Seq({"START", "DISCONNECTED", "GOT_IP"}) /\ Len(wifi_events) <= 2
    /\ connected_bit \in BOOLEAN
    /\ stage \in Stages
    /\ served \subseteq Users
    /\ bluedroid_enabled \in BOOLEAN /\ gap_registered \in BOOLEAN
    /\ g_state \in {"DISCONNECTED", "CONNECTING"}
    /\ calls \subseteq Callers
    /\ scan \in {"none", "params", "on"}
    /\ early \in BOOLEAN

Init ==
    /\ station = "off" /\ wifi_events = <<>> /\ connected_bit = FALSE
    /\ stage = "init_wifi" /\ served = {}
    /\ bluedroid_enabled = FALSE /\ gap_registered = FALSE
    /\ g_state = "DISCONNECTED" /\ calls = {} /\ scan = "none"
    /\ early = FALSE

-----------------------------------------------------------------------------
(* WiFi: the driver (external) and wifi_event_handler.                     *)

Associate ==
    /\ station = "trying"
    /\ station' = "up"
    /\ wifi_events' = Append(wifi_events, "GOT_IP")
    /\ UNCHANGED <<connected_bit, boot, client>>

\* The attempt fails, or the association ends.
Dissociate ==
    /\ station \in {"trying", "up"}
    /\ station' = "idle"
    /\ wifi_events' = Append(wifi_events, "DISCONNECTED")
    /\ UNCHANGED <<connected_bit, boot, client>>

\* What esp_wifi_connect does; the second is a handler that does not call it.
StayIdle == station
Connecting == "trying"

\* What the bit becomes with a DISCONNECTED event, and left as it is.
BitKept == connected_bit
BitCleared == FALSE

Handle(event) ==
    /\ wifi_events # <<>> /\ Head(wifi_events) = event
    /\ wifi_events' = Tail(wifi_events)
    /\ UNCHANGED client

OnStart ==
    /\ Handle("START")
    /\ station' = "trying"
    /\ UNCHANGED <<connected_bit, boot>>

OnDisconnected ==
    /\ Handle("DISCONNECTED")
    /\ station' = Connecting
    /\ connected_bit' = BitCleared
    /\ UNCHANGED boot

\* Setting the bit wakes the task that waits for it, also if the bit is cleared again
\* before that task runs; and a bit nobody waits for.
NotWoken == stage
Woken == IF stage = "waiting" THEN "web" ELSE stage

OnGotIp ==
    /\ Handle("GOT_IP")
    /\ connected_bit' = TRUE
    /\ stage' = Woken
    /\ UNCHANGED <<station, served, bluedroid_enabled, gap_registered>>

-----------------------------------------------------------------------------
(* tuya_ble_client_connect, called by main or for a command.               *)

\* The call finds DISCONNECTED ...
ConnectCheck(t) ==
    /\ t \notin calls
    /\ g_state = "DISCONNECTED"
    /\ calls' = calls \union {t}
    /\ early' = (early \/ (t \in Users /\ ~gap_registered))
    /\ UNCHANGED <<g_state, scan>>

\* ... and announces the search.  Before Bluedroid is enabled the parameters are
\* refused; the error is logged only.
ConnectScan(t) ==
    /\ t \in calls
    /\ calls' = calls \ {t}
    /\ g_state' = "CONNECTING"
    /\ scan' = IF bluedroid_enabled /\ scan = "none" THEN "params" ELSE scan
    /\ UNCHANGED <<wifi, boot, early>>

\* send_switch_command or web_connect_callback of a bridge that is not READY; a
\* command is queued whatever the state is.
Command(t) ==
    /\ t \in served
    /\ ConnectCheck(t)
    /\ UNCHANGED <<wifi, boot>>

\* ESP_GAP_BLE_SCAN_PARAM_SET_COMPLETE_EVT: without the callback nobody sees it.
ScanParamsSet ==
    /\ scan = "params"
    /\ scan' = IF gap_registered THEN "on" ELSE "none"
    /\ UNCHANGED <<wifi, boot, g_state, calls, early>>

-----------------------------------------------------------------------------
(* app_main.                                                               *)

Step(from, to) == stage = from /\ stage' = to

\* wifi_init_sta; the driver reports that it started.  The second would connect
\* without waiting for that event.
ConnectAtOnce == "trying"
Started == "idle"

InitWifi ==
    /\ Step("init_wifi", "wait_wifi")
    /\ station' = Started
    /\ wifi_events' = <<"START">>
    /\ UNCHANGED <<connected_bit, served, bluedroid_enabled, gap_registered, client>>

\* The bit is set already, or main waits for it.
WaitWifi ==
    /\ Step("wait_wifi", IF connected_bit THEN "web" ELSE "waiting")
    /\ UNCHANGED <<wifi, served, bluedroid_enabled, gap_registered, client>>

\* web_server_start, then mqtt_ha_init.  Either may fail: the result is not looked at.
StartServer(t, next) ==
    /\ Step(t, next)
    /\ served' \in {served, served \union {t}}
    /\ UNCHANGED <<wifi, bluedroid_enabled, gap_registered, client>>

StartWeb == StartServer("web", "mqtt")
StartMqtt == StartServer("mqtt", "bluetooth")

\* The four calls that bring Bluetooth up.
EnableBluetooth ==
    /\ Step("bluetooth", "gattc")
    /\ bluedroid_enabled' = TRUE
    /\ UNCHANGED <<wifi, served, gap_registered, client>>

\* What tuya_ble_client_init does after its GATT callback, and one that forgets the
\* GAP callback.
GapForgotten == "timer"
GapNext == "gap"

RegisterGattc ==
    /\ Step("gattc", GapNext)
    /\ UNCHANGED <<wifi, served, bluedroid_enabled, gap_registered, client>>

RegisterGap ==
    /\ Step("gap", "timer")
    /\ gap_registered' = TRUE
    /\ UNCHANGED <<wifi, served, bluedroid_enabled, client>>

\* Any of them fails, or the MAC address is not one: app_main returns.
Stop ==
    /\ stage \in {"bluetooth", "gattc", "gap"}
    /\ stage' = "stopped"
    /\ UNCHANGED <<wifi, served, bluedroid_enabled, gap_registered, client>>

CreateTimer ==
    /\ Step("timer", "connect")
    /\ UNCHANGED <<wifi, served, bluedroid_enabled, gap_registered, client>>

\* The first connect, and its return when somebody else connects already.
MainConnect ==
    /\ Step("connect", "running")
    /\ IF g_state = "DISCONNECTED" THEN ConnectCheck("main") ELSE UNCHANGED client
    /\ UNCHANGED <<wifi, served, bluedroid_enabled, gap_registered>>

AppMain ==
    \/ InitWifi \/ WaitWifi \/ StartWeb \/ StartMqtt \/ EnableBluetooth
    \/ RegisterGattc \/ RegisterGap \/ Stop \/ CreateTimer \/ MainConnect

EventTask == OnStart \/ OnDisconnected \/ OnGotIp

Next ==
    \/ Associate \/ Dissociate \/ EventTask
    \/ \E t \in Callers : Command(t) \/ ConnectScan(t)
    \/ ScanParamsSet
    \/ AppMain

Spec == Init /\ [][Next]_vars

\* Tasks run, and an access point that is tried again and again takes the station.
\* Nothing makes a user give a command.
Fairness ==
    /\ WF_vars(AppMain)
    /\ WF_vars(EventTask)
    /\ SF_vars(Associate)
    /\ WF_vars(ScanParamsSet)
    /\ \A t \in Callers : WF_vars(ConnectScan(t))

LiveSpec == Spec /\ Fairness

-----------------------------------------------------------------------------
(* Properties.                                                             *)

\* When the events are handled, the bit says whether the station is up.
BitIsTheStation == wifi_events = <<>> => (connected_bit <=> station = "up")

\* A station that is down is tried again.
KeepsTrying == station = "idle" ~> station = "trying"

\* app_main gets through its steps, whatever WiFi does before and after.
BootFinishes == <>(stage \in {"running", "stopped"})

\* A bridge that has booted searches for the breaker, unless a command came before
\* the client could: that one takes the state to CONNECTING, where it stays.  (Only
\* web_disconnect_callback would undo that; the button is left out here.)
SearchesUnlessEarly == stage = "running" ~> scan = "on" \/ early

\* A bridge that has booted searches for the breaker.
BootSearches == stage = "running" ~> scan = "on"
=============================================================================
