-------------------------- MODULE BridgeController --------------------------
(***************************************************************************)
(* main.c: the bridge between its users (web dashboard, MQTT), the BLE     *)
(* client and the reconnect timer, with the part of mqtt_ha.c that tells   *)
(* the broker whether the switch is available.                             *)
(*                                                                         *)
(* Five tasks share plain globals without a lock:                          *)
(*   web    httpd: the connect, disconnect and switch buttons              *)
(*   mqtt   the MQTT client task: commands, broker connection events       *)
(*   timer  esp_timer: reconnect_timer_cb                                  *)
(*   main   app_main: the first connect                                    *)
(*   btc    Bluetooth: the BLE events and the callbacks they make          *)
(* Each works through one call at a time; a step of the model is what it   *)
(* does between two reads or writes of something another task uses.        *)
(*                                                                         *)
(* The BLE client appears as its abstract life cycle, BleLifecycle, which  *)
(* TuyaBleClient implements.                                               *)
(***************************************************************************)
EXTENDS Naturals

CONSTANTS
    Ops,        \* what users and the broker do: subset of the five names below
    MinDelay,   \* RECONNECT_DELAY_MIN_MS
    MaxDelay,   \* RECONNECT_DELAY_MAX_MS
    MaxAsks     \* bound: switch commands in a behaviour

ASSUME OpsAssumption ==
    Ops \subseteq {"web_switch", "mqtt_switch", "web_connect",
                   "web_disconnect", "broker_drop"}
ASSUME DelayAssumption ==
    /\ MinDelay \in Nat /\ MaxDelay \in Nat
    /\ 0 < MinDelay /\ MinDelay <= MaxDelay
ASSUME AsksAssumption == MaxAsks \in Nat

VARIABLES
    \* --- BLE client, see BleLifecycle ---
    g_state, link, phase, sighted,
    \* --- globals of main.c ---
    g_manual_disconnect,
    g_pending_command,
    g_pending_command_on,   \* a switch value
    g_reconnect_delay,
    \* --- esp_timer ---
    armed,          \* delay the reconnect timer was started with, 0 if stopped
    \* --- mqtt_ha.c and the broker ---
    s_connected,
    availability,   \* what the broker retains on the availability topic
    renewed,        \* history: the broker connection was announced (mqtt_ha.c:99)
                    \* after the bridge became READY
    \* --- tasks ---
    pc,             \* task -> next step of the call it is in, or "idle"
    arg,            \* task -> the `on` of the switch command it handles
    saw_down,       \* task -> it read DISCONNECTED (main.c:176)
    \* --- history ---
    asked,          \* value -> commands received from users
    sent            \* value -> commands the device got

ble  == <<g_state, link, phase, sighted>>
cmd  == <<g_pending_command, g_pending_command_on>>
mqtt == <<s_connected, availability, renewed>>
hist == <<asked, sent>>
frame == <<arg, saw_down>>      \* locals: as in Init when out of use
flags == <<g_manual_disconnect, g_reconnect_delay, armed>>

vars == <<ble, cmd, flags, mqtt, pc, frame, hist>>

Ble == INSTANCE BleLifecycle

\* The two values of the `on` of a switch command.
Values == {"on", "off"}

Users == {"web", "mqtt"}
Tasks == {"web", "mqtt", "timer", "main", "btc"}

\* Steps of a call, named for what the task does next.
Steps == {"idle",
          "queue_flag", "queue_value", "override",    \* send_switch_command
          "send", "write",                            \* tuya_ble_send_...
          "connect", "seek",                          \* tuya_ble_client_connect
          "web_read", "web_stop_timer", "web_close", "web_down",
          "pub_down", "may_retry", "arm", "double", "cap",  \* DISCONNECTED
          "pub_ready", "take", "take_value",                \* READY
          "pub_offline"}                              \* MQTT_EVENT_CONNECTED

TypeOK ==
    /\ g_state \in Ble!States /\ link \in Ble!LinkStates /\ phase \in Ble!Phases
    /\ sighted \in BOOLEAN
    /\ g_manual_disconnect \in BOOLEAN
    /\ g_pending_command \in BOOLEAN
    /\ g_pending_command_on \in Values
    /\ g_reconnect_delay \in MinDelay .. (4 * MaxDelay)
    /\ armed \in 0 .. (2 * MaxDelay)
    /\ s_connected \in BOOLEAN
    /\ availability \in {"online", "offline"}
    /\ renewed \in BOOLEAN
    /\ pc \in [Tasks -> Steps]
    /\ arg \in [Tasks -> Values]
    /\ saw_down \in [Tasks -> BOOLEAN]
    /\ asked \in [Values -> Nat]
    /\ sent \in [Values -> Nat]

\* BLE is initialised and app_main is about to connect; MQTT was started
\* before and may or may not have reached the broker.
Init ==
    /\ Ble!Init
    /\ g_manual_disconnect = FALSE
    /\ g_pending_command = FALSE
    /\ g_pending_command_on = "off"
    /\ g_reconnect_delay = MinDelay
    /\ armed = 0
    /\ s_connected \in IF "broker_drop" \in Ops THEN BOOLEAN ELSE {TRUE}
    /\ availability = "offline"
    /\ renewed = FALSE
    /\ pc = [t \in Tasks |-> IF t = "main" THEN "connect" ELSE "idle"]
    /\ arg = [t \in Tasks |-> "off"]
    /\ saw_down = [t \in Tasks |-> FALSE]
    /\ asked = [v \in Values |-> 0]
    /\ sent = [v \in Values |-> 0]

\* Task t is at step l and goes on to step m.
Go(t, l, m) == pc[t] = l /\ pc' = [pc EXCEPT ![t] = m]

-----------------------------------------------------------------------------
(* send_switch_command, called by the web server and the MQTT task.        *)

CanAsk(t) == \/ t = "web" /\ "web_switch" \in Ops
             \/ t = "mqtt" /\ "mqtt_switch" \in Ops /\ s_connected

\* A command arrives and the state is read.
Request(t, on) ==
    /\ CanAsk(t)
    /\ asked["on"] + asked["off"] < MaxAsks
    /\ Go(t, "idle", IF g_state = "READY" THEN "send" ELSE "queue_flag")
    /\ arg' = [arg EXCEPT ![t] = on]
    /\ saw_down' = [saw_down EXCEPT ![t] = (g_state = "DISCONNECTED")]
    /\ asked' = [asked EXCEPT ![on] = @ + 1]
    /\ UNCHANGED <<ble, cmd, flags, mqtt, sent>>

QueueFlag(t) ==
    /\ Go(t, "queue_flag", "queue_value")
    /\ g_pending_command' = TRUE
    /\ UNCHANGED <<ble, g_pending_command_on, flags, mqtt, frame, hist>>

QueueValue(t) ==
    /\ Go(t, "queue_value", IF saw_down[t] THEN "override" ELSE "idle")
    /\ g_pending_command_on' = arg[t]
    /\ arg' = [arg EXCEPT ![t] = "off"]
    /\ saw_down' = [saw_down EXCEPT ![t] = FALSE]
    /\ UNCHANGED <<ble, g_pending_command, flags, mqtt, hist>>

Override(t) ==
    /\ Go(t, "override", "connect")
    /\ g_manual_disconnect' = FALSE
    /\ UNCHANGED <<ble, cmd, g_reconnect_delay, armed, mqtt, frame, hist>>

\* tuya_ble_send_switch_command: the two checks.  A command that fails them is
\* dropped: no caller looks at the result.
SendCheck(t) ==
    /\ \/ g_state = "READY" /\ phase \in {"key", "pair"}
          /\ Go(t, "send", "write") /\ UNCHANGED arg
       \/ ~(g_state = "READY" /\ phase \in {"key", "pair"})
          /\ Go(t, "send", "idle") /\ arg' = [arg EXCEPT ![t] = "off"]
    /\ UNCHANGED <<ble, cmd, flags, mqtt, saw_down, hist>>

\* The fragments are built and written; the device gets them if nothing fails, the
\* link is still up and no other sender's came in between (CommandChannel).
SendWrite(t) ==
    /\ Go(t, "write", "idle")
    /\ \/ UNCHANGED sent
       \/ link = "up" /\ sent' = [sent EXCEPT ![arg[t]] = @ + 1]
    /\ arg' = [arg EXCEPT ![t] = "off"]
    /\ UNCHANGED <<ble, cmd, flags, mqtt, saw_down, asked>>

-----------------------------------------------------------------------------
(* tuya_ble_client_connect, called by every task but btc.                  *)

ConnectCheck(t) ==
    /\ Go(t, "connect", IF g_state = "DISCONNECTED" THEN "seek" ELSE "idle")
    /\ UNCHANGED <<ble, cmd, flags, mqtt, frame, hist>>

ConnectSeek(t) ==
    /\ Go(t, "seek", "idle")
    /\ Ble!Seek
    /\ UNCHANGED <<cmd, flags, mqtt, frame, hist>>

-----------------------------------------------------------------------------
(* web_connect_callback and web_disconnect_callback.                       *)

WebConnect ==
    /\ "web_connect" \in Ops
    /\ Go("web", "idle", "web_read")
    /\ g_manual_disconnect' = FALSE
    /\ UNCHANGED <<ble, cmd, g_reconnect_delay, armed, mqtt, frame, hist>>

WebRead ==
    /\ Go("web", "web_read", IF g_state = "DISCONNECTED" THEN "connect" ELSE "idle")
    /\ g_reconnect_delay' = IF g_state = "DISCONNECTED"
                            THEN MinDelay ELSE g_reconnect_delay
    /\ UNCHANGED <<ble, cmd, g_manual_disconnect, armed, mqtt, frame, hist>>

WebDisconnect ==
    /\ "web_disconnect" \in Ops
    /\ Go("web", "idle", "web_stop_timer")
    /\ g_manual_disconnect' = TRUE
    /\ UNCHANGED <<ble, cmd, g_reconnect_delay, armed, mqtt, frame, hist>>

WebStopTimer ==
    /\ Go("web", "web_stop_timer", "web_close")
    /\ armed' = 0
    /\ UNCHANGED <<ble, cmd, g_manual_disconnect, g_reconnect_delay, mqtt,
                   frame, hist>>

\* tuya_ble_client_disconnect: the check and gattc_close, after which btc will
\* report the end of the link.
WebClose ==
    /\ Go("web", "web_close", IF g_state # "DISCONNECTED" THEN "web_down" ELSE "idle")
    /\ UNCHANGED <<ble, cmd, flags, mqtt, frame, hist>>

\* Its set_state: the callback runs in this task, unless the state is
\* DISCONNECTED already.
WebDown ==
    /\ Go("web", "web_down", IF g_state # "DISCONNECTED" THEN "pub_down" ELSE "idle")
    /\ Ble!GiveUp
    /\ UNCHANGED <<cmd, flags, mqtt, frame, hist>>

-----------------------------------------------------------------------------
(* tuya_state_callback, in the task that set the state.                    *)

Publish(value) == availability' = IF s_connected THEN value ELSE availability

\* The availability told when the link is gone and when it is ready, and each
\* forgotten.
TellDownForgotten == UNCHANGED availability
TellDown == Publish("offline")

TellReadyForgotten == UNCHANGED availability
TellReady == Publish("online")

PublishDown(t) ==
    /\ Go(t, "pub_down", "may_retry")
    /\ TellDown
    /\ UNCHANGED <<ble, cmd, flags, s_connected, renewed, frame, hist>>

\* schedule_reconnect.
MayRetry(t) ==
    /\ Go(t, "may_retry", IF g_manual_disconnect THEN "idle" ELSE "arm")
    /\ UNCHANGED <<ble, cmd, flags, mqtt, frame, hist>>

Arm(t) ==
    /\ Go(t, "arm", "double")
    /\ armed' = g_reconnect_delay
    /\ UNCHANGED <<ble, cmd, g_manual_disconnect, g_reconnect_delay, mqtt,
                   frame, hist>>

Double(t) ==
    /\ Go(t, "double", "cap")
    /\ g_reconnect_delay' = 2 * g_reconnect_delay
    /\ UNCHANGED <<ble, cmd, g_manual_disconnect, armed, mqtt, frame, hist>>

\* The cap, and without it.
CappedNever == g_reconnect_delay
Capped == IF g_reconnect_delay > MaxDelay THEN MaxDelay ELSE g_reconnect_delay

Cap(t) ==
    /\ Go(t, "cap", "idle")
    /\ g_reconnect_delay' = Capped
    /\ UNCHANGED <<ble, cmd, g_manual_disconnect, armed, mqtt, frame, hist>>

\* READY.
PublishReady ==
    /\ Go("btc", "pub_ready", "take")
    /\ g_reconnect_delay' = MinDelay
    /\ TellReady
    /\ UNCHANGED <<ble, cmd, g_manual_disconnect, armed, s_connected, renewed, frame,
                   hist>>

\* Emptying the slot before the command is sent (line 202), and forgetting to.
EmptySlotForgotten == UNCHANGED g_pending_command
EmptySlot == g_pending_command' = FALSE

TakePending ==
    /\ Go("btc", "take", IF g_pending_command THEN "take_value" ELSE "idle")
    /\ EmptySlot
    /\ UNCHANGED <<ble, g_pending_command_on, flags, mqtt, frame, hist>>

TakeValue ==
    /\ Go("btc", "take_value", "send")
    /\ arg' = [arg EXCEPT !["btc"] = g_pending_command_on]
    /\ UNCHANGED <<ble, cmd, flags, mqtt, saw_down, hist>>

-----------------------------------------------------------------------------
(* reconnect_timer_cb.                                                     *)

\* The condition of the callback, and with the flag read the wrong way round.
MayReconnectInverted == g_state = "DISCONNECTED" /\ g_manual_disconnect
MayReconnect == g_state = "DISCONNECTED" /\ ~g_manual_disconnect

TimerFire ==
    /\ armed # 0
    /\ Go("timer", "idle", IF MayReconnect THEN "connect" ELSE "idle")
    /\ armed' = 0
    /\ UNCHANGED <<ble, cmd, g_manual_disconnect, g_reconnect_delay, mqtt,
                   frame, hist>>

-----------------------------------------------------------------------------
(* BLE events.  Those that make the state callback do something keep btc   *)
(* busy until it has returned.                                             *)

LinkDown ==
    /\ Go("btc", "idle", IF g_state # "DISCONNECTED" THEN "pub_down" ELSE "idle")
    /\ Ble!LinkDown
    /\ UNCHANGED <<cmd, flags, mqtt, frame, hist>>

Paired ==
    /\ Go("btc", "idle", IF g_state # "READY" THEN "pub_ready" ELSE "idle")
    /\ Ble!Paired
    /\ renewed' = (renewed /\ g_state = "READY")
    /\ UNCHANGED <<cmd, flags, s_connected, availability, frame, hist>>

\* An event whose state the callback only logs.
Event(A) ==
    /\ pc["btc"] = "idle"
    /\ A
    /\ UNCHANGED <<cmd, flags, mqtt, pc, frame, hist>>

Sight      == Event(Ble!Sight)
Found      == Event(Ble!Found)
OpenTarget == Event(Ble!OpenTarget)
LinkUp     == Event(Ble!LinkUp)
AskInfo    == Event(Ble!AskInfo)
DeriveKey  == Event(Ble!DeriveKey)
AskPair    == Event(Ble!AskPair)

-----------------------------------------------------------------------------
(* The broker connection.                                                  *)

\* MQTT_EVENT_CONNECTED, up to publishing the availability.
BrokerUp ==
    /\ ~s_connected
    /\ Go("mqtt", "idle", "pub_offline")
    /\ s_connected' = TRUE
    /\ UNCHANGED <<ble, cmd, flags, availability, renewed, frame, hist>>

PublishOffline ==
    /\ Go("mqtt", "pub_offline", "idle")
    /\ Publish("offline")
    /\ renewed' = TRUE
    /\ UNCHANGED <<ble, cmd, flags, s_connected, frame, hist>>

\* MQTT_EVENT_DISCONNECTED; the broker publishes the last will.
BrokerDown ==
    /\ "broker_drop" \in Ops
    /\ s_connected
    /\ pc["mqtt"] = "idle"
    /\ s_connected' = FALSE
    /\ availability' = "offline"
    /\ UNCHANGED <<ble, cmd, flags, renewed, pc, frame, hist>>

-----------------------------------------------------------------------------
Sending(t) ==
    \/ QueueFlag(t) \/ QueueValue(t) \/ Override(t)
    \/ SendCheck(t) \/ SendWrite(t)

Connecting(t) == ConnectCheck(t) \/ ConnectSeek(t)

Web == WebRead \/ WebStopTimer \/ WebClose \/ WebDown

Down(t) == PublishDown(t) \/ MayRetry(t) \/ Arm(t) \/ Double(t) \/ Cap(t)

Ready == PublishReady \/ TakePending \/ TakeValue

\* A task goes on with the call it is in.
Continue(t) ==
    \/ Sending(t) \/ Connecting(t) \/ Down(t)
    \/ t = "web" /\ Web
    \/ t = "btc" /\ Ready
    \/ t = "mqtt" /\ PublishOffline

Next ==
    \/ \E t \in Users, on \in Values : Request(t, on)
    \/ WebConnect \/ WebDisconnect
    \/ \E t \in Tasks : Continue(t)
    \/ TimerFire
    \/ Sight \/ Found \/ OpenTarget \/ LinkUp \/ LinkDown
    \/ AskInfo \/ DeriveKey \/ AskPair \/ Paired
    \/ BrokerUp \/ BrokerDown

Spec == Init /\ [][Next]_vars

\* Every task that is in a call goes on with it, and a timer that is armed
\* fires: FreeRTOS shares the processor out, no call waits for another task.
TaskFairness == (\A t \in Tasks : WF_vars(Continue(t))) /\ WF_vars(TimerFire)

\* The stack and the device: a running scan meets the device, a handler goes on,
\* an open ends, a link that is not used is dropped (docs/TECHNICAL_OVERVIEW.md:304), and each
\* step of a handshake that is tried over and over succeeds some time.
DeviceFairness ==
    /\ WF_vars(Sight) /\ WF_vars(Found) /\ WF_vars(OpenTarget) /\ WF_vars(LinkDown)
    /\ SF_vars(LinkUp)
    /\ SF_vars(AskInfo) /\ SF_vars(DeriveKey) /\ SF_vars(AskPair) /\ SF_vars(Paired)

LiveSpec == Spec /\ TaskFairness

DeviceSpec == LiveSpec /\ DeviceFairness

-----------------------------------------------------------------------------
(* Properties.                                                             *)

Quiet == \A t \in Tasks : pc[t] = "idle"

\* The device gets no more switch commands than users gave, whichever of the
\* direct path (main.c:179) and the pending slot (:201-205) each one takes and
\* however often the link comes and goes.
AtMostOnce == sent["on"] + sent["off"] <= asked["on"] + asked["off"]

\* "Cap at 60s" (main.c:43): the timer is never started with less than the
\* minimum or more than the maximum delay although the delay is doubled first
\* and capped afterwards, and web_connect_callback and the READY callback
\* reset it meanwhile.
BackoffBounded == armed # 0 => armed \in MinDelay .. MaxDelay

\* "`online` when BLE ready, `offline` otherwise" (README.md:150), once every
\* task has told what it knows: online is retained only while the handshake of
\* a link that is up is complete, ...
OnlineMeansLinked ==
    Quiet /\ availability = "online" => link = "up" /\ phase = "pair"

\* ... and a READY bridge the broker can hear is online, however often the two
\* connections came and went before, unless the broker connection was announced
\* after the bridge became READY: mqtt_ha.c:99 is the one thing that takes the
\* online of a READY bridge back.
OnlineWhenReady ==
    Quiet /\ s_connected /\ ~renewed /\ g_state = "READY" => availability = "online"

\* A bridge that is down and not told to stay down tries again ("Auto-reconnect
\* with backoff (unless user manually disconnected)", main.c:208): callback,
\* timer and buttons do not lose the timer between them.  It takes one task for
\* all users: web_disconnect_callback sets the flag and then stops the timer
\* (:245-246), and a command of the MQTT task in between would clear the flag.
AutoReconnect ==
    (g_state = "DISCONNECTED" /\ ~g_manual_disconnect)
        ~> (g_state # "DISCONNECTED" \/ g_manual_disconnect)

\* A queued command does not stay queued for ever, also when it missed the
\* READY callback, unless the user disconnects by hand.
QueueDrains == g_pending_command ~> (~g_pending_command \/ g_manual_disconnect)

\* "Queued command is sent" (docs/TECHNICAL_OVERVIEW.md:214): of neither value does
\* the device get more commands than users gave.
SentAsAsked == \A on \in Values : sent[on] <= asked[on]
=============================================================================
