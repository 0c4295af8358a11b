---------------------------- MODULE BleLifecycle ----------------------------
(***************************************************************************)
(* What the BLE client promises to the rest of the firmware: the public    *)
(* connection state (tuya_connection_state_t, tuya_ble_client.h), the BLE  *)
(* link it stands for, and how far the Tuya handshake has gone on that     *)
(* link.  Threads, scan requests, discovery, handles and keys are hidden;  *)
(* TuyaBleClient is the detailed specification that implements this one,   *)
(* and BridgeController is built on it.                                    *)
(***************************************************************************)

VARIABLES
    g_state,    \* the public state, readable by every task
    link,       \* "down", "found" (seen, about to be opened), "opening"
                \* (gattc_open called) or "up"
    phase,      \* handshake progress on the present link
    sighted     \* the device was met while the state was CONNECTING, and
                \* CONNECTED is still to be written

vars == <<g_state, link, phase, sighted>>

Phases == {"none", "info", "key", "pair"}

LinkStates == {"down", "found", "opening", "up"}

\* TUYA_STATE_SMP_PAIRING and TUYA_STATE_PAIRED exist in the header but no
\* live code enters them.
States == {"DISCONNECTED", "CONNECTING", "CONNECTED", "SMP_PAIRING",
           "DISCOVERING_SERVICES", "GETTING_DEVICE_INFO", "PAIRING",
           "PAIRED", "READY"}

Init ==
    /\ g_state = "DISCONNECTED"
    /\ link = "down"
    /\ phase = "none"
    /\ sighted = FALSE

-----------------------------------------------------------------------------
\* A caller of connect that read DISCONNECTED a moment ago announces the scan.
\* Nothing holds the state still between the read and this write.
Seek ==
    /\ g_state' = "CONNECTING"
    /\ UNCHANGED <<link, phase, sighted>>

\* A caller of disconnect or stop declares the connection over, whatever the
\* link does.
GiveUp ==
    /\ g_state' = "DISCONNECTED"
    /\ UNCHANGED <<link, phase, sighted>>

\* The device is met while it is being looked for ...
Sight ==
    /\ ~sighted
    /\ g_state = "CONNECTING"
    /\ link \in {"down", "opening"}
    /\ sighted' = TRUE
    /\ UNCHANGED <<g_state, link, phase>>

\* ... and CONNECTED is announced, over whatever the state has become since.  A
\* connection will be opened; one that is being opened already goes on.
Found ==
    /\ sighted
    /\ sighted' = FALSE
    /\ g_state' = "CONNECTED"
    /\ link' = IF link = "down" THEN "found" ELSE link
    /\ UNCHANGED phase

OpenTarget ==
    /\ link = "found"
    /\ link' = "opening"
    /\ UNCHANGED <<g_state, phase, sighted>>

\* gattc_open refused: nobody is told.
OpenRefused ==
    /\ link = "found"
    /\ link' = "down"
    /\ UNCHANGED <<g_state, phase, sighted>>

\* The link comes and goes; neither is told between a sighting and its end.
LinkUp ==
    /\ ~sighted
    /\ link = "opening"
    /\ link' = "up"
    /\ g_state' = "DISCOVERING_SERVICES"
    /\ UNCHANGED <<phase, sighted>>

\* A link that is lost, closed or refused takes the handshake with it.
LinkDown ==
    /\ ~sighted
    /\ link \in {"opening", "up"}
    /\ link' = "down"
    /\ phase' = "none"
    /\ g_state' = "DISCONNECTED"
    /\ UNCHANGED sighted

\* The three steps of the handshake, each once per link and in this order.
AskInfo ==
    /\ link = "up" /\ phase = "none"
    /\ phase' = "info"
    /\ g_state' = "GETTING_DEVICE_INFO"
    /\ UNCHANGED <<link, sighted>>

DeriveKey ==
    /\ link = "up" /\ phase = "info"
    /\ phase' = "key"
    /\ g_state' = "GETTING_DEVICE_INFO"
    /\ UNCHANGED <<link, sighted>>

AskPair ==
    /\ link = "up" /\ phase = "key"
    /\ phase' = "pair"
    /\ g_state' = "PAIRING"
    /\ UNCHANGED <<link, sighted>>

Paired ==
    /\ link = "up" /\ phase = "pair"
    /\ g_state' = "READY"
    /\ UNCHANGED <<link, phase, sighted>>

Next ==
    \/ Seek \/ GiveUp
    \/ Sight \/ Found \/ OpenTarget \/ OpenRefused \/ LinkUp \/ LinkDown
    \/ AskInfo \/ DeriveKey \/ AskPair \/ Paired

Spec == Init /\ [][Next]_vars
=============================================================================
