------------------------- MODULE MCBridgeController -------------------------
(* BridgeController on small instances.                                    *)
EXTENDS BridgeController

AllOps == {"web_switch", "mqtt_switch", "web_connect", "web_disconnect", "broker_drop"}

\* The disconnect button is not used; the broker comes and goes.
SwitchOps == {"web_switch", "mqtt_switch", "web_connect", "broker_drop"}

\* Everything a user does comes through the web dashboard: one task.
WebOps == {"web_switch", "web_connect", "web_disconnect"}

MqttOnly == {"mqtt_switch"}
=============================================================================
