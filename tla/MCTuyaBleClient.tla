-------------------------- MODULE MCTuyaBleClient --------------------------
(* TuyaBleClient on small instances.                                       *)
EXTENDS TuyaBleClient

\* The calls main.c makes.
BridgeOps == {"connect", "disconnect"}
\* The whole interface of tuya_ble_client.h.
AllOps == {"connect", "disconnect", "stop", "resume"}

\* What can go wrong with a handshake; scan and open succeed.
DeviceFaults == {"chars", "ccc", "build", "answer"}
AllFaults == {"params", "scan", "open", "chars", "ccc", "build", "answer"}
=============================================================================
