----------------------------- MODULE MCTuyaPacket -----------------------------
(* The sizes of the firmware, and every data length up to past RawSize.      *)
EXTENDS TuyaPacket

MCDataLens == 0..250
=============================================================================
