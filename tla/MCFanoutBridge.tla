--------------------------- MODULE MCFanoutBridge ---------------------------
(* FanoutBridge with a few generations and overlapping stops. *)
EXTENDS FanoutBridge
=============================================================================
