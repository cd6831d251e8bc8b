--------------------------- MODULE MCDeviceCommand ---------------------------
(* An instance of DeviceCommand for TLC: two calls at a time and three presses, *)
(* so that a cancel can overlap a query and a press can follow.               *)
EXTENDS DeviceCommand
=============================================================================
