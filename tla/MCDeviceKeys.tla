---------------------------- MODULE MCDeviceKeys ----------------------------
(***************************************************************************)
(* Instances of DeviceKeys for TLC: one device and its keys, requests of   *)
(* the Pi and revocations at the same time.                                *)
(***************************************************************************)
EXTENDS DeviceKeys

OneTenant   == [d \in Devices |-> "t1"]
OneMachine  == [d \in Devices |-> "m1"]
KeysOfOne   == [k \in Keys |-> "d1"]
=============================================================================
