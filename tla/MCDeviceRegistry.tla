------------------------- MODULE MCDeviceRegistry ---------------------------
(***************************************************************************)
(* Instances of DeviceRegistry for TLC: two devices claim the same machine *)
(* under one tenant, or one device sees two operations at a time.          *)
(***************************************************************************)
EXTENDS DeviceRegistry

OneTenant == [d \in Devices |-> "t1"]
OneMachine == [d \in Devices |-> "m1"]
=============================================================================
