---------------------------- MODULE MCDeviceFlow ----------------------------
(* Instances of DeviceFlow for TLC. *)
EXTENDS DeviceFlow

CONSTANTS p1, p2, b1, b2, u1, u2
=============================================================================
