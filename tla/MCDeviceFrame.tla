---------------------------- MODULE MCDeviceFrame ----------------------------
(***************************************************************************)
(* The instances of DeviceFrame that TLC checks: one or two primary        *)
(* displays (a phone, a foldable), an external (DisplayPort) and a virtual *)
(* one (screen mirroring).                                                 *)
(***************************************************************************)
EXTENDS DeviceFrame

CONSTANTS pri, pri2, ext, vir


=============================================================================
