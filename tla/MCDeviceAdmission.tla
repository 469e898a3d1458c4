-------------------------- MODULE MCDeviceAdmission --------------------------
(* Small instances of DeviceAdmission for TLC. *)
EXTENDS DeviceAdmission, TLC
=============================================================================
