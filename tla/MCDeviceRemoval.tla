--------------------------- MODULE MCDeviceRemoval ---------------------------
(* Small instances of DeviceRemoval for TLC. *)
EXTENDS DeviceRemoval, TLC

\* One device is removed; the others fill the Kernel's page of mounts.
Target == CHOOSE d \in Devices : TRUE
OneTarget == \A k \in Calls : ref[k][1] = Target
=============================================================================
