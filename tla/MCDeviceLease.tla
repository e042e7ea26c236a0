--------------------------- MODULE MCDeviceLease ----------------------------
(***************************************************************************)
(* Attempts that follow one another on a device, and its collectors.       *)
(***************************************************************************)
EXTENDS DeviceLease
=============================================================================
