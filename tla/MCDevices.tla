----------------------------- MODULE MCDevices -----------------------------
(***************************************************************************)
(* Devices with values for its constants in the .cfg: a timer of two-      *)
(* valued bytes and a fast period no longer than an event may be late, so  *)
(* that one update may have to catch up with several counts; a pad whose   *)
(* register has two bits, shorter than a unit; a ring of four slots.       *)
(***************************************************************************)
EXTENDS Devices
=============================================================================
