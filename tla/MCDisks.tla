------------------------------- MODULE MCDisks -------------------------------
(* The instance of Disks that TLC checks. *)
EXTENDS Disks
=============================================================================
