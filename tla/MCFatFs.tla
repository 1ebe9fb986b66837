------------------------------ MODULE MCFatFs ------------------------------
(* The instances of FatFs that TLC checks. *)
EXTENDS FatFs
=============================================================================
