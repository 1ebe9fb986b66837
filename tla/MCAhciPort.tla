----------------------------- MODULE MCAhciPort ------------------------------
(* The instance of AhciPort that TLC checks. *)
EXTENDS AhciPort
=============================================================================
