------------------------------ MODULE MCReader ------------------------------
(* The instances of Reader that TLC checks. *)
EXTENDS Reader
=============================================================================
