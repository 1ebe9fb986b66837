--------------------------- MODULE MCContextSwitch ---------------------------
(* The instance of ContextSwitch that TLC checks: three tasks, as in tasking_init. *)
EXTENDS ContextSwitch
=============================================================================
