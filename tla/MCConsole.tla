----------------------------- MODULE MCConsole -----------------------------
(* A screen of a few cells; the constants are in the .cfg file.            *)
EXTENDS Console
=============================================================================
