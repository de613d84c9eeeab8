---------------------------- MODULE MCRecovery ----------------------------
(* Recovery for TLC.                                                       *)
EXTENDS Recovery
=============================================================================
