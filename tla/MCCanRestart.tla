---------------------------- MODULE MCCanRestart ----------------------------
(***************************************************************************)
(* Small instances of CanRestart for TLC.                                  *)
(***************************************************************************)
EXTENDS CanRestart
=============================================================================
