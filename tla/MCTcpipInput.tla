---------------------------- MODULE MCTcpipInput ----------------------------
(***************************************************************************)
(* Small instances of TcpipInput for TLC.                                  *)
(***************************************************************************)
EXTENDS TcpipInput

CONSTANTS pcb1, pcb2
=============================================================================
