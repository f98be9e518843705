------------------------------ MODULE MCEthRx ------------------------------
(***************************************************************************)
(* Small instances of EthRx for TLC.                                       *)
(***************************************************************************)
EXTENDS EthRx

CONSTANTS ip, other
=============================================================================
