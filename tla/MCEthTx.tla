------------------------------- MODULE MCEthTx -------------------------------
(***************************************************************************)
(* Small instances of EthTx for TLC.                                       *)
(***************************************************************************)
EXTENDS EthTx

CONSTANT udp
=============================================================================
