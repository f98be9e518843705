------------------------------ MODULE MCTicks ------------------------------
(***************************************************************************)
(* Small instances of Ticks for TLC.                                       *)
(***************************************************************************)
EXTENDS Ticks, TLC

CONSTANTS t1, t2

\* One task delays itself, by either call, the other waits for an event.
MCCalls == t1 :> {"until"} @@ t2 :> {"wait", "delay"}
=============================================================================
