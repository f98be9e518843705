------------------------------- MODULE Alarms -------------------------------
(***************************************************************************)
(* What the delays of the kernel promise, whatever the width of the tick   *)
(* count: a task that asks for n ticks is held for exactly n ticks unless  *)
(* an event releases it before.                                            *)
(***************************************************************************)
EXTENDS Integers

CONSTANTS
  Tasks,
  MaxDelay   \* the longest delay a task may ask for

VARIABLE left   \* ticks until the task's delay ends; 0 when it has none

Init == left = [t \in Tasks |-> 0]

Set(t, n) == left[t] = 0 /\ left' = [left EXCEPT ![t] = n]

Cancel(t) == left[t] > 0 /\ left' = [left EXCEPT ![t] = 0]

Tick == left' = [t \in Tasks |-> IF left[t] = 0 THEN 0 ELSE left[t] - 1]

Next ==
  \/ \E t \in Tasks : Cancel(t) \/ \E n \in 1..MaxDelay : Set(t, n)
  \/ Tick

Spec == Init /\ [][Next]_left
=============================================================================
