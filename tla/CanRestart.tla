----------------------------- MODULE CanRestart -----------------------------
(***************************************************************************)
(* Restarting a CAN node after an error: the alert handlers of the nodes   *)
(* (hCan.c, hCanr.c) run on core 1 and hand the node number, through one   *)
(* variable and a counting semaphore, to the task multi_can_restart        *)
(* (Cpu1_Main.c), which the scheduler runs on core 0.                      *)
(*                                                                         *)
(* The two cores run in parallel, so every access of a handler or the task *)
(* to the shared state is a step of its own.  An interrupt leaves          *)
(* interrupts disabled on its core until xSemaphoreGiveFromISR enables     *)
(* them again (portCLEAR_INTERRUPT_MASK_FROM_ISR); from then on a handler  *)
(* of higher priority may come before restart_num is set.  A node is the   *)
(* number in the name of its handler, and priorities are in that order     *)
(* (ISR_PRIORITY_CAN_ALERT_n).  Status words that are only printed are     *)
(* left out.                                                               *)
(***************************************************************************)
EXTENDS Integers, FiniteSets

CONSTANTS
  Nodes,      \* the CAN nodes, by number
  FirstNode,  \* node 0, the initial value of restart_num
  MaxCount,   \* what g_can_restart_phore counts to
  NULL

ASSUME CanRestartAssumption ==
  /\ Nodes \subseteq Nat /\ IsFiniteSet(Nodes) /\ FirstNode \in Nodes
  /\ MaxCount \in Nat \ {0}
  /\ NULL \notin Nat

VARIABLES
  state,                \* what the status register SR says of each node
  ALIE,                 \* alert interrupt of each node enabled
  request,              \* alert interrupt of each node requested
  handlerAt,            \* where the handler of each node is
  g_can_restart_phore,  \* NULL until the task has created it, then its count
  restart_num,          \* the node to restart
  task                  \* where the task is

nodeVars == <<state, ALIE, request>>
vars == <<nodeVars, handlerAt, g_can_restart_phore, restart_num, task>>

Init ==
  /\ state = [n \in Nodes |-> "active"]
  /\ ALIE = [n \in Nodes |-> TRUE]
  /\ request = [n \in Nodes |-> FALSE]
  /\ handlerAt = [n \in Nodes |-> "idle"]
  /\ g_can_restart_phore = NULL
  /\ restart_num = FirstNode
  /\ task = "create"

-----------------------------------------------------------------------------
\* The controller detects an error: the one the handler looks for, or one after
\* which the node goes on by itself.
NodeError(n, kind) ==
  /\ state[n] # "failed" /\ state[n] # kind
  /\ state' = [state EXCEPT ![n] = kind]
  /\ request' = [request EXCEPT ![n] = @ \/ (ALIE[n] /\ kind # "active")]
  /\ UNCHANGED <<ALIE, handlerAt, g_can_restart_phore, restart_num, task>>

-----------------------------------------------------------------------------
(* canIsrAlertHandler_n, on core 1.                                         *)

Active == {n \in Nodes : handlerAt[n] # "idle"}

\* The interrupt of n is taken: all handlers that are under way have a lower
\* priority, and have enabled interrupts again.
MayStart(n) == request[n] /\ \A m \in Active : m < n /\ handlerAt[m] = "number"

HandlerReadsStatus_AlertKept(n) ==
  /\ MayStart(n)
  /\ request' = [request EXCEPT ![n] = FALSE]
  /\ IF state[n] \in {"failed", "warning"}
     THEN handlerAt' = [handlerAt EXCEPT ![n] = "give"]
     ELSE UNCHANGED handlerAt
  /\ UNCHANGED <<state, ALIE, g_can_restart_phore, restart_num, task>>

HandlerReadsStatus(n) ==
  /\ MayStart(n)
  /\ request' = [request EXCEPT ![n] = FALSE]
  /\ IF state[n] = "failed"
     THEN /\ ALIE' = [ALIE EXCEPT ![n] = FALSE]
          /\ handlerAt' = [handlerAt EXCEPT ![n] = "give"]
     ELSE UNCHANGED <<ALIE, handlerAt>>
  /\ UNCHANGED <<state, g_can_restart_phore, restart_num, task>>

\* xSemaphoreGiveFromISR: a full semaphore takes no token; without a semaphore
\* its configASSERT stops the core.
HandlerGives(n) ==
  /\ handlerAt[n] = "give"
  /\ IF g_can_restart_phore = NULL
     THEN /\ handlerAt' = [handlerAt EXCEPT ![n] = "asserted"]
          /\ UNCHANGED g_can_restart_phore
     ELSE /\ handlerAt' = [handlerAt EXCEPT ![n] = "number"]
          /\ g_can_restart_phore' =
               IF g_can_restart_phore < MaxCount THEN g_can_restart_phore + 1
               ELSE g_can_restart_phore
  /\ UNCHANGED <<nodeVars, restart_num, task>>

\* The handler goes on when those that came in between have returned.
HandlerSetsNumber(n) ==
  /\ handlerAt[n] = "number" /\ \A m \in Active : m <= n
  /\ restart_num' = n
  /\ handlerAt' = [handlerAt EXCEPT ![n] = "idle"]
  /\ UNCHANGED <<nodeVars, g_can_restart_phore, task>>

Handler ==
  \E n \in Nodes : HandlerReadsStatus(n) \/ HandlerGives(n) \/ HandlerSetsNumber(n)

-----------------------------------------------------------------------------
(* multi_can_restart, on core 0.                                            *)

CreateSemaphore ==
  /\ task = "create"
  /\ g_can_restart_phore' = 0
  /\ task' = "take"
  /\ UNCHANGED <<nodeVars, handlerAt, restart_num>>

TakeToken ==
  /\ task = "take" /\ g_can_restart_phore > 0
  /\ g_can_restart_phore' = g_can_restart_phore - 1
  /\ task' = "restart"
  /\ UNCHANGED <<nodeVars, handlerAt, restart_num>>

\* multi_can_node<restart_num>_init leaves the node active, its alert enabled.
RestartNode ==
  /\ task = "restart"
  /\ state' = [state EXCEPT ![restart_num] = "active"]
  /\ ALIE' = [ALIE EXCEPT ![restart_num] = TRUE]
  /\ task' = "delay"
  /\ UNCHANGED <<request, handlerAt, g_can_restart_phore, restart_num>>

\* vTaskDelay.
Delay ==
  /\ task = "delay"
  /\ task' = "take"
  /\ UNCHANGED <<nodeVars, handlerAt, g_can_restart_phore, restart_num>>

RestartTask == CreateSemaphore \/ TakeToken \/ RestartNode \/ Delay

-----------------------------------------------------------------------------
Next ==
  \/ \E n \in Nodes, kind \in {"active", "warning", "failed"} : NodeError(n, kind)
  \/ Handler \/ RestartTask

Spec == Init /\ [][Next]_vars

\* Both cores go on; the errors themselves need not happen.
Fairness == WF_vars(Handler) /\ WF_vars(RestartTask)

FairSpec == Spec /\ Fairness

-----------------------------------------------------------------------------
\* Every variable keeps the type of the object it stands for.
TypeOK ==
  /\ state \in [Nodes -> {"active", "warning", "failed"}]
  /\ ALIE \in [Nodes -> BOOLEAN]
  /\ request \in [Nodes -> BOOLEAN]
  /\ handlerAt \in [Nodes -> {"idle", "give", "number", "asserted"}]
  /\ g_can_restart_phore \in 0..MaxCount \cup {NULL}
  /\ restart_num \in Nodes
  /\ task \in {"create", "take", "restart", "delay"}

Tokens == IF g_can_restart_phore = NULL THEN 0 ELSE g_can_restart_phore

\* A restart is asked for only by a node that failed and whose alert is off until
\* it is restarted: the tokens, with the one being served, never outnumber the
\* nodes that are waiting.
TokensMatchFailures ==
  Tokens + (IF task = "restart" THEN 1 ELSE 0) <= Cardinality({n \in Nodes : ~ALIE[n]})

\* Cpu1_Main.c: "when can error ,this task restart can node": a node that failed
\* is restarted at last, as long as core 1 did not stop.
FailedNodeRestarts ==
  \A n \in Nodes : state[n] = "failed" ~> state[n] = "active" \/ \E m \in Nodes : handlerAt[m] = "asserted"
=============================================================================
