------------------------------ MODULE MCKernel ------------------------------
(***************************************************************************)
(* Small instances of Kernel for TLC.  Each has the idle task and the      *)
(* tasks low, mid and high at priorities 1, 2 and 3 (or fewer).            *)
(***************************************************************************)
EXTENDS Kernel

CONSTANTS idle, low, mid, high, queue, mutex, mutex2

Priorities ==
  (idle :> 0) @@ (low :> 1) @@ (mid :> 2) @@ (high :> 3)
PriorityOf == [t \in Tasks |-> Priorities[t]]

C(t, f, q, w) == [task |-> t, fn |-> f, queue |-> q, wait |-> w]
Delay(t) == C(t, "delay", CHOOSE q \in Queues : TRUE, "ticks")
TakeAndGive(t, m, w) == {C(t, "take", m, w), C(t, "send", m, "none")}

LengthOne == [q \in Queues |-> 1]
LengthTwo == [q \in Queues |-> 2]

\* A message queue, with tasks and an interrupt on each side, two of the tasks sharing a
\* mutex as mem.c:630 does.
QueueTasks == {idle, low, mid, high}
QueueCalls == {C(low, "send", queue, "ticks"), C(mid, "send", queue, "portMAX_DELAY"),
               C(mid, "take", queue, "ticks"), C(high, "take", queue, "ticks"), Delay(high)}
              \cup TakeAndGive(low, mutex, "portMAX_DELAY")
              \cup TakeAndGive(high, mutex, "portMAX_DELAY")
QueueIsrs == {queue} \X Fns

\* A counting semaphore an interrupt gives and three tasks take.
SemaphoreCalls == {C(low, "take", queue, "portMAX_DELAY"), C(mid, "take", queue, "portMAX_DELAY"),
                   C(high, "take", queue, "ticks"), Delay(high)}
SemaphoreIsrs == {<<queue, "send">>}

\* Three tasks share a mutex; the middle one also takes a second, in any order.
MutexCalls == TakeAndGive(low, mutex, "portMAX_DELAY") \cup TakeAndGive(mid, mutex, "ticks")
              \cup TakeAndGive(mid, mutex2, "portMAX_DELAY")
              \cup TakeAndGive(high, mutex, "ticks") \cup {Delay(t) : t \in {low, mid, high}}
=============================================================================
