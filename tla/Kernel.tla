------------------------------- MODULE Kernel -------------------------------
(***************************************************************************)
(* The blocking queue, semaphore and mutex operations of the FreeRTOS      *)
(* kernel this board runs (FreeRtos/queue.c), with the part of the         *)
(* scheduler they rest on (FreeRtos/tasks.c).                              *)
(*                                                                         *)
(* One core runs the kernel.  An action is one critical section of the     *)
(* code, or the straight-line code between two of them, so every action    *)
(* boundary is a point where interrupts are open: there the tick or a      *)
(* device interrupt may run and, unless the scheduler is suspended, switch *)
(* to another task.                                                        *)
(*                                                                         *)
(* What is abstracted: the contents of a queue (only the number of         *)
(* messages is kept), the position of a task within the ready list of its  *)
(* priority (any of them may be the next to run) and the value of the tick *)
(* count (a task with a finite wait may time out at any tick).             *)
(***************************************************************************)
EXTENDS Integers, Sequences, FiniteSets, SequencesExt

CONSTANTS
  Tasks,         \* the tasks, the idle task among them
  Idle,          \* prvIdleTask: always ready
  Queues,        \* the queues, semaphores and mutexes
  Mutexes,       \* those of type queueQUEUE_IS_MUTEX
  uxLength,      \* capacity of each queue
  BasePriority,  \* uxBasePriority of each task
  Calls,         \* the calls the application makes: see CallType
  IsrCalls,      \* pairs <<q, f>> an interrupt handler may call on
  MaxPended,     \* bound on uxPendedTicks
  MaxLock,       \* bound on a lock count
  NULL

Fns == {"send", "take"}   \* the two sides of a queue
Other(f) == IF f = "send" THEN "take" ELSE "send"
Waits == {"none", "ticks", "portMAX_DELAY"}
CallType == [task : Tasks, fn : Fns \cup {"delay"}, queue : Queues, wait : Waits]

queueUNLOCKED == -1
queueLOCKED_UNMODIFIED == 0

ASSUME KernelAssumption ==
  /\ Idle \in Tasks /\ IsFiniteSet(Tasks)
  /\ Mutexes \subseteq Queues /\ IsFiniteSet(Mutexes)
  /\ uxLength \in [Queues -> Nat \ {0}]
  /\ \A m \in Mutexes : uxLength[m] = 1
  /\ BasePriority \in [Tasks -> Nat] /\ BasePriority[Idle] = 0   \* tskIDLE_PRIORITY
  /\ Calls \subseteq CallType
  /\ \A c \in Calls : c.task # Idle
  /\ IsrCalls \subseteq (Queues \ Mutexes) \X Fns
  /\ MaxPended \in Nat
  /\ MaxLock \in Nat
  /\ NULL \notin Tasks

VARIABLES
  pxCurrentTCB,          \* the task that runs
  uxSchedulerSuspended,  \* depth of vTaskSuspendAll
  xYieldPending,         \* a switch was wanted while the scheduler was suspended
  uxPendedTicks,         \* ticks that came while it was suspended
  stateList,             \* the list that holds each task's xStateListItem
  xPendingReadyList,     \* tasks to make ready when the scheduler resumes
  uxPriority,            \* current, possibly inherited, priority of each task
  uxMutexesHeld,         \* number of mutexes each task holds
  uxMessagesWaiting,     \* messages in each queue, count of each semaphore
  pxMutexHolder,         \* holder of each mutex
  cLock,                 \* cLock[<<q, "send">>] is cTxLock, cLock[<<q, "take">>] cRxLock
  xTasksWaiting,         \* the event lists: tasks blocked in f on q, by <<q, f>>
  pc,                    \* where each task is in its call
  call,                  \* the call it makes
  xTicksToWait,          \* what is left of the wait it asked for
  expired,               \* the tick ended its wait: the whole wait has elapsed
  outcome,               \* what the task does once it resumed the scheduler
  xInheritanceOccurred   \* its wait for a mutex raised the holder's priority

schedVars == <<uxSchedulerSuspended, uxPendedTicks, xPendingReadyList>>
prioVars  == <<uxPriority, uxMutexesHeld, pxMutexHolder>>
callVars  == <<call, xTicksToWait, expired, outcome, xInheritanceOccurred>>
vars == <<pxCurrentTCB, xYieldPending, stateList, uxMessagesWaiting, cLock,
          xTasksWaiting, pc, schedVars, prioVars, callVars>>

-----------------------------------------------------------------------------
(* Operators on the lists. *)

Ready(lists) == {t \in Tasks : lists[t] = "ready"}

\* taskSELECT_HIGHEST_PRIORITY_TASK: a ready task that no ready task outranks.
HighestReady(lists, prio) ==
  {t \in Ready(lists) : \A u \in Ready(lists) : prio[u] <= prio[t]}

\* vListInsert keeps the event lists by priority: the new task goes behind the
\* leading tasks whose priority is not below its own.
InsertByPriority(list, t) ==
  LET Stop(k) == k > Len(list) \/ uxPriority[list[k]] < uxPriority[t]
      first == CHOOSE k \in 1..Len(list) + 1 :
                 Stop(k) /\ \A i \in 1..k - 1 : ~Stop(i)
  IN InsertAt(list, first, t)

\* The list without the elements of T, in the order they have.  It is
\* SelectSeq(list, LAMBDA t : t \notin T), about which the provers know nothing:
\* the k-th element is the one at the kept position that k kept ones lead up to.
Without(list, T) ==
  LET Kept(n) == {i \in 1..n : list[i] \notin T}
      all == Kept(Len(list))
  IN [k \in 1..Cardinality(all) |-> list[CHOOSE i \in all : Cardinality(Kept(i)) = k]]

\* The event lists once the tasks of T were removed by uxListRemove.
WithoutTasks(T) == [qf \in Queues \X Fns |-> Without(xTasksWaiting[qf], T)]

\* vTaskSwitchContext, at the values the lists have after the step.
SwitchContext ==
  IF uxSchedulerSuspended' # 0
  THEN xYieldPending' = TRUE /\ UNCHANGED pxCurrentTCB
  ELSE /\ xYieldPending' = FALSE
       /\ pxCurrentTCB' \in HighestReady(stateList', uxPriority')

Yield(needed) ==
  IF needed THEN SwitchContext ELSE UNCHANGED <<pxCurrentTCB, xYieldPending>>

-----------------------------------------------------------------------------
Init ==
  /\ stateList = [t \in Tasks |-> "ready"]
  /\ uxPriority = BasePriority
  /\ pxCurrentTCB \in HighestReady(stateList, uxPriority)
  /\ uxSchedulerSuspended = 0
  /\ xYieldPending = FALSE
  /\ uxPendedTicks = 0
  /\ xPendingReadyList = <<>>
  /\ uxMutexesHeld = [t \in Tasks |-> 0]
  /\ uxMessagesWaiting = [q \in Queues |-> IF q \in Mutexes THEN 1 ELSE 0]
  /\ pxMutexHolder = [m \in Mutexes |-> NULL]
  /\ cLock = [qf \in Queues \X Fns |-> queueUNLOCKED]
  /\ xTasksWaiting = [qf \in Queues \X Fns |-> <<>>]
  /\ pc = [t \in Tasks |-> "app"]
  /\ call = [t \in Tasks |-> NULL]
  /\ xTicksToWait = [t \in Tasks |-> "none"]
  /\ expired = [t \in Tasks |-> FALSE]
  /\ outcome = [t \in Tasks |-> "again"]
  /\ xInheritanceOccurred = [t \in Tasks |-> FALSE]

-----------------------------------------------------------------------------
(* Steps of the running task. *)

At(t, label) == pxCurrentTCB = t /\ pc[t] = label
Goto(t, label) == pc' = [pc EXCEPT ![t] = label]

Possible_OneTooMany(q, f) ==
  IF f = "send" THEN uxMessagesWaiting[q] <= uxLength[q] ELSE uxMessagesWaiting[q] > 0

\* There is room for a message (to send), or there is one (to take).
Possible(q, f) ==
  IF f = "send" THEN uxMessagesWaiting[q] < uxLength[q] ELSE uxMessagesWaiting[q] > 0

\* prvCopyDataToQueue and prvCopyDataFromQueue, as far as the count goes.
Transfer(q, f) ==
  uxMessagesWaiting' = [uxMessagesWaiting EXCEPT ![q] = IF f = "send" THEN @ + 1 ELSE @ - 1]

\* xTaskRemoveFromEventList: the first task waiting to do f on q is made ready,
\* or pending ready while the scheduler is suspended.
RemoveFromEventList(q, f) ==
  LET woken == Head(xTasksWaiting[<<q, f>>]) IN
  /\ xTasksWaiting' = [xTasksWaiting EXCEPT ![<<q, f>>] = Tail(@)]
  /\ IF uxSchedulerSuspended = 0
     THEN /\ stateList' = [stateList EXCEPT ![woken] = "ready"]
          /\ UNCHANGED xPendingReadyList
     ELSE /\ xPendingReadyList' = Append(xPendingReadyList, woken)
          /\ UNCHANGED stateList

\* Its result: the woken task outranks the running one.
Outranks(q, f) ==
  /\ xTasksWaiting[<<q, f>>] # <<>>
  /\ uxPriority'[Head(xTasksWaiting[<<q, f>>])] > uxPriority'[pxCurrentTCB]

WakeOne(q, f) ==
  IF xTasksWaiting[<<q, f>>] = <<>>
  THEN UNCHANGED <<xTasksWaiting, stateList, xPendingReadyList>>
  ELSE RemoveFromEventList(q, f)

\* pvTaskIncrementMutexHeldCount, when t takes mutex m.
TakeMutex(t, m) ==
  /\ pxMutexHolder' = [pxMutexHolder EXCEPT ![m] = t]
  /\ uxMutexesHeld' = [uxMutexesHeld EXCEPT ![t] = @ + 1]
  /\ UNCHANGED uxPriority

Disinherits_BeforeLast(t) == uxPriority[t] # BasePriority[t] /\ uxMutexesHeld[t] = 2

\* xTaskPriorityDisinherit, when t gives mutex m: an inherited priority is kept
\* until the last mutex is given back.
Disinherits(t) == uxPriority[t] # BasePriority[t] /\ uxMutexesHeld[t] = 1

GiveMutex_CountsInherited(t, m) ==
  /\ pxMutexHolder' = [pxMutexHolder EXCEPT ![m] = NULL]
  /\ uxMutexesHeld' = [uxMutexesHeld EXCEPT ![t] = IF Disinherits(t) THEN @ - 1 ELSE @]
  /\ uxPriority' = [uxPriority EXCEPT ![t] = IF Disinherits(t) THEN BasePriority[t] ELSE @]

GiveMutex(t, m) ==
  /\ pxMutexHolder' = [pxMutexHolder EXCEPT ![m] = NULL]
  /\ uxMutexesHeld' = [uxMutexesHeld EXCEPT ![t] = @ - 1]
  /\ uxPriority' = [uxPriority EXCEPT ![t] = IF Disinherits(t) THEN BasePriority[t] ELSE @]

UpdateMutex(t, q, f) ==
  CASE q \notin Mutexes -> UNCHANGED prioVars
    [] q \in Mutexes /\ f = "take" -> TakeMutex(t, q)
    [] q \in Mutexes /\ f = "send" -> GiveMutex(t, q)

\* queueYIELD_IF_USING_PREEMPTION after a successful call: a woken task decides,
\* and only when none waits does the disinherited priority.
YieldAfter(t, q, f) ==
  IF xTasksWaiting[<<q, Other(f)>>] # <<>>
  THEN Outranks(q, Other(f))
  ELSE q \in Mutexes /\ f = "send" /\ Disinherits(t)

\* The application makes a call.  It gives back the mutexes it holds, and does
\* not take one again before it gave it back.
Call(t, c) ==
  /\ At(t, "app") /\ c.task = t
  /\ c.fn # "delay" /\ c.queue \in Mutexes =>
       (pxMutexHolder[c.queue] = t <=> c.fn = "send")
  /\ call' = [call EXCEPT ![t] = c]
  /\ xTicksToWait' = [xTicksToWait EXCEPT ![t] = c.wait]
  /\ expired' = [expired EXCEPT ![t] = FALSE]
  /\ xInheritanceOccurred' = [xInheritanceOccurred EXCEPT ![t] = FALSE]
  /\ Goto(t, IF c.fn = "delay" THEN "suspend" ELSE "try")
  /\ UNCHANGED <<pxCurrentTCB, xYieldPending, stateList, uxMessagesWaiting, cLock,
                 xTasksWaiting, schedVars, prioVars, outcome>>

\* The first critical section of xQueueGenericSend, xQueueReceive and
\* xQueueSemaphoreTake: the call succeeds, fails at once, or prepares to block.
TrySucceeds(t) ==
  LET q == call[t].queue  f == call[t].fn IN
  /\ At(t, "try") /\ Possible(q, f)
  /\ Transfer(q, f)
  /\ UpdateMutex(t, q, f)
  /\ WakeOne(q, Other(f))
  /\ Goto(t, "app")
  /\ UNCHANGED <<uxSchedulerSuspended, uxPendedTicks, cLock, callVars>>
  /\ Yield(YieldAfter(t, q, f))

TryFails(t) ==
  /\ At(t, "try") /\ ~Possible(call[t].queue, call[t].fn)
  /\ Goto(t, IF xTicksToWait[t] = "none" THEN "app" ELSE "suspend")
  /\ UNCHANGED <<pxCurrentTCB, xYieldPending, stateList, uxMessagesWaiting, cLock,
                 xTasksWaiting, schedVars, prioVars, callVars>>

SuspendAll(t) ==
  /\ At(t, "suspend")
  /\ uxSchedulerSuspended' = uxSchedulerSuspended + 1
  /\ Goto(t, IF call[t].fn = "delay" THEN "place" ELSE "lock")
  /\ UNCHANGED <<pxCurrentTCB, xYieldPending, stateList, uxMessagesWaiting, cLock,
                 xTasksWaiting, uxPendedTicks, xPendingReadyList, prioVars, callVars>>

\* prvLockQueue: from here to prvUnlockQueue interrupts leave the event lists of
\* the queue alone and count what they do instead.
LockQueue(t) ==
  LET q == call[t].queue IN
  /\ At(t, "lock")
  /\ cLock' = [qf \in Queues \X Fns |->
                 IF qf[1] = q /\ cLock[qf] = queueUNLOCKED
                 THEN queueLOCKED_UNMODIFIED ELSE cLock[qf]]
  /\ Goto(t, "check")
  /\ UNCHANGED <<pxCurrentTCB, xYieldPending, stateList, uxMessagesWaiting,
                 xTasksWaiting, schedVars, prioVars, callVars>>

\* A wait the tick ended is over, any other finite wait may be; portMAX_DELAY
\* never is.
MayTimeOut_Restarted(t, timedOut) == ~timedOut
MayTimeOut(t, timedOut) ==
  /\ xTicksToWait[t] = "portMAX_DELAY" => ~timedOut
  /\ expired[t] => timedOut

\* xTaskCheckForTimeOut.  No time is left after a time-out, unless it is known by the tick
\* count having gone all the way around, which leaves the time as it was.
CheckForTimeOut(t, timedOut) ==
  /\ At(t, "check") /\ MayTimeOut(t, timedOut)
  /\ \E left \in {xTicksToWait[t]} \cup (IF timedOut THEN {"none"} ELSE {}) :
       xTicksToWait' = [xTicksToWait EXCEPT ![t] = left]
  /\ outcome' = [outcome EXCEPT ![t] = IF timedOut THEN "timedOut" ELSE "again"]
  /\ Goto(t, IF timedOut THEN "unlockTx" ELSE "test")
  /\ UNCHANGED <<pxCurrentTCB, xYieldPending, stateList, uxMessagesWaiting, cLock,
                 xTasksWaiting, schedVars, prioVars, call, expired, xInheritanceOccurred>>

TestQueue_Skipped(t) ==
  /\ At(t, "test")
  /\ Goto(t, IF call[t].queue \in Mutexes THEN "inherit" ELSE "place")
  /\ UNCHANGED <<pxCurrentTCB, xYieldPending, stateList, uxMessagesWaiting, cLock,
                 xTasksWaiting, schedVars, prioVars, callVars>>

\* prvIsQueueFull or prvIsQueueEmpty, with the queue locked: block, or try again.
TestQueue(t) ==
  /\ At(t, "test")
  /\ Goto(t, CASE Possible(call[t].queue, call[t].fn) -> "unlockTx"
               [] ~Possible(call[t].queue, call[t].fn) ->
                    IF call[t].queue \in Mutexes THEN "inherit" ELSE "place")
  /\ UNCHANGED <<pxCurrentTCB, xYieldPending, stateList, uxMessagesWaiting, cLock,
                 xTasksWaiting, schedVars, prioVars, callVars>>

\* xTaskPriorityInherit: the holder runs at least at the priority of the waiter.
\* Its item keeps its place in the event list the holder may be in.
PriorityInherit(t) ==
  LET holder == pxMutexHolder[call[t].queue] IN
  /\ At(t, "inherit")
  /\ xInheritanceOccurred' = [xInheritanceOccurred EXCEPT ![t] =
       holder # NULL /\ (uxPriority[holder] < uxPriority[t] \/ BasePriority[holder] < uxPriority[t])]
  /\ uxPriority' = IF holder # NULL /\ uxPriority[holder] < uxPriority[t]
                   THEN [uxPriority EXCEPT ![holder] = uxPriority[t]] ELSE uxPriority
  /\ Goto(t, "place")
  /\ UNCHANGED <<pxCurrentTCB, xYieldPending, stateList, uxMessagesWaiting, cLock,
                 xTasksWaiting, schedVars, uxMutexesHeld, pxMutexHolder,
                 call, xTicksToWait, expired, outcome>>

\* vTaskPlaceOnEventList, or in vTaskDelay prvAddCurrentTaskToDelayedList alone.
PlaceOnEventList(t) ==
  LET q == call[t].queue  f == call[t].fn IN
  /\ At(t, "place")
  /\ xTasksWaiting' = IF f = "delay" THEN xTasksWaiting
                      ELSE [xTasksWaiting EXCEPT ![<<q, f>>] = InsertByPriority(@, t)]
  /\ stateList' = [stateList EXCEPT ![t] =
                     IF xTicksToWait[t] = "portMAX_DELAY" /\ f # "delay"
                     THEN "suspended" ELSE "delayed"]
  /\ outcome' = [outcome EXCEPT ![t] = IF f = "delay" THEN "delayed" ELSE "blocked"]
  /\ Goto(t, IF f = "delay" THEN "resume" ELSE "unlockTx")
  /\ UNCHANGED <<pxCurrentTCB, xYieldPending, uxMessagesWaiting, cLock, schedVars,
                 prioVars, call, xTicksToWait, expired, xInheritanceOccurred>>

\* The loop of prvUnlockQueue: as many of the tasks waiting to do the opposite of
\* f are woken as f was done on the queue while it was locked.
WokenAtUnlock(q, f) ==
  LET n == Len(xTasksWaiting[<<q, Other(f)>>])
      count == IF cLock[<<q, f>>] > queueLOCKED_UNMODIFIED THEN cLock[<<q, f>>] ELSE 0
  IN IF count < n THEN count ELSE n

\* One of the two critical sections of prvUnlockQueue.
UnlockedCount_Kept(q, f) == cLock[<<q, f>>]
UnlockedCount(q, f) == queueUNLOCKED

Unlock(t, f) ==
  LET q == call[t].queue
      n == WokenAtUnlock(q, f)
      woken == SubSeq(xTasksWaiting[<<q, Other(f)>>], 1, n)
  IN
  /\ xTasksWaiting' = [xTasksWaiting EXCEPT ![<<q, Other(f)>>] = SubSeq(@, n + 1, Len(@))]
  /\ xPendingReadyList' = xPendingReadyList \o woken
  /\ xYieldPending' = (xYieldPending \/ \E i \in 1..n : uxPriority[woken[i]] > uxPriority[t])
  /\ cLock' = [cLock EXCEPT ![<<q, f>>] = UnlockedCount(q, f)]
  /\ UNCHANGED <<pxCurrentTCB, stateList, uxMessagesWaiting, uxSchedulerSuspended,
                 uxPendedTicks, prioVars, callVars>>

UnlockTx(t) == At(t, "unlockTx") /\ Unlock(t, "send") /\ Goto(t, "unlockRx")
UnlockRx(t) == At(t, "unlockRx") /\ Unlock(t, "take") /\ Goto(t, "resume")

\* Where the task goes once the scheduler runs again.
After(t) ==
  CASE outcome[t] \in {"again", "blocked"} -> "try"
    [] outcome[t] = "timedOut" -> IF call[t].fn = "send" THEN "app" ELSE "retest"
    [] outcome[t] = "delayed" -> "app"

Expire_KeepsEventItem(E) ==
  /\ UNCHANGED xTasksWaiting
  /\ expired' = [t \in Tasks |-> expired[t] \/ t \in E]

\* The tick handler's work on the delayed tasks of E, whose wake time has come.
Expire(E) ==
  /\ xTasksWaiting' = WithoutTasks(E)
  /\ expired' = [t \in Tasks |-> expired[t] \/ t \in E]

Delayed(lists) == {t \in Tasks : lists[t] = "delayed"}

SwitchAtTick_SliceOnly(E) ==
  Cardinality({t \in Ready(stateList') : uxPriority[t] = uxPriority[pxCurrentTCB]}) > 1

\* xTaskIncrementTick wants a switch: a task that woke is not below the running
\* one, or another ready task shares its priority (time slicing).
SwitchAtTick(E) ==
  \/ \E t \in E : uxPriority[t] >= uxPriority[pxCurrentTCB]
  \/ Cardinality({t \in Ready(stateList') : uxPriority[t] = uxPriority[pxCurrentTCB]}) > 1

\* xTaskResumeAll: the pending ready tasks become ready, then the pended ticks
\* are processed; a switch that is due takes place here.
ResumeAll(t) ==
  LET pended == ToSet(xPendingReadyList)
      moved == [u \in Tasks |-> IF u \in pended THEN "ready" ELSE stateList[u]]
  IN
  /\ At(t, "resume")
  /\ uxSchedulerSuspended' = uxSchedulerSuspended - 1
  /\ xPendingReadyList' = <<>>
  /\ uxPendedTicks' = 0
  /\ UNCHANGED prioVars
  /\ \E E \in SUBSET Delayed(moved) :
       /\ uxPendedTicks = 0 => E = {}
       /\ stateList' = [u \in Tasks |-> IF u \in E THEN "ready" ELSE moved[u]]
       /\ Expire(E)
       /\ LET yield == \/ xYieldPending
                       \/ \E u \in pended : uxPriority[u] >= uxPriority[t]
                       \/ uxPendedTicks > 0 /\ SwitchAtTick(E)
          IN /\ Yield(yield)
             /\ Goto(t, IF ~yield /\ outcome[t] \in {"blocked", "delayed"}
                        THEN "yield" ELSE After(t))
  /\ UNCHANGED <<uxMessagesWaiting, cLock, call, xTicksToWait, outcome, xInheritanceOccurred>>

\* portYIELD_WITHIN_API, when xTaskResumeAll did not yield.
YieldWithinAPI(t) ==
  /\ At(t, "yield")
  /\ UNCHANGED <<stateList, uxMessagesWaiting, cLock, xTasksWaiting, schedVars,
                 prioVars, callVars>>
  /\ Goto(t, After(t))
  /\ SwitchContext

Retest_Skipped(t) ==
  /\ At(t, "retest")
  /\ Goto(t, IF xInheritanceOccurred[t] THEN "disinherit" ELSE "app")
  /\ UNCHANGED <<pxCurrentTCB, xYieldPending, stateList, uxMessagesWaiting, cLock,
                 xTasksWaiting, schedVars, prioVars, callVars>>

\* A receiver whose wait is over leaves only if the queue is still empty.
Retest(t) ==
  /\ At(t, "retest")
  /\ Goto(t, CASE Possible(call[t].queue, call[t].fn) -> "try"
               [] ~Possible(call[t].queue, call[t].fn) ->
                    IF xInheritanceOccurred[t] THEN "disinherit" ELSE "app")
  /\ UNCHANGED <<pxCurrentTCB, xYieldPending, stateList, uxMessagesWaiting, cLock,
                 xTasksWaiting, schedVars, prioVars, callVars>>

HighestWaiting_Ignored(m) == BasePriority[Idle]

\* prvGetDisinheritPriorityAfterTimeout: the priority of the first waiter.
HighestWaiting(m) ==
  IF xTasksWaiting[<<m, "take">>] = <<>> THEN BasePriority[Idle]
  ELSE uxPriority[Head(xTasksWaiting[<<m, "take">>])]

\* vTaskPriorityDisinheritAfterTimeout.
PriorityDisinheritAfterTimeout(t) ==
  LET m == call[t].queue
      holder == pxMutexHolder[m]
      ToUse == IF BasePriority[holder] < HighestWaiting(m)
               THEN HighestWaiting(m) ELSE BasePriority[holder]
  IN
  /\ At(t, "disinherit")
  /\ uxPriority' = IF holder # NULL /\ uxMutexesHeld[holder] = 1
                   THEN [uxPriority EXCEPT ![holder] = ToUse] ELSE uxPriority
  /\ Goto(t, "app")
  /\ UNCHANGED <<pxCurrentTCB, xYieldPending, stateList, uxMessagesWaiting, cLock,
                 xTasksWaiting, schedVars, uxMutexesHeld, pxMutexHolder, callVars>>

-----------------------------------------------------------------------------
(* Interrupts.  They run between any two steps of the running task.         *)

\* xQueueGenericSendFromISR, xQueueGiveFromISR and xQueueReceiveFromISR, with the
\* portYIELD_FROM_ISR of the handlers.
FromISR(q, f) ==
  /\ <<q, f>> \in IsrCalls /\ Possible(q, f)
  /\ Transfer(q, f)
  /\ UNCHANGED <<pc, uxSchedulerSuspended, uxPendedTicks, prioVars, callVars>>
  /\ \/ /\ cLock[<<q, f>>] = queueUNLOCKED
        /\ WakeOne(q, Other(f))
        /\ Yield(Outranks(q, Other(f)))
        /\ UNCHANGED cLock
     \/ /\ cLock[<<q, f>>] # queueUNLOCKED /\ cLock[<<q, f>>] < MaxLock
        /\ cLock' = [cLock EXCEPT ![<<q, f>>] = @ + 1]
        /\ UNCHANGED <<pxCurrentTCB, xYieldPending, stateList, xTasksWaiting, xPendingReadyList>>

\* prvSystemTickHandler and xTaskIncrementTick.
Tick ==
  \E E \in SUBSET Delayed(stateList) :
    /\ uxSchedulerSuspended = 0
    /\ stateList' = [t \in Tasks |-> IF t \in E THEN "ready" ELSE stateList[t]]
    /\ Expire(E)
    /\ UNCHANGED <<uxMessagesWaiting, cLock, pc, schedVars, prioVars,
                   call, xTicksToWait, outcome, xInheritanceOccurred>>
    /\ Yield(SwitchAtTick(E) \/ xYieldPending)

PendTick ==
  /\ uxSchedulerSuspended # 0 /\ uxPendedTicks < MaxPended
  /\ uxPendedTicks' = uxPendedTicks + 1
  /\ UNCHANGED <<pxCurrentTCB, xYieldPending, stateList, uxMessagesWaiting, cLock,
                 xTasksWaiting, pc, uxSchedulerSuspended, xPendingReadyList,
                 prioVars, callVars>>

-----------------------------------------------------------------------------
TaskStep(t) ==
  \/ \E c \in Calls : Call(t, c)
  \/ TrySucceeds(t) \/ TryFails(t)
  \/ SuspendAll(t) \/ LockQueue(t)
  \/ \E timedOut \in BOOLEAN : CheckForTimeOut(t, timedOut)
  \/ TestQueue(t) \/ PriorityInherit(t) \/ PlaceOnEventList(t)
  \/ UnlockTx(t) \/ UnlockRx(t) \/ ResumeAll(t) \/ YieldWithinAPI(t)
  \/ Retest(t) \/ PriorityDisinheritAfterTimeout(t)

Interrupt == Tick \/ PendTick \/ \E q \in Queues, f \in Fns : FromISR(q, f)

Next == Interrupt \/ \E t \in Tasks : TaskStep(t)

Spec == Init /\ [][Next]_vars

\* The running task executes; while ticks come, every finite wait is over at some
\* tick, and a task that goes on waiting notices that its time has elapsed.
Fairness ==
  \A t \in Tasks :
    /\ WF_vars(TaskStep(t) /\ pc[t] # "app")
    /\ SF_vars((Tick \/ TaskStep(pxCurrentTCB)) /\ ~expired[t] /\ expired'[t])
    /\ SF_vars(CheckForTimeOut(t, TRUE))

FairSpec == Spec /\ Fairness

-----------------------------------------------------------------------------
Labels == {"app", "try", "suspend", "lock", "check", "test", "inherit", "place",
           "unlockTx", "unlockRx", "resume", "yield", "retest", "disinherit"}

\* Every variable keeps the type of the C object it stands for.
TypeOK ==
  /\ pxCurrentTCB \in Tasks
  /\ uxSchedulerSuspended \in {0, 1}
  /\ xYieldPending \in BOOLEAN
  /\ uxPendedTicks \in Nat
  /\ stateList \in [Tasks -> {"ready", "delayed", "suspended"}]
  /\ xPendingReadyList \in Seq(Tasks)
  /\ uxPriority \in [Tasks -> Nat]
  /\ uxMutexesHeld \in [Tasks -> Nat]
  /\ uxMessagesWaiting \in [Queues -> Nat]
  /\ \A q \in Queues : uxMessagesWaiting[q] <= uxLength[q]
  /\ pxMutexHolder \in [Mutexes -> Tasks \cup {NULL}]
  /\ cLock \in [Queues \X Fns -> Nat \cup {queueUNLOCKED}]
  /\ xTasksWaiting \in [Queues \X Fns -> Seq(Tasks)]
  /\ pc \in [Tasks -> Labels]
  /\ call \in [Tasks -> Calls \cup {NULL}]
  /\ xTicksToWait \in [Tasks -> Waits]
  /\ expired \in [Tasks -> BOOLEAN]
  /\ outcome \in [Tasks -> {"again", "timedOut", "blocked", "delayed"}]
  /\ xInheritanceOccurred \in [Tasks -> BOOLEAN]

-----------------------------------------------------------------------------
(* Safety. *)

Waiting(q, f) == ToSet(xTasksWaiting[<<q, f>>])
Available(q, f) ==
  IF f = "send" THEN uxLength[q] - uxMessagesWaiting[q] ELSE uxMessagesWaiting[q]

\* Tasks inside f on q that will look at the queue again before they block.
Retrying(q, f) ==
  {t \in Tasks : /\ t \notin Waiting(q, f)
                 /\ \/ pc[t] = "try"
                    \/ /\ pc[t] \in {"unlockTx", "unlockRx", "resume", "yield", "retest"}
                       /\ f = "take" \/ outcome[t] # "timedOut"
                 /\ call[t].queue = q /\ call[t].fn = f}

\* While a task waits on an unlocked queue, every message (or free slot) it could
\* have had is covered by a task already woken for it: a post that came between
\* the test of the queue and the blocking, or while the queue was locked, woke
\* somebody (the lock counts of prvLockQueue and prvUnlockQueue).
NoLostWakeup ==
  \A q \in Queues, f \in Fns :
    cLock[<<q, Other(f)>>] = queueUNLOCKED /\ xTasksWaiting[<<q, f>>] # <<>> =>
      Available(q, f) <= Cardinality(Retrying(q, f))

InEventList(t) == \E q \in Queues, f \in Fns : t \in Waiting(q, f)

\* A task is in at most one event list, once, and only for the call it is in; it
\* is then off the ready lists and not pending ready.
EventListsSound ==
  /\ \A q \in Queues, f \in Fns :
       /\ IsInjective(xTasksWaiting[<<q, f>>])
       /\ \A t \in Waiting(q, f) : call[t].queue = q /\ call[t].fn = f
  /\ IsInjective(xPendingReadyList)
  /\ \A t \in Tasks : InEventList(t) => stateList[t] # "ready" /\ t \notin ToSet(xPendingReadyList)

\* Only a task between prvLockQueue and prvUnlockQueue has a queue locked, it is
\* the running one, the scheduler is suspended, and it is the only one.
LockedOnlyByRunner ==
  /\ \A qf \in Queues \X Fns : cLock[qf] # queueUNLOCKED =>
       /\ uxSchedulerSuspended = 1
       /\ call[pxCurrentTCB].queue = qf[1]
       /\ pc[pxCurrentTCB] \in {"check", "test", "inherit", "place", "unlockTx", "unlockRx"}
  /\ \A t \in Tasks \ {pxCurrentTCB} :
       pc[t] \notin {"lock", "check", "test", "inherit", "place", "unlockTx", "unlockRx", "resume"}

\* An interrupt that only gives a semaphore cannot push its lock count past the
\* messages there are, hence past uxLength: the int8_t does not overflow.
LockCountBounded ==
  \A q \in Queues : <<q, "take">> \notin IsrCalls => cLock[<<q, "send">>] <= uxMessagesWaiting[q]

\* Unless a switch is held back by the scheduler being suspended, or by the yield
\* the running task is about to make, no ready task outranks the running one.
HighestPriorityRuns ==
  uxSchedulerSuspended = 0 /\ pc[pxCurrentTCB] # "yield" =>
    \A t \in Ready(stateList) : uxPriority[t] <= uxPriority[pxCurrentTCB]

\* A mutex is free exactly when nobody holds it, and the counts of uxMutexesHeld,
\* which decide when an inherited priority is dropped, agree with the holders.
MutexHolders ==
  /\ \A m \in Mutexes : pxMutexHolder[m] = NULL <=> uxMessagesWaiting[m] = 1
  /\ \A t \in Tasks : uxMutexesHeld[t] = Cardinality({m \in Mutexes : pxMutexHolder[m] = t})

\* A task that holds no mutex is back at its base priority, and no priority is
\* ever below it.
PriorityRestored ==
  \A t \in Tasks : /\ uxPriority[t] >= BasePriority[t]
                   /\ uxMutexesHeld[t] = 0 => uxPriority[t] = BasePriority[t]

\* Priority inheritance: the holder of a mutex is not outranked by a task that is
\* blocked on it, whatever waiters time out.
HolderOutranksWaiters ==
  \A m \in Mutexes : \A t \in Waiting(m, "take") :
    pxMutexHolder[m] # NULL => uxPriority[t] <= uxPriority[pxMutexHolder[m]]

\* tasks.c: "The event list is sorted in priority order, so the first in the list
\* can be removed as it is known to be the highest priority."
EventListsSorted ==
  \A q \in Queues, f \in Fns : \A i, j \in 1..Len(xTasksWaiting[<<q, f>>]) :
    i < j => uxPriority[xTasksWaiting[<<q, f>>][i]] >= uxPriority[xTasksWaiting[<<q, f>>][j]]

\* Inherited priorities keep the order of those who wait: nobody below them runs in
\* their place, and the first of them gets the mutex.
WaitersRespected == HolderOutranksWaiters /\ EventListsSorted

(* What the calls promise. *)

\* A call is over in the eyes of its caller once nothing but its return, or the
\* priority of the holder, is left to do.
Unfinished == [t \in Tasks |-> IF pc[t] \in {"app", "disinherit"} THEN NULL ELSE call[t]]

Atomic == INSTANCE AtomicCalls
  WITH messages <- uxMessagesWaiting, owner <- pxMutexHolder, pending <- Unfinished

\* Blocking, trying again, time-outs, locked queues and wake-ups add nothing to what a call
\* does: it takes effect once, at one moment, or fails only when it may.
ImplementsAtomicCalls == Atomic!Spec

(* What a step may do. *)

\* No ready task outranks the running one.
NobodyOutranks == \A t \in Ready(stateList) : uxPriority[t] <= uxPriority[pxCurrentTCB]

\* queue.c:826.  A task gives its last mutex back and falls to its base priority.  The
\* task it wakes is not above that, and so nobody asks whether another one is.
SwallowsSwitch ==
  LET t == pxCurrentTCB
      list == xTasksWaiting[<<call[t].queue, "take">>]
  IN /\ TrySucceeds(t) /\ call[t].queue \in Mutexes /\ call[t].fn = "send" /\ Disinherits(t)
     /\ list # <<>> /\ uxPriority[Head(list)] <= BasePriority[t]

\* queue.c:1582.  A wait for a mutex times out and lifts the holder: who still waits was
\* itself lifted meanwhile.  No switch follows.
RaisesAtTimeOut ==
  /\ PriorityDisinheritAfterTimeout(pxCurrentTCB)
  /\ \E h \in Tasks : uxPriority'[h] > uxPriority[h]

\* Whatever is nested and times out, those two steps are the only ones after which a ready
\* task outranks the running one: every wake-up, tick, pended switch and change of
\* priority else comes with the switch it calls for.
NothingElseOutranks ==
  [][NobodyOutranks => NobodyOutranks' \/ SwallowsSwitch \/ RaisesAtTimeOut]_vars

(* Liveness. *)

\* The task above all others returns from every call it makes with a finite wait:
\* no event, tick or pended switch that should let it run is lost.
TopTaskReturns ==
  \A t \in Tasks :
    (\A u \in Tasks \ {t} : BasePriority[u] < BasePriority[t]) =>
      (pc[t] # "app" /\ call[t].wait # "portMAX_DELAY" ~> pc[t] = "app")

=============================================================================
