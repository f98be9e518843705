-------------------------------- MODULE Ticks --------------------------------
(***************************************************************************)
(* Time in the FreeRTOS kernel (FreeRtos/tasks.c): the tick count that     *)
(* wraps, the two delayed lists that are exchanged when it does, the time  *)
(* of the next wake-up, the ticks that come while the scheduler is         *)
(* suspended, and the three calls that measure time with the tick count:   *)
(* vTaskDelay, vTaskDelayUntil and the time-out of a blocking call         *)
(* (vTaskSetTimeOutState, xTaskCheckForTimeOut).                           *)
(*                                                                         *)
(* An action is a critical section, or a section under vTaskSuspendAll in  *)
(* which only interrupts can run; between two of them the tick or another  *)
(* interrupt may come.  Which ready task runs is left open (any may): the  *)
(* scheduler proper is in module Kernel, where in turn a finite wait may   *)
(* end at any tick.                                                        *)
(*                                                                         *)
(* interrupts, lag, age and wait0 are history variables: they record real  *)
(* time for the properties and no guard of the kernel's code reads them.   *)
(***************************************************************************)
EXTENDS Integers, Sequences, FiniteSets

CONSTANTS
  Tasks,
  Calls,           \* the calls each task makes, a subset of CallNames
  portMAX_DELAY,   \* the largest TickType_t, 2^w - 1
  OverflowModulus, \* xNumOfOverflows is kept modulo this number
  MaxPended,       \* bound on uxPendedTicks
  NULL

CallNames == {"delay", "until", "wait"}

ASSUME TicksAssumption ==
  /\ Calls \in [Tasks -> SUBSET CallNames]
  /\ portMAX_DELAY \in Nat /\ portMAX_DELAY > 1
  /\ OverflowModulus \in Nat /\ OverflowModulus > 2
  /\ MaxPended \in 0..portMAX_DELAY
  /\ NULL \notin Tasks \cup Int

TickType_t == 0..portMAX_DELAY
Period == portMAX_DELAY + 1    \* the ticks in which the count wraps once

VARIABLES
  xTickCount,
  xNumOfOverflows,
  xNextTaskUnblockTime,
  pxDelayedTaskList,           \* sequence of xStateListItems, by wake time
  pxOverflowDelayedTaskList,   \* those whose wake time has overflowed
  xSuspendedTaskList,          \* the tasks that wait without a time-out
  xEventList,                  \* the tasks that wait for the event
  xPendingReadyList,           \* tasks to make ready when the scheduler resumes
  suspender,                   \* the task inside vTaskSuspendAll, or NULL
  uxPendedTicks,               \* ticks that came meanwhile
  uxPendedCounts,              \* those xTaskResumeAll has yet to process
  pc,                          \* where each task is in its call
  xTicksToWait, xTimeOut,      \* locals of the blocking call
  pxPreviousWakeTime,          \* what each task passes to vTaskDelayUntil
  interrupts,                  \* tick interrupts so far, modulo Period
  lag,                         \* ticks since pxPreviousWakeTime, NULL if unknown
  age,                         \* ticks since the blocking call began
  wait0                        \* the wait it was called with

listVars == <<pxDelayedTaskList, pxOverflowDelayedTaskList,
              xNextTaskUnblockTime, xSuspendedTaskList>>
clockVars == <<xTickCount, xNumOfOverflows>>
pendVars == <<uxPendedTicks, uxPendedCounts>>
waitVars == <<xTicksToWait, xTimeOut, wait0>>
vars == <<listVars, clockVars, pendVars, waitVars, xEventList,
          xPendingReadyList, suspender, pc, pxPreviousWakeTime,
          interrupts, lag, age>>

-----------------------------------------------------------------------------
(* Arithmetic of TickType_t. *)

Plus_NoWrap(a, b) == a + b

Plus(a, b) == IF a + b > portMAX_DELAY THEN a + b - Period ELSE a + b
Minus(a, b) == IF a >= b THEN a - b ELSE a - b + Period

(* The delayed lists: sequences of ListItem_t, pvOwner and xItemValue. *)

ListItem_t == [owner : Tasks, value : TickType_t]

Items(list) == {list[i] : i \in 1..Len(list)}
Owners(list) == {item.owner : item \in Items(list)}

\* The number of items at the front of the list whose wake time is at most
\* time: where the loops that walk a list by wake time stop.
Leading_Strict(list, time) ==
  CHOOSE k \in 0..Len(list) :
    /\ \A i \in 1..k : list[i].value < time
    /\ k < Len(list) => list[k + 1].value >= time

Leading(list, time) ==
  CHOOSE k \in 0..Len(list) :
    /\ \A i \in 1..k : list[i].value <= time
    /\ k < Len(list) => list[k + 1].value > time

\* vListInsert: behind the items with the same wake time.
Insert(list, item) ==
  LET k == Leading(list, item.value)
  IN SubSeq(list, 1, k) \o <<item>> \o SubSeq(list, k + 1, Len(list))

\* uxListRemove, of the items of the tasks of T.
Without(list, T) ==
  LET Kept(n) == {i \in 1..n : list[i].owner \notin T}
      all == Kept(Len(list))
  IN [k \in 1..Cardinality(all) |-> list[CHOOSE i \in all : Cardinality(Kept(i)) = k]]

\* prvResetNextTaskUnblockTime
NextUnblockTime_Last(list) ==
  IF list = <<>> THEN portMAX_DELAY ELSE list[Len(list)].value

NextUnblockTime(list) == IF list = <<>> THEN portMAX_DELAY ELSE list[1].value

Delayed == Owners(pxDelayedTaskList) \cup Owners(pxOverflowDelayedTaskList)
Blocked == Delayed \cup xSuspendedTaskList

\* The xStateListItem of each task of T leaves the list that holds it.
RemoveFromStateLists_DelayedOnly(T) ==
  /\ pxDelayedTaskList' = Without(pxDelayedTaskList, T)
  /\ pxOverflowDelayedTaskList' = Without(pxOverflowDelayedTaskList, T)
  /\ UNCHANGED xSuspendedTaskList

RemoveFromStateLists(T) ==
  /\ pxDelayedTaskList' = Without(pxDelayedTaskList, T)
  /\ pxOverflowDelayedTaskList' = Without(pxOverflowDelayedTaskList, T)
  /\ xSuspendedTaskList' = xSuspendedTaskList \ T

\* Task t may run: it is ready, no other task has suspended the scheduler, and
\* the kernel is not in the loop of xTaskResumeAll.
MayRun(t) == t \notin Blocked /\ suspender = NULL /\ uxPendedCounts = 0

-----------------------------------------------------------------------------
Init ==
  /\ xTickCount = 0 /\ xNumOfOverflows = 0
  /\ xNextTaskUnblockTime = portMAX_DELAY
  /\ pxDelayedTaskList = <<>> /\ pxOverflowDelayedTaskList = <<>>
  /\ xSuspendedTaskList = {} /\ xEventList = {} /\ xPendingReadyList = {}
  /\ suspender = NULL
  /\ uxPendedTicks = 0 /\ uxPendedCounts = 0
  /\ pc = [t \in Tasks |-> "app"]
  /\ xTicksToWait = [t \in Tasks |-> 0]
  /\ xTimeOut = [t \in Tasks |-> <<0, 0>>]
  /\ pxPreviousWakeTime = [t \in Tasks |-> 0]
  /\ interrupts = 0
  /\ lag = [t \in Tasks |-> NULL]
  /\ age = [t \in Tasks |-> 0]
  /\ wait0 = [t \in Tasks |-> 0]

-----------------------------------------------------------------------------
(* The tick. *)

\* One tick of kernel time, for the history variables: past one wrap of the
\* count neither vTaskDelayUntil nor a time-out can tell how late it is.
Age ==
  /\ lag' = [t \in Tasks |-> IF lag[t] = NULL \/ lag[t] = portMAX_DELAY
                             THEN NULL ELSE lag[t] + 1]
  /\ age' = [t \in Tasks |-> IF wait0[t] \in 1..portMAX_DELAY - 1 /\ age[t] <= Period
                             THEN age[t] + 1 ELSE age[t]]

\* xTaskIncrementTick while the scheduler is not suspended.
IncrementTick ==
  LET now == Plus(xTickCount, 1)
      wrapped == now = 0   \* taskSWITCH_DELAYED_LISTS
      list == IF wrapped THEN pxOverflowDelayedTaskList ELSE pxDelayedTaskList
      next == IF wrapped THEN NextUnblockTime(list)
                         ELSE xNextTaskUnblockTime
      due == IF now >= next THEN Leading(list, now) ELSE 0
      rest == SubSeq(list, due + 1, Len(list))
  IN /\ xTickCount' = now
     /\ xNumOfOverflows' = IF wrapped THEN (xNumOfOverflows + 1) % OverflowModulus
                                      ELSE xNumOfOverflows
     /\ pxDelayedTaskList' = rest
     /\ pxOverflowDelayedTaskList' = IF wrapped THEN pxDelayedTaskList
                                                ELSE pxOverflowDelayedTaskList
     /\ xNextTaskUnblockTime' = IF now >= next THEN NextUnblockTime(rest)
                                               ELSE next
     /\ xEventList' = xEventList \ {list[i].owner : i \in 1..due}
     /\ Age
     /\ UNCHANGED xSuspendedTaskList

\* The tick interrupt.
Tick ==
  /\ uxPendedCounts = 0
  /\ interrupts' = Plus(interrupts, 1)
  /\ \/ /\ suspender = NULL
        /\ IncrementTick
        /\ UNCHANGED uxPendedTicks
     \/ /\ suspender # NULL /\ uxPendedTicks < MaxPended
        /\ uxPendedTicks' = uxPendedTicks + 1
        /\ UNCHANGED <<listVars, clockVars, xEventList, lag, age>>
  /\ UNCHANGED <<uxPendedCounts, waitVars, xPendingReadyList, suspender, pc,
                 pxPreviousWakeTime>>

-----------------------------------------------------------------------------
(* vTaskSuspendAll ... xTaskResumeAll. *)

\* prvAddCurrentTaskToDelayedList
AddToDelayedList(t, ticks, canBlockIndefinitely) ==
  IF ticks = portMAX_DELAY /\ canBlockIndefinitely
  THEN /\ xSuspendedTaskList' = xSuspendedTaskList \cup {t}
       /\ UNCHANGED <<pxDelayedTaskList, pxOverflowDelayedTaskList,
                      xNextTaskUnblockTime>>
  ELSE LET wake == Plus(xTickCount, ticks)
           item == [owner |-> t, value |-> wake]
       IN /\ IF wake < xTickCount
             THEN /\ pxOverflowDelayedTaskList' = Insert(pxOverflowDelayedTaskList, item)
                  /\ UNCHANGED <<pxDelayedTaskList, xNextTaskUnblockTime>>
             ELSE /\ pxDelayedTaskList' = Insert(pxDelayedTaskList, item)
                  /\ xNextTaskUnblockTime' =
                       IF wake < xNextTaskUnblockTime THEN wake
                                                      ELSE xNextTaskUnblockTime
                  /\ UNCHANGED pxOverflowDelayedTaskList
          /\ UNCHANGED xSuspendedTaskList

\* Task t, somewhere in its code at label, suspends the scheduler.
Suspend(t, label) ==
  /\ MayRun(t)
  /\ suspender' = t
  /\ pc' = [pc EXCEPT ![t] = label]
  /\ UNCHANGED <<clockVars, pendVars, xPendingReadyList, interrupts, age, wait0>>

vTaskDelay(t, ticks) ==
  /\ pc[t] = "app" /\ "delay" \in Calls[t]
  /\ Suspend(t, "delay")
  /\ AddToDelayedList(t, ticks, FALSE)
  /\ UNCHANGED <<xEventList, xTicksToWait, xTimeOut, pxPreviousWakeTime, lag>>

\* Whether vTaskDelayUntil has to delay.
ShouldDelay_NoOverflow(previous, wake) == wake > xTickCount

ShouldDelay(previous, wake) ==
  IF xTickCount < previous
  THEN wake < previous /\ wake > xTickCount
  ELSE wake < previous \/ wake > xTickCount

vTaskDelayUntil(t, increment) ==
  /\ pc[t] = "app" /\ "until" \in Calls[t] /\ lag[t] # NULL
  /\ Suspend(t, "until")
  /\ LET wake == Plus(pxPreviousWakeTime[t], increment)
     IN /\ pxPreviousWakeTime' = [pxPreviousWakeTime EXCEPT ![t] = wake]
        /\ IF ShouldDelay(pxPreviousWakeTime[t], wake)
           THEN AddToDelayedList(t, Minus(wake, xTickCount), FALSE)
           ELSE UNCHANGED listVars
  /\ lag' = [lag EXCEPT ![t] = @ - increment]
  /\ UNCHANGED <<xEventList, xTicksToWait, xTimeOut>>

\* xTaskCheckForTimeOut: the result and what it leaves in *pxTicksToWait and
\* *pxTimeOut.
CheckForTimeOut_NoOverflow(t) ==
  LET elapsed == Minus(xTickCount, xTimeOut[t][2])
  IN IF xTicksToWait[t] = portMAX_DELAY
     THEN [expired |-> FALSE, ticks |-> xTicksToWait[t], timeOut |-> xTimeOut[t]]
     ELSE IF elapsed < xTicksToWait[t]
     THEN [expired |-> FALSE, ticks |-> xTicksToWait[t] - elapsed,
           timeOut |-> <<xNumOfOverflows, xTickCount>>]
     ELSE [expired |-> TRUE, ticks |-> 0, timeOut |-> xTimeOut[t]]

CheckForTimeOut(t) ==
  LET entering == xTimeOut[t][2]
      elapsed == Minus(xTickCount, entering)
  IN IF xTicksToWait[t] = portMAX_DELAY
     THEN [expired |-> FALSE, ticks |-> xTicksToWait[t], timeOut |-> xTimeOut[t]]
     ELSE IF xNumOfOverflows # xTimeOut[t][1] /\ xTickCount >= entering
     THEN [expired |-> TRUE, ticks |-> xTicksToWait[t], timeOut |-> xTimeOut[t]]
     ELSE IF elapsed < xTicksToWait[t]
     THEN [expired |-> FALSE, ticks |-> xTicksToWait[t] - elapsed,
           timeOut |-> <<xNumOfOverflows, xTickCount>>]
     ELSE [expired |-> TRUE, ticks |-> 0, timeOut |-> xTimeOut[t]]

\* The blocking call finds nothing and sets its time-out state.
EnterWait(t, ticks) ==
  /\ MayRun(t) /\ pc[t] = "app" /\ "wait" \in Calls[t]
  /\ pc' = [pc EXCEPT ![t] = "retry"]
  /\ xTicksToWait' = [xTicksToWait EXCEPT ![t] = ticks]
  /\ xTimeOut' = [xTimeOut EXCEPT ![t] = <<xNumOfOverflows, xTickCount>>]
  /\ age' = [age EXCEPT ![t] = 0]
  /\ wait0' = [wait0 EXCEPT ![t] = ticks]
  /\ UNCHANGED <<listVars, clockVars, pendVars, xEventList, xPendingReadyList,
                 suspender, pxPreviousWakeTime, interrupts, lag>>

\* With the scheduler suspended the call looks whether its time has expired; if
\* not and there is still nothing, vTaskPlaceOnEventList blocks the task.
WaitForEvent(t) ==
  /\ pc[t] = "retry" /\ xTicksToWait[t] > 0
  /\ LET check == CheckForTimeOut(t)
     IN /\ xTicksToWait' = [xTicksToWait EXCEPT ![t] = check.ticks]
        /\ xTimeOut' = [xTimeOut EXCEPT ![t] = check.timeOut]
        /\ \/ /\ check.expired
              /\ Suspend(t, "expired")
              /\ UNCHANGED <<listVars, xEventList>>
           \/ /\ ~check.expired
              /\ Suspend(t, "blocked")
              /\ xEventList' = xEventList \cup {t}
              /\ AddToDelayedList(t, check.ticks, TRUE)
           \/ /\ ~check.expired   \* the event has come
              /\ Suspend(t, "again")
              /\ UNCHANGED <<listVars, xEventList>>
  /\ UNCHANGED <<pxPreviousWakeTime, lag>>

\* The call returns: its locals are gone.
Return(t) ==
  /\ pc' = [pc EXCEPT ![t] = "app"]
  /\ xTicksToWait' = [xTicksToWait EXCEPT ![t] = 0]
  /\ xTimeOut' = [xTimeOut EXCEPT ![t] = <<0, 0>>]
  /\ age' = [age EXCEPT ![t] = 0]
  /\ wait0' = [wait0 EXCEPT ![t] = 0]

\* xTaskResumeAll up to the loop over the pended ticks.  A call whose time has
\* expired fails if there is still nothing and otherwise tries again.
xTaskResumeAll(t) ==
  /\ suspender = t
  /\ suspender' = NULL
  /\ uxPendedCounts' = uxPendedTicks
  /\ xPendingReadyList' = {}
  /\ RemoveFromStateLists(xPendingReadyList)
  /\ xNextTaskUnblockTime' =
       IF xPendingReadyList # {} THEN NextUnblockTime(pxDelayedTaskList')
                                 ELSE xNextTaskUnblockTime
  /\ \/ pc[t] \in {"delay", "until", "expired"} /\ Return(t)
     \/ /\ pc[t] \in {"blocked", "again", "expired"}
        /\ pc' = [pc EXCEPT ![t] = "retry"]
        /\ UNCHANGED <<waitVars, age>>
  /\ UNCHANGED <<clockVars, uxPendedTicks, xEventList,
                 pxPreviousWakeTime, interrupts, lag>>

\* One turn of that loop.
ProcessPendedTick_Once ==
  /\ uxPendedCounts > 0
  /\ uxPendedCounts' = 0 /\ uxPendedTicks' = 0
  /\ IncrementTick
  /\ UNCHANGED <<waitVars, xPendingReadyList, suspender, pc, pxPreviousWakeTime,
                 interrupts>>

ProcessPendedTick ==
  /\ uxPendedCounts > 0
  /\ uxPendedCounts' = uxPendedCounts - 1
  /\ uxPendedTicks' = IF uxPendedCounts = 1 THEN 0 ELSE uxPendedTicks
  /\ IncrementTick
  /\ UNCHANGED <<waitVars, xPendingReadyList, suspender, pc, pxPreviousWakeTime,
                 interrupts>>

-----------------------------------------------------------------------------
(* The rest of what tasks and interrupts do. *)

\* The call gets what it waited for, or finds nothing and no time left.
TryAgain(t) ==
  /\ MayRun(t) /\ pc[t] = "retry"
  /\ Return(t)
  /\ UNCHANGED <<listVars, clockVars, pendVars, xEventList, xPendingReadyList,
                 suspender, pxPreviousWakeTime, interrupts, lag>>

\* xTaskRemoveFromEventList: the event comes and releases task t.
xTaskRemoveFromEventList(t) ==
  /\ t \in xEventList /\ uxPendedCounts = 0
  /\ xEventList' = xEventList \ {t}
  /\ \/ /\ suspender = NULL
        /\ RemoveFromStateLists({t})
        /\ UNCHANGED xPendingReadyList
     \/ /\ suspender # NULL
        /\ xPendingReadyList' = xPendingReadyList \cup {t}
        /\ UNCHANGED <<pxDelayedTaskList, pxOverflowDelayedTaskList, xSuspendedTaskList>>
  /\ UNCHANGED <<xNextTaskUnblockTime, clockVars, pendVars, waitVars,
                 suspender, pc, pxPreviousWakeTime, interrupts, lag, age>>

\* A periodic task starts: xLastWakeTime = xTaskGetTickCount().
StartPeriod(t) ==
  /\ MayRun(t) /\ pc[t] = "app" /\ "until" \in Calls[t] /\ lag[t] = NULL
  /\ pxPreviousWakeTime' = [pxPreviousWakeTime EXCEPT ![t] = xTickCount]
  /\ lag' = [lag EXCEPT ![t] = 0]
  /\ UNCHANGED <<listVars, clockVars, pendVars, waitVars, xEventList,
                 xPendingReadyList, suspender, pc, interrupts, age>>

Next ==
  \/ Tick
  \/ ProcessPendedTick
  \/ \E t \in Tasks :
       \/ \E ticks \in 1..portMAX_DELAY :
            vTaskDelay(t, ticks) \/ vTaskDelayUntil(t, ticks) \/ EnterWait(t, ticks)
       \/ WaitForEvent(t)
       \/ xTaskResumeAll(t)
       \/ TryAgain(t)
       \/ xTaskRemoveFromEventList(t)
       \/ StartPeriod(t)

Spec == Init /\ [][Next]_vars

\* The timer keeps interrupting, and a task that has suspended the scheduler
\* resumes it: nothing between the two calls waits.
Fairness ==
  /\ WF_vars(Tick) /\ WF_vars(ProcessPendedTick)
  /\ \A t \in Tasks : WF_vars(xTaskResumeAll(t))

FairSpec == Spec /\ Fairness

-----------------------------------------------------------------------------
(* Properties. *)

\* Every variable has its type, and a task is in at most one state list.
TypeOK ==
  /\ xTickCount \in TickType_t /\ interrupts \in TickType_t
  /\ xNumOfOverflows \in 0..OverflowModulus - 1
  /\ xNextTaskUnblockTime \in TickType_t
  /\ pxDelayedTaskList \in Seq(ListItem_t)
  /\ pxOverflowDelayedTaskList \in Seq(ListItem_t)
  /\ xSuspendedTaskList \subseteq Tasks /\ xEventList \subseteq Tasks
  /\ xPendingReadyList \subseteq Tasks
  /\ suspender \in Tasks \cup {NULL}
  /\ uxPendedTicks \in 0..MaxPended /\ uxPendedCounts \in 0..MaxPended
  /\ pc \in [Tasks -> {"app", "delay", "until", "retry", "blocked", "again", "expired"}]
  /\ xTicksToWait \in [Tasks -> TickType_t] /\ wait0 \in [Tasks -> TickType_t]
  /\ xTimeOut \in [Tasks -> (0..OverflowModulus - 1) \X TickType_t]
  /\ pxPreviousWakeTime \in [Tasks -> TickType_t]
  /\ lag \in [Tasks -> (-portMAX_DELAY..portMAX_DELAY) \cup {NULL}]
  /\ age \in [Tasks -> 0..Period + 1]

Sorted(list) == \A i, j \in 1..Len(list) : i < j => list[i].value <= list[j].value
NoRepeat(list) == \A i, j \in 1..Len(list) : list[i].owner = list[j].owner => i = j

\* The delayed lists are sorted and disjoint; no task of the current list is
\* overdue, all of the overflow list are due after the wrap, and the next
\* unblock time is never later than the first wake time.  At the wrap the
\* current list is empty: the assertion of taskSWITCH_DELAYED_LISTS.
DelayedListsSound ==
  /\ Sorted(pxDelayedTaskList) /\ NoRepeat(pxDelayedTaskList)
  /\ Sorted(pxOverflowDelayedTaskList) /\ NoRepeat(pxOverflowDelayedTaskList)
  /\ Owners(pxDelayedTaskList) \cap Owners(pxOverflowDelayedTaskList) = {}
  /\ Delayed \cap xSuspendedTaskList = {}
  /\ \A item \in Items(pxDelayedTaskList) :
       item.value > xTickCount /\ xNextTaskUnblockTime <= item.value
  /\ \A item \in Items(pxOverflowDelayedTaskList) : item.value < xTickCount

\* A task leaves the event lists and the delayed lists together: whoever waits
\* for the event is blocked, and whoever was released while the scheduler was
\* suspended is still in its list and waits for no event.
EventListSound ==
  /\ xEventList \subseteq Blocked /\ xPendingReadyList \subseteq Blocked
  /\ xSuspendedTaskList \subseteq xEventList \cup xPendingReadyList
  /\ xEventList \cap xPendingReadyList = {}
  /\ suspender = NULL => xPendingReadyList = {}

\* The lists of the scheduler are sound, at every tick and across the wrap.
ListsSound == DelayedListsSound /\ EventListSound

\* No tick is lost by suspending the scheduler.
TicksAccounted ==
  Plus(xTickCount, IF uxPendedCounts > 0 THEN uxPendedCounts ELSE uxPendedTicks)
    = interrupts

\* The ticks until the wake time of a task in a delayed list.
Remaining(t) ==
  LET items == Items(pxDelayedTaskList) \cup Items(pxOverflowDelayedTaskList)
      item == CHOOSE item \in items : item.owner = t
  IN Minus(item.value, xTickCount)

\* vTaskDelayUntil does not drift: a task it delays is released exactly one
\* increment after the previous wake time, however often the count wraps, and
\* it does not delay a task that is already late.
PeriodKept ==
  \A t \in Tasks : lag[t] # NULL =>
    /\ pxPreviousWakeTime[t] =
         Minus(xTickCount, IF lag[t] < 0 THEN lag[t] + Period ELSE lag[t])
    /\ lag[t] < 0 => t \in Delayed /\ Remaining(t) = -lag[t]
    /\ pc[t] = "until" /\ t \in Delayed => lag[t] < 0

\* A blocking call gives up only when its whole wait has passed, and blocks
\* again for exactly what is left of it.
TimeOutExact ==
  \A t \in Tasks : age[t] <= Period =>
    /\ pc[t] = "expired" => wait0[t] # portMAX_DELAY /\ age[t] >= wait0[t]
    /\ pc[t] \in {"blocked", "again"} =>
         xTicksToWait[t] = IF wait0[t] = portMAX_DELAY THEN portMAX_DELAY
                                                       ELSE wait0[t] - age[t]

\* The delays are alarms that go off exactly on time.
Left == [t \in Tasks |-> IF t \in Delayed \ xPendingReadyList
                         THEN Remaining(t) ELSE 0]
A == INSTANCE Alarms WITH left <- Left, MaxDelay <- portMAX_DELAY
DelaysExact == A!Spec

\* Every delay ends, also one that the wrap of the count or a suspended
\* scheduler falls into.
DelayEnds == \A t \in Tasks : t \in Delayed ~> t \notin Delayed
=============================================================================
