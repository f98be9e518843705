# A TLA+ verification of Tc297_Freertos_Lwip

The repository is the firmware of an Infineon TC297 board: a FreeRTOS kernel with
a TriCore port, lwIP on top of it with an Ethernet driver, six CAN nodes and the
board's own tasks. This directory models the parts of it that run concurrently,
checks the models with TLC and proves the most important invariants with TLAPS.

Paths below are relative to `Multicore_1_KIT_TC297_TFT/`.

## 1. Inventory

| Component | State it keeps | Operations | Interacts through |
|---|---|---|---|
| Kernel queues, semaphores, mutexes (`FreeRtos/queue.c`) | messages waiting, two event lists, two lock counts, mutex holder | `xQueueGenericSend`, `xQueueReceive`, `xQueueSemaphoreTake`, the `FromISR` forms | calls of tasks and interrupt handlers |
| Scheduler (`FreeRtos/tasks.c`, `list.c`) | current task, ready, delayed, suspended and pending ready lists, priorities, pended ticks and yields | suspend and resume, tick, context switch, block, wake, inherit and disinherit a priority | event lists of the queues; the port's trap |
| TriCore port (`FreeRtos/portable/GCC/TriCore/port.c`) | free list of context save areas | yield trap, tick handler, reclaim | the scheduler |
| Ethernet receive (`lwip_freertos_demo.c`, `Lwip/port/netif/DWC_ether/ethernetif.c`, `hEth.c`) | descriptor ring, interrupt status, counting semaphore, pbuf in hand | interrupt handler, `ethernetif_recv`, `low_level_input` | DMA, semaphore, `netif->input` |
| Tick count, delays, time-outs (`tasks.c`) | `xTickCount`, `xNumOfOverflows`, two delayed lists, `xNextTaskUnblockTime`, pended ticks | `vTaskDelay`, `vTaskDelayUntil`, `xTaskCheckForTimeOut`, `xTaskIncrementTick` | tick interrupt, event lists |
| Ethernet transmit and link monitor (`ethernetif.c`, `lwip_freertos_demo.c`, `Lwip/src/core/netif.c`) | transmit descriptors, `pTxDescr`, `link_flag`, `netif->flags` | `low_level_output`, `eth_link_monitor`, `ethernetif_link_callback` | DMA; the holder of the core lock and the monitor share the ring |
| CAN restart (`hCan.c`, `hCanr.c`, `Cpu1_Main.c`) | node status, alert enables, `restart_num`, semaphore | alert handlers on core 1, task on core 0 | shared variable and semaphore |
| CAN send and receive (same files) | message objects | eight tasks and handlers | registers only |
| Message passing to `tcpip_thread` (`Lwip/src/api/tcpip.c`, `Lwip/port/sys/sys_arch_freertos.c`, `memp.c`, `pbuf.c`) | mailbox, three pools, one flag | `tcpip_inpkt`, `tcpip_callback`, `tcpip_thread`, `pbuf_alloc` | mailbox, core lock |
| netconn and sockets (`Lwip/src/api`) | the table of sockets with their event counters, accept and receive mailboxes, connections, the list of selects | accept, receive, close, select, `event_callback` | core lock, mailboxes, `SYS_ARCH_PROTECT` |
| lwIP core (`Lwip/src/core`) | protocol control blocks, timers | input, output, timers | core lock |
| Start-up (`Cpu0_Main.c`, `Cpu1_Main.c`) | the scheduler's data, from two cores | task creation | shared memory |
| Timers, event groups, stream buffers, co-routines | lists and timer queue | not used by the application | kernel |
| Heap (`heap_4.c`) | free list | `pvPortMalloc`, `vPortFree` | scheduler suspension |
| Board drivers (`hUart.c`, `hQspi.c`, `TLF35584.c`, ...) | registers | straight-line | none |

What is hard in this code: interrupts and task switches at every boundary of a
critical section; the kernel's two ways of keeping interrupts out (masking them,
and suspending the scheduler with locked queues); waits that time out while the
event they wait for happens; inherited priorities with several mutexes; one
interrupt for several events; a tick count that wraps and ticks that are made good later;
a transmit ring that two tasks use, one of them without the lock; a socket that is closed,
or not numbered yet, while a select looks at it; two cores that share the data of a scheduler made
for one; pools and mailboxes at their limits. The repository has no unit tests.

What each component has to guarantee is stated by the properties of section 4;
the hazards behind them, with the lines where they bite, are in `PROJECT.json`.

## 2. Modules

| Module | Models |
|---|---|
| `Kernel` | queues, semaphores and mutexes with the scheduler under them |
| `AtomicCalls` | what a call on a queue promises: it takes effect at one moment, or fails only when it may |
| `Ticks` | the tick count, its wrap, the two delayed lists, pended ticks, delays and time-outs |
| `Alarms` | what delays promise: alarms that go off after the ticks asked for |
| `EthRx` | the Ethernet receive path, from the DMA to the stack |
| `FrameChannel` | what the receive path promises: a bounded channel of frames |
| `EthTx` | the transmit ring, its two callers, and the link callback |
| `CanRestart` | the restart of failed CAN nodes |
| `TcpipInput` | packets, messages and pools on the way to `tcpip_thread` |
| `Sockets` | the socket table over netconns: accept, receive, close and select |
| `RingPositions` | lemmas on positions in a ring, for both rings of descriptors |
| `KernelProofs`, `TicksProofs`, `EthRxProofs`, `EthTxProofs`, `CanRestartProofs`, `TcpipInputProofs`, `SocketsProofs` | theorems about the modules they are named after |
| `MCKernel`, `MCTicks`, `MCEthRx`, `MCEthTx`, `MCCanRestart`, `MCTcpipInput`, `MCSockets` | the instances TLC checks |

`Kernel` refines `AtomicCalls`, `Ticks` refines `Alarms` and `EthRx` refines `FrameChannel`. The modules meet in what one
takes from the other as a step: `EthRx`, `CanRestart`, `TcpipInput` and `Sockets` use a
semaphore or a mailbox as `Kernel` provides it, and `Kernel` takes from `Ticks` that a
finite wait ends. They are not composed into one state machine: their product is out of
TLC's reach and none of the properties relates more than the pieces that are together in
one module.

### Kernel

An action is one critical section of the code or the straight-line code between
two, so between any two actions the tick or an interrupt may run. `pc[t]` is where
a task is in its call:

    app -> try -> suspend -> lock -> check -> test -> (inherit ->) place
        -> unlockTx -> unlockRx -> resume (-> yield) -> try | retest | app

`try` is the first critical section of the loop of `xQueueGenericSend`,
`xQueueReceive` and `xQueueSemaphoreTake`; `suspend` is `vTaskSuspendAll`; `lock`
is `prvLockQueue`; `check` is `xTaskCheckForTimeOut`; `test` is `prvIsQueueFull` or
`prvIsQueueEmpty`; `inherit` is `xTaskPriorityInherit`; `place` is
`vTaskPlaceOnEventList`; `unlockTx` and `unlockRx` are the two critical sections of
`prvUnlockQueue`; `resume` is `xTaskResumeAll`; `retest` and `disinherit` are the
end of a wait for a message or a mutex. The two sides of a queue are one model:
`"send"` and `"take"` with `Other(f)` for the opposite side. A `vTaskDelay` is a
call that goes from `suspend` to `place` directly.

Abstracted: the contents of a queue (its number of messages is kept), the position
of a task in the ready list of its priority (any task of the highest priority may
be next), the tick count (a finite wait may end at any tick, and
`xTaskCheckForTimeOut` may find that it has; the values are in `Ticks`), and
`uxTopReadyPriority`. The yield trap is synchronous: nothing runs between the
request and the switch.

`AtomicCalls` is the abstract specification: a call begins, then takes effect and ends in one step, or
fails. A call that waits for ever does not fail, one that takes gives up only when there is
nothing to take, and one that does not wait fails only when it cannot be done; a call that sends may
fail with room in the queue once its time is over, as `xQueueGenericSend` returns without
another look. Only the owner gives a mutex, and it is taken only from nobody. In the refinement
(`ImplementsAtomicCalls`) a call is `Unfinished` until it returns, or until only
the priority of the holder is left to correct (`disinherit`).

### Ticks

The tick count has the width the constant `portMAX_DELAY` gives it. An action is a
call between `vTaskSuspendAll` and its first statement after, `xTaskResumeAll`, one
pended tick that it makes good, or the tick interrupt. `vTaskDelay`, `vTaskDelayUntil`
and a blocking call (`EnterWait`, then `WaitForEvent` for each pass of its loop) insert the
task into the current or the overflow list exactly as `prvAddCurrentTaskToDelayedList` does;
`IncrementTick` switches the lists at the wrap and wakes the leading items. While pended
ticks are processed no task and no interrupt other than the tick runs, as the code is in a
critical section there. `age`, `wait0`, `lag` and `interrupts` are history: how many ticks ago
a call began (it stops counting past one turn), what it asked for, how far the
count is from the wake time of a period, and the tick interrupts. `Alarms` is the abstract
specification; `Left` computes, from the lists, the ticks each task still has to go.

### EthTx

The steps of `low_level_output` are the reads and writes of `pTxDescr`, OWN and the
buffer, as the iLLD functions `IfxEth_getTransmitBuffer`, `IfxEth_waitTransmitBuffer`,
`IfxEth_sendTransmitBuffer` and `IfxEth_shuffleTxDescriptor` make them one after the other.
A frame is copied in two pieces, the first pbuf of its chain and the rest. `eth_link_monitor` outranks
every task that holds the core lock, so it may start between any two steps of an output and
the output stands still until the monitor delays again; it never takes the lock. There is one way
for the two to share the core: `mem_malloc` and `mem_free`, which the monitor reaches from its
announcement and from `netif_set_down`, take `mem_mutex` (mem.c:630, 722). If the task of the stack
holds it then, the monitor waits, that task inherits the monitor's priority (`TakesMemMutex`), and
since the core lock is still held, `xTaskPriorityDisinherit` (tasks.c:3907) leaves it that priority
until it gives the core lock (`UnlockCore`). While `inherited` holds, the tick slices time between the two
(`At`), and either may come into the middle of the other's output. The monitor's
own part follows `ethernetif_link_callback` through `netif_set_up`, `netif_set_link_up` and
the callback nested in them. `sending` and `disturbed` are history: the frames handed to the DMA,
and whether one caller has come into the middle of the other's output, whichever way round; `disturbed`
ends when the ring is empty and in step again, and while it holds nothing is remembered in `sending`.
Assumed of the hardware: the DMA sends a descriptor it owns sooner or later, in the order of
the ring. `igmp_report_groups` is left out, as it only starts timers.

### EthRx

The DMA, the interrupt handler and the receive task are three actors; the handler
and the task share the core, the DMA runs at any time. The status bits are separate
from the service request: the line requests on a rising edge of enabled status. The
handler's steps are those between which the DMA matters: give, clear receive, clear
transmit, clear the request and enable. The driver's functions are modelled from
the iLLD code they call: `IfxEth_getRxDataLength`, `IfxEth_freeReceiveBuffer`.
`freePbufs` stands for the pool. The task `test_eth_fos` that would also allocate
from it is commented out in `Cpu0_Main.c`, so the receive task is the only
allocator. With an empty pool the code also calls a debugger hook, which is left
out: the frame stays in its descriptor. Of the status only the receive and transmit bits are kept: the
summary bit NIS is taken to follow them, and the bits TU and ERI, which the handler also clears, ask for
no token of their own. Received, the frame is a member of a set of
kinds: those the stack takes, and others.

`FrameChannel` is the abstract specification: frames arrive in a bounded channel
or are lost when it is full, and are taken in order. `ImplementsChannel` is the
refinement: `waiting` is the sequence of frames in the descriptors the driver owns
and `taken` the frame the task holds once its descriptor is the DMA's again.

### CanRestart

The handlers run on core 1 and the task on core 0, so each access to shared state is
a step. Handlers nest, but only from one point on: an interrupt is taken with interrupts disabled, and
`xSemaphoreGiveFromISR` ends by enabling them (portmacro.h:183-193), so between the give and
`restart_num` (hCan.c:62, 64) an alert handler of higher priority may run from beginning to end or
stop at its own assertion (`MayStart`, `handlerAt`). Their priorities are in the order of the nodes
(hCan.c:31-34, hCanr.c:22-23). A give of the semaphore is one step, which assumes that the two cores do not
corrupt the event list of the semaphore; see section 7.

### TcpipInput

Tasks interleave at the critical sections of `memp_malloc`, of the flag
`pbuf_free_ooseq_pending` and of the mailbox. `tcpip_thread` handles a packet
under the core lock in one step, and frees the out-of-sequence segments of one
connection in two, since the flag is cleared before. Packets are counted: free,
posted, kept out of sequence by a connection, or with the application.

### Sockets

The stack (`tcpip`), servers that accept, receive and close, and tasks that select are
interleaved at every `SYS_ARCH_PROTECT` section of `sockets.c` and every unprotected
access to what they share. `event` is the call of `event_callback` each of them may have under
way: it counts the event in `conn->socket` while the connection has no number (`count`), or in
the socket (`set`), and then walks the list of selects, letting go of it at every element
(`walk`). The core lock keeps the stack and the deletion of a netconn apart (`CoreLockFree`).
lwIP wants one task at a time on a netconn, so servers do not share one; selects may look at
any socket. The three passes of `lwip_selscan` and the loops over `select_waiting` take one
socket per step. `lost`, `leaked` and `early` are history: messages and connections that
`sys_mbox_trypost` dropped, and selects that wait for a socket that had no number yet when
they looked at it. The exemption of `early` lasts until that select is over.
`netconn_delete` gives the core lock back before `netconn_free` (`CoreLockFree`). An accept may abort for
want of a netconn, a control block, a mailbox or a semaphore (`AcceptAborts`).

Left out: the return of `event_callback` for a number without a socket (sockets.c:602-605), which no
call meets while one task uses a netconn; a close for which there is no memory and that `poll_tcp` finishes
later (api_msg.c:1083-1088); partial reads (`lastdata`), half-closed and reset connections, closing the listener,
`lwip_socket`, and selecting for writing and errors, which set a flag of their own and walk
the same list.

## 3. Runs

| Run | Instance | States | Shows |
|---|---|---|---|
| `KernelQueue` | 4 tasks, queue of one, interrupts on both sides, a mutex that two of the tasks share | 1,738,100 | type invariant, no lost wake-up, sound event lists, locks only by the runner, the highest priority runs while priorities are inherited and dropped |
| `KernelSemaphore` | 4 tasks, semaphore of two, interrupts give, fairness | 26,106 | lock counts bounded, the top task returns from every finite wait |
| `KernelMutex` | 4 tasks, two mutexes given in any order, finite and infinite waits | 765,449 | holders and counts, priorities restored, waiters respected, only two steps let a ready task outrank the runner, refinement of `AtomicCalls` |
| `Ticks` | 2 tasks, a count of two bits, up to two pended ticks, fairness | 129,465 | lists sound at the wrap, no tick lost, time-outs and periods exact, refinement of `Alarms`, every delay ends |
| `EthRx` | 3 descriptors, 4 tokens, 2 pbufs, 2 kinds of frames | 77,892 | ring in step, no interrupt lost, no pbuf leaked, refinement of `FrameChannel` |
| `EthRxStranded` | 2 descriptors, fairness | stops at the counterexample | a frame may stay in the ring until some later interrupt, which need not come |
| `EthTx` | 2 descriptors, a frame of the stack and the announcement, fairness | 265,378 | ring in step and frames whole unless one caller comes into the middle of the other's output, interface and `link_flag` agree, outputs end, the interface follows the link |
| `EthTxStuck` | 2 descriptors, 1 frame, fairness | stops at the counterexample | an output that the other caller disturbed may never return |
| `CanRestart` | 3 nodes, semaphore of two, nested handlers | 12,640 | tokens never outnumber failed nodes |
| `CanRestartLost` | same, fairness | stops at the counterexample | a failed node may never be restarted |
| `TcpipInput` | 4 pbufs, 2 + 1 messages, mailbox of 3, 2 connections, fairness | 2,521 | packets and messages accounted, the flag never stale, an empty pool is refilled from out-of-sequence segments |
| `Sockets` | 2 sockets, a listener and a connection, mailboxes of one, a server, two selects | 2,196,424 | events match messages, no connection lost, `select_waiting` counts, closed sockets kept, no select missed |

Bounds. `MaxPended` (ticks while the scheduler is suspended) is 1: further ticks only
add to a counter whose effect, the set of waits that end, is already chosen freely.
`MaxLock` (a lock count) is one more than the length of the queue, so that the loops of
`prvUnlockQueue` run zero, one and two times and a count could pass the messages. Four
tasks are the smallest number with an idle task, a holder, a waiter that outranks
it and one between them; nested inheritance needs no more. Queues of one and two
reach full and empty within a call. Three descriptors make a ring with an inside;
the semaphore counts one past them. Two pbufs make an empty pool with a frame still
in the ring. Three nodes are one more than the CAN semaphore counts. Two messages of
a type and two connections are enough for one of each to be in use and one free.
In `Ticks` a count of two bits makes every delay but the shortest cross the wrap from
some tick, and a wait of three ticks, an infinite wait, and two turns of the count happen;
`MaxPended` is 2, so the count may wrap while ticks are pended, and `OverflowModulus` 3 keeps
apart the numbers of overflows that a wait of at most one turn compares. One task makes periodic
delays and the other waits and delays: two are needed for a list with an order, and either may
suspend the scheduler while the other is released. In `EthTx` two descriptors are a ring that
the stack fills while the monitor needs one; a third only makes the wait rarer. The stack sends
one kind of frame, again and again: the announcement is the second, which is enough to see a frame that
is half one and half the other. The invariants are proved for any ring and any frames. In `Sockets` a second slot that is taken, closed
and taken again is what the races over `select_waiting` need; mailboxes of one message are full
after one; `MaxLost` (messages dropped per netconn) is 1, so that counters run one ahead of
their mailboxes; one select reads both sockets and the other one of them, so that a walk has an
inside and a set a first and a second half. The board's own configuration
(4 netconns, mailboxes of 12, only UDP sockets, no select) exercises less than this instance.

Every property of a passing run is shown to depend on the code by a mutant
(`PROJECT.json`): a plausible mistake in one definition, with which TLC finds the
property violated under the same configuration.

### Fairness

`Kernel`: the running task goes on (weak fairness of its steps inside a call); while
a task's finite wait has not ended, ticks keep coming and one of them ends it (strong
fairness, because the tick is disabled while the scheduler is suspended); a
task that keeps waiting finds out at a later check that its time is over. The tick
is a hardware timer, and `xTaskCheckForTimeOut` compares with it. No fairness is
assumed of the application or of device interrupts. `EthRx`: the core runs the
handler when it is requested; the receive task and the stack are strongly fair,
because interrupts disable their steps again and again. No frame need arrive.
`Ticks`: the timer
interrupts, pended ticks are processed, and a task that suspended the scheduler resumes it;
no task is assumed to call anything. `EthTx`: the DMA sends, the monitor wakes every second,
and the stack's task is strongly fair as the monitor interrupts it, in its output and in giving
the core lock, since a call into the stack ends; no frame need be sent,
and `OutputEnds` speaks of a link that settles (`LinkSettles`), since each change of the link brings the
monitor back above the stack. `CanRestart`: both cores go on; nodes need not fail. `TcpipInput`: both tasks go on;
the application and new frames are not assumed; `OoseqReclaimed` therefore speaks of one
request, and of a task that keeps asking. `Sockets` states safety only.

## 4. Properties

| Property | Why it could be wrong |
|---|---|
| `NoLostWakeup` | a post between the test of a queue and the blocking on it |
| `EventListsSound` | a task woken twice while the lists are being changed |
| `LockedOnlyByRunner` | a queue left locked across a switch |
| `HighestPriorityRuns` | a switch that was due while the scheduler was suspended, or when a give drops an inherited priority |
| `NothingElseOutranks` | a wake-up, a time-out or a change of several inherited priorities without the switch it calls for |
| `LockCountBounded` | an 8-bit count incremented in interrupts |
| `MutexHolders`, `PriorityRestored` | several mutexes given in any order, waits that time out |
| `WaitersRespected` | the holder's priority after a waiter leaves |
| `ImplementsAtomicCalls` | a receiver that gives up while a message comes, a call that takes effect twice or fails with effect |
| `TopTaskReturns` | a tick or a switch that is lost on the way |
| `RingInStep`, `PbufsAccounted`, `InterruptNotLost` | full ring, empty pool, errors, the order in which the handler clears |
| `ListsSound` | the switch of the lists at the wrap, interrupts that release a task while the scheduler is suspended |
| `TicksAccounted` | ticks pended and made good one at a time |
| `TimeOutExact`, `PeriodKept` | subtraction and comparison modulo the width of the count |
| `DelaysExact`, `DelayEnds` | a task beyond the wrap that wakes at once, a turn late or never |
| `ImplementsChannel` | a frame read twice, out of order, or lost with room in the ring |
| `RingSound` | two callers on one descriptor, a frame sent before it is copied |
| `OutputEnds` | a wait for a descriptor in a loop that never yields |
| `NetifMatchesFlag`, `LinkIsFollowed` | a callback that calls itself through `netif` while the link changes |
| `EventsMatchMessages` | events of a connection before, while and after it gets its number |
| `ConnectionsAccounted` | accept with a full mailbox, without a netconn, without a socket |
| `WaitingCounted`, `ClosedSocketKept` | a socket closed while a select counts itself in or out |
| `NoSelectMissed` | a list of selects that changes while an event walks it |
| `TokensMatchFailures` | semaphore of two for six nodes, handlers that nest between the give and the number |
| `PacketsAccounted`, `MessagesAccounted` | error paths between three pools and a mailbox |
| `CallbackOnItsWay`, `OoseqReclaimed` | one flag written by two tasks |

## 5. What the checks found

Three runs end in a counterexample, each against a sentence of the repository
(`PROJECT.json`, findings):

- `EthRxStranded`: one token per interrupt, one frame per token: frames that share an
  interrupt stay in the ring.
- `CanRestartLost`: one variable tells the task which node failed, for all nodes, and is
  written after the token is given.
- `EthTxStuck`: the monitor sends without the core lock. If it comes between a read of
  `pTxDescr` and its update, both outputs release one descriptor, driver and DMA lose step,
  and an output waits for a descriptor nobody will free, above the priority of every other task.

What else the code does that a reader should know. It is in the models, and no property
states the contrary:

- queue.c:1474 asserts that a task whose wait for a mutex ended, and that finds the mutex
  given but taken by a task above it, has inherited no priority. It may have.
- queue.c:826 looks at the result of `xTaskPriorityDisinherit` only when no task waits for
  the mutex, although tasks.c:3942-3944 says that "a context switch should occur when the last
  mutex is returned whether a task is waiting on it or not". A task that holds two mutexes and
  inherited through the first it gives back keeps that priority until it gives the second; if a
  task of lower priority waits for the second, the switch to the task it inherited from is
  forgotten until the next tick. The board nests its mutexes so: the tasks of the stack lock
  `mem_mutex` (mem.c:630) inside the core lock (tcpip.c:472), and the link monitor, above them,
  locks `mem_mutex` alone. So `HighestPriorityRuns` does not hold of the whole board. It is checked where no
  task takes two mutexes; what holds with any nesting is `NothingElseOutranks`, which names this
  step (`SwallowsSwitch`) and the next but one.
- A waiter for a mutex whose wait ends is ready at the priority the holder still has from it. If
  the holder gives the mutex before the waiter has run again, and another of lower priority waits,
  the switch is forgotten in the same way. On the board `sys_mutex_lock` waits without end
  (sys_arch_freertos.c:198).
- queue.c:1582 sets the holder of a mutex, after a wait for it timed out, to the priority of the first that
  still waits. If that one was itself lifted while it waited, the holder rises above the running task
  and no switch follows (`RaisesAtTimeOut`).
- `xTaskPriorityInherit` does not move a holder that stands in an event list, so the list is
  no longer sorted and a chain of waiters does not inherit through it. The holder of the core lock does
  wait so, for `mem_mutex`. `WaitersRespected` holds in `KernelMutex`, where a holder that others wait for
  never waits; what holds otherwise is `OnlyTwoStepsDisregard` of section 6, which names this
  step (`Reprices`).
- A CAN handler that runs before the task has created the semaphore stops core 1 at an
  assertion (`asserted` in `CanRestart`).
- `sys_mbox_trypost` returns `ERR_OK` for a message it dropped (sys_arch_freertos.c:243), so
  data that meets a full mailbox is lost although it was acknowledged, and a connection that
  meets a full accept mailbox keeps its netconn for ever (`lost`, `leaked` in `Sockets`).
- A socket that is closed while a select waits on it keeps `select_waiting` above zero, and its
  slot is never used again.
- A select that looks at a socket between `alloc_socket` and the end of `lwip_accept` misses the
  events that the connection brings with it (`early` in `Sockets`).

## 6. What is proved

TLAPS proves, for every value of the constants that satisfies the modules' ASSUMEs:

`KernelProofs`

- `TypeInvariant`: `TypeOK`.
- `OnlyTheRunnerLocks`: `LockedOnlyByRunner`.
- `MutexesAreCounted`: `MutexHolders`.
- `PrioritiesAreRestored`: `PriorityRestored`.
- `LockCountsAreBounded`: `LockCountBounded`.
- `EventListsAreSound`: `EventListsSound`.
- `OnlyTwoStepsOutrank`: `NothingElseOutranks`, for any calls, nests of mutexes and time-outs. A
  ready task comes to outrank the running one in two kinds of step and no other, the give of
  queue.c:826 (`SwallowsSwitch`) and the time-out of queue.c:1582 (`RaisesAtTimeOut`).
- `OnlyTwoStepsDisregard`: waiters stop being respected (`Respect`, below) in two kinds of step and no
  other, that give and one which changes the priority of another task that waits (`Reprices`,
  tasks.c:3822), again for any calls. Its corollary `WaitersAreRespectedOtherwise` says that
  `WaitersRespected` holds up to the first such step.
- `CallsAreAtomic`: the refinement of `AtomicCalls`, for any calls and interrupts.
- `NoWakeupIsLost`: `NoLostWakeup`, for any finite set of tasks.

The argument goes in layers. `Typed` is the type invariant without its two bounds
that need more, with `CallsFitLabels`, which ties the kind of call to the label: a
task at `inherit` waits for a mutex, a task that tries again does not delay.
It is inductive by itself; `WithoutProperties` and `InsertByPriorityProperties` show that the list
operations return lists. On top of it, `Suspension` says that the scheduler is
suspended exactly while the running task is between `vTaskSuspendAll` and
`xTaskResumeAll`, and that no other task is there, and `Locks` which locks may be
set at which label: neither is inductive without the other two, as a context switch
would hand the window to another task. `MutexInv` adds to `MutexHolders` that a
task giving a mutex back holds it, without which a give could release the
mutex of another task. `PriorityRestored` then needs that the holder of a mutex holds at
least one (`HolderHolds`), and `LockCountBounded` that a task which takes a message does so with
every queue unlocked (`UnlockedOutside`).

`EventListsSound` is inductive with `PendingSound` (the pending ready list holds tasks that are not
ready, and is empty unless the scheduler is suspended) and `RunnerReady` (the running task is ready unless it has
just blocked and not yet yielded): a task that enters a list was in none.

Neither `HighestPriorityRuns` nor `WaitersRespected` holds for every value of the constants, as
section 5 says, and conditions on the calls that make them hold would exclude the board, whose tasks nest
`mem_mutex` in the core lock. They are checked on the instances only. What is proved in their place has no
condition: it says of every step that it keeps the fact, or is one of the named steps that section 5
describes.

Mutexes make priorities change, and with them what these facts compare. A step changes
a priority in one of three ways (`PriorityMoves`): a waiter raises the holder, a give drops the
holder to its base, a time-out sets it to the first that still waits. For `NothingElseOutranks`
(`NobodyOutranks` is `HighestPriorityRuns` at every step, also while the scheduler is suspended, when nobody
becomes ready) a give that drops a priority must wake a task above the new one, or else there is no
switch; this is what a step that is not `SwallowsSwitch` does (`FreeToSwitch`, `DropSwitches`).

`WaitersRespected` is kept only together with two more facts (`Respect`): `Blockers`, of a task
between its test of a mutex and its place in the list (the mutex is still held, and the holder has
inherited from it already), and `Heirs`, of a free mutex that has waiters (a task that outranks them
all is about to try for it). A holder that is raised keeps the lists sorted only if it stands in none
of them, which is what a step that is not `Reprices` grants. When the mutex is given, the first of the
sorted list becomes its heir (`GiveMakesHeir`), until it or somebody else holds the mutex.

For the refinement of `AtomicCalls`, `WaitsAsAsked` carries from step to step what a call knows of
its wait: `xTicksToWait` stands for an infinite wait exactly if the call asked for one, only a call that
may wait gets past its first try, and an outcome of `timedOut` means that the wait is over. That a
taken mutex was nobody's comes from `MutexHolders`, that a given one was the giver's from
`GiversHold`.

`NoLostWakeup` speaks of unlocked queues only. `AllCovered` extends it to locked ones: what a
waiting task could have is at most the tasks that look again plus `Owed`, what the lock count remembers.
A task that blocks must not break it, so `TestHolds` carries the result of its test of the
queue (nothing there that is not owed) from the test to the blocking, across every interrupt between
them; this is what `prvLockQueue` is for. `WaitersBlocked` and `OutcomeFits` say that a task taken out of
a list goes on to `try` again and not to the end of its call, and `UnlockShrinks` that `prvUnlockQueue`
takes out exactly what is owed or everybody.

`TicksProofs`

- `TypeInvariant`, `ListsAreSound`, `NoTickIsLost`, `PeriodsAreKept`,
  `TimeOutsAreExact` (`TimeOutExact`), and `DelaysAreExact`, the refinement of `Alarms`; for a
  count of any width.

`ListOK` (sorted, without repeats) is kept by insertion and by removal of the leading items
(`LeadingSplits`), which say what the lists hold as sets; the rest of the argument is about sets of
items only. `DelayedListsSound` is inductive with `EventListSound` and with the
facts that tie a label to a list (a task in its call after `vTaskSuspendAll` is the suspender). For
the refinement `Remaining` of each item falls by one with each tick and is zero exactly for the
items that the tick wakes, across the wrap as well; modular subtraction is treated by
two cases, wrapped or not.

`TimeOutExact` needs more than the call's own variables: `Elapsed` says what the tick count and
the number of overflows are e ticks after the call looked last, for e up to one whole turn of the
count. At e = one turn the count is what it was and only the overflow number tells, which
is why `xTaskCheckForTimeOut` looks at it first (`OverflowsDiffer`, `CheckMeasures`).

`EthRxProofs`

- `TypeInvariant`: `TypeOK`.
- `InterruptsAreNotLost`: `InterruptNotLost`.
- `PbufsAreAccounted`: `PbufsAccounted`, for any ring and pool.
- `RingStaysInStep`: `RingInStep`, for any ring.
- `RingIsAChannel`: the refinement of `FrameChannel`.

The inductive invariant adds that the controller's interrupts are enabled whenever the
handler is not running (`EnabledOutsideHandler`): without it a frame could find the line
off and leave no request. The bounds of the pool in `TypeOK` follow from `PbufsAccounted`.
For the ring, `RingInv` names the number n of descriptors that the driver owns, says that they run
on from `pRxDescr` and that the DMA is behind the last, and what the task has read of its descriptor;
`Pending`, a cardinality, is n by a bijection (`PendingValue`).

`EthTxProofs`

- `TypeInvariant`, `RingIsSound`, `NetifMatchesItsFlag`, and `NestedCallsAreIdle` (the nested
  callback changes no flag, so it nests once only); for any ring and any frames.

While neither caller has come into the middle of the other's output at most one of them holds a descriptor (`OutputsApart`), what it read
of `pTxDescr` is still true (`DescrCurrent`), its descriptor is not the DMA's (`DescrFree`) and
holds the pieces copied so far (`PiecesCopied`). `Callback` says what `flags`, `link_flag`
and `announced` are at each step of the nested callback.

`CanRestartProofs`

- `TypeInvariant`: `TypeOK`; `TokensMatch`: `TokensMatchFailures`, for any number of nodes.

Between turning an alert off and giving the token a handler has a node for which no token is
there yet: `Reserved` counts it, and `AlertOnce` says that a handler starts only for a node whose alert
is on. However deep handlers nest, one at most is before its give (`Threads`).

`TcpipInputProofs`

- `TypeInvariant` (proved only: the bounds of the pools that matter are in the accounting),
  `MessagesAreAccounted`, `CallbackIsOnItsWay`, and `PostsAlwaysFit` (`PostFits`). The
  inductive invariant is the accounting of messages by type: free in its pool, posted in
  the mailbox, or held by one of the two tasks. `PostFits` follows from it with the
  assumption `MboxHoldsAll`, which the shipped 8 + 8 messages and mailbox of 32
  satisfy.

Given that, `PacketsAreAccounted` (`PacketsAccounted`): that posts fit is what keeps a packet from
being lost between the Ethernet task and `tcpip_thread`; the packets that the connections keep
are numbered for each connection, so that a step changes the pairs of one connection only.

Both rings rest on `RingPositions`: the position i steps on from d in a ring of N, which is one to
one and onto.

`SocketsProofs`

- `SelectsAreCounted`: `WaitingCounted`; `ClosedSocketsAreKept`: `ClosedSocketKept`.
- `ConnectionsAreAccounted`: `ConnectionsAccounted`; `EventsAreCounted`: `EventsMatchMessages`;
  `NoSelectIsMissed`: `NoSelectMissed`; `TypeCorrect`: `TypeOK`.

All of them hold for any number of sockets, connections, servers and selects and any size of the
mailboxes, where the run has one server and two selects. They assume of the constants only
`SocketsAssumption`: finitely many servers and selects, `NULL` distinct from everything it
stands beside, mailboxes and bounds that are numbers.

The argument has four layers, each inductive given those before.

- `IInv`. `WaitingCounted` is not inductive: a select that leaves an open socket must find its
  own count. `CountsAgree` makes the count of an open socket exact, which holds because
  `alloc_socket` gives a slot away only when its count is zero; `Loops` says which sockets the
  loops of `lwip_select` have passed, so that a select that meets a closed socket undoes exactly
  what it counted.
- `ConnInv` says where a connection is: a netconn with a number is in the slot of that number, one
  without is in the accept mailbox or in the hand of the server that accepted it, and no two
  servers have the same netconn or slot in hand (`Apart`).
- `EventInv` is the balance of one connection: counted events, plus receives under way, less
  reads under way, are the messages in its mailbox and the lost ones. It needs that a call of
  `event_callback` under way still refers to its connection and to the number that connection
  had when the call read it (`EventSound`), which the core lock of `netconn_delete` gives.
- `SelectInv`: the list holds every select once, and of a select that looked at a ready socket
  either the signal is set or a walk comes. A walk comes to a select if an event is still to
  start it, if the list has changed under it (it starts again), or if the select is behind the
  element at which it stands (`Before`).

Only model-checked: everything under fairness (`TopTaskReturns`, `OoseqReclaimed`, `DelayEnds`,
`OutputEnds`, `LinkIsFollowed`, and the counterexamples), which is out of the prover's reach.
So are `HighestPriorityRuns` and `WaitersRespected`, for the reason given above. Every other invariant
and safety property of a run is stated by a theorem.

## 7. Not modelled, and why

- The contents of queues, `xQueuePeek`, overwrite, send to front, reset, delete,
  recursive mutexes, queue sets, task notifications, task creation and deletion.
- The cores' shared access to the kernel: critical sections mask interrupts on one core
  only, while core 1 creates tasks and gives semaphores. Every such access is a data race whose
  outcome depends on the build, and no invariant of the code holds in between.
- The TCP/IP protocols, vendored from lwIP; `TcpipInput` keeps where packets are held. The ARP
  table that the link monitor clears without the lock (`etharp.c:559`) is part of them.
- Of the sockets: UDP-only paths, connecting, sending, partial reads, closing the listener.
- CAN send and receive: a handler that reads one message object; no state is shared.
- The board drivers: straight-line register accesses.
- Software timers, event groups, stream buffers, co-routines: no task uses them.
- The heap: a sequential algorithm.
- The CSA lists of the port: no task is deleted, so `vPortReclaimCSA` never runs.
- The register headers (`Libraries/Infra/Sfr`), the tables and the rest of the iLLD that no task of
  the application calls: the greater part of the repository's lines, without behaviour of its own.

## 8. Plan

1. `Kernel`, `EthRx`, `CanRestart`, `TcpipInput` and their proofs: done.
2. `Ticks` with `Alarms`, `EthTx`, `Sockets`, the refinement of `FrameChannel` proved: done.
3. The invariants of `Kernel` and `Sockets`, `TimeOutExact`, `PacketsAccounted` and the steps that
   change priorities under nested mutexes: done.
4. `QueueStorage`: the ring buffer of a queue (`pcWriteTo`, `u.pcReadFrom`, front and back)
   refining a sequence.
5. `Heap4`: first fit and coalescing against a set of disjoint free blocks.
6. `TwoCores`: semaphore gives from core 1 against the scheduler of core 0, at the
   granularity of list operations, if the build's outcomes can be pinned down.
7. `EventGroups`, `Timers`, if the application comes to use them.
