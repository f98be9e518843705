------------------------------- MODULE EthRx -------------------------------
(***************************************************************************)
(* The receive path of the Ethernet driver: the DMA fills a ring of        *)
(* descriptors, the interrupt handler gives a counting semaphore, and one  *)
(* task takes it and reads one frame each time (lwip_freertos_demo.c,      *)
(* ethernetif.c, iLLD IfxEth.c).                                           *)
(*                                                                         *)
(* The DMA runs beside the core; the handler and the tasks share the core, *)
(* so the tasks stand still from the start of the handler to its end.      *)
(* A frame is reduced to its kind and takes one pbuf (PBUF_POOL_BUFSIZE is *)
(* larger than a frame).  A frame that finds no free descriptor is lost:   *)
(* whether the DMA was suspended then makes no difference, as it resumes   *)
(* with the next frame it can store.                                       *)
(***************************************************************************)
EXTENDS Integers, Sequences, FiniteSets

CONSTANTS
  N,             \* IFXETH_MAX_RX_BUFFERS
  MaxCount,      \* what g_eth_swamphore counts to
  PoolSize,      \* PBUF_POOL_SIZE
  Frames,        \* kinds of frames
  StackFrames,   \* the kinds the stack takes: IP and ARP
  NULL

ASSUME EthRxAssumption ==
  /\ N \in Nat \ {0} /\ MaxCount \in Nat \ {0} /\ PoolSize \in Nat
  /\ StackFrames \subseteq Frames
  /\ NULL \notin Frames

VARIABLES
  OWN,             \* OWN[i]: descriptor i belongs to the DMA
  buffer,          \* the frame in the buffer of each descriptor
  dmaDescr,        \* the descriptor the DMA fills next
  pRxDescr,        \* the descriptor the driver reads next
  RI, TI,          \* receive and transmit interrupt status
  enabled,         \* ETH_INTERRUPT_ENABLE
  SRR,             \* a service request waits in SRC_ETH_ETH0_SR
  isr,             \* where the interrupt handler is
  g_eth_swamphore, \* count of the semaphore
  task,            \* where the receive task is
  p,               \* the frame in the pbuf the task allocated
  freePbufs,       \* pbufs left in the pool
  stackPbufs       \* pbufs the stack works on

ringVars == <<OWN, buffer, dmaDescr, pRxDescr>>
irqVars  == <<RI, TI, enabled, SRR>>
taskVars == <<task, p, freePbufs, stackPbufs>>
vars == <<ringVars, irqVars, isr, g_eth_swamphore, taskVars>>

Descriptors == 0..N - 1

Init ==
  /\ OWN = [i \in Descriptors |-> TRUE]
  /\ buffer = [i \in Descriptors |-> NULL]
  /\ dmaDescr = 0 /\ pRxDescr = 0
  /\ RI = FALSE /\ TI = FALSE /\ enabled = TRUE /\ SRR = FALSE
  /\ isr = "idle"
  /\ g_eth_swamphore = 0
  /\ task = "take" /\ p = NULL
  /\ freePbufs = PoolSize /\ stackPbufs = 0

-----------------------------------------------------------------------------
(* The hardware.                                                            *)

\* The interrupt line follows the enabled status bits; its rising edge requests
\* service.
Line(en, ri, ti) == en /\ (ri \/ ti)
RequestOnEdge ==
  SRR' = (SRR \/ (Line(enabled', RI', TI') /\ ~Line(enabled, RI, TI)))

\* A frame is received into the next descriptor of the ring.
FrameArrives(f) ==
  /\ OWN[dmaDescr]
  /\ buffer' = [buffer EXCEPT ![dmaDescr] = f]
  /\ OWN' = [OWN EXCEPT ![dmaDescr] = FALSE]
  /\ dmaDescr' = (dmaDescr + 1) % N
  /\ RI' = TRUE
  /\ UNCHANGED <<pRxDescr, TI, enabled, isr, g_eth_swamphore, taskVars>>
  /\ RequestOnEdge

\* A frame was sent: the handler serves both interrupts.
TransmitDone ==
  /\ TI' = TRUE
  /\ UNCHANGED <<ringVars, RI, enabled, isr, g_eth_swamphore, taskVars>>
  /\ RequestOnEdge

-----------------------------------------------------------------------------
(* ETH_IRQHandler_fos.  It gives one token, whatever it was called for and  *)
(* however many frames arrived.                                             *)

IsrGive ==
  /\ isr = "idle" /\ SRR
  /\ SRR' = FALSE
  /\ enabled' = FALSE
  /\ g_eth_swamphore' = IF g_eth_swamphore < MaxCount THEN g_eth_swamphore + 1
                        ELSE g_eth_swamphore
  /\ isr' = "rx"
  /\ UNCHANGED <<ringVars, RI, TI, taskVars>>

IsrClearRx ==
  /\ isr = "rx"
  /\ RI' = FALSE
  /\ isr' = "tx"
  /\ UNCHANGED <<ringVars, TI, enabled, SRR, g_eth_swamphore, taskVars>>

IsrClearTx ==
  /\ isr = "tx"
  /\ TI' = FALSE
  /\ isr' = "enable"
  /\ UNCHANGED <<ringVars, RI, enabled, SRR, g_eth_swamphore, taskVars>>

\* IfxSrc_clearRequest, then the interrupts are enabled again.
IsrEnable_ThenClear ==
  /\ isr = "enable"
  /\ SRR' = FALSE
  /\ enabled' = TRUE
  /\ isr' = "idle"
  /\ UNCHANGED <<ringVars, RI, TI, g_eth_swamphore, taskVars>>

IsrEnable ==
  /\ isr = "enable"
  /\ SRR' = Line(TRUE, RI, TI)
  /\ enabled' = TRUE
  /\ isr' = "idle"
  /\ UNCHANGED <<ringVars, RI, TI, g_eth_swamphore, taskVars>>

-----------------------------------------------------------------------------
(* ethernetif_recv, ethernetif_input and low_level_input.                   *)

At(label) == isr = "idle" /\ task = label

\* xSemaphoreTake with portMAX_DELAY.
TakeToken ==
  /\ At("take") /\ g_eth_swamphore > 0
  /\ g_eth_swamphore' = g_eth_swamphore - 1
  /\ task' = "length"
  /\ UNCHANGED <<ringVars, irqVars, isr, p, freePbufs, stackPbufs>>

GetRxDataLength_IgnoresOwn ==
  /\ At("length")
  /\ task' = "alloc"
  /\ UNCHANGED <<ringVars, irqVars, isr, g_eth_swamphore, p, freePbufs, stackPbufs>>

\* IfxEth_getRxDataLength: 0 when the descriptor belongs to the DMA.
GetRxDataLength ==
  /\ At("length")
  /\ task' = IF OWN[pRxDescr] THEN "take" ELSE "alloc"
  /\ UNCHANGED <<ringVars, irqVars, isr, g_eth_swamphore, p, freePbufs, stackPbufs>>

\* pbuf_alloc.  When the pool is empty the frame stays in its descriptor.
PbufAlloc ==
  /\ At("alloc")
  /\ task' = IF freePbufs > 0 THEN "copy" ELSE "take"
  /\ freePbufs' = IF freePbufs > 0 THEN freePbufs - 1 ELSE freePbufs
  /\ UNCHANGED <<ringVars, irqVars, isr, g_eth_swamphore, p, stackPbufs>>

CopyFrame ==
  /\ At("copy")
  /\ p' = buffer[pRxDescr]
  /\ task' = "free"
  /\ UNCHANGED <<ringVars, irqVars, isr, g_eth_swamphore, freePbufs, stackPbufs>>

\* IfxEth_shuffleRxDescriptor: the last descriptor is followed by the first.
ShuffleRxDescriptor_PastEnd == pRxDescr' = pRxDescr + 1
ShuffleRxDescriptor == pRxDescr' = (pRxDescr + 1) % N

\* IfxEth_freeReceiveBuffer.
FreeReceiveBuffer_NoShuffle ==
  /\ At("free")
  /\ OWN' = [OWN EXCEPT ![pRxDescr] = TRUE]
  /\ task' = "input"
  /\ UNCHANGED <<buffer, dmaDescr, pRxDescr, irqVars, isr, g_eth_swamphore, p,
                 freePbufs, stackPbufs>>

FreeReceiveBuffer ==
  /\ At("free")
  /\ OWN' = [OWN EXCEPT ![pRxDescr] = TRUE]
  /\ ShuffleRxDescriptor
  /\ task' = "input"
  /\ UNCHANGED <<buffer, dmaDescr, irqVars, isr, g_eth_swamphore, p, freePbufs, stackPbufs>>

\* netif->input takes the frame, or fails and the pbuf is freed; a frame of
\* another kind is freed at once.
Input_NoFreeOnError(accepted) ==
  /\ At("input")
  /\ accepted => p \in StackFrames
  /\ stackPbufs' = IF accepted THEN stackPbufs + 1 ELSE stackPbufs
  /\ freePbufs' = IF p \in StackFrames THEN freePbufs ELSE freePbufs + 1
  /\ p' = NULL
  /\ task' = "take"
  /\ UNCHANGED <<ringVars, irqVars, isr, g_eth_swamphore>>

Input(accepted) ==
  /\ At("input")
  /\ accepted => p \in StackFrames
  /\ stackPbufs' = IF accepted THEN stackPbufs + 1 ELSE stackPbufs
  /\ freePbufs' = IF accepted THEN freePbufs ELSE freePbufs + 1
  /\ p' = NULL
  /\ task' = "take"
  /\ UNCHANGED <<ringVars, irqVars, isr, g_eth_swamphore>>

\* The stack is done with a frame.
StackFrees ==
  /\ isr = "idle" /\ stackPbufs > 0
  /\ stackPbufs' = stackPbufs - 1
  /\ freePbufs' = freePbufs + 1
  /\ UNCHANGED <<ringVars, irqVars, isr, g_eth_swamphore, task, p>>

-----------------------------------------------------------------------------
Isr == IsrGive \/ IsrClearRx \/ IsrClearTx \/ IsrEnable

ReceiveTask ==
  \/ TakeToken \/ GetRxDataLength \/ PbufAlloc \/ CopyFrame \/ FreeReceiveBuffer
  \/ \E accepted \in BOOLEAN : Input(accepted)

Next ==
  \/ \E f \in Frames : FrameArrives(f)
  \/ TransmitDone \/ Isr \/ ReceiveTask \/ StackFrees

Spec == Init /\ [][Next]_vars

\* The core runs the handler when it is requested and the tasks whenever it is
\* not in the handler, however often it is.  Nothing makes frames arrive.
Fairness == WF_vars(Isr) /\ SF_vars(ReceiveTask) /\ SF_vars(StackFrees)

FairSpec == Spec /\ Fairness

-----------------------------------------------------------------------------
\* Every variable keeps the type of the object it stands for.
TypeOK ==
  /\ OWN \in [Descriptors -> BOOLEAN]
  /\ buffer \in [Descriptors -> Frames \cup {NULL}]
  /\ dmaDescr \in Descriptors /\ pRxDescr \in Descriptors
  /\ RI \in BOOLEAN /\ TI \in BOOLEAN /\ enabled \in BOOLEAN /\ SRR \in BOOLEAN
  /\ isr \in {"idle", "rx", "tx", "enable"}
  /\ g_eth_swamphore \in 0..MaxCount
  /\ task \in {"take", "length", "alloc", "copy", "free", "input"}
  /\ p \in Frames \cup {NULL}
  /\ freePbufs \in 0..PoolSize /\ stackPbufs \in 0..PoolSize

\* Frames received and not read: the descriptors from the driver's to the DMA's
\* belong to the driver, all others to the DMA.
Pending == Cardinality({i \in Descriptors : ~OWN[i]})

\* The driver's and the DMA's positions in the ring stay in step: the descriptors
\* the driver owns are exactly the ones from pRxDescr on, up to dmaDescr.
RingInStep ==
  /\ \A k \in Descriptors : OWN[(pRxDescr + k) % N] <=> k >= Pending
  /\ dmaDescr = (pRxDescr + Pending) % N

\* The order in which the handler clears the status, clears the request and
\* enables the interrupts again loses no interrupt: a frame that comes in between
\* leaves a service request behind.
InterruptNotLost == isr = "idle" /\ (RI \/ TI) => enabled /\ SRR

\* Every pbuf is in the pool, in the hands of the task or with the stack: the
\* error paths of the input leak none.
PbufsAccounted ==
  freePbufs + stackPbufs + (IF task \in {"copy", "free", "input"} THEN 1 ELSE 0) = PoolSize

\* The ring is the channel of FrameChannel; the reader has a frame from the moment
\* its descriptor goes back to the DMA.
Channel == INSTANCE FrameChannel WITH
  Capacity <- N,
  waiting <- [k \in 1..Pending |-> buffer[(pRxDescr + k - 1) % N]],
  taken <- IF task = "input" THEN p ELSE NULL

\* Frames are read in order, once, undamaged, and lost only when N are waiting.
ImplementsChannel == Channel!Spec

\* ethernetif.c: ethernetif_input "should be called when a packet is ready to be
\* read from the interface": a frame in the ring is read at last.
EveryFrameIsRead ==
  \A i \in Descriptors : ~OWN[i] ~> OWN[i]
=============================================================================
