----------------------------- MODULE EthRxProofs -----------------------------
(***************************************************************************)
(* Theorems about EthRx, for a ring, a semaphore and a pool of any size.   *)
(*                                                                         *)
(* Typed is TypeOK with the pool's counters bounded from below only; with  *)
(* PbufsAccounted they are bounded from above too.                         *)
(*                                                                         *)
(* RingInv says that the n descriptors the driver owns run on from         *)
(* pRxDescr, that the DMA is at the one behind them, and what the task     *)
(* knows of its own descriptor.  RingInStep follows from it by counting,   *)
(* and so does the refinement of FrameChannel: a frame the DMA stores is   *)
(* appended to waiting, one the task gives back is taken from its front.   *)
(***************************************************************************)
EXTENDS EthRx, RingPositions, FunctionTheorems, FiniteSetTheorems, TLAPS

Typed ==
  /\ OWN \in [Descriptors -> BOOLEAN]
  /\ buffer \in [Descriptors -> Frames \cup {NULL}]
  /\ dmaDescr \in Descriptors /\ pRxDescr \in Descriptors
  /\ RI \in BOOLEAN /\ TI \in BOOLEAN /\ enabled \in BOOLEAN /\ SRR \in BOOLEAN
  /\ isr \in {"idle", "rx", "tx", "enable"}
  /\ g_eth_swamphore \in 0..MaxCount
  /\ task \in {"take", "length", "alloc", "copy", "free", "input"}
  /\ p \in Frames \cup {NULL}
  /\ freePbufs \in Nat /\ stackPbufs \in Nat

\* The interrupts of the controller are enabled whenever the handler is not running.
EnabledOutsideHandler == isr = "idle" => enabled

IInv == Typed /\ EnabledOutsideHandler /\ InterruptNotLost /\ PbufsAccounted

-----------------------------------------------------------------------------
\* The ring's positions wrap inside the ring.
LEMMA NextDescriptor ==
  ASSUME NEW i \in Descriptors
  PROVE  (i + 1) % N \in Descriptors
BY EthRxAssumption DEF Descriptors

\* The initial state is in IInv.
LEMMA InitInv == Init => IInv
<1> SUFFICES ASSUME Init PROVE IInv
  OBVIOUS
<1>1. 0 \in Descriptors
  BY EthRxAssumption DEF Descriptors
<1>2. Typed
  <2>1. g_eth_swamphore \in 0..MaxCount /\ freePbufs \in Nat /\ stackPbufs \in Nat
    BY EthRxAssumption DEF Init
  <2>2. OWN \in [Descriptors -> BOOLEAN] /\ buffer \in [Descriptors -> Frames \cup {NULL}]
    BY DEF Init
  <2> QED
    BY <1>1, <2>1, <2>2 DEF Init, Typed
<1>3. EnabledOutsideHandler /\ InterruptNotLost
  BY DEF Init, EnabledOutsideHandler, InterruptNotLost
<1>4. PbufsAccounted
  BY EthRxAssumption DEF Init, PbufsAccounted
<1> QED
  BY <1>2, <1>3, <1>4 DEF IInv

\* A frame that arrives leaves a service request behind, or the handler is running
\* and makes one when it enables the interrupts.
LEMMA HardwareStep ==
  ASSUME IInv, TransmitDone \/ \E f \in Frames : FrameArrives(f)
  PROVE  IInv'
<1>1. CASE TransmitDone
  <2>1. Typed'
    BY <1>1 DEF IInv, Typed, TransmitDone, RequestOnEdge, Line, ringVars, taskVars
  <2>2. EnabledOutsideHandler' /\ InterruptNotLost'
    BY <1>1 DEF IInv, Typed, EnabledOutsideHandler, InterruptNotLost, TransmitDone,
                RequestOnEdge, Line
  <2>3. PbufsAccounted'
    BY <1>1 DEF IInv, PbufsAccounted, TransmitDone, taskVars
  <2> QED
    BY <2>1, <2>2, <2>3 DEF IInv
<1>2. ASSUME NEW f \in Frames, FrameArrives(f) PROVE IInv'
  <2>1. Typed'
    <3>1. dmaDescr' \in Descriptors
      BY <1>2, NextDescriptor DEF IInv, Typed, FrameArrives
    <3>2. /\ OWN' \in [Descriptors -> BOOLEAN]
          /\ buffer' \in [Descriptors -> Frames \cup {NULL}]
      BY <1>2 DEF IInv, Typed, FrameArrives
    <3>3. SRR' \in BOOLEAN
      BY <1>2 DEF IInv, Typed, FrameArrives, RequestOnEdge, Line
    <3> QED
      BY <1>2, <3>1, <3>2, <3>3 DEF IInv, Typed, FrameArrives, taskVars
  <2>2. EnabledOutsideHandler' /\ InterruptNotLost'
    BY <1>2 DEF IInv, Typed, EnabledOutsideHandler, InterruptNotLost, FrameArrives,
                RequestOnEdge, Line
  <2>3. PbufsAccounted'
    BY <1>2 DEF IInv, PbufsAccounted, FrameArrives, taskVars
  <2> QED
    BY <2>1, <2>2, <2>3 DEF IInv
<1> QED
  BY <1>1, <1>2

\* The handler clears each status once and the request last, and ends with a
\* request for the status that came meanwhile.
LEMMA HandlerStep == ASSUME IInv, Isr PROVE IInv'
<1>1. Typed'
  <2>1. g_eth_swamphore' \in 0..MaxCount
    <3>1. g_eth_swamphore \in 0..MaxCount /\ MaxCount \in Nat
      BY EthRxAssumption DEF IInv, Typed
    <3>2. CASE IsrGive
      BY <3>1, <3>2 DEF IsrGive
    <3>3. CASE IsrClearRx \/ IsrClearTx \/ IsrEnable
      BY <3>1, <3>3 DEF IsrClearRx, IsrClearTx, IsrEnable
    <3> QED
      BY <3>2, <3>3 DEF Isr
  <2>2. SRR' \in BOOLEAN
    BY DEF IInv, Typed, Isr, IsrGive, IsrClearRx, IsrClearTx, IsrEnable, Line
  <2> QED
    BY <2>1, <2>2 DEF IInv, Typed, Isr, IsrGive, IsrClearRx, IsrClearTx, IsrEnable,
                      ringVars, taskVars
<1>2. EnabledOutsideHandler' /\ InterruptNotLost'
  BY DEF IInv, Typed, EnabledOutsideHandler, InterruptNotLost, Isr, IsrGive, IsrClearRx,
         IsrClearTx, IsrEnable, Line
<1>3. PbufsAccounted'
  BY DEF IInv, PbufsAccounted, Isr, IsrGive, IsrClearRx, IsrClearTx, IsrEnable, taskVars
<1> QED
  BY <1>1, <1>2, <1>3 DEF IInv

\* The receive task moves one pbuf from the pool to the stack, or back.
LEMMA TaskStep == ASSUME IInv, ReceiveTask \/ StackFrees PROVE IInv'
<1> DEFINE Alike == UNCHANGED <<irqVars, isr>>
<1>1. EnabledOutsideHandler' /\ InterruptNotLost'
  <2>1. Alike
    BY DEF ReceiveTask, TakeToken, GetRxDataLength, PbufAlloc, CopyFrame,
           FreeReceiveBuffer, Input, StackFrees
  <2> QED
    BY <2>1 DEF IInv, EnabledOutsideHandler, InterruptNotLost, irqVars
<1>2. CASE TakeToken \/ GetRxDataLength \/ PbufAlloc \/ StackFrees
  <2>1. g_eth_swamphore' \in 0..MaxCount
    BY <1>2, EthRxAssumption DEF IInv, Typed, TakeToken, GetRxDataLength, PbufAlloc, StackFrees
  <2>2. freePbufs' \in Nat /\ stackPbufs' \in Nat
    BY <1>2 DEF IInv, Typed, TakeToken, GetRxDataLength, PbufAlloc, StackFrees
  <2>3. Typed'
    BY <1>2, <2>1, <2>2 DEF IInv, Typed, TakeToken, GetRxDataLength, PbufAlloc,
                StackFrees, At, ringVars, irqVars
  <2>4. PbufsAccounted'
    BY <1>2, EthRxAssumption DEF IInv, Typed, PbufsAccounted, TakeToken, GetRxDataLength,
                PbufAlloc, StackFrees, At
  <2> QED
    BY <1>1, <2>3, <2>4 DEF IInv
<1>3. CASE CopyFrame
  <2>1. p' \in Frames \cup {NULL}
    BY <1>3 DEF IInv, Typed, CopyFrame
  <2>2. Typed'
    BY <1>3, <2>1 DEF IInv, Typed, CopyFrame, ringVars, irqVars
  <2>3. PbufsAccounted'
    BY <1>3 DEF IInv, PbufsAccounted, CopyFrame, At
  <2> QED
    BY <1>1, <2>2, <2>3 DEF IInv
<1>4. CASE FreeReceiveBuffer
  <2>1. pRxDescr' \in Descriptors
    BY <1>4, NextDescriptor DEF IInv, Typed, FreeReceiveBuffer, ShuffleRxDescriptor
  <2>2. Typed'
    BY <1>4, <2>1 DEF IInv, Typed, FreeReceiveBuffer, irqVars
  <2>3. PbufsAccounted'
    BY <1>4 DEF IInv, PbufsAccounted, FreeReceiveBuffer, At
  <2> QED
    BY <1>1, <2>2, <2>3 DEF IInv
<1>5. ASSUME NEW accepted \in BOOLEAN, Input(accepted) PROVE IInv'
  <2>1. Typed'
    BY <1>5 DEF IInv, Typed, Input, ringVars, irqVars
  <2>2. PbufsAccounted'
    BY <1>5, EthRxAssumption DEF IInv, Typed, PbufsAccounted, Input, At
  <2> QED
    BY <1>1, <2>1, <2>2 DEF IInv
<1> QED
  BY <1>2, <1>3, <1>4, <1>5 DEF ReceiveTask

\* IInv holds in every reachable state.
THEOREM AlwaysInv == Spec => []IInv
<1>1. IInv /\ [Next]_vars => IInv'
  <2> SUFFICES ASSUME IInv, [Next]_vars PROVE IInv'
    OBVIOUS
  <2>1. CASE UNCHANGED vars
    BY <2>1 DEF IInv, Typed, EnabledOutsideHandler, InterruptNotLost, PbufsAccounted,
                vars, ringVars, irqVars, taskVars
  <2>2. CASE Next
    BY <2>2, HardwareStep, HandlerStep, TaskStep DEF Next
  <2> QED
    BY <2>1, <2>2
<1> QED
  BY InitInv, <1>1, PTL DEF Spec

-----------------------------------------------------------------------------
\* The type invariant: no count leaves its bounds, whatever the interleaving.
THEOREM TypeInvariant == Spec => []TypeOK
<1>1. IInv => TypeOK
  <2> SUFFICES ASSUME IInv PROVE TypeOK
    OBVIOUS
  <2>1. freePbufs \in 0..PoolSize /\ stackPbufs \in 0..PoolSize
    BY EthRxAssumption DEF IInv, Typed, PbufsAccounted
  <2> QED
    BY <2>1 DEF IInv, Typed, TypeOK
<1> QED
  BY AlwaysInv, <1>1, PTL

\* ETH_IRQHandler_fos: whenever the handler is not running, a status bit that is set
\* has a service request that waits.
THEOREM InterruptsAreNotLost == Spec => []InterruptNotLost
<1>1. IInv => InterruptNotLost
  BY DEF IInv
<1> QED
  BY AlwaysInv, <1>1, PTL

\* ethernetif_input and low_level_input: no path leaks a pbuf.
THEOREM PbufsAreAccounted == Spec => []PbufsAccounted
<1>1. IInv => PbufsAccounted
  BY DEF IInv
<1> QED
  BY AlwaysInv, <1>1, PTL

-----------------------------------------------------------------------------
(* The ring.                                                                *)

Pos(d, i) == (d + i) % N

\* A position is a descriptor.
LEMMA PosType == ASSUME NEW d \in Descriptors, NEW i \in Nat PROVE Pos(d, i) \in Descriptors
BY EthRxAssumption, PositionType DEF Descriptors, Pos, Position

\* Different offsets are different descriptors.
LEMMA PosInjective ==
  ASSUME NEW d \in Descriptors, NEW i \in 0..N - 1, NEW j \in 0..N - 1, Pos(d, i) = Pos(d, j)
  PROVE  i = j
BY EthRxAssumption, PositionInjective DEF Descriptors, Pos, Position

\* The offset from the next descriptor is one less.
LEMMA PosShift ==
  ASSUME NEW d \in Descriptors, NEW i \in 0..N - 1
  PROVE  /\ Pos(Pos(d, 1), i) = Pos(d, i + 1)
         /\ Pos(Pos(d, i), 1) = Pos(d, i + 1)
BY EthRxAssumption, PositionShift DEF Descriptors, Pos, Position

\* A whole turn of the ring ends where it began.
LEMMA PosTurn == ASSUME NEW d \in Descriptors PROVE Pos(d, N) = d /\ Pos(d, 0) = d
BY EthRxAssumption, PositionTurn DEF Descriptors, Pos, Position

\* Every descriptor is at some offset from d.
LEMMA PosSurjective ==
  ASSUME NEW d \in Descriptors, NEW i \in Descriptors
  PROVE  \E k \in Descriptors : Pos(d, k) = i
BY EthRxAssumption, PositionSurjective DEF Descriptors, Pos, Position

\* n frames wait in the ring, from pRxDescr on.
Waits(n) ==
  /\ n \in 0..N
  /\ \A k \in Descriptors : OWN[Pos(pRxDescr, k)] <=> k >= n
  /\ dmaDescr = Pos(pRxDescr, n)

\* The frames that wait are real ones, and the task that is about to read one, or
\* has, works on the first.
TaskInRing ==
  /\ \A i \in Descriptors : ~OWN[i] => buffer[i] \in Frames
  /\ task \in {"alloc", "copy", "free"} => ~OWN[pRxDescr]
  /\ task = "free" => p = buffer[pRxDescr]
  /\ task = "input" => p \in Frames

RingInv == TaskInRing /\ \E n \in Nat : Waits(n)

\* The n that Waits speaks of is the number of descriptors that the driver owns.
LEMMA PendingValue ==
  ASSUME OWN \in [Descriptors -> BOOLEAN], pRxDescr \in Descriptors, NEW n \in Nat, Waits(n)
  PROVE  Pending = n
<1> DEFINE Mine == {i \in Descriptors : ~OWN[i]}
           f == [j \in 1..n |-> Pos(pRxDescr, j - 1)]
<1>1. N \in Nat \ {0} /\ n \in 0..N /\ Descriptors = 0..N - 1
  BY EthRxAssumption DEF Waits, Descriptors
<1>2. ASSUME NEW j \in 1..n PROVE j - 1 \in Descriptors /\ j - 1 \in Nat /\ ~(j - 1 >= n)
  BY <1>1, <1>2
<1>3. f \in [1..n -> Mine]
  <2>1. ASSUME NEW j \in 1..n PROVE Pos(pRxDescr, j - 1) \in Mine
    <3>1. j - 1 \in Descriptors /\ j - 1 \in Nat /\ ~(j - 1 >= n)
      BY <1>2
    <3>2. Pos(pRxDescr, j - 1) \in Descriptors
      BY <3>1, PosType
    <3> QED
      BY <3>1, <3>2 DEF Waits
  <2> QED
    BY <2>1
<1>4. \A a, b \in 1..n : f[a] = f[b] => a = b
  <2> SUFFICES ASSUME NEW a \in 1..n, NEW b \in 1..n, f[a] = f[b] PROVE a = b
    OBVIOUS
  <2>1. Pos(pRxDescr, a - 1) = Pos(pRxDescr, b - 1)
    OBVIOUS
  <2>2. a - 1 \in 0..N - 1 /\ b - 1 \in 0..N - 1
    BY <1>1
  <2>3. a - 1 = b - 1
    BY <2>1, <2>2, PosInjective
  <2> QED
    BY <2>3
<1>5. \A i \in Mine : \E j \in 1..n : f[j] = i
  <2> SUFFICES ASSUME NEW i \in Mine PROVE \E j \in 1..n : f[j] = i
    OBVIOUS
  <2>1. PICK k \in Descriptors : Pos(pRxDescr, k) = i
    BY PosSurjective
  <2>2. ~(k >= n)
    BY <2>1 DEF Waits
  <2>3. k + 1 \in 1..n /\ (k + 1) - 1 = k
    BY <1>1, <2>2
  <2>4. f[k + 1] = Pos(pRxDescr, k)
    BY <2>3
  <2> QED
    BY <2>1, <2>3, <2>4
<1>6. f \in Bijection(1..n, Mine)
  BY <1>3, <1>4, <1>5, Fun_IsBij
<1>7. ExistsBijection(1..n, Mine)
  BY <1>6 DEF ExistsBijection
<1>8. Cardinality(Mine) = n
  <2> HIDE DEF Mine
  <2> QED
    BY <1>1, <1>7, FS_CountingElements
<1> QED
  BY <1>8 DEF Pending

\* Initially nothing waits.
LEMMA RingInit == Init => RingInv
<1> SUFFICES ASSUME Init PROVE RingInv
  OBVIOUS
<1>1. N \in Nat \ {0} /\ 0 \in Descriptors
  BY EthRxAssumption DEF Descriptors
<1>2. pRxDescr = 0 /\ dmaDescr = 0 /\ OWN = [i \in Descriptors |-> TRUE]
  BY DEF Init
<1>3. Waits(0)
  <2>1. dmaDescr = Pos(pRxDescr, 0)
    BY <1>1, <1>2, PosTurn
  <2>2. ASSUME NEW k \in Descriptors PROVE OWN[Pos(pRxDescr, k)] <=> k >= 0
    <3>1. k \in Nat /\ k >= 0
      BY <1>1 DEF Descriptors
    <3>2. Pos(pRxDescr, k) \in Descriptors
      BY <1>1, <1>2, <3>1, PosType
    <3> QED
      BY <1>2, <3>1, <3>2
  <2> QED
    BY <1>1, <2>1, <2>2 DEF Waits
<1>4. TaskInRing
  BY <1>2 DEF TaskInRing, Init
<1> QED
  BY <1>3, <1>4 DEF RingInv

\* A frame that arrives waits behind those that wait.
LEMMA ArrivalWaits ==
  ASSUME IInv, RingInv, NEW f \in Frames, FrameArrives(f), NEW n \in Nat, Waits(n)
  PROVE  n + 1 \in 1..N /\ Waits(n + 1)'
<1>1. N \in Nat \ {0} /\ n \in 0..N /\ Descriptors = 0..N - 1
  BY EthRxAssumption DEF Waits, Descriptors
<1>2. /\ pRxDescr \in Descriptors /\ dmaDescr = Pos(pRxDescr, n)
      /\ OWN \in [Descriptors -> BOOLEAN]
  BY DEF IInv, Typed, Waits
<1>3. n # N
  <2>1. SUFFICES ASSUME n = N PROVE FALSE
    OBVIOUS
  <2>2. dmaDescr = pRxDescr /\ Pos(pRxDescr, 0) = pRxDescr
    BY <1>2, <2>1, PosTurn
  <2>3. 0 \in Descriptors /\ ~(0 >= n)
    BY <1>1, <2>1
  <2>4. ~OWN[pRxDescr]
    BY <2>2, <2>3 DEF Waits
  <2> QED
    BY <2>2, <2>4 DEF FrameArrives
<1>4. n \in Descriptors /\ n \in 0..N - 1 /\ n + 1 \in 1..N /\ n + 1 \in 0..N
  BY <1>1, <1>3
<1>5. pRxDescr' = pRxDescr /\ OWN' = [OWN EXCEPT ![dmaDescr] = FALSE] /\ dmaDescr' = Pos(dmaDescr, 1)
  BY DEF FrameArrives, Pos
<1>6. dmaDescr' = Pos(pRxDescr', n + 1)
  BY <1>2, <1>4, <1>5, PosShift
<1>7. ASSUME NEW k \in Descriptors PROVE OWN'[Pos(pRxDescr', k)] <=> k >= n + 1
  <2>1. k \in 0..N - 1 /\ k \in Nat
    BY <1>1
  <2>2. Pos(pRxDescr, k) \in Descriptors /\ dmaDescr \in Descriptors
    BY <1>2, <2>1, PosType
  <2>3. CASE k = n
    <3>1. ~OWN'[Pos(pRxDescr', k)]
      BY <1>2, <1>5, <2>2, <2>3
    <3> QED
      BY <1>1, <2>3, <3>1
  <2>4. CASE k # n
    <3>1. Pos(pRxDescr, k) # dmaDescr
      BY <1>2, <1>4, <2>1, <2>4, PosInjective
    <3>2. OWN'[Pos(pRxDescr', k)] = OWN[Pos(pRxDescr, k)]
      BY <1>2, <1>5, <2>2, <3>1
    <3>3. OWN[Pos(pRxDescr, k)] <=> k >= n
      BY DEF Waits
    <3>4. k >= n <=> k >= n + 1
      BY <1>1, <2>1, <2>4
    <3> QED
      BY <3>2, <3>3, <3>4
  <2> QED
    BY <2>3, <2>4
<1> QED
  BY <1>4, <1>6, <1>7 DEF Waits

\* The task reads the first frame that waits.
LEMMA ReadWaits ==
  ASSUME IInv, RingInv, FreeReceiveBuffer, NEW n \in Nat, Waits(n)
  PROVE  n \in 1..N /\ n - 1 \in Nat /\ Waits(n - 1)'
<1>1. N \in Nat \ {0} /\ n \in 0..N /\ Descriptors = 0..N - 1 /\ 0 \in 0..N - 1
  BY EthRxAssumption DEF Waits, Descriptors
<1>2. /\ pRxDescr \in Descriptors /\ dmaDescr = Pos(pRxDescr, n)
      /\ OWN \in [Descriptors -> BOOLEAN]
  BY DEF IInv, Typed, Waits
<1>3. n # 0
  <2>1. ~OWN[pRxDescr]
    BY DEF RingInv, TaskInRing, FreeReceiveBuffer, At
  <2>2. Pos(pRxDescr, 0) = pRxDescr
    BY <1>2, PosTurn
  <2>3. ~(0 >= n)
    BY <1>1, <2>1, <2>2 DEF Waits
  <2> QED
    BY <2>3
<1>4. n \in 1..N /\ n - 1 \in Nat /\ n - 1 \in 0..N /\ n - 1 \in 0..N - 1 /\ (n - 1) + 1 = n
  BY <1>1, <1>3
<1>5. pRxDescr' = Pos(pRxDescr, 1) /\ OWN' = [OWN EXCEPT ![pRxDescr] = TRUE] /\ dmaDescr' = dmaDescr
  BY DEF FreeReceiveBuffer, ShuffleRxDescriptor, Pos
<1>6. dmaDescr' = Pos(pRxDescr', n - 1)
  BY <1>2, <1>4, <1>5, PosShift
<1>7. ASSUME NEW k \in Descriptors PROVE OWN'[Pos(pRxDescr', k)] <=> k >= n - 1
  <2>1. k \in 0..N - 1 /\ k + 1 \in Nat /\ k \in Int
    BY <1>1
  <2>2. Pos(pRxDescr', k) = Pos(pRxDescr, k + 1)
    BY <1>2, <1>5, <2>1, PosShift
  <2>3. Pos(pRxDescr, k + 1) \in Descriptors
    BY <1>2, <2>1, PosType
  <2>4. CASE k + 1 = N
    <3>1. Pos(pRxDescr, k + 1) = pRxDescr
      BY <1>2, <2>4, PosTurn
    <3>2. OWN'[Pos(pRxDescr', k)]
      BY <1>2, <1>5, <2>2, <3>1
    <3>3. k >= n - 1
      BY <1>1, <2>1, <2>4
    <3> QED
      BY <3>2, <3>3
  <2>5. CASE k + 1 # N
    <3>1. k + 1 \in 0..N - 1 /\ k + 1 # 0 /\ k + 1 \in Descriptors
      BY <1>1, <2>1, <2>5
    <3>2. Pos(pRxDescr, k + 1) # pRxDescr
      BY <1>1, <1>2, <3>1, PosTurn, PosInjective
    <3>3. OWN'[Pos(pRxDescr', k)] = OWN[Pos(pRxDescr, k + 1)]
      BY <1>2, <1>5, <2>2, <2>3, <3>2
    <3>4. OWN[Pos(pRxDescr, k + 1)] <=> k + 1 >= n
      BY <3>1 DEF Waits
    <3>5. k + 1 >= n <=> k >= n - 1
      BY <1>1, <2>1
    <3> QED
      BY <3>3, <3>4, <3>5
  <2> QED
    BY <2>4, <2>5
<1> QED
  BY <1>4, <1>6, <1>7 DEF Waits

\* The cases of a step: the ring changes in two of them.
LEMMA Cases ==
  ASSUME [Next]_vars
  PROVE  \/ \E f \in Frames : FrameArrives(f)
         \/ FreeReceiveBuffer
         \/ \E accepted \in BOOLEAN : Input(accepted)
         \/ GetRxDataLength \/ PbufAlloc \/ CopyFrame
         \/ TransmitDone \/ Isr \/ TakeToken \/ StackFrees \/ UNCHANGED vars
BY DEF Next, ReceiveTask

\* Only these steps touch the ring.
LEMMA RingAlone ==
  ASSUME [Next]_vars, ~FreeReceiveBuffer, \A f \in Frames : ~FrameArrives(f)
  PROVE  UNCHANGED ringVars
BY Cases DEF Input, GetRxDataLength, PbufAlloc, CopyFrame, TransmitDone, Isr, IsrGive,
             IsrClearRx, IsrClearTx, IsrEnable, TakeToken, StackFrees, vars

\* Every step keeps the task on the first frame that waits.
LEMMA TaskInRingStep == ASSUME IInv, RingInv, [Next]_vars PROVE TaskInRing'
<1>0. /\ OWN \in [Descriptors -> BOOLEAN]
      /\ buffer \in [Descriptors -> Frames \cup {NULL}]
      /\ pRxDescr \in Descriptors /\ dmaDescr \in Descriptors
      /\ TaskInRing
  BY DEF IInv, Typed, RingInv
<1>1. ASSUME NEW f \in Frames, FrameArrives(f) PROVE TaskInRing'
  <2>1. /\ OWN[dmaDescr]
        /\ OWN' = [OWN EXCEPT ![dmaDescr] = FALSE]
        /\ buffer' = [buffer EXCEPT ![dmaDescr] = f]
        /\ UNCHANGED <<pRxDescr, task, p>>
    BY <1>1 DEF FrameArrives, taskVars
  <2>2. \A i \in Descriptors : ~OWN'[i] => buffer'[i] \in Frames
    BY <1>0, <2>1 DEF TaskInRing
  <2>3. ~OWN[pRxDescr] => ~OWN'[pRxDescr] /\ buffer'[pRxDescr] = buffer[pRxDescr]
    BY <1>0, <2>1
  <2> QED
    BY <1>0, <2>1, <2>2, <2>3 DEF TaskInRing
<1>2. CASE FreeReceiveBuffer
  <2>1. /\ task = "free" /\ task' = "input"
        /\ OWN' = [OWN EXCEPT ![pRxDescr] = TRUE]
        /\ UNCHANGED <<buffer, p>>
    BY <1>2 DEF FreeReceiveBuffer, At
  <2>2. \A i \in Descriptors : ~OWN'[i] => buffer'[i] \in Frames
    BY <1>0, <2>1 DEF TaskInRing
  <2>3. p \in Frames
    BY <1>0, <2>1 DEF TaskInRing
  <2> QED
    BY <2>1, <2>2, <2>3 DEF TaskInRing
<1>3. ASSUME ~FreeReceiveBuffer, \A f \in Frames : ~FrameArrives(f) PROVE TaskInRing'
  <2>1. UNCHANGED ringVars
    BY <1>3, RingAlone
  <2>2. CASE GetRxDataLength \/ PbufAlloc \/ CopyFrame
    BY <1>0, <2>1, <2>2 DEF TaskInRing, GetRxDataLength, PbufAlloc, CopyFrame, At, ringVars
  <2>3. CASE \E accepted \in BOOLEAN : Input(accepted)
    BY <1>0, <2>1, <2>3 DEF TaskInRing, Input, ringVars
  <2>4. CASE TransmitDone \/ Isr \/ TakeToken \/ StackFrees \/ UNCHANGED vars
    <3>1. UNCHANGED <<task, p>> \/ (task' = "length" /\ UNCHANGED p)
      BY <2>4 DEF TransmitDone, Isr, IsrGive, IsrClearRx, IsrClearTx, IsrEnable, TakeToken,
                  StackFrees, vars, taskVars
    <3> QED
      BY <1>0, <2>1, <3>1 DEF TaskInRing, ringVars
  <2> QED
    BY <1>3, <2>2, <2>3, <2>4, Cases
<1> QED
  BY <1>1, <1>2, <1>3

\* Every step keeps driver and DMA in step.
LEMMA RingStep == ASSUME IInv, RingInv, [Next]_vars PROVE RingInv'
<1>1. PICK n \in Nat : Waits(n)
  BY DEF RingInv
<1>2. \E m \in Nat : Waits(m)'
  <2>1. ASSUME NEW f \in Frames, FrameArrives(f) PROVE \E m \in Nat : Waits(m)'
    <3>1. n + 1 \in Nat /\ Waits(n + 1)'
      BY <1>1, <2>1, ArrivalWaits
    <3> QED
      BY <3>1
  <2>2. CASE FreeReceiveBuffer
    <3>1. n - 1 \in Nat /\ Waits(n - 1)'
      BY <1>1, <2>2, ReadWaits
    <3> QED
      BY <3>1
  <2>3. ASSUME ~FreeReceiveBuffer, \A f \in Frames : ~FrameArrives(f)
        PROVE  \E m \in Nat : Waits(m)'
    <3>1. UNCHANGED ringVars
      BY <2>3, RingAlone
    <3>2. Waits(n)'
      BY <1>1, <3>1 DEF Waits, ringVars
    <3> QED
      BY <3>2
  <2> QED
    BY <2>1, <2>2, <2>3
<1>3. TaskInRing'
  BY TaskInRingStep
<1> QED
  BY <1>2, <1>3 DEF RingInv

\* The ring's invariant holds in every reachable state.
THEOREM AlwaysRing == Spec => [](IInv /\ RingInv)
<1>1. IInv /\ RingInv /\ [Next]_vars => RingInv'
  BY RingStep
<1> QED
  BY RingInit, <1>1, AlwaysInv, PTL DEF Spec

-----------------------------------------------------------------------------
\* IfxEth_shuffleRxDescriptor and the DMA: the descriptors that the driver owns are
\* those from pRxDescr on, up to dmaDescr, for a ring of any size.
THEOREM RingStaysInStep == Spec => []RingInStep
<1>1. IInv /\ RingInv => RingInStep
  <2> SUFFICES ASSUME IInv, RingInv PROVE RingInStep
    OBVIOUS
  <2>1. PICK n \in Nat : Waits(n)
    BY DEF RingInv
  <2>2. Pending = n
    BY <2>1, PendingValue DEF IInv, Typed
  <2> QED
    BY <2>1, <2>2 DEF Waits, RingInStep, Pos
<1> QED
  BY AlwaysRing, <1>1, PTL

-----------------------------------------------------------------------------
(* The ring as a channel: what Channel substitutes for waiting and taken.   *)

Waiting == [k \in 1..Pending |-> buffer[(pRxDescr + k - 1) % N]]
Taken == IF task = "input" THEN p ELSE NULL

\* The frames that wait are a sequence of the length Waits speaks of.
LEMMA WaitingSeq ==
  ASSUME OWN \in [Descriptors -> BOOLEAN], pRxDescr \in Descriptors, TaskInRing,
         NEW n \in Nat, Waits(n)
  PROVE  /\ Waiting \in Seq(Frames) /\ Len(Waiting) = n
         /\ Waiting = [k \in 1..n |-> buffer[Pos(pRxDescr, k - 1)]]
<1>1. Pending = n /\ N \in Nat \ {0} /\ n \in 0..N /\ Descriptors = 0..N - 1
  BY PendingValue, EthRxAssumption DEF Waits, Descriptors
<1>2. ASSUME NEW k \in 1..n
      PROVE  /\ buffer[(pRxDescr + k - 1) % N] = buffer[Pos(pRxDescr, k - 1)]
             /\ buffer[Pos(pRxDescr, k - 1)] \in Frames
  <2>1. k - 1 \in Descriptors /\ k - 1 \in Nat /\ ~(k - 1 >= n)
    BY <1>1
  <2>2. pRxDescr + k - 1 = pRxDescr + (k - 1)
    BY <1>1, <2>1
  <2>3. Pos(pRxDescr, k - 1) \in Descriptors /\ ~OWN[Pos(pRxDescr, k - 1)]
    BY <2>1, PosType DEF Waits
  <2> QED
    BY <2>2, <2>3 DEF Pos, TaskInRing
<1>3. Waiting = [k \in 1..n |-> buffer[Pos(pRxDescr, k - 1)]]
  BY <1>1, <1>2 DEF Waiting
<1>4. Waiting \in [1..n -> Frames]
  BY <1>2, <1>3
<1>5. Waiting \in Seq(Frames) /\ Len(Waiting) = n
  BY <1>4
<1> QED
  BY <1>3, <1>5

WaitingFound ==
  \A n \in Nat : Waits(n) => Waiting = [k \in 1..n |-> buffer[Pos(pRxDescr, k - 1)]]

\* The invariant says what waits ...
LEMMA WaitingNow == IInv /\ RingInv => WaitingFound
BY WaitingSeq DEF IInv, Typed, RingInv, WaitingFound

\* ... and also after a step.
LEMMA WaitingNext ==
  ASSUME IInv', RingInv', NEW n \in Nat, Waits(n)'
  PROVE  Waiting' = [k \in 1..n |-> buffer'[Pos(pRxDescr', k - 1)]]
<1>1. (IInv /\ RingInv => WaitingFound)'
  BY WaitingNow, PTL
<1> QED
  BY <1>1 DEF WaitingFound

\* A frame that arrives is appended.
LEMMA ArrivalAppends ==
  ASSUME IInv, RingInv, RingInv', IInv', NEW f \in Frames, FrameArrives(f)
  PROVE  Channel!Arrive(f)
<1>1. PICK n \in Nat : Waits(n)
  BY DEF RingInv
<1>2. n + 1 \in 1..N /\ Waits(n + 1)' /\ n + 1 \in Nat
  BY <1>1, ArrivalWaits
<1>3. /\ OWN \in [Descriptors -> BOOLEAN] /\ pRxDescr \in Descriptors /\ TaskInRing
      /\ buffer \in [Descriptors -> Frames \cup {NULL}]
  BY DEF IInv, Typed, RingInv
<1>4. /\ OWN' \in [Descriptors -> BOOLEAN] /\ pRxDescr' \in Descriptors /\ TaskInRing'
  BY DEF IInv, Typed, RingInv
<1>5. /\ Waiting \in Seq(Frames) /\ Len(Waiting) = n
      /\ Waiting = [k \in 1..n |-> buffer[Pos(pRxDescr, k - 1)]]
  BY <1>1, <1>3, WaitingSeq
<1>6. Waiting' = [k \in 1..n + 1 |-> buffer'[Pos(pRxDescr', k - 1)]]
  BY <1>2, WaitingNext
<1>7. /\ pRxDescr' = pRxDescr /\ dmaDescr = Pos(pRxDescr, n)
      /\ buffer' = [buffer EXCEPT ![dmaDescr] = f]
      /\ UNCHANGED <<task, p>>
  BY <1>1 DEF FrameArrives, Waits, taskVars
<1>8. N \in Nat \ {0} /\ n \in 0..N - 1 /\ n \in Descriptors
  BY <1>2, EthRxAssumption DEF Descriptors
<1>9. ASSUME NEW k \in 1..n + 1
      PROVE  buffer'[Pos(pRxDescr', k - 1)] = IF k = n + 1 THEN f ELSE Waiting[k]
  <2>1. k - 1 \in 0..N - 1 /\ k - 1 \in Nat
    BY <1>8
  <2>2. Pos(pRxDescr, k - 1) \in Descriptors
    BY <1>3, <2>1, PosType
  <2>3. CASE k = n + 1
    <3>1. k - 1 = n
      BY <2>3
    <3> QED
      BY <1>3, <1>7, <2>2, <2>3, <3>1
  <2>4. CASE k # n + 1
    <3>1. k \in 1..n /\ k - 1 # n
      BY <2>4
    <3>2. Pos(pRxDescr, k - 1) # dmaDescr
      BY <1>3, <1>7, <1>8, <2>1, <3>1, PosInjective
    <3>3. buffer'[Pos(pRxDescr', k - 1)] = buffer[Pos(pRxDescr, k - 1)]
      BY <1>3, <1>7, <2>2, <3>2
    <3> QED
      BY <1>5, <2>4, <3>1, <3>3
  <2> QED
    BY <2>3, <2>4
<1>10. Waiting' = Append(Waiting, f)
  <2>1. Append(Waiting, f) = [k \in 1..n + 1 |-> IF k = n + 1 THEN f ELSE Waiting[k]]
    BY <1>5
  <2> QED
    BY <1>6, <1>9, <2>1
<1>11. Len(Waiting) < N
  BY <1>5, <1>8
<1>12. Taken' = Taken
  BY <1>7 DEF Taken
<1> QED
  BY <1>10, <1>11, <1>12 DEF Channel!Arrive, Waiting, Taken

\* The task takes the first frame when it gives its descriptor back.
LEMMA ReadTakes ==
  ASSUME IInv, RingInv, RingInv', IInv', FreeReceiveBuffer
  PROVE  Channel!Take
<1>1. PICK n \in Nat : Waits(n)
  BY DEF RingInv
<1>2. n \in 1..N /\ n - 1 \in Nat /\ Waits(n - 1)'
  BY <1>1, ReadWaits
<1>3. /\ OWN \in [Descriptors -> BOOLEAN] /\ pRxDescr \in Descriptors /\ TaskInRing
      /\ OWN' \in [Descriptors -> BOOLEAN] /\ pRxDescr' \in Descriptors /\ TaskInRing'
  BY DEF IInv, Typed, RingInv
<1>4. /\ Waiting \in Seq(Frames) /\ Len(Waiting) = n
      /\ Waiting = [k \in 1..n |-> buffer[Pos(pRxDescr, k - 1)]]
  BY <1>1, <1>3, WaitingSeq
<1>5. Waiting' = [k \in 1..n - 1 |-> buffer'[Pos(pRxDescr', k - 1)]]
  BY <1>2, WaitingNext
<1>6. /\ pRxDescr' = Pos(pRxDescr, 1) /\ buffer' = buffer
      /\ task = "free" /\ task' = "input" /\ p' = p
  BY DEF FreeReceiveBuffer, ShuffleRxDescriptor, Pos, At
<1>7. N \in Nat \ {0}
  BY EthRxAssumption
<1>8. ASSUME NEW k \in 1..n - 1 PROVE buffer'[Pos(pRxDescr', k - 1)] = Waiting[k + 1]
  <2>1. k - 1 \in 0..N - 1 /\ k + 1 \in 1..n /\ (k - 1) + 1 = (k + 1) - 1
    BY <1>2, <1>7
  <2>2. Pos(pRxDescr', k - 1) = Pos(pRxDescr, (k + 1) - 1)
    BY <1>3, <1>6, <2>1, PosShift
  <2> QED
    BY <1>4, <1>6, <2>1, <2>2
<1>9. Waiting' = Tail(Waiting)
  <2>1. Tail(Waiting) = [k \in 1..n - 1 |-> Waiting[k + 1]]
    BY <1>2, <1>4
  <2> QED
    BY <1>5, <1>8, <2>1
<1>10. Waiting # <<>> /\ p = Head(Waiting)
  <2>1. Waiting[1] = buffer[Pos(pRxDescr, 1 - 1)] /\ 1 - 1 = 0
    BY <1>2, <1>4
  <2>2. Pos(pRxDescr, 0) = pRxDescr
    BY <1>3, PosTurn
  <2>3. p = buffer[pRxDescr]
    BY <1>3, <1>6 DEF TaskInRing
  <2>4. Waiting # <<>> /\ Head(Waiting) = Waiting[1]
    BY <1>2, <1>4
  <2> QED
    BY <2>1, <2>2, <2>3, <2>4
<1>11. Taken = NULL /\ Taken' = p
  BY <1>6 DEF Taken
<1> QED
  BY <1>9, <1>10, <1>11 DEF Channel!Take, Waiting, Taken

\* Every step of the ring is a step of the channel, or leaves it alone.
LEMMA StepSimulates ==
  ASSUME IInv, RingInv, RingInv', IInv', [Next]_vars
  PROVE  [Channel!Next]_<<Waiting, Taken>>
<1>1. ASSUME NEW f \in Frames, FrameArrives(f) PROVE Channel!Next
  BY <1>1, ArrivalAppends DEF Channel!Next
<1>2. CASE FreeReceiveBuffer
  BY <1>2, ReadTakes DEF Channel!Next
<1>3. ASSUME ~FreeReceiveBuffer, \A f \in Frames : ~FrameArrives(f)
      PROVE  [Channel!Next]_<<Waiting, Taken>>
  <2>1. UNCHANGED ringVars
    BY <1>3, RingAlone
  <2>2. Waiting' = Waiting
    BY <2>1 DEF Waiting, Pending, ringVars
  <2>3. ASSUME NEW accepted \in BOOLEAN, Input(accepted) PROVE Channel!Dispose
    <3>1. task = "input" /\ task' = "take" /\ p \in Frames
      BY <2>3 DEF Input, At, RingInv, TaskInRing
    <3>2. Taken # NULL /\ Taken' = NULL
      BY <3>1, EthRxAssumption DEF Taken
    <3> QED
      BY <2>2, <3>2 DEF Channel!Dispose, Waiting, Taken
  <2>4. CASE GetRxDataLength \/ PbufAlloc \/ CopyFrame \/ TakeToken
    BY <2>2, <2>4 DEF Taken, GetRxDataLength, PbufAlloc, CopyFrame, TakeToken, At
  <2>5. CASE TransmitDone \/ Isr \/ StackFrees \/ UNCHANGED vars
    BY <2>2, <2>5 DEF Taken, TransmitDone, Isr, IsrGive, IsrClearRx, IsrClearTx, IsrEnable,
                      StackFrees, vars, taskVars
  <2> QED
    BY <1>3, <2>3, <2>4, <2>5, Cases DEF Channel!Next
<1> QED
  BY <1>1, <1>2, <1>3

\* low_level_input over the ring implements FrameChannel: frames are read in the order
\* they came, once, as they came, and lost only when the ring is full.
THEOREM RingIsAChannel == Spec => ImplementsChannel
<1>1. Init => Channel!Init
  <2> SUFFICES ASSUME Init PROVE Channel!Init
    OBVIOUS
  <2>1. Pending = 0
    <3>1. {i \in Descriptors : ~OWN[i]} = {}
      BY DEF Init
    <3> QED
      BY <3>1, FS_EmptySet DEF Pending
  <2>2. Waiting = <<>>
    BY <2>1 DEF Waiting
  <2>3. Taken = NULL
    BY DEF Init, Taken
  <2> QED
    BY <2>2, <2>3 DEF Channel!Init, Waiting, Taken
<1>2. IInv /\ RingInv /\ IInv' /\ RingInv' /\ [Next]_vars => [Channel!Next]_<<Waiting, Taken>>
  BY StepSimulates
<1> QED
  BY <1>1, <1>2, AlwaysRing, PTL DEF Spec, ImplementsChannel, Channel!Spec, Waiting, Taken
=============================================================================
