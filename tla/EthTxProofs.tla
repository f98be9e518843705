----------------------------- MODULE EthTxProofs -----------------------------
(***************************************************************************)
(* Theorems about EthTx, for a ring of any size and any frames.            *)
(*                                                                         *)
(* As long as nothing disturbed the ring, at most one caller holds a       *)
(* descriptor (OutputsApart), what it read of pTxDescr is still true       *)
(* (DescrCurrent), the descriptor is not the DMA's (DescrFree) and holds   *)
(* the pieces copied so far (PiecesCopied).  With them RingInStep and      *)
(* FramesIntact are inductive.  The link callback is on its own: Callback  *)
(* says what flags, link_flag and announced are at each of its steps.      *)
(***************************************************************************)
EXTENDS EthTx, RingPositions, TLAPS

Labels == {"idle", "wait", "test", "head", "tail", "send", "own", "shuffle", "next"}

Typed ==
  /\ OWN \in [Descriptors -> BOOLEAN]
  /\ buffer \in [Descriptors -> [head : Content, tail : Content]]
  /\ pTxDescr \in Descriptors /\ dmaDescr \in Descriptors
  /\ pc \in [Callers -> Labels]
  /\ p \in [Callers -> Content]
  /\ descr \in [Callers -> Descriptors]
  /\ sending \in Seq(Frames \cup {ARP})
  /\ disturbed \in BOOLEAN
  /\ link \in BOOLEAN /\ link_flag \in BOOLEAN
  /\ flags \subseteq {"UP", "LINK_UP"}
  /\ monitor \in {"delay", "setLinkUp", "nestedUp", "wasUp", "setLinkDown", "nestedDown",
                  "wasDown"}
  /\ inherited \in BOOLEAN
  /\ announced \in Nat

\* A caller in its output has a frame.
HasFrame == \A c \in Callers : pc[c] # "idle" => p[c] \in Frames \cup {ARP}

\* Nothing is remembered of a ring that was disturbed.
DisturbedForgets == disturbed => sending = <<>>

OutputsApart == ~disturbed => ~(InOutput("stack") /\ InOutput("monitor"))

DescrCurrent ==
  ~disturbed => \A c \in Callers :
    pc[c] \in {"head", "tail", "own", "next"} => descr[c] = pTxDescr

DescrFree ==
  ~disturbed => \A c \in Callers :
    pc[c] \in {"head", "tail", "send", "own"} => ~OWN[pTxDescr]

PiecesCopied ==
  ~disturbed => \A c \in Callers :
    /\ pc[c] \in {"tail", "send", "own"} => buffer[pTxDescr].head = p[c]
    /\ pc[c] \in {"send", "own"} => buffer[pTxDescr].tail = p[c]

\* The ring never holds more frames than descriptors.
WithinRing == Len(sending) <= N

\* What flags, link_flag and announced are at each step of the callback.
Callback ==
  /\ monitor = "delay" =>
       IF link_flag THEN flags = {"UP", "LINK_UP"} /\ announced = 1
       ELSE "UP" \notin flags /\ announced = 0
  /\ monitor = "setLinkUp" =>
       ~link_flag /\ "UP" \in flags /\ announced = (IF "LINK_UP" \in flags THEN 1 ELSE 0)
  /\ monitor = "nestedUp" => ~link_flag /\ flags = {"UP", "LINK_UP"} /\ announced = 1
  /\ monitor = "wasUp" => flags = {"UP", "LINK_UP"} /\ announced = 1
  /\ monitor = "setLinkDown" => link_flag /\ flags = {"LINK_UP"} /\ announced = 0
  /\ monitor = "nestedDown" => link_flag /\ flags = {} /\ announced = 0
  /\ monitor = "wasDown" => flags = {} /\ announced = 0

IInv ==
  /\ Typed /\ HasFrame /\ DisturbedForgets
  /\ OutputsApart /\ DescrCurrent /\ DescrFree /\ PiecesCopied
  /\ WithinRing /\ RingInStep /\ FramesIntact
  /\ Callback

-----------------------------------------------------------------------------
(* Positions in this ring.                                                  *)

Pos(d, i) == (d + i) % N

\* A position is a descriptor.
LEMMA PosType == ASSUME NEW d \in Descriptors, NEW i \in Nat PROVE Pos(d, i) \in Descriptors
BY EthTxAssumption, PositionType DEF Descriptors, Pos, Position

\* Different offsets are different descriptors.
LEMMA PosInjective ==
  ASSUME NEW d \in Descriptors, NEW i \in 0..N - 1, NEW j \in 0..N - 1, Pos(d, i) = Pos(d, j)
  PROVE  i = j
BY EthTxAssumption, PositionInjective DEF Descriptors, Pos, Position

\* The offset from the next descriptor is one less.
LEMMA PosShift ==
  ASSUME NEW d \in Descriptors, NEW i \in 0..N - 1
  PROVE  /\ Pos(Pos(d, 1), i) = Pos(d, i + 1)
         /\ Pos(Pos(d, i), 1) = Pos(d, i + 1)
BY EthTxAssumption, PositionShift DEF Descriptors, Pos, Position

\* A whole turn of the ring ends where it began.
LEMMA PosTurn == ASSUME NEW d \in Descriptors PROVE Pos(d, N) = d /\ Pos(d, 0) = d
BY EthTxAssumption, PositionTurn DEF Descriptors, Pos, Position

-----------------------------------------------------------------------------
(* The steps.                                                               *)

callbackVars == <<link_flag, flags, monitor, announced>>

\* The cases of a step, for the proofs that follow.
LEMMA Cases ==
  ASSUME [Next]_vars
  PROVE  \/ \E f \in Frames : Output(f)
         \/ \E c \in Callers : GetTxDescr(c)
         \/ \E c \in Callers : WaitTransmitBuffer(c)
         \/ \E c \in Callers : CopyHead(c)
         \/ \E c \in Callers : CopyTail(c)
         \/ \E c \in Callers : SendTransmitBuffer(c)
         \/ \E c \in Callers : ReleaseToDma(c)
         \/ \E c \in Callers : ShuffleTxDescriptor(c)
         \/ \E c \in Callers : NextTxDescriptor(c)
         \/ Transmit
         \/ LinkMonitor
         \/ UNCHANGED <<ringVars, outVars, history, callbackVars>>
BY DEF Next, OutputStep, LinkChanges, UnlockCore, vars, linkVars, callbackVars

USE DEF ringVars, outVars, history, linkVars, callbackVars

\* Every step keeps the types.
LEMMA TypedStep == ASSUME IInv, [Next]_vars PROVE Typed'
<1>0. Typed /\ HasFrame /\ DisturbedForgets
  BY DEF IInv
<1>1. ASSUME NEW f \in Frames, Output(f) PROVE Typed'
  BY <1>0, <1>1 DEF Typed, Output, At, Goto, Callers, Labels, Content
<1>2. ASSUME NEW c \in Callers, GetTxDescr(c) \/ SendTransmitBuffer(c) \/ ShuffleTxDescriptor(c)
      PROVE  Typed'
  <2>1. pc' \in [Callers -> Labels]
    BY <1>0, <1>2 DEF Typed, GetTxDescr, SendTransmitBuffer, ShuffleTxDescriptor, Goto, Labels
  <2>2. descr' \in [Callers -> Descriptors]
    BY <1>0, <1>2 DEF Typed, GetTxDescr, SendTransmitBuffer, ShuffleTxDescriptor
  <2>3. UNCHANGED <<ringVars, p, history, link, linkVars>>
    BY <1>2 DEF GetTxDescr, SendTransmitBuffer, ShuffleTxDescriptor
  <2> QED
    BY <1>0, <2>1, <2>2, <2>3 DEF Typed
<1>3. ASSUME NEW c \in Callers, WaitTransmitBuffer(c) PROVE Typed'
  <2>1. sending' \in Seq(Frames \cup {ARP})
    BY <1>0, <1>3 DEF Typed, WaitTransmitBuffer
  <2> QED
    BY <1>0, <1>3, <2>1 DEF Typed, WaitTransmitBuffer, At, Goto, Callers, Labels
<1>4. ASSUME NEW c \in Callers, CopyHead(c) \/ CopyTail(c) PROVE Typed'
  <2>1. buffer' \in [Descriptors -> [head : Content, tail : Content]]
    <3>1. /\ descr[c] \in Descriptors
          /\ p[c] \in Content
          /\ buffer \in [Descriptors -> [head : Content, tail : Content]]
      BY <1>0 DEF Typed
    <3>2. CASE CopyHead(c)
      <4>1. buffer' = [buffer EXCEPT ![descr[c]].head = p[c]]
        BY <3>2 DEF CopyHead, CopyPbuf
      <4> QED
        BY <3>1, <4>1
    <3>3. CASE CopyTail(c)
      <4>1. buffer' = [buffer EXCEPT ![descr[c]].tail = p[c]]
        BY <3>3 DEF CopyTail, CopyPbuf
      <4> QED
        BY <3>1, <4>1
    <3> QED
      BY <1>4, <3>2, <3>3
  <2>2. pc' \in [Callers -> Labels]
    BY <1>0, <1>4 DEF Typed, CopyHead, CopyTail, CopyPbuf, Goto, Labels
  <2>3. UNCHANGED <<OWN, pTxDescr, dmaDescr, p, descr, history, link, linkVars>>
    BY <1>4 DEF CopyHead, CopyTail, CopyPbuf
  <2> QED
    BY <1>0, <2>1, <2>2, <2>3 DEF Typed
<1>5. ASSUME NEW c \in Callers, ReleaseToDma(c) PROVE Typed'
  <2>1. p[c] \in Frames \cup {ARP}
    BY <1>0, <1>5 DEF HasFrame, ReleaseToDma, At
  <2>2. sending' \in Seq(Frames \cup {ARP})
    BY <1>0, <1>5, <2>1 DEF Typed, ReleaseToDma
  <2> QED
    BY <1>0, <1>5, <2>2 DEF Typed, ReleaseToDma, At, Goto, Callers, Labels
<1>6. ASSUME NEW c \in Callers, NextTxDescriptor(c) PROVE Typed'
  <2>1. pTxDescr' \in Descriptors
    <3>1. descr[c] \in Descriptors
      BY <1>0 DEF Typed
    <3> QED
      BY <1>6, <3>1, PosType DEF NextTxDescriptor, Pos
  <2>2. 0 \in Descriptors /\ NULL \in Content
    BY EthTxAssumption DEF Descriptors, Content
  <2> QED
    BY <1>0, <1>6, <2>1, <2>2 DEF Typed, NextTxDescriptor, At, Goto, Callers, Labels
<1>7. CASE Transmit
  <2>1. dmaDescr' \in Descriptors
    BY <1>0, <1>7, PosType DEF Typed, Transmit, Pos
  <2>2. sending' \in Seq(Frames \cup {ARP})
    <3>1. CASE sending = <<>>
      BY <1>0, <1>7, <3>1 DEF Typed, Transmit
    <3>2. CASE sending # <<>>
      BY <1>0, <1>7, <3>2 DEF Typed, Transmit
    <3> QED
      BY <3>1, <3>2
  <2> QED
    BY <1>0, <1>7, <2>1, <2>2 DEF Typed, Transmit
<1>8. CASE LinkMonitor
  <2>1. announced' \in Nat
    BY <1>0, <1>8 DEF Typed, LinkMonitor, SetUp, SetLinkUp, SetDown, SetLinkDown,
                      NestedCallback, CallbackEnds, Reports
  <2>2. flags' \subseteq {"UP", "LINK_UP"}
    BY <1>0, <1>8 DEF Typed, LinkMonitor, SetUp, SetLinkUp, SetDown, SetLinkDown,
                      NestedCallback, CallbackEnds
  <2>3. pc' \in [Callers -> Labels] /\ p' \in [Callers -> Content]
    BY <1>0, <1>8 DEF Typed, LinkMonitor, SetUp, SetLinkUp, SetDown, SetLinkDown,
                      NestedCallback, CallbackEnds, Reports, Goto, Callers, Labels, Content
  <2>4. link_flag' \in BOOLEAN /\ link' \in BOOLEAN
    BY <1>0, <1>8 DEF Typed, LinkMonitor, SetUp, SetLinkUp, SetDown, SetLinkDown,
                      NestedCallback, CallbackEnds
  <2>5. inherited' \in BOOLEAN
    BY <1>0, <1>8 DEF Typed, LinkMonitor, SetUp, SetLinkUp, SetDown, SetLinkDown,
                      NestedCallback, CallbackEnds, Reports, TakesMemMutex
  <2> QED
    BY <1>0, <1>8, <2>1, <2>2, <2>3, <2>4, <2>5
       DEF Typed, LinkMonitor, SetUp, SetLinkUp, SetDown, SetLinkDown, NestedCallback,
           CallbackEnds
<1>9. CASE LinkChanges \/ UnlockCore \/ UNCHANGED vars
  BY <1>0, <1>9 DEF Typed, LinkChanges, UnlockCore, vars
<1> QED
  BY <1>1, <1>2, <1>3, <1>4, <1>5, <1>6, <1>7, <1>8, <1>9 DEF Next, OutputStep

\* A caller keeps its frame until it returns; nothing is remembered of a disturbed
\* ring.
LEMMA SimpleStep ==
  ASSUME IInv, [Next]_vars
  PROVE  HasFrame' /\ DisturbedForgets'
<1>0. Typed /\ HasFrame /\ DisturbedForgets
  BY DEF IInv
<1>1. ASSUME NEW f \in Frames, Output(f) PROVE HasFrame' /\ DisturbedForgets'
  BY <1>0, <1>1 DEF Typed, HasFrame, DisturbedForgets, Output, At, Goto, Callers
<1>2. ASSUME NEW c \in Callers, OutputStep(c) PROVE HasFrame'
  BY <1>0, <1>2 DEF Typed, HasFrame, OutputStep, GetTxDescr, WaitTransmitBuffer, CopyHead,
     CopyTail, CopyPbuf, SendTransmitBuffer, ReleaseToDma, ShuffleTxDescriptor,
     NextTxDescriptor, At, Goto, Callers
<1>3. ASSUME NEW c \in Callers, OutputStep(c) PROVE DisturbedForgets'
  BY <1>0, <1>3 DEF Typed, DisturbedForgets, OutputStep, GetTxDescr, WaitTransmitBuffer,
     CopyHead, CopyTail, CopyPbuf, SendTransmitBuffer, ReleaseToDma, ShuffleTxDescriptor,
     NextTxDescriptor
<1>5. CASE Transmit
  BY <1>0, <1>5 DEF HasFrame, DisturbedForgets, Transmit
<1>6. CASE LinkMonitor
  BY <1>0, <1>6 DEF Typed, HasFrame, DisturbedForgets, LinkMonitor, SetUp,
     SetLinkUp, SetDown, SetLinkDown, NestedCallback, CallbackEnds, Reports, MonitorAt, Goto,
     Callers
<1>7. CASE UNCHANGED <<ringVars, outVars, history, callbackVars>>
  BY <1>0, <1>7 DEF HasFrame, DisturbedForgets
<1> QED
  BY Cases, <1>1, <1>2, <1>3, <1>5, <1>6, <1>7 DEF OutputStep

-----------------------------------------------------------------------------
(* The ring.                                                                *)

RingInv ==
  /\ OutputsApart /\ DescrCurrent /\ DescrFree /\ PiecesCopied
  /\ WithinRing /\ RingInStep /\ FramesIntact

\* The two properties with the positions named.
RingPos ==
  ~disturbed =>
    /\ \A i \in 0..N - 1 : OWN[Pos(dmaDescr, i)] <=> i < Len(sending)
    /\ Pos(dmaDescr, Len(sending)) =
         IF \E c \in Callers : Released(c) THEN Pos(pTxDescr, 1) ELSE pTxDescr

FramesPos ==
  ~disturbed =>
    \A i \in 1..Len(sending) :
      buffer[Pos(dmaDescr, i - 1)] = [head |-> sending[i], tail |-> sending[i]]

\* They say the same.
LEMMA RingByPos == Typed => (RingInStep <=> RingPos) /\ (FramesIntact <=> FramesPos)
<1> SUFFICES ASSUME Typed PROVE (RingInStep <=> RingPos) /\ (FramesIntact <=> FramesPos)
  OBVIOUS
<1>1. RingInStep <=> RingPos
  BY Zenon DEF RingInStep, RingPos, Pos
<1>2. ASSUME NEW i \in 1..Len(sending) PROVE (dmaDescr + i - 1) % N = Pos(dmaDescr, i - 1)
  <2>1. dmaDescr \in Int /\ i \in Int
    BY EthTxAssumption DEF Typed, Descriptors
  <2>2. dmaDescr + i - 1 = dmaDescr + (i - 1)
    BY <2>1
  <2> QED
    BY <2>2 DEF Pos
<1>3. FramesIntact <=> FramesPos
  BY <1>2 DEF FramesIntact, FramesPos
<1> QED
  BY <1>1, <1>3

\* A clean ring satisfies the invariant.
LEMMA CleanRing == Typed /\ Clean /\ sending = <<>> => RingInv
<1> SUFFICES ASSUME Typed, Clean, sending = <<>> PROVE RingInv
  OBVIOUS
<1>1. OutputsApart /\ DescrCurrent /\ DescrFree /\ PiecesCopied
  BY DEF Clean, OutputsApart, InOutput, DescrCurrent, DescrFree, PiecesCopied, Callers
<1>2. Len(sending) = 0
  OBVIOUS
<1>3. WithinRing
  BY <1>2, EthTxAssumption DEF WithinRing
<1>4. FramesIntact
  BY <1>2 DEF FramesIntact
<1>5. RingInStep
  <2>1. \A i \in 0..N - 1 : ~OWN[Pos(dmaDescr, i)]
    BY EthTxAssumption, PosType DEF Typed, Clean
  <2>2. Pos(dmaDescr, 0) = pTxDescr
    BY PosTurn DEF Typed, Clean
  <2>3. ~ \E c \in Callers : Released(c)
    BY DEF Clean, Callers, Released
  <2>4. \A i \in 0..N - 1 : ~(i < 0)
    BY EthTxAssumption
  <2> QED
    BY <1>2, <2>1, <2>2, <2>3, <2>4, RingByPos DEF RingPos
<1> QED
  BY <1>1, <1>3, <1>4, <1>5 DEF RingInv

\* A ring that was disturbed is trusted again only when it is clean.
LEMMA TrustedAgain ==
  ASSUME IInv, [Next]_vars, disturbed, ~disturbed'
  PROVE  RingInv'
<1>1. Typed /\ DisturbedForgets
  BY DEF IInv
<1>2. sending = <<>>
  BY <1>1 DEF DisturbedForgets
<1>3. Transmit \/ \E c \in Callers : NextTxDescriptor(c)
  <2>1. ASSUME NEW f \in Frames, Output(f) PROVE FALSE
    BY <2>1 DEF Output
  <2>2. ASSUME NEW c \in Callers, \/ GetTxDescr(c) \/ CopyHead(c) \/ CopyTail(c)
                                 \/ SendTransmitBuffer(c) \/ ReleaseToDma(c)
                                 \/ ShuffleTxDescriptor(c)
        PROVE  FALSE
    BY <2>2 DEF GetTxDescr, CopyHead, CopyTail, CopyPbuf, SendTransmitBuffer, ReleaseToDma,
                ShuffleTxDescriptor
  <2>3. ASSUME NEW c \in Callers, WaitTransmitBuffer(c) PROVE FALSE
    BY <2>3 DEF WaitTransmitBuffer
  <2>4. CASE LinkMonitor
    BY <2>4 DEF LinkMonitor, SetUp, SetLinkUp, SetDown, SetLinkDown, NestedCallback,
                CallbackEnds
  <2> QED
    BY Cases, <2>1, <2>2, <2>3, <2>4
<1>4. Clean' /\ sending' = <<>>
  BY <1>2, <1>3 DEF Transmit, NextTxDescriptor
<1>5. Typed'
  BY TypedStep
<1>6. (Typed /\ Clean /\ sending = <<>>)' => RingInv'
  BY CleanRing, PTL
<1> QED
  BY <1>4, <1>5, <1>6

\* While one caller has a descriptor the other has none.
LEMMA OtherIsOut ==
  ASSUME IInv, ~disturbed, NEW c \in Callers, InOutput(c), NEW d \in Callers, d # c
  PROVE  pc[d] \in {"idle", "wait", "test"}
BY DEF IInv, OutputsApart, InOutput, Callers

\* A caller gets a descriptor only while the other has none, or disturbs it.
LEMMA ApartStep ==
  ASSUME IInv, [Next]_vars, ~disturbed, ~disturbed'
  PROVE  OutputsApart'
<1>0. Typed /\ OutputsApart
  BY DEF IInv
<1>1. ASSUME NEW f \in Frames, Output(f) PROVE OutputsApart'
  BY <1>0, <1>1 DEF Typed, OutputsApart, InOutput, Output, At, Goto, Callers
<1>2. ASSUME NEW c \in Callers, GetTxDescr(c) PROVE OutputsApart'
  BY <1>0, <1>2 DEF Typed, OutputsApart, InOutput, GetTxDescr, At, Goto,
                    Callers
<1>3. ASSUME NEW c \in Callers, WaitTransmitBuffer(c) PROVE OutputsApart'
  <2>1. OWN[descr[c]] \/ pc[Other(c)] \in {"idle", "wait", "test"}
    BY <1>3 DEF WaitTransmitBuffer, Disturbs, InOutput
  <2> QED
    BY <1>0, <1>3, <2>1 DEF Typed, OutputsApart, InOutput, WaitTransmitBuffer, Other, Goto, Callers
<1>4. ASSUME NEW c \in Callers, \/ CopyHead(c) \/ CopyTail(c) \/ SendTransmitBuffer(c)
                               \/ ReleaseToDma(c) \/ ShuffleTxDescriptor(c)
                               \/ NextTxDescriptor(c)
      PROVE  OutputsApart'
  BY <1>0, <1>4 DEF Typed, OutputsApart, InOutput, CopyHead, CopyTail, CopyPbuf,
     SendTransmitBuffer, ReleaseToDma, ShuffleTxDescriptor, NextTxDescriptor, At, Goto, Callers
<1>5. CASE Transmit
  BY <1>0, <1>5 DEF OutputsApart, InOutput, Transmit
<1>6. CASE LinkMonitor
  BY <1>0, <1>6 DEF Typed, OutputsApart, InOutput, LinkMonitor, SetUp, SetLinkUp,
     SetDown, SetLinkDown, NestedCallback, CallbackEnds, Reports, Goto, Callers
<1>7. CASE UNCHANGED <<ringVars, outVars, history, callbackVars>>
  BY <1>0, <1>7 DEF OutputsApart, InOutput
<1> QED
  BY Cases, <1>1, <1>2, <1>3, <1>4, <1>5, <1>6, <1>7

\* What a caller read of pTxDescr stays true: only the caller with a descriptor
\* moves it.
LEMMA CurrentStep ==
  ASSUME IInv, [Next]_vars, ~disturbed, ~disturbed'
  PROVE  DescrCurrent'
<1>0. Typed /\ DescrCurrent
  BY DEF IInv
<1>1. ASSUME NEW f \in Frames, Output(f) PROVE DescrCurrent'
  BY <1>0, <1>1 DEF Typed, DescrCurrent, Output, At, Goto, Callers
<1>2. ASSUME NEW c \in Callers, GetTxDescr(c) \/ SendTransmitBuffer(c) \/ ShuffleTxDescriptor(c)
      PROVE  DescrCurrent'
  BY <1>0, <1>2 DEF Typed, DescrCurrent, GetTxDescr, SendTransmitBuffer, ShuffleTxDescriptor,
     At, Goto, Callers
<1>3. ASSUME NEW c \in Callers, WaitTransmitBuffer(c) PROVE DescrCurrent'
  <2>1. OWN[descr[c]] \/ descr[c] = pTxDescr
    BY <1>3 DEF WaitTransmitBuffer, Disturbs
  <2> QED
    BY <1>0, <1>3, <2>1 DEF Typed, DescrCurrent, WaitTransmitBuffer, Goto, Callers
<1>4. ASSUME NEW c \in Callers, CopyHead(c) \/ CopyTail(c) \/ ReleaseToDma(c)
      PROVE  DescrCurrent'
  BY <1>0, <1>4 DEF Typed, DescrCurrent, CopyHead, CopyTail, CopyPbuf, ReleaseToDma, At, Goto,
     Callers
<1>5. ASSUME NEW c \in Callers, NextTxDescriptor(c) PROVE DescrCurrent'
  <2>1. InOutput(c)
    BY <1>5 DEF NextTxDescriptor, At, InOutput
  <2>2. \A d \in Callers : pc'[d] \in {"idle", "wait", "test"}
    <3>1. pc'[c] = "idle"
      BY <1>0, <1>5 DEF Typed, NextTxDescriptor, Goto
    <3>2. ASSUME NEW d \in Callers, d # c PROVE pc'[d] \in {"idle", "wait", "test"}
      BY <1>0, <1>5, <2>1, <3>2, OtherIsOut DEF Typed, NextTxDescriptor, Goto
    <3> QED
      BY <3>1, <3>2
  <2> QED
    BY <2>2 DEF DescrCurrent
<1>6. CASE Transmit
  BY <1>0, <1>6 DEF DescrCurrent, Transmit
<1>7. CASE LinkMonitor
  BY <1>0, <1>7 DEF Typed, DescrCurrent, LinkMonitor, SetUp, SetLinkUp, SetDown, SetLinkDown,
     NestedCallback, CallbackEnds, Reports, Goto, Callers
<1>8. CASE UNCHANGED <<ringVars, outVars, history, callbackVars>>
  BY <1>0, <1>8 DEF DescrCurrent
<1> QED
  BY Cases, <1>1, <1>2, <1>3, <1>4, <1>5, <1>6, <1>7, <1>8

\* A descriptor that a caller fills stays the driver's and keeps what was copied.
LEMMA FillStep ==
  ASSUME IInv, [Next]_vars, ~disturbed, ~disturbed'
  PROVE  DescrFree' /\ PiecesCopied'
<1>0. Typed /\ DescrCurrent /\ DescrFree /\ PiecesCopied
  BY DEF IInv
<1> DEFINE Out(d) == pc'[d] \in {"idle", "wait", "test"}
<1>o. ASSUME NEW c \in Callers, NEW l \in Labels, NEW k, At(c, k), k \notin {"idle", "wait", "test"},
             k \in Labels, Goto(c, l), NEW d \in Callers, d # c
      PROVE  Out(d)
  <2>1. InOutput(c)
    BY <1>o DEF At, InOutput, Labels
  <2>2. pc[d] \in {"idle", "wait", "test"}
    BY <1>o, <2>1, OtherIsOut
  <2> QED
    BY <1>0, <1>o, <2>2 DEF Typed, Goto
<1>1. ASSUME NEW f \in Frames, Output(f) PROVE DescrFree' /\ PiecesCopied'
  BY <1>0, <1>1 DEF Typed, DescrFree, PiecesCopied, Output, At, Goto, Callers
<1>2. ASSUME NEW c \in Callers, GetTxDescr(c) \/ SendTransmitBuffer(c) \/ ShuffleTxDescriptor(c)
      PROVE  DescrFree' /\ PiecesCopied'
  BY <1>0, <1>2 DEF Typed, DescrFree, PiecesCopied, GetTxDescr, SendTransmitBuffer,
     ShuffleTxDescriptor, At, Goto, Callers
<1>3. ASSUME NEW c \in Callers, WaitTransmitBuffer(c) PROVE DescrFree' /\ PiecesCopied'
  <2>1. OWN[descr[c]] \/ descr[c] = pTxDescr
    BY <1>3 DEF WaitTransmitBuffer, Disturbs
  <2> QED
    BY <1>0, <1>3, <2>1 DEF Typed, DescrFree, PiecesCopied, WaitTransmitBuffer, At, Goto, Callers
<1>4. ASSUME NEW c \in Callers, CopyHead(c) \/ CopyTail(c) PROVE DescrFree' /\ PiecesCopied'
  <2>1. descr[c] = pTxDescr
    BY <1>0, <1>4 DEF DescrCurrent, CopyHead, CopyTail, CopyPbuf, At
  <2>2. \A d \in Callers : d # c => Out(d)
    BY <1>o, <1>4 DEF CopyHead, CopyTail, CopyPbuf, Labels
  <2>3. DescrFree'
    BY <1>0, <1>4, <2>2 DEF Typed, DescrFree, CopyHead, CopyTail, CopyPbuf, At, Goto
  <2>4. CASE CopyHead(c)
    <3>1. pc'[c] = "tail" /\ buffer'[pTxDescr].head = p[c] /\ p' = p /\ pTxDescr' = pTxDescr
      BY <1>0, <2>1, <2>4 DEF Typed, CopyHead, CopyPbuf, Goto
    <3> QED
      BY <2>2, <2>3, <3>1 DEF PiecesCopied
  <2>5. CASE CopyTail(c)
    <3>1. /\ pc'[c] = "send" /\ p' = p /\ pTxDescr' = pTxDescr
          /\ buffer'[pTxDescr].head = p[c] /\ buffer'[pTxDescr].tail = p[c]
      BY <1>0, <2>1, <2>5 DEF Typed, PiecesCopied, CopyTail, CopyPbuf, At, Goto
    <3> QED
      BY <2>2, <2>3, <3>1 DEF PiecesCopied
  <2> QED
    BY <1>4, <2>3, <2>4, <2>5
<1>5. ASSUME NEW c \in Callers, ReleaseToDma(c) \/ NextTxDescriptor(c)
      PROVE  DescrFree' /\ PiecesCopied'
  <2>1. \A d \in Callers : d # c => Out(d)
    BY <1>o, <1>5 DEF ReleaseToDma, NextTxDescriptor, Labels
  <2>2. pc'[c] \in {"shuffle", "idle"}
    BY <1>0, <1>5 DEF Typed, ReleaseToDma, NextTxDescriptor, Goto
  <2> QED
    BY <2>1, <2>2 DEF DescrFree, PiecesCopied
<1>6. CASE Transmit
  BY <1>0, <1>6 DEF Typed, DescrFree, PiecesCopied, Transmit
<1>7. CASE LinkMonitor
  <2>1. UNCHANGED <<ringVars, history>>
    BY <1>7 DEF LinkMonitor, SetUp, SetLinkUp, SetDown, SetLinkDown, NestedCallback, CallbackEnds
  <2>2. \A d \in Callers : Out(d) \/ (pc'[d] = pc[d] /\ p'[d] = p[d])
    BY <1>0, <1>7 DEF Typed, LinkMonitor, SetUp, SetLinkUp, SetDown, SetLinkDown,
       NestedCallback, CallbackEnds, Reports, Goto, Callers
  <2> QED
    BY <1>0, <2>1, <2>2 DEF DescrFree, PiecesCopied
<1>8. CASE UNCHANGED <<ringVars, outVars, history, callbackVars>>
  BY <1>0, <1>8 DEF DescrFree, PiecesCopied
<1> QED
  BY Cases, <1>1, <1>2, <1>3, <1>4, <1>5, <1>6, <1>7, <1>8

\* A step that leaves the ring and the frames alone keeps both in step.
LEMMA RingAlike ==
  ASSUME IInv, ~disturbed, Typed', UNCHANGED <<OWN, pTxDescr, dmaDescr, sending>>,
         (\E c \in Callers : Released(c))' <=> \E c \in Callers : Released(c),
         \A i \in 0..N - 1 : i < Len(sending) => buffer'[Pos(dmaDescr, i)] = buffer[Pos(dmaDescr, i)]
  PROVE  WithinRing' /\ RingPos' /\ FramesPos'
<1>0. WithinRing /\ RingPos /\ FramesPos /\ Len(sending) \in Nat /\ N \in Nat
  BY RingByPos, EthTxAssumption DEF IInv, Typed
<1>1. WithinRing'
  BY <1>0 DEF WithinRing
<1>2. RingPos'
  BY <1>0 DEF RingPos
<1>3. ASSUME NEW i \in 1..Len(sending)
      PROVE  buffer'[Pos(dmaDescr, i - 1)] = [head |-> sending[i], tail |-> sending[i]]
  <2>1. i - 1 \in 0..N - 1 /\ i - 1 < Len(sending)
    BY <1>0 DEF WithinRing
  <2> QED
    BY <1>0, <2>1 DEF FramesPos
<1>4. FramesPos'
  BY <1>3 DEF FramesPos
<1> QED
  BY <1>1, <1>2, <1>4

\* A frame handed over is the last one the DMA will send.
LEMMA ReleaseKeepsRing ==
  ASSUME IInv, ~disturbed, NEW c \in Callers, ReleaseToDma(c), Typed'
  PROVE  WithinRing' /\ RingPos' /\ FramesPos'
<1> DEFINE k == Len(sending)
<1>0. /\ Typed /\ WithinRing /\ RingPos /\ FramesPos
      /\ k \in Nat /\ N \in Nat \ {0} /\ dmaDescr \in Descriptors /\ pTxDescr \in Descriptors
  BY RingByPos, EthTxAssumption DEF IInv, Typed
<1>1. /\ pc[c] = "own" /\ descr[c] = pTxDescr /\ ~OWN[pTxDescr] /\ pc'[c] = "shuffle"
      /\ UNCHANGED <<buffer, pTxDescr, dmaDescr, disturbed, p>>
      /\ buffer[pTxDescr].head = p[c] /\ buffer[pTxDescr].tail = p[c]
  BY DEF IInv, Typed, DescrCurrent, DescrFree, PiecesCopied, ReleaseToDma, At, Goto
<1>2. \A d \in Callers : ~Released(d)
  <2>1. InOutput(c)
    BY DEF ReleaseToDma, At, InOutput
  <2>2. \A d \in Callers : d # c => pc[d] \in {"idle", "wait", "test"}
    BY <2>1, OtherIsOut
  <2> QED
    BY <1>1, <2>2 DEF Released
<1>3. pTxDescr = Pos(dmaDescr, k)
  BY <1>0, <1>2 DEF RingPos
<1>4. k < N
  <2>1. CASE k = N
    <3>1. pTxDescr = dmaDescr
      BY <1>0, <1>3, <2>1, PosTurn
    <3>2. OWN[Pos(dmaDescr, 0)] /\ Pos(dmaDescr, 0) = dmaDescr
      BY <1>0, <2>1, PosTurn DEF RingPos
    <3> QED
      BY <1>1, <3>1, <3>2
  <2> QED
    BY <1>0, <2>1 DEF WithinRing
<1>5. /\ sending' = Append(sending, p[c]) /\ Len(sending') = k + 1
      /\ sending'[k + 1] = p[c] /\ \A i \in 1..k : sending'[i] = sending[i]
  <2>1. sending' = Append(sending, p[c]) /\ sending \in Seq(Frames \cup {ARP})
    BY <1>0 DEF ReleaseToDma, Typed
  <2> QED
    BY <2>1
<1>6. \A i \in Descriptors : OWN'[i] = IF i = pTxDescr THEN TRUE ELSE OWN[i]
  BY <1>0, <1>1 DEF ReleaseToDma, Typed
<1>7. WithinRing'
  BY <1>0, <1>4, <1>5 DEF WithinRing
<1>8. RingPos'
  <2>1. ASSUME NEW i \in 0..N - 1 PROVE OWN'[Pos(dmaDescr, i)] <=> i < k + 1
    <3>1. Pos(dmaDescr, i) \in Descriptors
      BY <1>0, PosType
    <3>2. CASE i = k
      <4>1. OWN'[pTxDescr]
        BY <1>0, <1>6
      <4>2. k < k + 1
        BY <1>0
      <4> QED
        BY <1>3, <3>2, <4>1, <4>2
    <3>3. CASE i # k
      <4>1. Pos(dmaDescr, i) # pTxDescr
        BY <1>0, <1>3, <1>4, <3>3, PosInjective
      <4>2. OWN'[Pos(dmaDescr, i)] = OWN[Pos(dmaDescr, i)]
        BY <1>6, <3>1, <4>1
      <4>3. OWN[Pos(dmaDescr, i)] <=> i < k
        BY <1>0 DEF RingPos
      <4>4. i < k <=> i < k + 1
        BY <1>0, <3>3
      <4> QED
        BY <4>2, <4>3, <4>4
    <3> QED
      BY <3>2, <3>3
  <2>2. Pos(dmaDescr, k + 1) = Pos(pTxDescr, 1)
    BY <1>0, <1>3, <1>4, PosShift
  <2>3. (\E d \in Callers : Released(d))'
    BY <1>1 DEF Released
  <2> QED
    BY <1>1, <1>5, <2>1, <2>2, <2>3 DEF RingPos
<1>9. FramesPos'
  <2>1. ASSUME NEW i \in 1..k + 1
        PROVE  buffer[Pos(dmaDescr, i - 1)] = [head |-> sending'[i], tail |-> sending'[i]]
    <3>1. CASE i = k + 1
      <4>1. buffer[pTxDescr] = [head |-> p[c], tail |-> p[c]]
        BY <1>0, <1>1 DEF Typed
      <4>2. i - 1 = k
        BY <1>0, <3>1
      <4> QED
        BY <1>3, <1>5, <3>1, <4>1, <4>2
    <3>2. CASE i # k + 1
      <4>1. i \in 1..k
        BY <1>0, <3>2
      <4> QED
        BY <1>0, <1>5, <4>1 DEF FramesPos
    <3> QED
      BY <3>1, <3>2
  <2> QED
    BY <1>1, <1>5, <2>1 DEF FramesPos
<1> QED
  BY <1>7, <1>8, <1>9

\* The driver moves to the descriptor behind the one it handed over.
LEMMA NextKeepsRing ==
  ASSUME IInv, ~disturbed, NEW c \in Callers, NextTxDescriptor(c), Typed'
  PROVE  WithinRing' /\ RingPos' /\ FramesPos'
<1>0. /\ Typed /\ WithinRing /\ RingPos /\ FramesPos
  BY RingByPos DEF IInv
<1>1. /\ pc[c] = "next" /\ descr[c] = pTxDescr /\ pc'[c] = "idle"
      /\ UNCHANGED <<OWN, buffer, dmaDescr, sending>>
  BY DEF IInv, Typed, DescrCurrent, NextTxDescriptor, At, Goto
<1>2. pTxDescr' = Pos(pTxDescr, 1)
  BY <1>1 DEF NextTxDescriptor, Pos
<1>3. Pos(dmaDescr, Len(sending)) = pTxDescr'
  BY <1>0, <1>1, <1>2 DEF RingPos, Released
<1>4. ~(\E d \in Callers : Released(d))'
  <2>1. InOutput(c)
    BY DEF NextTxDescriptor, At, InOutput
  <2>2. \A d \in Callers : d # c => pc'[d] \in {"idle", "wait", "test"}
    BY <1>0, <2>1, OtherIsOut DEF Typed, NextTxDescriptor, Goto
  <2> QED
    BY <1>1, <2>2 DEF Released
<1> QED
  BY <1>0, <1>1, <1>3, <1>4 DEF WithinRing, RingPos, FramesPos

\* The DMA sends the oldest frame and goes to the next one.
LEMMA TransmitKeepsRing ==
  ASSUME IInv, ~disturbed, Transmit, Typed'
  PROVE  WithinRing' /\ RingPos' /\ FramesPos'
<1> DEFINE k == Len(sending)
<1>0. /\ Typed /\ WithinRing /\ RingPos /\ FramesPos
      /\ k \in Nat /\ N \in Nat \ {0} /\ dmaDescr \in Descriptors /\ k <= N
      /\ Pos(dmaDescr, 0) = dmaDescr /\ Pos(dmaDescr, N) = dmaDescr /\ 0 \in 0..N - 1
  BY RingByPos, EthTxAssumption, PosTurn DEF IInv, Typed, WithinRing
<1>1. /\ dmaDescr' = Pos(dmaDescr, 1) /\ sending' = Tail(sending)
      /\ UNCHANGED <<buffer, pTxDescr, pc>>
  BY DEF Transmit, Pos
<1>2. k > 0
  <2>1. OWN[dmaDescr] /\ (OWN[Pos(dmaDescr, 0)] <=> 0 < k)
    BY <1>0 DEF Transmit, RingPos
  <2> QED
    BY <1>0, <2>1
<1>3. Len(sending') = k - 1 /\ \A i \in 1..k - 1 : sending'[i] = sending[i + 1]
  <2>1. sending \in Seq(Frames \cup {ARP}) /\ sending # <<>>
    BY <1>0, <1>2 DEF Typed
  <2> QED
    BY <1>1, <2>1
<1>4. \A i \in Descriptors : OWN'[i] = IF i = dmaDescr THEN FALSE ELSE OWN[i]
  BY <1>0 DEF Transmit, Typed
<1>5. WithinRing'
  BY <1>0, <1>3 DEF WithinRing
<1>6. ASSUME NEW i \in 0..N - 1 PROVE Pos(dmaDescr', i) = Pos(dmaDescr, i + 1)
  BY <1>0, <1>1, PosShift
<1>7. RingPos'
  <2>1. ASSUME NEW i \in 0..N - 1 PROVE OWN'[Pos(dmaDescr', i)] <=> i < k - 1
    <3>1. CASE i + 1 = N
      <4>1. Pos(dmaDescr', i) = dmaDescr
        BY <1>0, <1>6, <3>1
      <4>2. ~OWN'[dmaDescr]
        BY <1>0, <1>4
      <4>3. ~(i < k - 1)
        BY <1>0, <3>1
      <4> QED
        BY <4>1, <4>2, <4>3
    <3>2. CASE i + 1 # N
      <4>1. i + 1 \in 0..N - 1 /\ i + 1 # 0 /\ i + 1 \in Nat
        BY <1>0, <3>2
      <4>2. Pos(dmaDescr, i + 1) \in Descriptors /\ Pos(dmaDescr, i + 1) # dmaDescr
        BY <1>0, <4>1, PosType, PosInjective
      <4>3. OWN[Pos(dmaDescr, i + 1)] <=> i + 1 < k
        BY <1>0, <4>1 DEF RingPos
      <4>4. i + 1 < k <=> i < k - 1
        BY <1>0
      <4>5. OWN'[Pos(dmaDescr, i + 1)] = OWN[Pos(dmaDescr, i + 1)]
        BY <1>4, <4>2
      <4> QED
        BY <1>6, <4>3, <4>4, <4>5
    <3> QED
      BY <3>1, <3>2
  <2>2. Pos(dmaDescr', k - 1) = Pos(dmaDescr, k)
    <3>1. k - 1 \in 0..N - 1 /\ (k - 1) + 1 = k
      BY <1>0, <1>2
    <3> QED
      BY <1>6, <3>1
  <2>3. (\E c \in Callers : Released(c))' <=> \E c \in Callers : Released(c)
    BY <1>1 DEF Released
  <2>4. Pos(dmaDescr, k) = IF \E c \in Callers : Released(c) THEN Pos(pTxDescr, 1) ELSE pTxDescr
    BY <1>0 DEF RingPos
  <2> QED
    BY <1>1, <1>3, <2>1, <2>2, <2>3, <2>4 DEF RingPos
<1>8. FramesPos'
  <2>1. ASSUME NEW i \in 1..k - 1
        PROVE  buffer[Pos(dmaDescr', i - 1)] = [head |-> sending[i + 1], tail |-> sending[i + 1]]
    <3>1. i - 1 \in 0..N - 1 /\ (i - 1) + 1 = i /\ i + 1 \in 1..k /\ (i + 1) - 1 = i
      BY <1>0
    <3>2. Pos(dmaDescr', i - 1) = Pos(dmaDescr, (i + 1) - 1)
      BY <1>6, <3>1
    <3>3. buffer[Pos(dmaDescr, (i + 1) - 1)] = [head |-> sending[i + 1], tail |-> sending[i + 1]]
      BY <1>0, <3>1 DEF FramesPos
    <3> QED
      BY <3>2, <3>3
  <2> QED
    BY <1>1, <1>3, <2>1 DEF FramesPos
<1> QED
  BY <1>5, <1>7, <1>8

\* Every step that leaves the ring undisturbed keeps it in step.
LEMMA RingStep ==
  ASSUME IInv, [Next]_vars, ~disturbed, ~disturbed'
  PROVE  WithinRing' /\ RingPos' /\ FramesPos'
<1>0. Typed /\ WithinRing /\ RingPos /\ Typed'
  BY RingByPos, TypedStep DEF IInv
<1> DEFINE AtRelease == \E c \in Callers : Released(c)
<1>1. ASSUME NEW f \in Frames, Output(f) PROVE WithinRing' /\ RingPos' /\ FramesPos'
  <2>1. UNCHANGED <<OWN, pTxDescr, dmaDescr, sending, buffer>>
    BY <1>1 DEF Output
  <2>2. AtRelease' <=> AtRelease
    BY <1>0, <1>1 DEF Typed, Released, Output, At, Goto, Callers
  <2> QED
    BY <1>0, <2>1, <2>2, RingAlike
<1>2. ASSUME NEW c \in Callers, \/ GetTxDescr(c) \/ SendTransmitBuffer(c)
                               \/ ShuffleTxDescriptor(c) \/ WaitTransmitBuffer(c)
      PROVE  WithinRing' /\ RingPos' /\ FramesPos'
  <2>1. UNCHANGED <<OWN, pTxDescr, dmaDescr, sending, buffer>>
    BY <1>2 DEF GetTxDescr, SendTransmitBuffer, ShuffleTxDescriptor, WaitTransmitBuffer
  <2>2. AtRelease' <=> AtRelease
    BY <1>0, <1>2 DEF Typed, Released, GetTxDescr, SendTransmitBuffer, ShuffleTxDescriptor,
       WaitTransmitBuffer, At, Goto, Callers
  <2> QED
    BY <1>0, <2>1, <2>2, RingAlike
<1>3. ASSUME NEW c \in Callers, CopyHead(c) \/ CopyTail(c)
      PROVE  WithinRing' /\ RingPos' /\ FramesPos'
  <2>1. UNCHANGED <<OWN, pTxDescr, dmaDescr, sending>>
    BY <1>3 DEF CopyHead, CopyTail, CopyPbuf
  <2>2. AtRelease' <=> AtRelease
    BY <1>0, <1>3 DEF Typed, Released, CopyHead, CopyTail, CopyPbuf, At, Goto, Callers
  <2>3. descr[c] = pTxDescr /\ ~OWN[pTxDescr]
    BY <1>3 DEF IInv, DescrCurrent, DescrFree, CopyHead, CopyTail, CopyPbuf, At
  <2>4. \A i \in Descriptors : i # pTxDescr => buffer'[i] = buffer[i]
    BY <1>0, <1>3, <2>3 DEF Typed, CopyHead, CopyTail, CopyPbuf
  <2>5. ASSUME NEW i \in 0..N - 1, i < Len(sending)
        PROVE  buffer'[Pos(dmaDescr, i)] = buffer[Pos(dmaDescr, i)]
    <3>1. OWN[Pos(dmaDescr, i)]
      BY <1>0, <2>5 DEF RingPos
    <3>2. Pos(dmaDescr, i) \in Descriptors
      <4>1. i \in Nat /\ dmaDescr \in Descriptors
        BY <1>0, EthTxAssumption DEF Typed
      <4> QED
        BY <4>1, PosType
    <3> QED
      BY <2>3, <2>4, <3>1, <3>2
  <2> QED
    BY <1>0, <2>1, <2>2, <2>5, RingAlike
<1>4. CASE LinkMonitor
  <2>1. UNCHANGED <<OWN, pTxDescr, dmaDescr, sending, buffer>>
    BY <1>4 DEF LinkMonitor, SetUp, SetLinkUp, SetDown, SetLinkDown, NestedCallback, CallbackEnds
  <2>2. AtRelease' <=> AtRelease
    BY <1>0, <1>4 DEF Typed, Released, LinkMonitor, SetUp, SetLinkUp, SetDown, SetLinkDown,
       NestedCallback, CallbackEnds, Reports, MonitorAt, Goto, Callers
  <2> QED
    BY <1>0, <2>1, <2>2, RingAlike
<1>5. CASE UNCHANGED <<ringVars, outVars, history, callbackVars>>
  <2>1. AtRelease' <=> AtRelease
    BY <1>5 DEF Released
  <2> QED
    BY <1>0, <1>5, <2>1, RingAlike
<1>6. \/ \E c \in Callers : ReleaseToDma(c)
      \/ \E c \in Callers : NextTxDescriptor(c)
      \/ Transmit
      => WithinRing' /\ RingPos' /\ FramesPos'
  BY <1>0, ReleaseKeepsRing, NextKeepsRing, TransmitKeepsRing
<1> QED
  BY Cases, <1>1, <1>2, <1>3, <1>4, <1>5, <1>6

-----------------------------------------------------------------------------
(* The link callback.                                                       *)

\* Each step of the callback leaves what the next one finds.
LEMMA CallbackStep == ASSUME IInv, [Next]_vars PROVE Callback'
<1>0. Typed /\ Callback
  BY DEF IInv
<1>1. CASE SetUp
  BY <1>0, <1>1 DEF Typed, Callback, SetUp, Reports, MonitorAt
<1>2. CASE SetLinkUp
  <2>1. /\ ~link_flag /\ "UP" \in flags /\ link_flag' = link_flag
        /\ announced = (IF "LINK_UP" \in flags THEN 1 ELSE 0)
    BY <1>0, <1>2 DEF Callback, SetLinkUp, MonitorAt
  <2>2. flags' = {"UP", "LINK_UP"}
    BY <1>0, <1>2, <2>1 DEF Typed, SetLinkUp
  <2>3. announced' = 1
    BY <1>2, <2>1 DEF SetLinkUp, Reports
  <2>4. monitor' \in {"wasUp", "nestedUp"}
    BY <1>2 DEF SetLinkUp
  <2> QED
    BY <2>1, <2>2, <2>3, <2>4 DEF Callback
<1>3. CASE SetDown
  BY <1>0, <1>3 DEF Typed, Callback, SetDown, MonitorAt
<1>4. CASE SetLinkDown
  BY <1>0, <1>4 DEF Typed, Callback, SetLinkDown, MonitorAt
<1>5. CASE NestedCallback
  <2>1. flags' = flags
    <3>1. flags = {"UP", "LINK_UP"} => flags \cup {"UP", "LINK_UP"} = flags
      OBVIOUS
    <3>2. flags = {} => flags \ {"UP", "LINK_UP"} = flags
      OBVIOUS
    <3>3. CASE monitor = "nestedUp"
      BY <1>0, <1>5, <3>1, <3>3 DEF Typed, Callback, NestedCallback
    <3>4. CASE monitor = "nestedDown"
      BY <1>0, <1>5, <3>2, <3>4 DEF Typed, Callback, NestedCallback
    <3> QED
      BY <1>5, <3>3, <3>4 DEF NestedCallback, MonitorAt
  <2>2. announced' = announced
    BY <1>5 DEF NestedCallback
  <2>3. CASE monitor = "nestedUp"
    <3>1. monitor' = "wasUp"
      BY <1>5, <2>3 DEF NestedCallback, MonitorAt
    <3> QED
      BY <1>0, <2>1, <2>2, <2>3, <3>1 DEF Callback
  <2>4. CASE monitor = "nestedDown"
    <3>1. monitor' = "wasDown"
      BY <1>5, <2>4 DEF NestedCallback, MonitorAt
    <3> QED
      BY <1>0, <2>1, <2>2, <2>4, <3>1 DEF Callback
  <2> QED
    BY <1>5, <2>3, <2>4 DEF NestedCallback, MonitorAt
<1>6. CASE CallbackEnds
  BY <1>0, <1>6 DEF Typed, Callback, CallbackEnds, MonitorAt
<1>7. CASE UNCHANGED callbackVars
  BY <1>0, <1>7 DEF Callback
<1>8. LinkMonitor \/ UNCHANGED callbackVars
  BY DEF Next, OutputStep, Output, GetTxDescr, WaitTransmitBuffer, CopyHead, CopyTail, CopyPbuf,
     SendTransmitBuffer, ReleaseToDma, ShuffleTxDescriptor, NextTxDescriptor, Transmit,
     LinkChanges, UnlockCore, vars
<1> QED
  BY <1>1, <1>2, <1>3, <1>4, <1>5, <1>6, <1>7, <1>8 DEF LinkMonitor

-----------------------------------------------------------------------------
\* The invariant holds in the initial states.
LEMMA InitInv == Init => IInv
<1> SUFFICES ASSUME Init PROVE IInv
  OBVIOUS
<1>1. Typed
  <2>1. 0 \in Descriptors /\ NULL \in Content /\ "idle" \in Labels
    BY EthTxAssumption DEF Descriptors, Content, Labels
  <2>2. buffer \in [Descriptors -> [head : Content, tail : Content]]
    BY <2>1 DEF Init
  <2>3. OWN \in [Descriptors -> BOOLEAN] /\ pc \in [Callers -> Labels]
        /\ p \in [Callers -> Content] /\ descr \in [Callers -> Descriptors]
    BY <2>1 DEF Init
  <2>4. sending \in Seq(Frames \cup {ARP}) /\ announced \in Nat
    BY DEF Init
  <2> QED
    BY <2>1, <2>2, <2>3, <2>4 DEF Init, Typed
<1>2. HasFrame /\ DisturbedForgets /\ Callback
  BY DEF Init, HasFrame, DisturbedForgets, Callback, Callers
<1>3. Clean /\ sending = <<>>
  BY DEF Init, Clean, Callers
<1> QED
  BY <1>1, <1>2, <1>3, CleanRing DEF IInv, RingInv

\* Every step keeps the invariant.
LEMMA InvStep == ASSUME IInv, [Next]_vars PROVE IInv'
<1>1. Typed' /\ HasFrame' /\ DisturbedForgets' /\ Callback'
  BY TypedStep, SimpleStep, CallbackStep
<1>2. CASE disturbed'
  <2>1. sending' = <<>>
    BY <1>1, <1>2 DEF DisturbedForgets
  <2>2. WithinRing'
    BY <2>1, EthTxAssumption DEF WithinRing
  <2>3. OutputsApart' /\ DescrCurrent' /\ DescrFree' /\ PiecesCopied'
    BY <1>2 DEF OutputsApart, DescrCurrent, DescrFree, PiecesCopied
  <2>4. RingInStep' /\ FramesIntact'
    BY <1>2 DEF RingInStep, FramesIntact
  <2> QED
    BY <1>1, <2>2, <2>3, <2>4 DEF IInv
<1>3. CASE ~disturbed' /\ disturbed
  BY <1>1, <1>3, TrustedAgain DEF IInv, RingInv
<1>4. CASE ~disturbed' /\ ~disturbed
  <2>1. OutputsApart' /\ DescrCurrent' /\ DescrFree' /\ PiecesCopied'
    BY <1>4, ApartStep, CurrentStep, FillStep
  <2>2. WithinRing' /\ RingPos' /\ FramesPos'
    BY <1>4, RingStep
  <2>3. Typed' => (RingInStep' <=> RingPos') /\ (FramesIntact' <=> FramesPos')
    BY RingByPos, PTL
  <2> QED
    BY <1>1, <2>1, <2>2, <2>3 DEF IInv
<1> QED
  BY <1>2, <1>3, <1>4

\* The invariant holds in every state of every behaviour.
LEMMA AlwaysInv == Spec => []IInv
<1>1. IInv /\ [Next]_vars => IInv'
  BY InvStep
<1> QED
  BY InitInv, <1>1, PTL DEF Spec

\* Every variable keeps its type, the ring holds no more frames than it has
\* descriptors, and an interface that is up was announced once at most.
THEOREM TypeInvariant == Spec => []TypeOK
<1>1. IInv => TypeOK
  <2> SUFFICES ASSUME IInv PROVE TypeOK
    OBVIOUS
  <2>1. announced \in 0..1
    BY DEF IInv, Typed, Callback
  <2> QED
    BY <2>1 DEF IInv, Typed, WithinRing, TypeOK, Labels
<1> QED
  BY <1>1, AlwaysInv, PTL

\* As long as neither caller comes into the middle of an output of the other,
\* low_level_output and the DMA agree on which descriptors hold frames.
THEOREM RingStaysInStep == Spec => []RingInStep
<1>1. IInv => RingInStep
  BY DEF IInv
<1> QED
  BY <1>1, AlwaysInv, PTL

\* Under the same condition every descriptor of the DMA holds one whole frame, in
\* the order of output.
THEOREM FramesStayIntact == Spec => []FramesIntact
<1>1. IInv => FramesIntact
  BY DEF IInv
<1> QED
  BY <1>1, AlwaysInv, PTL

\* Both together.
THEOREM RingIsSound == Spec => []RingSound
BY RingStaysInStep, FramesStayIntact, PTL DEF RingSound

\* ethernetif_link_callback leaves link_flag and netif->flags in agreement, however
\* the link changes between its steps.
THEOREM NetifMatchesItsFlag == Spec => []NetifMatchesFlag
<1>1. IInv => NetifMatchesFlag
  BY DEF IInv, Callback, NetifMatchesFlag
<1> QED
  BY <1>1, AlwaysInv, PTL

\* The callback that netif_set_link_up or netif_set_link_down calls from within the
\* callback changes nothing, so that it nests once only.
THEOREM NestedCallsAreIdle == Spec => NestedCallIsIdle
<1>1. ASSUME IInv, [Next]_vars
      PROVE  [(monitor \in {"nestedUp", "nestedDown"}) => UNCHANGED flags]_vars
  <2>0. Callback
    BY <1>1 DEF IInv
  <2>1. CASE LinkMonitor
    <3>1. CASE NestedCallback
      <4>1. flags = {"UP", "LINK_UP"} => flags \cup {"UP", "LINK_UP"} = flags
        OBVIOUS
      <4>2. flags = {} => flags \ {"UP", "LINK_UP"} = flags
        OBVIOUS
      <4>3. link \in BOOLEAN /\ link_flag \in BOOLEAN
        BY <1>1 DEF IInv, Typed
      <4>4. CASE monitor = "nestedUp"
        BY <2>0, <3>1, <4>1, <4>3, <4>4 DEF Callback, NestedCallback
      <4>5. CASE monitor = "nestedDown"
        BY <2>0, <3>1, <4>2, <4>3, <4>5 DEF Callback, NestedCallback
      <4> QED
        BY <4>4, <4>5
    <3>2. CASE ~NestedCallback
      BY <2>1, <3>2 DEF LinkMonitor, SetUp, SetLinkUp, SetDown, SetLinkDown, CallbackEnds,
         MonitorAt
    <3> QED
      BY <3>1, <3>2
  <2>2. LinkMonitor \/ UNCHANGED callbackVars
    BY <1>1 DEF Next, OutputStep, Output, GetTxDescr, WaitTransmitBuffer, CopyHead, CopyTail,
       CopyPbuf, SendTransmitBuffer, ReleaseToDma, ShuffleTxDescriptor, NextTxDescriptor,
       Transmit, LinkChanges, UnlockCore, vars
  <2> QED
    BY <2>1, <2>2
<1> QED
  BY <1>1, AlwaysInv, PTL DEF Spec, NestedCallIsIdle
=============================================================================
