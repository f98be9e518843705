-------------------------- MODULE TcpipInputProofs --------------------------
(***************************************************************************)
(* Proofs about TcpipInput, for any number of connections, pbufs and       *)
(* messages and any mailbox that holds all messages.                       *)
(***************************************************************************)
EXTENDS TcpipInput, FiniteSetTheorems, SequenceTheorems, TLAPS

\* The number of messages of one type in a mailbox is a natural number.
LEMMA PostedType ==
  ASSUME NEW box \in Seq(Types), NEW type \in Types
  PROVE  IsFiniteSet(Positions(box, type)) /\ Posted(box, type) \in Nat
<1>1. IsFiniteSet(1..Len(box))
  BY FS_Interval
<1>2. Positions(box, type) \in SUBSET (1..Len(box))
  BY DEF Positions
<1>3. IsFiniteSet(Positions(box, type))
  BY <1>1, <1>2, FS_Subset
<1> QED
  BY <1>3, FS_CardinalityType DEF Posted

\* Posting a message counts it.
LEMMA PostedAppend ==
  ASSUME NEW box \in Seq(Types), NEW new \in Types, NEW type \in Types
  PROVE  Posted(Append(box, new), type) = Posted(box, type) + One(type = new)
<1> DEFINE last == Len(box) + 1
<1>1. CASE type = new
  <2>1. Positions(Append(box, new), type) = Positions(box, type) \cup {last}
    BY <1>1, AppendProperties, LenProperties DEF Positions
  <2>2. last \notin Positions(box, type)
    BY LenProperties DEF Positions
  <2> QED
    BY <1>1, <2>1, <2>2, PostedType, FS_AddElement DEF Posted, One
<1>2. CASE type # new
  <2>1. Positions(Append(box, new), type) = Positions(box, type)
    BY <1>2, AppendProperties, LenProperties DEF Positions
  <2> QED
    BY <1>2, <2>1, PostedType DEF Posted, One
<1> QED
  BY <1>1, <1>2

\* Fetching the first message uncounts it: the others move up by one place.
LEMMA PostedTail ==
  ASSUME NEW box \in Seq(Types), box # <<>>, NEW type \in Types
  PROVE  Posted(Tail(box), type) = Posted(box, type) - One(type = Head(box))
<1> DEFINE S == Positions(Tail(box), type)
           T == Positions(box, type) \ {1}
           f == [i \in S |-> i + 1]
<1>1. /\ Tail(box) \in Seq(Types) /\ Len(Tail(box)) = Len(box) - 1
      /\ \A i \in 1..Len(Tail(box)) : Tail(box)[i] = box[i + 1]
      /\ Len(box) \in Nat \ {0} /\ Head(box) = box[1]
  BY HeadTailProperties, EmptySeq
<1>2. f \in Bijection(S, T)
  <2>1. f \in [S -> T]
    BY <1>1 DEF Positions
  <2>2. \A a, b \in S : f[a] = f[b] => a = b
    BY DEF Positions
  <2>3. ASSUME NEW j \in T PROVE \E i \in S : f[i] = j
    <3>1. j - 1 \in S
      BY <1>1, <2>3 DEF Positions
    <3>2. f[j - 1] = j
      BY <3>1, <2>3 DEF Positions
    <3> QED
      BY <3>1, <3>2
  <2> QED
    BY <2>1, <2>2, <2>3 DEF Bijection, Injection, Surjection, IsInjective
<1>3. IsFiniteSet(S) /\ Cardinality(T) = Cardinality(S)
  <2>1. IsFiniteSet(S)
    BY <1>1, PostedType
  <2>2. ExistsBijection(S, T)
    BY <1>2 DEF ExistsBijection
  <2> HIDE DEF S, T, f
  <2> QED
    BY <2>1, <2>2, FS_Bijection
<1>4. Cardinality(T) = IF 1 \in Positions(box, type) THEN Posted(box, type) - 1 ELSE Posted(box, type)
  BY PostedType, FS_RemoveElement DEF Posted
<1>5. 1 \in Positions(box, type) <=> type = Head(box)
  BY <1>1 DEF Positions
<1> QED
  BY <1>3, <1>4, <1>5, PostedType DEF Posted, One

\* Every message in a mailbox is of one of the two types.
LEMMA LenIsPosted ==
  ASSUME NEW box \in Seq(Types)
  PROVE  Len(box) = Posted(box, "INPKT") + Posted(box, "CALLBACK")
<1> DEFINE I == Positions(box, "INPKT")
           C == Positions(box, "CALLBACK")
<1>1. I \cup C = 1..Len(box)
  BY ElementOfSeq DEF Positions, Types
<1>2. I \cap C = {}
  BY DEF Positions
<1>3. Len(box) \in Nat /\ Cardinality(1..Len(box)) = Len(box)
  <2>1. Len(box) \in Nat
    BY LenProperties
  <2>2. Cardinality(1..Len(box)) = IF 1 > Len(box) THEN 0 ELSE Len(box) - 1 + 1
    BY <2>1, FS_Interval
  <2> QED
    BY <2>1, <2>2
<1>4. IsFiniteSet(I) /\ IsFiniteSet(C) /\ Cardinality(I) \in Nat /\ Cardinality(C) \in Nat
  BY PostedType DEF Posted, Types
<1>5. Cardinality(I \cup C) = Cardinality(I) + Cardinality(C) - Cardinality(I \cap C)
  <2> HIDE DEF I, C
  <2> QED
    BY <1>4, FS_Union
<1>6. Posted(box, "INPKT") = Cardinality(I) /\ Posted(box, "CALLBACK") = Cardinality(C)
  BY DEF Posted
<1>7. Cardinality(I \cap C) = 0 /\ Cardinality(I \cup C) = Len(box)
  BY <1>1, <1>2, <1>3, FS_EmptySet
<1> HIDE DEF I, C
<1> QED
  BY <1>3, <1>4, <1>5, <1>6, <1>7
-----------------------------------------------------------------------------
USE DEF Types

\* Every step keeps the types.
LEMMA TypeStep == ASSUME TypeOK, [Next]_vars PROVE TypeOK'
<1> USE DEF TypeOK
<1>1. CASE PbufAlloc
  BY <1>1 DEF PbufAlloc, coreVars
<1>2. CASE InpktMalloc
  BY <1>2 DEF InpktMalloc, Malloc, coreVars
<1>3. CASE InpktPost
  BY <1>3, AppendProperties DEF InpktPost, TryPost, coreVars
<1>4. CASE PbufFree
  BY <1>4 DEF PbufFree, coreVars
<1>5. CASE SetPending
  BY <1>5 DEF SetPending, coreVars
<1>6. CASE CallbackMalloc
  BY <1>6 DEF CallbackMalloc, Malloc, coreVars
<1>7. CASE CallbackPost
  BY <1>7, AppendProperties DEF CallbackPost, TryPost, coreVars
<1>8. CASE UnsetPending
  BY <1>8 DEF UnsetPending, coreVars
<1>9. CASE Fetch
  BY <1>9, HeadTailProperties, TcpipInputAssumption DEF Fetch, coreVars
<1>10. CASE InputFn
  BY <1>10 DEF InputFn
<1>11. CASE ClearPending
  BY <1>11 DEF ClearPending, coreVars
<1>12. CASE FreeOoseq
  BY <1>12 DEF FreeOoseq, FreeSegments
<1>13. CASE MempFree
  BY <1>13 DEF MempFree, coreVars
<1>14. CASE AppFrees
  BY <1>14 DEF AppFrees
<1>15. CASE \E p \in Pcbs : Purge(p)
  BY <1>15 DEF Purge, FreeSegments
<1>16. CASE UNCHANGED vars
  BY <1>16 DEF vars, coreVars
<1> QED
  BY <1>1, <1>2, <1>3, <1>4, <1>5, <1>6, <1>7, <1>8, <1>9, <1>10, <1>11, <1>12,
     <1>13, <1>14, <1>15, <1>16 DEF Next, EthTask, TcpipThread

\* The type invariant: no pool is freed more often than it is allocated from, and
\* tcpip_thread treats a message by its type.
THEOREM TypeInvariant == Spec => []TypeOK
<1>1. Init => TypeOK
  <2> SUFFICES ASSUME Init PROVE TypeOK
    OBVIOUS
  <2>1. memp \in [Types -> Nat]
    BY TcpipInputAssumption DEF Init, NumMsgs
  <2>2. mbox \in Seq(Types)
    BY EmptySeq DEF Init
  <2>3. ooseq \in [Pcbs -> Nat]
    BY DEF Init
  <2> QED
    BY <2>1, <2>2, <2>3, TcpipInputAssumption DEF Init, TypeOK
<1> QED
  BY <1>1, TypeStep, PTL DEF Spec

\* While every message is accounted for, one that is about to be posted is not in
\* the mailbox, so there is room for it.
LEMMA AccountedFits == TypeOK /\ MessagesAccounted => PostFits
<1> SUFFICES ASSUME TypeOK, MessagesAccounted, ethAt \in {"post", "postCallback"}
             PROVE  Len(mbox) < TCPIP_MBOX_SIZE
  BY DEF PostFits
<1>1. /\ Posted(mbox, "INPKT") \in Nat /\ Posted(mbox, "CALLBACK") \in Nat
      /\ Len(mbox) = Posted(mbox, "INPKT") + Posted(mbox, "CALLBACK")
  BY PostedType, LenIsPosted DEF TypeOK
<1>2. memp["INPKT"] \in Nat /\ memp["CALLBACK"] \in Nat
  BY DEF TypeOK
<1>3. /\ Posted(mbox, "INPKT") <= MEMP_NUM_TCPIP_MSG_INPKT - (IF ethAt = "post" THEN 1 ELSE 0)
      /\ Posted(mbox, "CALLBACK") <= MEMP_NUM_TCPIP_MSG_API - (IF ethAt = "postCallback" THEN 1 ELSE 0)
  BY <1>1, <1>2, TcpipInputAssumption DEF MessagesAccounted, NumMsgs, One
<1> QED
  BY <1>1, <1>3, MboxHoldsAll, TcpipInputAssumption

\* What a step does to the mailbox, by message type.
LEMMA PostedAfterPost ==
  ASSUME TypeOK, PostFits, ethAt \in {"post", "postCallback"},
         NEW new \in Types, TryPost(new), NEW type \in Types
  PROVE  Posted(mbox', type) = Posted(mbox, type) + One(type = new)
<1>1. mbox' = Append(mbox, new)
  BY DEF TryPost, PostFits
<1> QED
  BY <1>1, PostedAppend DEF TypeOK

\* tcpip_thread: fetching takes one message of the type of the head out of the count.
LEMMA PostedAfterFetch ==
  ASSUME TypeOK, mbox # <<>>, mbox' = Tail(mbox), NEW type \in Types
  PROVE  Posted(mbox', type) = Posted(mbox, type) - One(type = Head(mbox))
BY PostedTail DEF TypeOK

\* The accounts of the messages and of the callback flag: together they are
\* inductive, with the types; that posts fit is needed so that none is dropped.
Accounted == TypeOK /\ MessagesAccounted /\ CallbackOnItsWay

\* Every step keeps the account of messages and of the callback's flag, as it moves at
\* most one message from one place to another.
LEMMA AccountedStep == Accounted /\ [Next]_vars => MessagesAccounted' /\ CallbackOnItsWay'
<1> SUFFICES ASSUME TypeOK, MessagesAccounted, CallbackOnItsWay, [Next]_vars
             PROVE  MessagesAccounted' /\ CallbackOnItsWay'
  BY DEF Accounted
<1> DEFINE Post(type) == IF type = "INPKT" THEN "post" ELSE "postCallback"
<1>a. PostFits
  BY AccountedFits
<1>b. \A type \in Types : Posted(mbox, type) \in Nat
  BY PostedType DEF TypeOK
<1>c. ASSUME UNCHANGED mbox PROVE \A type \in Types : Posted(mbox, type)' = Posted(mbox, type)
  BY <1>c DEF Posted, Positions
<1> USE DEF MessagesAccounted, CallbackOnItsWay, One, TypeOK
<1>1. CASE PbufAlloc
  BY <1>1, <1>b, <1>c DEF PbufAlloc, coreVars
<1>2. CASE InpktMalloc
  BY <1>2, <1>b, <1>c DEF InpktMalloc, Malloc, coreVars
<1>3. CASE InpktPost
  BY <1>3, <1>a, <1>b, PostedAfterPost DEF InpktPost, coreVars
<1>4. CASE PbufFree
  BY <1>4, <1>b, <1>c DEF PbufFree, coreVars
<1>5. CASE SetPending
  BY <1>5, <1>b, <1>c DEF SetPending, coreVars
<1>6. CASE CallbackMalloc
  BY <1>6, <1>b, <1>c DEF CallbackMalloc, Malloc, coreVars
<1>7. CASE CallbackPost
  BY <1>7, <1>a, <1>b, PostedAfterPost DEF CallbackPost, coreVars
<1>8. CASE UnsetPending
  BY <1>8, <1>b, <1>c DEF UnsetPending, coreVars
<1>9. CASE Fetch
  <2> USE <1>9 DEF Fetch
  <2>1. Head(mbox) \in Types /\ msg = NULL /\ NULL \notin Types
    BY HeadTailProperties, TcpipInputAssumption
  <2>2. \A type \in Types :
          Posted(mbox', type) = Posted(mbox, type) - (IF type = Head(mbox) THEN 1 ELSE 0)
    BY PostedAfterFetch
  <2>3. MessagesAccounted'
    BY <2>1, <2>2, <1>b, TcpipInputAssumption DEF NumMsgs
  <2>4. CallbackOnItsWay'
    BY <2>1, <2>2, <1>b
  <2> QED
    BY <2>3, <2>4
<1>10. CASE InputFn
  BY <1>10, <1>b, <1>c DEF InputFn
<1>11. CASE ClearPending
  BY <1>11, <1>b, <1>c DEF ClearPending, coreVars
<1>12. CASE FreeOoseq
  BY <1>12, <1>b, <1>c DEF FreeOoseq
<1>13. CASE MempFree
  BY <1>13, <1>b, <1>c, TcpipInputAssumption DEF MempFree, coreVars
<1>14. CASE AppFrees
  BY <1>14, <1>b, <1>c DEF AppFrees
<1>15. CASE \E p \in Pcbs : Purge(p)
  BY <1>15, <1>b, <1>c DEF Purge
<1>16. CASE UNCHANGED vars
  BY <1>16, <1>b, <1>c DEF vars
<1> QED
  BY <1>1, <1>2, <1>3, <1>4, <1>5, <1>6, <1>7, <1>8, <1>9, <1>10, <1>11, <1>12,
     <1>13, <1>14, <1>15, <1>16 DEF Next, EthTask, TcpipThread

\* The account of messages holds in every reachable state.
THEOREM AccountedInvariant == Spec => []Accounted
<1>1. Init => MessagesAccounted /\ CallbackOnItsWay
  <2> SUFFICES ASSUME Init PROVE MessagesAccounted /\ CallbackOnItsWay
    OBVIOUS
  <2>1. \A type \in Types : Positions(mbox, type) = {}
    BY DEF Init, Positions
  <2>2. \A type \in Types : Posted(mbox, type) = 0
    BY <2>1, FS_EmptySet DEF Posted
  <2> QED
    BY <2>2, TcpipInputAssumption
       DEF Init, MessagesAccounted, CallbackOnItsWay, NumMsgs, One
<1> QED
  BY <1>1, AccountedStep, TypeInvariant, PTL DEF Spec, Accounted

\* No message leaks, none is freed twice or to the wrong pool: memp_malloc and
\* memp_free of the messages balance, whoever has the message in between.
THEOREM MessagesAreAccounted == Spec => []MessagesAccounted
BY AccountedInvariant, PTL DEF Accounted

\* pbuf_free_ooseq_pending is set exactly while one callback is on its way.
THEOREM CallbackIsOnItsWay == Spec => []CallbackOnItsWay
BY AccountedInvariant, PTL DEF Accounted

\* sys_mbox_trypost never drops a message of tcpip_inpkt or of
\* tcpip_callback_with_block, although it would not say so if it did: the mailbox
\* holds as many messages as can be allocated.
THEOREM PostsAlwaysFit == Spec => []PostFits
BY AccountedInvariant, AccountedFits, PTL DEF Accounted

-----------------------------------------------------------------------------
(* The packets. *)

\* n packets of a connection are n packets.
LEMMA SegmentsOf ==
  ASSUME NEW p, NEW n \in Nat
  PROVE  IsFiniteSet({p} \X (1..n)) /\ Cardinality({p} \X (1..n)) = n
<1> DEFINE f == [i \in 1..n |-> <<p, i>>]
<1>1. f \in Bijection(1..n, {p} \X (1..n))
  <2>1. f \in [1..n -> {p} \X (1..n)] /\ \A a, b \in 1..n : f[a] = f[b] => a = b
    OBVIOUS
  <2>2. ASSUME NEW x \in {p} \X (1..n) PROVE \E i \in 1..n : f[i] = x
    <3>1. x[2] \in 1..n /\ f[x[2]] = x
      OBVIOUS
    <3> QED
      BY <3>1
  <2> QED
    BY <2>1, <2>2 DEF Bijection, Injection, Surjection, IsInjective
<1>2. IsFiniteSet(1..n) /\ Cardinality(1..n) = n
  BY FS_Interval
<1>3. ExistsBijection(1..n, {p} \X (1..n))
  BY <1>1 DEF ExistsBijection
<1> QED
  BY <1>2, <1>3, FS_Bijection

\* The segments of one connection change, those of the others stay.
LEMMA SegmentsChange ==
  ASSUME TypeOK, IsFiniteSet(KeptPackets), NEW p \in Pcbs, NEW n \in Nat,
         ooseq' = [ooseq EXCEPT ![p] = n]
  PROVE  /\ IsFiniteSet(KeptPackets')
         /\ Cardinality(KeptPackets') = Cardinality(KeptPackets) - ooseq[p] + n
<1> DEFINE Others == UNION {{q} \X (1..ooseq[q]) : q \in Pcbs \ {p}}
           Old == {p} \X (1..ooseq[p])
           New == {p} \X (1..n)
<1>1. KeptPackets = Others \cup Old /\ KeptPackets' = Others \cup New
  <2>1. ooseq'[p] = n /\ \A q \in Pcbs \ {p} : ooseq'[q] = ooseq[q]
    BY DEF TypeOK
  <2>2. KeptPackets = Others \cup Old
    BY DEF KeptPackets
  <2>3. KeptPackets' = UNION {{q} \X (1..ooseq'[q]) : q \in Pcbs}
    BY DEF KeptPackets
  <2>4. {{q} \X (1..ooseq'[q]) : q \in Pcbs \ {p}} = {{q} \X (1..ooseq[q]) : q \in Pcbs \ {p}}
    BY <2>1
  <2>5. KeptPackets' = (UNION {{q} \X (1..ooseq'[q]) : q \in Pcbs \ {p}}) \cup New
    BY <2>1, <2>3
  <2> QED
    BY <2>2, <2>4, <2>5
<1>2. Others \cap Old = {} /\ Others \cap New = {}
  OBVIOUS
<1>3. /\ IsFiniteSet(Old) /\ Cardinality(Old) = ooseq[p] /\ ooseq[p] \in Nat
      /\ IsFiniteSet(New) /\ Cardinality(New) = n
  BY SegmentsOf DEF TypeOK
<1> HIDE DEF Others, Old, New
<1>4. IsFiniteSet(Others) /\ Cardinality(Others) \in Nat
  BY <1>1, FS_Subset, FS_CardinalityType
<1>5. /\ Cardinality(Others \cup Old) = Cardinality(Others) + ooseq[p]
      /\ IsFiniteSet(Others \cup New)
      /\ Cardinality(Others \cup New) = Cardinality(Others) + n
  <2>1. Cardinality({}) = 0
    BY FS_EmptySet
  <2>2. Cardinality(Others \cup Old) =
          Cardinality(Others) + Cardinality(Old) - Cardinality(Others \cap Old)
    BY <1>3, <1>4, FS_Union
  <2>4. Cardinality(Others \cap Old) = 0 /\ Cardinality(Others \cap New) = 0
    BY <1>2, <2>1
  <2>3. /\ IsFiniteSet(Others \cup New)
        /\ Cardinality(Others \cup New) =
             Cardinality(Others) + Cardinality(New) - Cardinality(Others \cap New)
    BY <1>3, <1>4, FS_Union
  <2> QED
    BY <1>3, <1>4, <2>2, <2>3, <2>4
<1> QED
  BY <1>1, <1>3, <1>4, <1>5

\* The account of the packets; that those out of sequence are finitely many keeps it a number.
Segments == IsFiniteSet(KeptPackets) /\ PacketsAccounted

\* Every step keeps the account of the packets, as it hands some from one place to another.
LEMMA PacketsStep == ASSUME Accounted, Segments, [Next]_vars PROVE Segments'
<1> DEFINE kept == Cardinality(KeptPackets)
           posted == Posted(mbox, "INPKT")
<1>a. TypeOK /\ PostFits /\ TypeOK'
  <2>1. TypeOK /\ PostFits
    BY AccountedFits DEF Accounted
  <2> QED
    BY <2>1, TypeStep
<1>b. /\ IsFiniteSet(KeptPackets) /\ kept \in Nat /\ posted \in Nat /\ PBUF_POOL_SIZE \in Nat
      /\ pool + One(ethAt \in {"input", "post", "free"}) + posted
           + One(tcpipAt = "input") + kept + app = PBUF_POOL_SIZE
  <2>1. IsFiniteSet(KeptPackets) /\ kept \in Nat
    BY FS_CardinalityType DEF Segments
  <2>2. posted \in Nat /\ PBUF_POOL_SIZE \in Nat
    BY <1>a, PostedType, TcpipInputAssumption DEF TypeOK
  <2>3. pool + One(ethAt \in {"input", "post", "free"}) + Posted(mbox, "INPKT")
           + One(tcpipAt = "input") + Cardinality(KeptPackets) + app = PBUF_POOL_SIZE
    BY Zenon DEF Segments, PacketsAccounted
  <2> QED
    BY <2>1, <2>2, <2>3, Zenon
<1>c. ASSUME UNCHANGED ooseq PROVE IsFiniteSet(KeptPackets') /\ kept' = kept
  <2>1. KeptPackets' = KeptPackets
    BY <1>c DEF KeptPackets
  <2> QED
    BY <1>b, <2>1
<1>d. ASSUME UNCHANGED mbox PROVE posted' = posted
  BY <1>d DEF Posted, Positions
<1>e. ASSUME IsFiniteSet(KeptPackets'),
             pool' + One(ethAt' \in {"input", "post", "free"}) + posted'
               + One(tcpipAt' = "input") + kept' + app' = PBUF_POOL_SIZE
      PROVE  Segments'
  BY <1>e DEF Segments, PacketsAccounted, One
<1> HIDE DEF kept, posted
<1> USE DEF One
<1>1. CASE PbufAlloc
  BY <1>1, <1>a, <1>b, <1>c, <1>d, <1>e DEF PbufAlloc, coreVars, TypeOK
<1>2. CASE InpktMalloc
  BY <1>2, <1>a, <1>b, <1>c, <1>d, <1>e DEF InpktMalloc, Malloc, coreVars, TypeOK
<1>3. CASE InpktPost
  <2>1. posted' = posted + 1
    BY <1>3, <1>a, PostedAfterPost DEF InpktPost, posted
  <2> QED
    BY <1>3, <1>a, <1>b, <1>c, <1>e, <2>1 DEF InpktPost, coreVars, TypeOK
<1>4. CASE PbufFree
  BY <1>4, <1>a, <1>b, <1>c, <1>d, <1>e DEF PbufFree, coreVars, TypeOK
<1>5. CASE SetPending
  BY <1>5, <1>a, <1>b, <1>c, <1>d, <1>e DEF SetPending, coreVars, TypeOK
<1>6. CASE CallbackMalloc
  BY <1>6, <1>a, <1>b, <1>c, <1>d, <1>e DEF CallbackMalloc, Malloc, coreVars, TypeOK
<1>7. CASE CallbackPost
  <2>1. posted' = posted
    BY <1>7, <1>a, <1>b, PostedAfterPost DEF CallbackPost, posted
  <2> QED
    BY <1>7, <1>a, <1>b, <1>c, <1>e, <2>1 DEF CallbackPost, coreVars, TypeOK
<1>8. CASE UnsetPending
  BY <1>8, <1>a, <1>b, <1>c, <1>d, <1>e DEF UnsetPending, coreVars, TypeOK
<1>9. CASE Fetch
  <2>1. posted' = posted - One(Head(mbox) = "INPKT")
    BY <1>9, <1>a, <1>b, PostedAfterFetch DEF Fetch, posted
  <2> QED
    BY <1>9, <1>a, <1>b, <1>c, <1>e, <2>1 DEF Fetch, coreVars, TypeOK
<1>g. ASSUME NEW p \in Pcbs, NEW k \in Int, NEW d \in Int, k >= 0, InputFn,
             ooseq' = [ooseq EXCEPT ![p] = k], app' = app + d,
             pool' = pool + (ooseq[p] + 1 - k - d)
      PROVE  Segments'
  <2>1. ooseq[p] \in Nat /\ pool \in Nat /\ app \in Nat
    BY <1>a DEF TypeOK
  <2>2. IsFiniteSet(KeptPackets') /\ kept' = kept - ooseq[p] + k
    <3>1. IsFiniteSet(KeptPackets) /\ k \in Nat
      BY <1>b, <1>g
    <3> QED
      BY <1>a, <1>g, <3>1, SegmentsChange DEF kept
  <2>3. UNCHANGED <<mbox, ethAt>> /\ tcpipAt = "input" /\ tcpipAt' = "memp"
    BY <1>g DEF InputFn
  <2>4. /\ kept \in Nat /\ posted \in Nat /\ PBUF_POOL_SIZE \in Nat
        /\ pool + One(ethAt \in {"input", "post", "free"}) + posted + 1 + kept + app
             = PBUF_POOL_SIZE
    BY <1>b, <2>3
  <2>5. /\ pool' + One(ethAt \in {"input", "post", "free"}) + posted + 0 + kept' + app'
             = PBUF_POOL_SIZE
    BY <1>g, <2>1, <2>2, <2>4
  <2> QED
    BY <1>d, <1>e, <2>2, <2>3, <2>5
<1>10. CASE InputFn
  <2>1. \A p \in Pcbs : \A k \in 0..ooseq[p] + 1 : k \in Int /\ k >= 0
    BY <1>a DEF TypeOK
  <2>2. \E p \in Pcbs : \E k, d \in 0..ooseq[p] + 1 :
          /\ ooseq' = [ooseq EXCEPT ![p] = k] /\ app' = app + d
          /\ pool' = pool + (ooseq[p] + 1 - k - d)
    BY <1>10 DEF InputFn
  <2> QED
    BY <1>10, <1>g, <2>1, <2>2
<1>11. CASE ClearPending
  BY <1>11, <1>a, <1>b, <1>c, <1>d, <1>e DEF ClearPending, coreVars, TypeOK
<1>f. ASSUME NEW p \in Pcbs, FreeSegments(p), UNCHANGED <<mbox, ethAt, app>>,
             tcpipAt # "input", tcpipAt' # "input"
      PROVE  Segments'
  <2>1. ooseq[p] \in Nat /\ pool \in Nat /\ app \in Nat
    BY <1>a DEF TypeOK
  <2>2. IsFiniteSet(KeptPackets') /\ kept' = kept - ooseq[p] + 0
    BY <1>a, <1>b, <1>f, <2>1, SegmentsChange DEF kept, FreeSegments
  <2> QED
    BY <1>b, <1>d, <1>e, <1>f, <2>1, <2>2 DEF FreeSegments
<1>12. CASE FreeOoseq
  BY <1>12, <1>a, <1>b, <1>c, <1>d, <1>e, <1>f DEF FreeOoseq, TypeOK
<1>13. CASE MempFree
  BY <1>13, <1>a, <1>b, <1>c, <1>d, <1>e DEF MempFree, coreVars, TypeOK
<1>14. CASE AppFrees
  BY <1>14, <1>a, <1>b, <1>c, <1>d, <1>e DEF AppFrees, TypeOK
<1>15. CASE \E p \in Pcbs : Purge(p)
  BY <1>15, <1>f DEF Purge, CoreLocked
<1>16. CASE UNCHANGED vars
  BY <1>16, <1>a, <1>b, <1>c, <1>d, <1>e DEF vars, coreVars, TypeOK
<1> QED
  BY <1>1, <1>2, <1>3, <1>4, <1>5, <1>6, <1>7, <1>8, <1>9, <1>10, <1>11, <1>12,
     <1>13, <1>14, <1>15, <1>16 DEF Next, EthTask, TcpipThread

\* No pbuf leaks and none is freed twice: pbuf_alloc and pbuf_free of the received packets
\* balance, whoever keeps a packet in between and for however many connections.
THEOREM PacketsAreAccounted == Spec => []PacketsAccounted
<1>1. Init => Segments
  <2> SUFFICES ASSUME Init PROVE Segments
    OBVIOUS
  <2>1. KeptPackets = {}
    BY DEF Init, KeptPackets
  <2>2. Positions(mbox, "INPKT") = {}
    BY DEF Init, Positions
  <2>3. Posted(mbox, "INPKT") = 0
    BY <2>2, FS_EmptySet DEF Posted
  <2> QED
    BY <2>1, <2>3, FS_EmptySet, TcpipInputAssumption DEF Init, Segments, PacketsAccounted, One
<1>2. Spec => []Segments
  BY <1>1, PacketsStep, AccountedInvariant, PTL DEF Spec
<1>3. Segments => PacketsAccounted
  BY DEF Segments
<1> QED
  BY <1>2, <1>3, PTL
=============================================================================
