----------------------------- MODULE TcpipInput -----------------------------
(***************************************************************************)
(* How a received packet reaches the stack (Lwip/src/api/tcpip.c): the     *)
(* Ethernet task allocates a pbuf, wraps it in a message and posts it to   *)
(* the mailbox of tcpip_thread.  When the pool of pbufs is empty it posts  *)
(* a callback instead, by which the thread gives up the out-of-sequence    *)
(* segments of one connection (Lwip/src/core/pbuf.c).                      *)
(*                                                                         *)
(* Tasks interleave at every critical section: the allocations of memp.c,  *)
(* the accesses to pbuf_free_ooseq_pending and the mailbox operations.     *)
(* What runs under lock_tcpip_core and touches nothing but the core is one *)
(* step.  Packets are counted, not followed.                               *)
(***************************************************************************)
EXTENDS Integers, Sequences, FiniteSets

CONSTANTS
  Pcbs,                     \* the TCP connections
  PBUF_POOL_SIZE,
  MEMP_NUM_TCPIP_MSG_INPKT,
  MEMP_NUM_TCPIP_MSG_API,
  TCPIP_MBOX_SIZE,
  NULL

Types == {"INPKT", "CALLBACK"}   \* of the messages that are posted

ASSUME TcpipInputAssumption ==
  /\ IsFiniteSet(Pcbs) /\ Pcbs # {}
  /\ PBUF_POOL_SIZE \in Nat
  /\ MEMP_NUM_TCPIP_MSG_INPKT \in Nat
  /\ MEMP_NUM_TCPIP_MSG_API \in Nat
  /\ TCPIP_MBOX_SIZE \in Nat
  /\ NULL \notin Types

\* 8 + 8 messages in a mailbox of 32, in opt.h and lwipopts.h.
ASSUME MboxHoldsAll ==
  MEMP_NUM_TCPIP_MSG_INPKT + MEMP_NUM_TCPIP_MSG_API <= TCPIP_MBOX_SIZE

VARIABLES
  pool,     \* free elements of MEMP_PBUF_POOL
  memp,     \* free elements of MEMP_TCPIP_MSG_INPKT and MEMP_TCPIP_MSG_API
  mbox,     \* types of the messages in the mailbox
  pbuf_free_ooseq_pending,
  ooseq,    \* packets each connection keeps out of sequence
  app,      \* packets the application has, or will be given
  ethAt,    \* where the Ethernet task is
  tcpipAt,  \* where tcpip_thread is
  msg       \* type of the message it has fetched

coreVars == <<ooseq, app>>
vars == <<pool, memp, mbox, pbuf_free_ooseq_pending, coreVars, ethAt, tcpipAt, msg>>

NumMsgs == [type \in Types |-> IF type = "INPKT" THEN MEMP_NUM_TCPIP_MSG_INPKT
                               ELSE MEMP_NUM_TCPIP_MSG_API]

Init ==
  /\ pool = PBUF_POOL_SIZE
  /\ memp = NumMsgs
  /\ mbox = <<>>
  /\ pbuf_free_ooseq_pending = FALSE
  /\ ooseq = [p \in Pcbs |-> 0]
  /\ app = 0
  /\ ethAt = "alloc"
  /\ tcpipAt = "fetch"
  /\ msg = NULL

-----------------------------------------------------------------------------
(* The Ethernet task: low_level_input, tcpip_inpkt and, with no pbuf left,  *)
(* pbuf_pool_is_empty.                                                      *)

\* pbuf_alloc of low_level_input, for a frame that has come.
PbufAlloc ==
  /\ ethAt = "alloc"
  /\ pool' = IF pool > 0 THEN pool - 1 ELSE pool
  /\ ethAt' = IF pool > 0 THEN "input" ELSE "empty"
  /\ UNCHANGED <<memp, mbox, pbuf_free_ooseq_pending, coreVars, tcpipAt, msg>>

\* memp_malloc of a message, or where to go without one.
Malloc(type, success, failure) ==
  /\ memp' = IF memp[type] > 0 THEN [memp EXCEPT ![type] = @ - 1] ELSE memp
  /\ ethAt' = IF memp[type] > 0 THEN success ELSE failure

\* sys_mbox_trypost says ERR_OK whether or not the mailbox took the message.
TryPost(type) == mbox' = IF Len(mbox) < TCPIP_MBOX_SIZE THEN Append(mbox, type) ELSE mbox

InpktMalloc ==
  /\ ethAt = "input"
  /\ Malloc("INPKT", "post", "free")
  /\ UNCHANGED <<pool, mbox, pbuf_free_ooseq_pending, coreVars, tcpipAt, msg>>

InpktPost ==
  /\ ethAt = "post"
  /\ TryPost("INPKT")
  /\ ethAt' = "alloc"
  /\ UNCHANGED <<pool, memp, pbuf_free_ooseq_pending, coreVars, tcpipAt, msg>>

PbufFree_Forgotten ==
  /\ ethAt = "free"
  /\ ethAt' = "alloc"
  /\ UNCHANGED <<pool, memp, mbox, pbuf_free_ooseq_pending, coreVars, tcpipAt, msg>>

\* ethernetif_input frees the packet that netif->input did not take, or whose type
\* it does not know.
PbufFree ==
  /\ ethAt \in {"input", "free"}
  /\ pool' = pool + 1
  /\ ethAt' = "alloc"
  /\ UNCHANGED <<memp, mbox, pbuf_free_ooseq_pending, coreVars, tcpipAt, msg>>

\* pbuf_pool_is_empty: queue a callback if none is queued already.
SetPending ==
  /\ ethAt = "empty"
  /\ pbuf_free_ooseq_pending' = TRUE
  /\ ethAt' = IF pbuf_free_ooseq_pending THEN "alloc" ELSE "callback"
  /\ UNCHANGED <<pool, memp, mbox, coreVars, tcpipAt, msg>>

CallbackMalloc ==
  /\ ethAt = "callback"
  /\ Malloc("CALLBACK", "postCallback", "unset")
  /\ UNCHANGED <<pool, mbox, pbuf_free_ooseq_pending, coreVars, tcpipAt, msg>>

CallbackPost ==
  /\ ethAt = "postCallback"
  /\ TryPost("CALLBACK")
  /\ ethAt' = "alloc"
  /\ UNCHANGED <<pool, memp, pbuf_free_ooseq_pending, coreVars, tcpipAt, msg>>

UnsetPending_Forgotten ==
  /\ ethAt = "unset"
  /\ ethAt' = "alloc"
  /\ UNCHANGED <<pool, memp, mbox, pbuf_free_ooseq_pending, coreVars, tcpipAt, msg>>

UnsetPending ==
  /\ ethAt = "unset"
  /\ pbuf_free_ooseq_pending' = FALSE
  /\ ethAt' = "alloc"
  /\ UNCHANGED <<pool, memp, mbox, coreVars, tcpipAt, msg>>

EthTask ==
  \/ PbufAlloc \/ InpktMalloc \/ InpktPost \/ PbufFree
  \/ SetPending \/ CallbackMalloc \/ CallbackPost \/ UnsetPending

-----------------------------------------------------------------------------
(* tcpip_thread.  It holds lock_tcpip_core from "input" or "clear" on.      *)

CoreLocked == tcpipAt \in {"input", "clear", "ooseq", "memp"}

Fetch ==
  /\ tcpipAt = "fetch" /\ mbox # <<>>
  /\ msg' = Head(mbox) /\ mbox' = Tail(mbox)
  /\ tcpipAt' = IF Head(mbox) = "INPKT" THEN "input" ELSE "clear"
  /\ UNCHANGED <<pool, memp, pbuf_free_ooseq_pending, coreVars, ethAt>>

\* input_fn: of the packet and those that connection p keeps out of sequence, some
\* are kept, some delivered to the application and the others freed.
InputFn ==
  /\ tcpipAt = "input"
  /\ \E p \in Pcbs : \E kept, delivered \in 0..ooseq[p] + 1 :
       /\ kept + delivered <= ooseq[p] + 1
       /\ ooseq' = [ooseq EXCEPT ![p] = kept]
       /\ app' = app + delivered
       /\ pool' = pool + (ooseq[p] + 1 - kept - delivered)
  /\ tcpipAt' = "memp"
  /\ UNCHANGED <<memp, mbox, pbuf_free_ooseq_pending, ethAt, msg>>

\* tcp_segs_free of the packets p keeps out of sequence.
FreeSegments(p) ==
  /\ pool' = pool + ooseq[p]
  /\ ooseq' = [ooseq EXCEPT ![p] = 0]

ClearPending_AfterFreeing ==
  /\ tcpipAt = "clear"
  /\ tcpipAt' = "ooseq"
  /\ UNCHANGED <<pool, memp, mbox, pbuf_free_ooseq_pending, coreVars, ethAt, msg>>

\* pbuf_free_ooseq: the flag first, so that a task that finds the pool empty from
\* now on asks again.
ClearPending ==
  /\ tcpipAt = "clear"
  /\ pbuf_free_ooseq_pending' = FALSE
  /\ tcpipAt' = "ooseq"
  /\ UNCHANGED <<pool, memp, mbox, coreVars, ethAt, msg>>

FreeOoseq ==
  /\ tcpipAt = "ooseq"
  /\ \/ \E p \in Pcbs : ooseq[p] > 0 /\ FreeSegments(p)
     \/ (\A p \in Pcbs : ooseq[p] = 0) /\ UNCHANGED <<pool, ooseq>>
  /\ tcpipAt' = "memp"
  /\ UNCHANGED <<memp, mbox, pbuf_free_ooseq_pending, app, ethAt, msg>>

MempFree_ToInpkt ==
  /\ tcpipAt = "memp"
  /\ memp' = [memp EXCEPT !["INPKT"] = @ + 1]
  /\ tcpipAt' = "fetch" /\ msg' = NULL
  /\ UNCHANGED <<pool, mbox, pbuf_free_ooseq_pending, coreVars, ethAt>>

MempFree ==
  /\ tcpipAt = "memp"
  /\ memp' = [memp EXCEPT ![msg] = @ + 1]
  /\ tcpipAt' = "fetch" /\ msg' = NULL
  /\ UNCHANGED <<pool, mbox, pbuf_free_ooseq_pending, coreVars, ethAt>>

TcpipThread == Fetch \/ InputFn \/ ClearPending \/ FreeOoseq \/ MempFree

-----------------------------------------------------------------------------
\* tcp_pcb_purge: a connection ends, by its timer or by the application, with
\* lock_tcpip_core held.
Purge(p) ==
  /\ ~CoreLocked /\ ooseq[p] > 0
  /\ FreeSegments(p)
  /\ UNCHANGED <<memp, mbox, pbuf_free_ooseq_pending, app, ethAt, tcpipAt, msg>>

\* The application has read a packet.
AppFrees ==
  /\ app > 0
  /\ app' = app - 1 /\ pool' = pool + 1
  /\ UNCHANGED <<memp, mbox, pbuf_free_ooseq_pending, ooseq, ethAt, tcpipAt, msg>>

Next == EthTask \/ TcpipThread \/ AppFrees \/ \E p \in Pcbs : Purge(p)

Spec == Init /\ [][Next]_vars

\* The thread runs, and so does the Ethernet task once it has started on a frame;
\* frames need not come, and neither the application nor a timer frees anything.
Fairness == WF_vars(TcpipThread) /\ WF_vars(ethAt # "alloc" /\ EthTask)

FairSpec == Spec /\ Fairness

-----------------------------------------------------------------------------
\* Every variable keeps the type of the object it stands for.
TypeOK ==
  /\ pool \in Nat
  /\ memp \in [Types -> Nat]
  /\ mbox \in Seq(Types)
  /\ pbuf_free_ooseq_pending \in BOOLEAN
  /\ ooseq \in [Pcbs -> Nat]
  /\ app \in Nat
  /\ ethAt \in {"alloc", "input", "post", "free", "empty", "callback", "postCallback", "unset"}
  /\ tcpipAt \in {"fetch", "input", "clear", "ooseq", "memp"}
  /\ msg \in Types \cup {NULL}
  /\ msg = NULL <=> tcpipAt = "fetch"
  /\ tcpipAt = "input" => msg = "INPKT"
  /\ tcpipAt \in {"clear", "ooseq"} => msg = "CALLBACK"

One(condition) == IF condition THEN 1 ELSE 0

Positions(box, type) == {i \in 1..Len(box) : box[i] = type}
Posted(box, type) == Cardinality(Positions(box, type))

\* The packets out of sequence, numbered for each connection.
KeptPackets == UNION {{p} \X (1..ooseq[p]) : p \in Pcbs}

\* No pbuf leaks and none is freed twice: each is in the pool, with one of the two
\* tasks, in the mailbox, out of sequence or with the application.
PacketsAccounted ==
  pool + One(ethAt \in {"input", "post", "free"}) + Posted(mbox, "INPKT")
    + One(tcpipAt = "input") + Cardinality(KeptPackets) + app = PBUF_POOL_SIZE

\* No message leaks and none is freed twice, or to the wrong pool.
MessagesAccounted ==
  \A type \in Types :
    memp[type] + One(ethAt = IF type = "INPKT" THEN "post" ELSE "postCallback")
      + Posted(mbox, type) + One(msg = type) = NumMsgs[type]

\* There is room for every message that is posted, so the ERR_OK that
\* sys_mbox_trypost always returns is true.
PostFits == ethAt \in {"post", "postCallback"} => Len(mbox) < TCPIP_MBOX_SIZE

\* The flag is set exactly while one callback is on its way to pbuf_free_ooseq: it
\* does not stay set when nobody will clear it, and no two are queued.
CallbackOnItsWay ==
  One(pbuf_free_ooseq_pending) =
    One(ethAt \in {"callback", "postCallback", "unset"}) + Posted(mbox, "CALLBACK") + One(tcpipAt = "clear")

\* An allocation that found the pool empty is followed by the release of a packet,
\* unless no connection keeps any out of sequence or the request found no message;
\* and a task that keeps finding the pool empty is not refused for ever.
OoseqReclaimed ==
  LET Released == pool > 0 \/ \A p \in Pcbs : ooseq[p] = 0
  IN /\ ethAt = "empty" ~> (Released \/ ethAt = "unset")
     /\ []<>(ethAt = "empty") => []<>Released
=============================================================================
