-------------------------------- MODULE EthTx --------------------------------
(***************************************************************************)
(* The transmit path of the Ethernet driver and the link monitor           *)
(* (ethernetif.c, lwip_freertos_demo.c, netif.c, iLLD IfxEth.c).           *)
(*                                                                         *)
(* low_level_output copies a frame into the descriptor at pTxDescr and     *)
(* hands it to the DMA.  Two tasks call it: the one that holds the core    *)
(* lock of lwIP ("stack": tcpip_thread or the task of a socket), and       *)
(* eth_link_monitor, which announces the interface without the lock and    *)
(* outranks the other.  So the monitor may start in the middle of an       *)
(* output of the stack, and the stack stands still until the monitor       *)
(* delays again.  If the monitor has to wait for mem_mutex, which the      *)
(* stack's task holds beside the core lock, that task inherits the         *)
(* monitor's priority and keeps it until it gives the core lock, its last  *)
(* mutex: until then the two share the core in time slices, and the stack  *)
(* may as well start in the middle of an output of the monitor.  The DMA   *)
(* runs beside both.                                                       *)
(*                                                                         *)
(* A frame is copied in two pieces, the first pbuf of the chain and the    *)
(* rest.  The DMA sends a descriptor it owns at any later time.            *)
(***************************************************************************)
EXTENDS Integers, Sequences, FiniteSets

CONSTANTS
  N,        \* IFXETH_MAX_TX_BUFFERS
  Frames,   \* what the stack sends
  ARP,      \* the announcement the monitor sends
  NULL

ASSUME EthTxAssumption ==
  /\ N \in Nat \ {0}
  /\ ARP \notin Frames
  /\ NULL \notin Frames \cup {ARP}

VARIABLES
  OWN,        \* OWN[i]: descriptor i belongs to the DMA
  buffer,     \* the two pieces in the buffer of each descriptor
  pTxDescr,   \* the descriptor the driver fills next
  dmaDescr,   \* the descriptor the DMA sends next
  pc,         \* where each caller is in low_level_output
  p,          \* the frame each caller sends
  descr,      \* the descriptor each caller works on
  sending,    \* history: frames handed over and not sent yet, the oldest first
  disturbed,  \* history: a caller came into the middle of the other's output
  link,       \* IfxEth_isLinkActive
  link_flag,  \* what ethernetif_link_callback remembers of it
  flags,      \* netif->flags: "UP" and "LINK_UP"
  monitor,    \* where the link monitor is in its callback
  inherited,  \* the stack's task has inherited the monitor's priority
  announced   \* history: announcements since the interface came up

ringVars == <<OWN, buffer, pTxDescr, dmaDescr>>
outVars  == <<pc, p, descr>>
history  == <<sending, disturbed>>
linkVars == <<link_flag, flags, monitor, inherited, announced>>
vars == <<ringVars, outVars, history, link, linkVars>>

Descriptors == 0..N - 1
Callers == {"stack", "monitor"}
Content == Frames \cup {ARP, NULL}

Init ==
  /\ OWN = [i \in Descriptors |-> FALSE]
  /\ buffer = [i \in Descriptors |-> [head |-> NULL, tail |-> NULL]]
  /\ pTxDescr = 0 /\ dmaDescr = 0
  /\ pc = [c \in Callers |-> "idle"]
  /\ p = [c \in Callers |-> NULL]
  /\ descr = [c \in Callers |-> 0]
  /\ sending = <<>> /\ disturbed = FALSE
  /\ link \in BOOLEAN
  /\ link_flag = FALSE
  /\ flags = {"LINK_UP"}
  /\ monitor = "delay" /\ inherited = FALSE
  /\ announced = 0

-----------------------------------------------------------------------------
(* low_level_output.  Its steps are the accesses to what the two callers    *)
(* share: pTxDescr, the buffer and OWN.                                     *)

Other(c) == IF c = "stack" THEN "monitor" ELSE "stack"

\* The stack's task runs while the monitor delays, or beside it at its priority.
At(c, label) == pc[c] = label /\ (c = "stack" => monitor = "delay" \/ inherited)

Goto(c, label) == pc' = [pc EXCEPT ![c] = label]

\* c is in the middle of an output: it has a descriptor.
InOutput(c) == pc[c] \notin {"idle", "wait", "test"}

\* c takes the descriptor it has read: the other caller has it too, or has used it
\* since and moved on.
Disturbs(c) == InOutput(Other(c)) \/ descr[c] # pTxDescr

\* Nothing is left of what went before: no output under way, nothing to send,
\* driver and DMA at the same descriptor.
Clean ==
  /\ \A c \in Callers : pc[c] = "idle"
  /\ pTxDescr = dmaDescr
  /\ \A i \in Descriptors : ~OWN[i]

Output(f) ==
  /\ At("stack", "idle")
  /\ Goto("stack", "wait")
  /\ p' = [p EXCEPT !["stack"] = f]
  /\ UNCHANGED <<ringVars, descr, history, link, linkVars>>

\* IfxEth_getTransmitBuffer reads pTxDescr ...
GetTxDescr(c) ==
  /\ At(c, "wait")
  /\ Goto(c, "test")
  /\ descr' = [descr EXCEPT ![c] = pTxDescr]
  /\ UNCHANGED <<ringVars, p, history, link, linkVars>>

WaitTransmitBuffer_IgnoresOwn(c) ==
  /\ At(c, "test")
  /\ Goto(c, "head")
  /\ disturbed' = (disturbed \/ Disturbs(c))
  /\ sending' = IF disturbed' THEN <<>> ELSE sending
  /\ UNCHANGED <<ringVars, p, descr, link, linkVars>>

\* ... and OWN; IfxEth_waitTransmitBuffer tries until the buffer is free.
WaitTransmitBuffer(c) ==
  /\ At(c, "test")
  /\ Goto(c, IF OWN[descr[c]] THEN "wait" ELSE "head")
  /\ disturbed' = (disturbed \/ (~OWN[descr[c]] /\ Disturbs(c)))
  /\ sending' = IF disturbed' THEN <<>> ELSE sending
  /\ UNCHANGED <<ringVars, p, descr, link, linkVars>>

\* The loop over the pbufs of the chain.
CopyPbuf(c, piece, next) ==
  /\ At(c, piece)
  /\ Goto(c, next)
  /\ buffer' = [buffer EXCEPT ![descr[c]][piece] = p[c]]
  /\ UNCHANGED <<OWN, pTxDescr, dmaDescr, p, descr, history, link, linkVars>>

CopyHead(c) == CopyPbuf(c, "head", "tail")

CopyTail(c) == CopyPbuf(c, "tail", "send")

\* IfxEth_sendTransmitBuffer reads pTxDescr again ...
SendTransmitBuffer(c) ==
  /\ At(c, "send")
  /\ Goto(c, "own")
  /\ descr' = [descr EXCEPT ![c] = pTxDescr]
  /\ UNCHANGED <<ringVars, p, history, link, linkVars>>

\* ... and releases that descriptor to the DMA, which is woken.
ReleaseToDma(c) ==
  /\ At(c, "own")
  /\ Goto(c, "shuffle")
  /\ OWN' = [OWN EXCEPT ![descr[c]] = TRUE]
  /\ sending' = IF disturbed THEN <<>> ELSE Append(sending, p[c])
  /\ UNCHANGED <<buffer, pTxDescr, dmaDescr, p, descr, disturbed, link, linkVars>>

\* IfxEth_shuffleTxDescriptor reads pTxDescr ...
ShuffleTxDescriptor(c) ==
  /\ At(c, "shuffle")
  /\ Goto(c, "next")
  /\ descr' = [descr EXCEPT ![c] = pTxDescr]
  /\ UNCHANGED <<ringVars, p, history, link, linkVars>>

NextTxDescriptor_StaysAtEnd(c) ==
  /\ At(c, "next")
  /\ Goto(c, "idle")
  /\ pTxDescr' = IF descr[c] = N - 1 THEN N - 1 ELSE descr[c] + 1
  /\ p' = [p EXCEPT ![c] = NULL]
  /\ descr' = [descr EXCEPT ![c] = 0]
  /\ UNCHANGED <<OWN, buffer, dmaDescr, sending, link, linkVars>>
  /\ disturbed' = (disturbed /\ ~Clean')

\* ... and stores its successor: the last descriptor is followed by the first.
NextTxDescriptor(c) ==
  /\ At(c, "next")
  /\ Goto(c, "idle")
  /\ pTxDescr' = (descr[c] + 1) % N
  /\ p' = [p EXCEPT ![c] = NULL]
  /\ descr' = [descr EXCEPT ![c] = 0]
  /\ UNCHANGED <<OWN, buffer, dmaDescr, sending, link, linkVars>>
  /\ disturbed' = (disturbed /\ ~Clean')

OutputStep(c) ==
  \/ GetTxDescr(c) \/ WaitTransmitBuffer(c) \/ CopyHead(c) \/ CopyTail(c)
  \/ SendTransmitBuffer(c) \/ ReleaseToDma(c)
  \/ ShuffleTxDescriptor(c) \/ NextTxDescriptor(c)

\* The DMA has sent a frame and goes on to the next descriptor of the ring.
Transmit ==
  /\ OWN[dmaDescr]
  /\ OWN' = [OWN EXCEPT ![dmaDescr] = FALSE]
  /\ dmaDescr' = (dmaDescr + 1) % N
  /\ sending' = IF disturbed THEN <<>> ELSE Tail(sending)
  /\ UNCHANGED <<buffer, pTxDescr, outVars, link, linkVars>>
  /\ disturbed' = (disturbed /\ ~Clean')

-----------------------------------------------------------------------------
(* eth_link_monitor, ethernetif_link_callback and the netif functions it    *)
(* calls.  netif_set_link_up and netif_set_link_down call the callback      *)
(* again (NETIF_LINK_CALLBACK) before the first call has set link_flag.     *)

LinkChanges ==
  /\ link' = ~link
  /\ UNCHANGED <<ringVars, outVars, history, linkVars>>

\* mem_malloc and mem_free take mem_mutex.  If the stack's task has it, between two
\* outputs under the core lock, the monitor waits and that task inherits.
TakesMemMutex == inherited' \in {inherited, inherited \/ pc["stack"] = "idle"}

\* The stack's task gives the core lock.
UnlockCore ==
  /\ At("stack", "idle") /\ inherited
  /\ inherited' = FALSE
  /\ UNCHANGED <<ringVars, outVars, history, link, link_flag, flags, monitor, announced>>

\* netif_issue_reports: a gratuitous ARP, unless there is no memory for it.
\* (igmp_report_groups only starts timers.)
Reports(due) ==
  /\ announced' = IF due THEN announced + 1 ELSE announced
  /\ IF due THEN TakesMemMutex ELSE UNCHANGED inherited
  /\ \/ due /\ Goto("monitor", "wait") /\ p' = [p EXCEPT !["monitor"] = ARP]
     \/ UNCHANGED <<pc, p>>

MonitorAt(label) == monitor = label /\ pc["monitor"] = "idle"

SetUp_AlwaysReports ==
  /\ MonitorAt("delay") /\ link /\ ~link_flag
  /\ flags' = flags \cup {"UP"}
  /\ Reports("UP" \notin flags)
  /\ monitor' = "setLinkUp"
  /\ UNCHANGED <<ringVars, descr, history, link, link_flag>>

\* The link came up: netif_set_up, which reports if the link is known to be up.
SetUp ==
  /\ MonitorAt("delay") /\ link /\ ~link_flag
  /\ flags' = flags \cup {"UP"}
  /\ Reports("UP" \notin flags /\ "LINK_UP" \in flags)
  /\ monitor' = "setLinkUp"
  /\ UNCHANGED <<ringVars, descr, history, link, link_flag>>

\* netif_set_link_up, which reports if the interface is up.
SetLinkUp ==
  /\ MonitorAt("setLinkUp")
  /\ flags' = flags \cup {"LINK_UP"}
  /\ Reports("LINK_UP" \notin flags /\ "UP" \in flags)
  /\ monitor' = IF "LINK_UP" \in flags THEN "wasUp" ELSE "nestedUp"
  /\ UNCHANGED <<ringVars, descr, history, link, link_flag>>

\* The link went down: netif_set_down, which frees the packets that wait for ARP, then
\* netif_set_link_down.
SetDown ==
  /\ MonitorAt("delay") /\ ~link /\ link_flag
  /\ flags' = flags \ {"UP"}
  /\ announced' = 0
  /\ TakesMemMutex
  /\ monitor' = "setLinkDown"
  /\ UNCHANGED <<ringVars, outVars, history, link, link_flag>>

SetLinkDown ==
  /\ MonitorAt("setLinkDown")
  /\ flags' = flags \ {"LINK_UP"}
  /\ monitor' = IF "LINK_UP" \in flags THEN "nestedDown" ELSE "wasDown"
  /\ UNCHANGED <<ringVars, outVars, history, link, link_flag, inherited, announced>>

\* The callback called from within itself reads the link and link_flag anew.
NestedCallback ==
  /\ \/ MonitorAt("nestedUp") /\ monitor' = "wasUp"
     \/ MonitorAt("nestedDown") /\ monitor' = "wasDown"
  /\ flags' = IF link = link_flag THEN flags
              ELSE IF link THEN flags \cup {"UP", "LINK_UP"}
              ELSE flags \ {"UP", "LINK_UP"}
  /\ link_flag' = link
  /\ UNCHANGED <<ringVars, outVars, history, link, inherited, announced>>

CallbackEnds_KeepsFlag ==
  /\ MonitorAt("wasUp") \/ MonitorAt("wasDown")
  /\ monitor' = "delay"
  /\ UNCHANGED <<ringVars, outVars, history, link, link_flag, flags, inherited, announced>>

\* The first call sets link_flag to what it read, and the monitor delays.
CallbackEnds ==
  /\ MonitorAt("wasUp") \/ MonitorAt("wasDown")
  /\ link_flag' = (monitor = "wasUp")
  /\ monitor' = "delay"
  /\ UNCHANGED <<ringVars, outVars, history, link, flags, inherited, announced>>

-----------------------------------------------------------------------------
LinkMonitor ==
  SetUp \/ SetLinkUp \/ SetDown \/ SetLinkDown \/ NestedCallback \/ CallbackEnds

Next ==
  \/ \E f \in Frames : Output(f)
  \/ \E c \in Callers : OutputStep(c)
  \/ UnlockCore \/ Transmit \/ LinkChanges \/ LinkMonitor

Spec == Init /\ [][Next]_vars

\* The DMA sends what it is given, the monitor wakes every second, and the stack's
\* task runs whenever the monitor delays, however often it is interrupted, or gets its
\* time slices.  A call under the core lock ends.  Nothing makes the stack send or the
\* link change.
Fairness ==
  /\ WF_vars(Transmit)
  /\ WF_vars(LinkMonitor \/ OutputStep("monitor"))
  /\ SF_vars(OutputStep("stack")) /\ SF_vars(UnlockCore)

FairSpec == Spec /\ Fairness

-----------------------------------------------------------------------------
\* Every variable keeps the type of the object it stands for.
TypeOK ==
  /\ OWN \in [Descriptors -> BOOLEAN]
  /\ buffer \in [Descriptors -> [head : Content, tail : Content]]
  /\ pTxDescr \in Descriptors /\ dmaDescr \in Descriptors
  /\ pc \in [Callers -> {"idle", "wait", "test", "head", "tail", "send", "own",
                         "shuffle", "next"}]
  /\ p \in [Callers -> Content]
  /\ descr \in [Callers -> Descriptors]
  /\ sending \in Seq(Frames \cup {ARP}) /\ Len(sending) <= N
  /\ disturbed \in BOOLEAN
  /\ link \in BOOLEAN /\ link_flag \in BOOLEAN
  /\ flags \subseteq {"UP", "LINK_UP"}
  /\ monitor \in {"delay", "setLinkUp", "nestedUp", "wasUp", "setLinkDown", "nestedDown",
                  "wasDown"}
  /\ inherited \in BOOLEAN
  /\ announced \in 0..1

\* A caller that has released its descriptor and not yet moved pTxDescr past it.
Released(c) == pc[c] \in {"shuffle", "next"}

\* As long as no caller comes into the middle of the other's output, driver and
\* DMA stay in step: the descriptors of the DMA are those from dmaDescr on, one for
\* each frame handed over, and the driver is at the one behind them.
RingInStep ==
  ~disturbed =>
    LET k == Len(sending) IN
      /\ \A i \in 0..N - 1 : OWN[(dmaDescr + i) % N] <=> i < k
      /\ (dmaDescr + k) % N =
           IF \E c \in Callers : Released(c) THEN (pTxDescr + 1) % N ELSE pTxDescr

\* As long as no caller comes into the middle of the other's output, every
\* descriptor of the DMA holds one whole frame, and they are in the order of output.
FramesIntact ==
  ~disturbed =>
    \A i \in 1..Len(sending) :
      buffer[(dmaDescr + i - 1) % N] = [head |-> sending[i], tail |-> sending[i]]

\* The ring carries frames whole and in order from the callers to the DMA.
RingSound == RingInStep /\ FramesIntact

\* Outside the callback link_flag tells whether the interface is up, whatever the
\* link did between the outer and the nested call, and each time it came up the
\* address was announced once.
NetifMatchesFlag ==
  monitor = "delay" =>
    /\ link_flag <=> "UP" \in flags
    /\ link_flag => "LINK_UP" \in flags /\ announced = 1

\* The nested call finds nothing left to change, and so does not nest further.
NestedCallIsIdle ==
  [][(monitor \in {"nestedUp", "nestedDown"}) => UNCHANGED flags]_vars

LinkSettles == <>[]link \/ <>[]~link

\* As long as no caller comes into the middle of the other's output, no output
\* waits for ever for its descriptor.
OutputEnds ==
  LinkSettles => \A c \in Callers : pc[c] # "idle" ~> pc[c] = "idle" \/ disturbed

\* ethernetif.c: low_level_output "should do the actual transmission of the packet"
\* and waits "for space in the DMA queue to become availale": it returns at last.
OutputReturns == LinkSettles => \A c \in Callers : pc[c] # "idle" ~> pc[c] = "idle"

\* When the link stays as it is the interface follows it at last, unless the monitor
\* never comes back from an output.
LinkIsFollowed ==
  <>[](pc["monitor"] # "idle") \/
    /\ <>[]link => <>[](flags = {"UP", "LINK_UP"})
    /\ <>[]~link => <>[]("UP" \notin flags)
=============================================================================
