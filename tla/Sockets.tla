------------------------------- MODULE Sockets -------------------------------
(***************************************************************************)
(* The socket layer of lwIP (sockets.c) on its netconns (api_msg.c,        *)
(* api_lib.c): a listening socket, the connections it accepts, and select. *)
(*                                                                         *)
(* "tcpip" posts to the mailboxes of netconns and reports each message     *)
(* with event_callback.  Servers accept, receive and close, and report     *)
(* what they took in the same way.  Selectors wait in lwip_select.  All    *)
(* are tasks of any priority, so their steps interleave freely; a step is  *)
(* one section between SYS_ARCH_PROTECT and SYS_ARCH_UNPROTECT, or one     *)
(* access to what is shared outside of them.  The core lock keeps tcpip    *)
(* and the deletion of a netconn apart.                                    *)
(*                                                                         *)
(* Only reading is selected for.  Write and error events set a flag of     *)
(* their own and walk the same list.                                       *)
(***************************************************************************)
EXTENDS Integers, Sequences, FiniteSets

CONSTANTS
  NUM_SOCKETS,
  Conns,       \* the netconns of MEMP_NETCONN
  Listener,    \* the one that listens, at socket 0
  Servers, Selectors,
  ReadSets,    \* the sets of sockets that each selector may select: pairs
  MboxSize,    \* DEFAULT_TCP_RECVMBOX_SIZE, DEFAULT_ACCEPTMBOX_SIZE
  MaxLost,     \* bound of the model: messages lost per netconn
  NULL

Slots == 0..NUM_SOCKETS - 1

\* The calls of event_callback; NULL is none of them.
Events == [conn : Conns, evt : {1, -1}, at : {"count", "set", "walk"}, s : Int,
           scb : Selectors \cup {NULL}, changed : BOOLEAN]

ASSUME SocketsAssumption ==
  /\ NUM_SOCKETS \in Nat \ {0}
  /\ Listener \in Conns /\ NULL \notin Conns \cup Selectors /\ NULL \notin Events
  /\ "tcpip" \notin Servers /\ IsFiniteSet(Servers) /\ IsFiniteSet(Selectors)
  /\ MboxSize \in Nat /\ MaxLost \in Nat
  /\ ReadSets \subseteq Selectors \X ((SUBSET Slots) \ {{}})

VARIABLES
  conn, rcvevent, select_waiting,  \* sockets[i]
  socket,       \* conn->socket: its number, or -1 less the events before it has one
  netconns,     \* the netconns that are allocated
  open,         \* those with a pcb
  recvmbox,     \* the number of messages in the mailbox of each netconn
  acceptmbox,   \* the mailbox of the listening one; NULL is netconn_aborted
  select_cb_list, sem_signalled, readset,
  pc,           \* where each task is in its call
  left,         \* what is left of the loop of a select
  newconn, newsock,  \* of each server
  event,        \* the event_callback under way of each caller, or NULL
  lost,         \* history: events whose message did not fit into the mailbox
  leaked,       \* history: netconns that did not fit into acceptmbox
  early         \* history: selects that wait for a socket that had no number yet

socketVars == <<conn, rcvevent, select_waiting>>
connVars   == <<socket, netconns, open, recvmbox, acceptmbox, lost, leaked>>
listVars   == <<select_cb_list, sem_signalled>>
selectVars == <<readset, left>>
serverVars == <<newconn, newsock>>
vars == <<socketVars, connVars, listVars, selectVars, serverVars, pc, event, early>>

Callers == {"tcpip"} \cup Servers
Tasks == Servers \cup Selectors

Init ==
  /\ conn = [i \in Slots |-> IF i = 0 THEN Listener ELSE NULL]
  /\ rcvevent = [i \in Slots |-> 0]
  /\ select_waiting = [i \in Slots |-> 0]
  /\ socket = [c \in Conns |-> IF c = Listener THEN 0 ELSE -1]
  /\ netconns = {Listener} /\ open = {Listener}
  /\ recvmbox = [c \in Conns |-> 0]
  /\ acceptmbox = <<>>
  /\ select_cb_list = <<>>
  /\ sem_signalled = [t \in Selectors |-> FALSE]
  /\ readset = [t \in Selectors |-> {}]
  /\ left = [t \in Selectors |-> {}]
  /\ newconn = [t \in Servers |-> NULL]
  /\ newsock = [t \in Servers |-> 0]
  /\ pc = [t \in Tasks |-> "app"]
  /\ event = [u \in Callers |-> NULL]
  /\ lost = [c \in Conns |-> 0]
  /\ leaked = {} /\ early = {}

Goto(t, label) == pc' = [pc EXCEPT ![t] = label]

-----------------------------------------------------------------------------
(* event_callback.                                                          *)

\* API_EVENT: +1 is NETCONN_EVT_RCVPLUS, -1 is NETCONN_EVT_RCVMINUS.
\* conn->socket is read first, unprotected.
Raise(u, c, evt) ==
  event' = [event EXCEPT ![u] =
    [conn |-> c, evt |-> evt, at |-> IF socket[c] < 0 THEN "count" ELSE "set",
     s |-> socket[c], scb |-> NULL, changed |-> FALSE]]

Calls(u, label) == event[u] # NULL /\ event[u].at = label

Returns(u) == event' = [event EXCEPT ![u] = NULL]

CountBeforeAccept_NotRead(u) ==
  /\ Calls(u, "count")
  /\ LET c == event[u].conn IN
       /\ socket' = IF event[u].evt = 1 /\ socket[c] < 0 THEN [socket EXCEPT ![c] = @ - 1] ELSE socket
       /\ Returns(u)
  /\ UNCHANGED <<socketVars, netconns, open, recvmbox, acceptmbox, lost, leaked, listVars,
                 selectVars, serverVars, pc, early>>

\* Before the socket exists conn->socket counts down; it is read again, protected.
CountBeforeAccept(u) ==
  /\ Calls(u, "count")
  /\ LET c == event[u].conn IN
       \/ /\ socket[c] < 0
          /\ socket' = IF event[u].evt = 1 THEN [socket EXCEPT ![c] = @ - 1] ELSE socket
          /\ Returns(u)
       \/ /\ socket[c] >= 0
          /\ event' = [event EXCEPT ![u].s = socket[c], ![u].at = "set"]
          /\ UNCHANGED socket
  /\ UNCHANGED <<socketVars, netconns, open, recvmbox, acceptmbox, lost, leaked, listVars,
                 selectVars, serverVars, pc, early>>

First == IF select_cb_list = <<>> THEN NULL ELSE Head(select_cb_list)

\* Where a select is on the list.
Place(scb) == CHOOSE k \in 1..Len(select_cb_list) : select_cb_list[k] = scb

\* scb->next.
Behind(scb) ==
  IF Place(scb) < Len(select_cb_list) THEN select_cb_list[Place(scb) + 1] ELSE NULL

\* One round of the loop, at scb: the select is signalled, once, if it reads s.
Visit(u, scb) ==
  LET s == event[u].s IN
    IF scb = NULL THEN Returns(u) /\ UNCHANGED sem_signalled
    ELSE /\ sem_signalled' =
              [sem_signalled EXCEPT ![scb] = @ \/ (rcvevent'[s] > 0 /\ s \in readset[scb])]
         /\ event' = [event EXCEPT ![u].at = "walk", ![u].scb = scb, ![u].changed = FALSE]

\* The event is counted, and the list is walked if somebody waits for the socket.
SetEvent(u) ==
  /\ Calls(u, "set")
  /\ LET s == event[u].s IN
       /\ rcvevent' = [rcvevent EXCEPT ![s] = @ + event[u].evt]
       /\ Visit(u, IF select_waiting[s] = 0 THEN NULL ELSE First)
  /\ UNCHANGED <<conn, select_waiting, connVars, select_cb_list, selectVars, serverVars, pc,
                 early>>

NextSelectCb_NoRestart(u) ==
  /\ Calls(u, "walk")
  /\ UNCHANGED rcvevent
  /\ IF event[u].changed THEN Returns(u) /\ UNCHANGED sem_signalled
     ELSE Visit(u, Behind(event[u].scb))
  /\ UNCHANGED <<conn, select_waiting, connVars, select_cb_list, selectVars, serverVars, pc,
                 early>>

\* The walk goes on, or again from the front if select_cb_ctr has changed.
NextSelectCb(u) ==
  /\ Calls(u, "walk")
  /\ UNCHANGED rcvevent
  /\ Visit(u, IF event[u].changed THEN First ELSE Behind(event[u].scb))
  /\ UNCHANGED <<conn, select_waiting, connVars, select_cb_list, selectVars, serverVars, pc,
                 early>>

EventCallback(u) == CountBeforeAccept(u) \/ SetEvent(u) \/ NextSelectCb(u)

-----------------------------------------------------------------------------
(* The stack.                                                               *)

\* Who reports from the stack has the core lock, and netconn_delete until it has reported.
CoreLockFree == event["tcpip"] = NULL /\ \A t \in Servers : ~(pc[t] = "delete" /\ event[t] # NULL)

\* recv_tcp, recv_udp: post to recvmbox, then report.  sys_mbox_trypost returns
\* ERR_OK whether or not the message fitted.
Deliver(c) ==
  /\ CoreLockFree
  /\ c \in open \ {Listener}
  /\ \/ recvmbox[c] < MboxSize /\ recvmbox' = [recvmbox EXCEPT ![c] = @ + 1] /\ UNCHANGED lost
     \/ /\ recvmbox[c] = MboxSize /\ lost[c] < MaxLost
        /\ lost' = [lost EXCEPT ![c] = @ + 1] /\ UNCHANGED recvmbox
  /\ Raise("tcpip", c, 1)
  /\ UNCHANGED <<socketVars, socket, netconns, open, acceptmbox, leaked, listVars, selectVars,
                 serverVars, pc, early>>

\* accept_function with a netconn for the connection, which starts without number.
AcceptFunction(c) ==
  /\ CoreLockFree
  /\ c \in Conns \ netconns
  /\ netconns' = netconns \cup {c} /\ open' = open \cup {c}
  /\ socket' = [socket EXCEPT ![c] = -1]
  /\ recvmbox' = [recvmbox EXCEPT ![c] = 0]
  /\ \/ /\ Len(acceptmbox) < MboxSize /\ acceptmbox' = Append(acceptmbox, c)
        /\ lost' = [lost EXCEPT ![c] = 0] /\ UNCHANGED leaked
     \/ /\ Len(acceptmbox) = MboxSize /\ lost[Listener] < MaxLost
        /\ lost' = [lost EXCEPT ![c] = 0, ![Listener] = @ + 1]
        /\ leaked' = leaked \cup {c} /\ UNCHANGED acceptmbox
  /\ Raise("tcpip", Listener, 1)
  /\ UNCHANGED <<socketVars, listVars, selectVars, serverVars, pc, early>>

\* accept_function with no pcb, no netconn or no memory for its mailbox: the application is
\* told with netconn_aborted.
AcceptAborts ==
  /\ CoreLockFree
  /\ \/ /\ Len(acceptmbox) < MboxSize /\ acceptmbox' = Append(acceptmbox, NULL)
        /\ UNCHANGED lost
     \/ /\ Len(acceptmbox) = MboxSize /\ lost[Listener] < MaxLost
        /\ lost' = [lost EXCEPT ![Listener] = @ + 1] /\ UNCHANGED acceptmbox
  /\ Raise("tcpip", Listener, 1)
  /\ UNCHANGED <<socketVars, socket, netconns, open, recvmbox, leaked, listVars, selectVars,
                 serverVars, pc, early>>

-----------------------------------------------------------------------------
(* lwip_accept, lwip_recv and lwip_close of a server.                       *)

At(t, label) == pc[t] = label /\ event[t] = NULL

\* netconn_accept takes a connection and reports that.
Accept(t) ==
  /\ At(t, "app") /\ acceptmbox # <<>>
  /\ newconn' = [newconn EXCEPT ![t] = Head(acceptmbox)]
  /\ acceptmbox' = Tail(acceptmbox)
  /\ Raise(t, Listener, -1)
  /\ Goto(t, IF Head(acceptmbox) = NULL THEN "app" ELSE "alloc")
  /\ UNCHANGED <<socketVars, socket, netconns, open, recvmbox, lost, leaked, listVars,
                 selectVars, newsock, early>>

AllocSocket_IgnoresWaiting(t) ==
  /\ At(t, "alloc")
  /\ LET i == newsock[t] IN
       \/ /\ conn[i] = NULL
          /\ conn' = [conn EXCEPT ![i] = newconn[t]]
          /\ Goto(t, "reset") /\ UNCHANGED newsock
       \/ /\ conn[i] # NULL
          /\ IF i + 1 \in Slots THEN newsock' = [newsock EXCEPT ![t] = i + 1] /\ UNCHANGED pc
                                ELSE Goto(t, "noSocket") /\ UNCHANGED newsock
          /\ UNCHANGED conn
  /\ UNCHANGED <<rcvevent, select_waiting, connVars, listVars, selectVars, newconn, event, early>>

\* alloc_socket tries one socket after the other; one that a select still waits
\* for is not free.
AllocSocket(t) ==
  /\ At(t, "alloc")
  /\ LET i == newsock[t]
         free == conn[i] = NULL /\ select_waiting[i] = 0 IN
       \/ /\ free
          /\ conn' = [conn EXCEPT ![i] = newconn[t]]
          /\ Goto(t, "reset") /\ UNCHANGED newsock
       \/ /\ ~free
          /\ IF i + 1 \in Slots THEN newsock' = [newsock EXCEPT ![t] = i + 1] /\ UNCHANGED pc
                                ELSE Goto(t, "noSocket") /\ UNCHANGED newsock
          /\ UNCHANGED conn
  /\ UNCHANGED <<rcvevent, select_waiting, connVars, listVars, selectVars, newconn, event, early>>

\* After the protected section alloc_socket clears the events of the socket.
ResetSocket(t) ==
  /\ At(t, "reset")
  /\ rcvevent' = [rcvevent EXCEPT ![newsock[t]] = 0]
  /\ Goto(t, "number")
  /\ UNCHANGED <<conn, select_waiting, connVars, listVars, selectVars, serverVars, event, early>>

\* The selects that will not look at socket i again before they wait.
LookedAt(i) == {t \in Selectors : pc[t] \in {"rescan", "wait"} /\ i \in readset[t] \ left[t]}

NumberSocket_ForgetsEvents(t) ==
  /\ At(t, "number")
  /\ LET i == newsock[t]
         c == newconn[t] IN
       /\ socket' = [socket EXCEPT ![c] = i]
       /\ early' = early \cup (LookedAt(i) \X {i})
  /\ newconn' = [newconn EXCEPT ![t] = NULL]
  /\ newsock' = [newsock EXCEPT ![t] = 0]
  /\ Goto(t, "app")
  /\ UNCHANGED <<socketVars, netconns, open, recvmbox, acceptmbox, lost,
                 leaked, listVars, selectVars, event>>

\* lwip_accept takes over the events that came before and gives the netconn its
\* number, in one section.
NumberSocket(t) ==
  /\ At(t, "number")
  /\ LET i == newsock[t]
         c == newconn[t] IN
       /\ rcvevent' = [rcvevent EXCEPT ![i] = @ + (-1 - socket[c])]
       /\ socket' = [socket EXCEPT ![c] = i]
       /\ early' = early \cup (LookedAt(i) \X {i})
  /\ newconn' = [newconn EXCEPT ![t] = NULL]
  /\ newsock' = [newsock EXCEPT ![t] = 0]
  /\ Goto(t, "app")
  /\ UNCHANGED <<conn, select_waiting, netconns, open, recvmbox, acceptmbox, lost,
                 leaked, listVars, selectVars, event>>

\* Socket i has a connection, and no server is in a call on it: lwIP wants one task
\* at a time on a netconn.
Usable(i) ==
  /\ conn[i] \in Conns \ {Listener} /\ socket[conn[i]] = i
  /\ \A t \in Servers : newconn[t] # conn[i] /\ (event[t] # NULL => event[t].conn # conn[i])

\* netconn_recv_data of an accepted connection.
Recv(t, i) ==
  /\ At(t, "app")
  /\ Usable(i)
  /\ recvmbox[conn[i]] > 0
  /\ recvmbox' = [recvmbox EXCEPT ![conn[i]] = @ - 1]
  /\ Raise(t, conn[i], -1)
  /\ UNCHANGED <<socketVars, socket, netconns, open, acceptmbox, lost, leaked, listVars,
                 selectVars, serverVars, pc, early>>

\* lwip_netconn_do_delconn, with the core lock: the mailbox is drained, and selects
\* are told with a last event.
DeleteNetconn(t, c) ==
  /\ CoreLockFree
  /\ open' = open \ {c}
  /\ recvmbox' = [recvmbox EXCEPT ![c] = 0]
  /\ Raise(t, c, 1)
  /\ Goto(t, "delete")
  /\ newconn' = [newconn EXCEPT ![t] = c]
  /\ UNCHANGED <<socketVars, socket, netconns, acceptmbox, lost, leaked, listVars, selectVars,
                 early>>

\* lwip_close.
Close(t, i) ==
  /\ At(t, "app")
  /\ Usable(i)
  /\ newsock' = [newsock EXCEPT ![t] = i]
  /\ DeleteNetconn(t, conn[i])

AcceptFails_KeepsNetconn(t) ==
  /\ At(t, "noSocket")
  /\ newsock' = [newsock EXCEPT ![t] = 0]
  /\ newconn' = [newconn EXCEPT ![t] = NULL]
  /\ Goto(t, "app")
  /\ UNCHANGED <<socketVars, connVars, listVars, selectVars, event, early>>

\* lwip_accept has found no socket.
AcceptFails(t) ==
  /\ At(t, "noSocket")
  /\ newsock' = [newsock EXCEPT ![t] = -1]
  /\ DeleteNetconn(t, newconn[t])

\* netconn_free, after the core lock.
FreeNetconn(t) ==
  /\ At(t, "delete")
  /\ netconns' = netconns \ {newconn[t]}
  /\ socket' = [socket EXCEPT ![newconn[t]] = -1]
  /\ lost' = [lost EXCEPT ![newconn[t]] = 0]
  /\ newconn' = [newconn EXCEPT ![t] = NULL]
  /\ \/ newsock[t] = -1 /\ Goto(t, "app") /\ newsock' = [newsock EXCEPT ![t] = 0]
     \/ newsock[t] # -1 /\ Goto(t, "freeSocket") /\ UNCHANGED newsock
  /\ UNCHANGED <<socketVars, open, recvmbox, acceptmbox, leaked, listVars, selectVars, event,
                 early>>

\* free_socket: from here on another task may have it.
FreeSocket(t) ==
  /\ At(t, "freeSocket")
  /\ conn' = [conn EXCEPT ![newsock[t]] = NULL]
  /\ newsock' = [newsock EXCEPT ![t] = 0]
  /\ Goto(t, "app")
  /\ UNCHANGED <<rcvevent, select_waiting, connVars, listVars, selectVars, newconn, event, early>>

-----------------------------------------------------------------------------
(* lwip_select.                                                             *)

\* The loops go up the sockets of the set.
Lowest(S) == CHOOSE i \in S : \A j \in S : i <= j

Loop(t, label, S) == Goto(t, label) /\ left' = [left EXCEPT ![t] = S]

\* The loop goes on with the sockets after i, or ends.
Step(t, i, next, S) ==
  IF left[t] = {i} THEN Loop(t, next, S) ELSE Loop(t, pc[t], left[t] \ {i})

\* A call with a set of sockets that are set up.  The first lwip_selscan has found
\* none of them ready, and the timeout is not zero; otherwise the call changes nothing.
Select(t, S) ==
  /\ pc[t] = "app"
  /\ \A i \in S : conn[i] # NULL /\ socket[conn[i]] = i
  /\ readset' = [readset EXCEPT ![t] = S]
  /\ Goto(t, "push")
  /\ UNCHANGED <<socketVars, connVars, listVars, left, serverVars, event, early>>

IsReady(i) == conn[i] # NULL /\ rcvevent[i] > 0

\* select_cb_ctr++.
ListChanges ==
  event' = [u \in Callers |->
    IF Calls(u, "walk") THEN [event[u] EXCEPT !.changed = TRUE] ELSE event[u]]

\* The select goes to the front of the list.
Push(t) ==
  /\ pc[t] = "push"
  /\ select_cb_list' = <<t>> \o select_cb_list
  /\ ListChanges
  /\ Loop(t, "enter", readset[t])
  /\ UNCHANGED <<socketVars, connVars, sem_signalled, readset, serverVars, early>>

\* The sockets of t that were counted before i.
Entered(t, i) == {j \in readset[t] : j < i}

Enter_UndoesAll(t) ==
  /\ pc[t] = "enter"
  /\ LET i == Lowest(left[t]) IN
       \/ /\ conn[i] # NULL
          /\ select_waiting' = [select_waiting EXCEPT ![i] = @ + 1]
          /\ Step(t, i, "rescan", readset[t])
       \/ /\ conn[i] = NULL
          /\ Loop(t, "leave", readset[t])
          /\ UNCHANGED select_waiting
  /\ UNCHANGED <<conn, rcvevent, connVars, listVars, readset, serverVars, event, early>>

\* select_waiting++ for each socket, up to one that was closed meanwhile.
Enter(t) ==
  /\ pc[t] = "enter"
  /\ LET i == Lowest(left[t]) IN
       \/ /\ conn[i] # NULL
          /\ select_waiting' = [select_waiting EXCEPT ![i] = @ + 1]
          /\ Step(t, i, "rescan", readset[t])
       \/ /\ conn[i] = NULL
          /\ Loop(t, IF Entered(t, i) = {} THEN "unlink" ELSE "leave", Entered(t, i))
          /\ UNCHANGED select_waiting
  /\ UNCHANGED <<conn, rcvevent, connVars, listVars, readset, serverVars, event, early>>

\* The second lwip_selscan looks for events that came before the select was on the
\* list.  Once it has found one the select does not wait.
Selscan(t) ==
  /\ pc[t] = "rescan"
  /\ LET i == Lowest(left[t]) IN
       \/ IsReady(i) /\ Loop(t, "leave", readset[t])
       \/ ~IsReady(i) /\ Step(t, i, "wait", {})
  /\ UNCHANGED <<socketVars, connVars, listVars, readset, serverVars, event, early>>

\* sys_arch_sem_wait ends when the select is signalled ...
SemWait(t) ==
  /\ pc[t] = "wait"
  /\ sem_signalled[t]
  /\ Loop(t, "leave", readset[t])
  /\ UNCHANGED <<socketVars, connVars, listVars, readset, serverVars, event, early>>

\* ... or when its time is up.
Timeout(t) ==
  /\ pc[t] = "wait"
  /\ ~sem_signalled[t]
  /\ Loop(t, "leave", readset[t])
  /\ UNCHANGED <<socketVars, connVars, listVars, readset, serverVars, event, early>>

Leave_KeepsCount(t) ==
  /\ pc[t] = "leave"
  /\ Step(t, Lowest(left[t]), "unlink", {})
  /\ UNCHANGED <<socketVars, connVars, listVars, readset, serverVars, event, early>>

\* select_waiting-- for each socket that is still open.  One that was closed keeps
\* its count.
Leave(t) ==
  /\ pc[t] = "leave"
  /\ LET i == Lowest(left[t]) IN
       /\ select_waiting' = IF conn[i] # NULL /\ select_waiting[i] > 0
                            THEN [select_waiting EXCEPT ![i] = @ - 1] ELSE select_waiting
       /\ Step(t, i, "unlink", {})
  /\ UNCHANGED <<conn, rcvevent, connVars, listVars, readset, serverVars, event, early>>

\* Off the list.  The third lwip_selscan only tells which sockets are ready now.
Unlink(t) ==
  /\ pc[t] = "unlink"
  /\ LET k == Place(t) IN select_cb_list' =
       SubSeq(select_cb_list, 1, k - 1) \o SubSeq(select_cb_list, k + 1, Len(select_cb_list))
  /\ ListChanges
  /\ sem_signalled' = [sem_signalled EXCEPT ![t] = FALSE]
  /\ readset' = [readset EXCEPT ![t] = {}]
  /\ early' = {x \in early : x[1] # t}
  /\ Goto(t, "app")
  /\ UNCHANGED <<socketVars, connVars, left, serverVars>>

SelectStep(t) == Selscan(t) \/ Push(t) \/ Enter(t) \/ SemWait(t) \/ Leave(t) \/ Unlink(t)

-----------------------------------------------------------------------------
ServerStep(t) ==
  \/ AllocSocket(t) \/ ResetSocket(t) \/ NumberSocket(t) \/ AcceptFails(t)
  \/ FreeNetconn(t) \/ FreeSocket(t)

Next ==
  \/ \E u \in Callers : EventCallback(u)
  \/ \E c \in Conns : Deliver(c) \/ AcceptFunction(c)
  \/ AcceptAborts
  \/ \E t \in Servers : Accept(t) \/ ServerStep(t) \/ \E i \in Slots : Recv(t, i) \/ Close(t, i)
  \/ \E t \in Selectors : SelectStep(t) \/ Timeout(t)
                          \/ \E S \in {x \in SUBSET Slots : <<t, x>> \in ReadSets} : Select(t, S)

Spec == Init /\ [][Next]_vars

-----------------------------------------------------------------------------
\* Every variable keeps the type of the object it stands for.
TypeOK ==
  /\ conn \in [Slots -> Conns \cup {NULL}]
  /\ rcvevent \in [Slots -> Int]
  /\ select_waiting \in [Slots -> 0..Cardinality(Selectors)]
  /\ socket \in [Conns -> Int] /\ \A c \in Conns : socket[c] < NUM_SOCKETS
  /\ open \subseteq netconns /\ netconns \subseteq Conns
  /\ recvmbox \in [Conns -> 0..MboxSize]
  /\ acceptmbox \in Seq(Conns \cup {NULL}) /\ Len(acceptmbox) <= MboxSize
  /\ select_cb_list \in Seq(Selectors)
  /\ sem_signalled \in [Selectors -> BOOLEAN]
  /\ readset \in [Selectors -> SUBSET Slots]
  /\ left \in [Selectors -> SUBSET Slots]
  /\ newconn \in [Servers -> Conns \cup {NULL}]
  /\ newsock \in [Servers -> Slots \cup {-1}]
  /\ lost \in [Conns -> 0..MaxLost]
  /\ leaked \subseteq Conns
  /\ early \subseteq Selectors \X Slots

\* What event_callback has counted for c: in its socket, or in its missing number.
Counted(c) == IF socket[c] < 0 THEN -1 - socket[c] ELSE rcvevent[socket[c]]

Messages(c) == IF c = Listener THEN Len(acceptmbox) ELSE recvmbox[c]

\* The events of c that were raised and not counted yet.
Coming(c, evt) ==
  {u \in Callers : event[u] # NULL /\ event[u].conn = c /\ event[u].evt = evt
                   /\ event[u].at # "walk"}

\* No event is lost or counted twice, also of a connection that gets data before,
\* while and after lwip_accept gives it a socket: rcvevent is the number of messages
\* in the mailbox, up to the calls of event_callback under way and the messages that
\* sys_mbox_trypost dropped.
EventsMatchMessages ==
  \A c \in open :
    Counted(c) + Cardinality(Coming(c, 1)) - Cardinality(Coming(c, -1)) = Messages(c) + lost[c]

\* Every open connection is in exactly one place, where somebody will find it: in
\* acceptmbox, with the server that accepts or deletes it, or at its socket; unless
\* it was dropped because acceptmbox was full.
ConnectionsAccounted ==
  \A c \in open \ {Listener} :
    /\ Cardinality({k \in 1..Len(acceptmbox) : acceptmbox[k] = c})
       + Cardinality({t \in Servers : newconn[t] = c})
       + Cardinality({i \in Slots : conn[i] = c /\ socket[c] = i}) = IF c \in leaked THEN 0 ELSE 1

\* The sockets that a select has counted itself in for.
Entries(t) ==
  CASE pc[t] = "enter" -> readset[t] \ left[t]
    [] pc[t] \in {"rescan", "wait"} -> readset[t]
    [] pc[t] = "leave" -> left[t]
    [] OTHER -> {}

WaitsFor(i) == {t \in Selectors : i \in Entries(t)}

\* select_waiting counts at least the selects that wait, whatever sockets are closed:
\* LWIP_ASSERT("sock->select_waiting > 0") holds and no event is kept from a select.
WaitingCounted == \A i \in Slots : select_waiting[i] >= Cardinality(WaitsFor(i))

\* A socket that was closed while selects wait for it is not given to another
\* connection before they have left it.
ClosedSocketKept ==
  [][\A i \in Slots : WaitsFor(i) # {} /\ conn[i] = NULL => conn'[i] = NULL]_vars

\* No event passes a select that waits: as long as one of its sockets is ready and it
\* is not signalled, the walk of an event_callback has yet to come to it.
NoSelectMissed ==
  \A t \in Selectors : pc[t] = "wait" /\ ~sem_signalled[t] =>
    \A i \in readset[t] : IsReady(i) /\ <<t, i>> \notin early =>
      \E u \in Callers :
        /\ Calls(u, "walk") /\ event[u].s = i
        /\ \/ event[u].changed
           \/ \E j, k \in 1..Len(select_cb_list) :
                j < k /\ select_cb_list[j] = event[u].scb /\ select_cb_list[k] = t
=============================================================================
