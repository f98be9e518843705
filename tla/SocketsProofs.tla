---------------------------- MODULE SocketsProofs ----------------------------
(***************************************************************************)
(* Theorems about Sockets, for any number of sockets, connections,         *)
(* servers and selects, and mailboxes of any size.                         *)
(*                                                                         *)
(* IInv is about select_waiting.  WaitingCounted alone is not inductive: a *)
(* select that leaves takes itself off select_waiting only if it is above  *)
(* zero and the socket is open.  CountsAgree says that the count of an     *)
(* open socket is exact; it stays so because a slot is given away only     *)
(* when its count is zero.  Loops says what the loops of lwip_select have  *)
(* passed.                                                                 *)
(*                                                                         *)
(* The other invariants each build on those before:                        *)
(*   ConnInv    where a connection is: in the accept mailbox, in a         *)
(*              server's hand, in a slot, or dropped;                      *)
(*   EventInv   the balance of messages, counts and events under way;      *)
(*   SelectInv  the list of selects, and the walks that have yet to reach  *)
(*              a select;                                                  *)
(*   Bounds     the limits of the mailboxes and of the counts.             *)
(***************************************************************************)
EXTENDS Sockets, FiniteSetTheorems, SequenceTheorems, NaturalsInduction, WellFoundedInduction,
        TLAPS

ServerLabels == {"app", "alloc", "reset", "number", "noSocket", "delete", "freeSocket"}
Labels == ServerLabels \cup {"push", "enter", "rescan", "wait", "leave", "unlink"}

Typed ==
  /\ conn = [i \in Slots |-> conn[i]]
  /\ select_waiting \in [Slots -> Nat]
  /\ readset \in [Selectors -> SUBSET Slots]
  /\ left \in [Selectors -> SUBSET Slots]
  /\ pc \in [Tasks -> Labels]

LoopOf(t) ==
  /\ pc[t] \in {"push", "enter", "rescan", "wait"} => readset[t] # {}
  /\ pc[t] \in {"enter", "rescan", "leave"} => left[t] # {} /\ left[t] \subseteq readset[t]
  /\ pc[t] = "enter" => \A j \in readset[t] \ left[t], k \in left[t] : j < k

Loops == \A t \in Selectors : LoopOf(t)

\* The count of a socket is never too low, and exact while the socket is open.
CountsAgree ==
  \A i \in Slots :
    /\ select_waiting[i] >= Cardinality(WaitsFor(i))
    /\ conn[i] # NULL => select_waiting[i] = Cardinality(WaitsFor(i))

IInv == Typed /\ Loops /\ CountsAgree

USE DEF socketVars, connVars, listVars, selectVars, serverVars

-----------------------------------------------------------------------------
\* Every set of sockets has a lowest.
LEMMA LowestType ==
  ASSUME NEW S \in SUBSET Slots, S # {}
  PROVE  Lowest(S) \in S /\ \A j \in S : Lowest(S) <= j
<1>1. S \subseteq Nat
  BY SocketsAssumption DEF Slots
<1>2. \E k \in S : \A j \in S : <<j, k>> \notin OpToRel(<, Nat)
  BY <1>1, NatLessThanWellFounded, WFMin
<1>3. PICK k \in S : \A j \in S : ~(j < k)
  BY <1>1, <1>2 DEF OpToRel
<1>4. \A j \in S : k <= j
  BY <1>1, <1>3
<1> QED
  BY <1>4 DEF Lowest

\* The selects that wait for a socket are finitely many.
LEMMA WaitersFinite ==
  ASSUME NEW i \in Slots
  PROVE  /\ WaitsFor(i) \subseteq Selectors
         /\ IsFiniteSet(WaitsFor(i)) /\ Cardinality(WaitsFor(i)) \in Nat
<1>1. WaitsFor(i) \subseteq Selectors
  BY DEF WaitsFor
<1> QED
  BY <1>1, SocketsAssumption, FS_Subset, FS_CardinalityType

\* What a select has counted, by its label.
LEMMA EntriesByLabel ==
  ASSUME NEW t
  PROVE  /\ pc[t] = "enter" => Entries(t) = readset[t] \ left[t]
         /\ pc[t] \in {"rescan", "wait"} => Entries(t) = readset[t]
         /\ pc[t] = "leave" => Entries(t) = left[t]
         /\ pc[t] \notin {"enter", "rescan", "wait", "leave"} => Entries(t) = {}
BY DEF Entries

\* The same in the next state.
LEMMA EntriesByLabelNext ==
  ASSUME NEW t
  PROVE  /\ pc'[t] = "enter" => Entries(t)' = readset'[t] \ left'[t]
         /\ pc'[t] \in {"rescan", "wait"} => Entries(t)' = readset'[t]
         /\ pc'[t] = "leave" => Entries(t)' = left'[t]
         /\ pc'[t] \notin {"enter", "rescan", "wait", "leave"} => Entries(t)' = {}
BY DEF Entries

\* The initial state is in IInv.
LEMMA InitInv == Init => IInv
<1> SUFFICES ASSUME Init PROVE IInv
  OBVIOUS
<1>1. Typed
  BY DEF Init, Typed, Labels, ServerLabels, Tasks
<1>2. \A t \in Selectors : pc[t] = "app"
  BY DEF Init, Tasks
<1>3. Loops
  BY <1>2 DEF Loops, LoopOf
<1>4. ASSUME NEW i \in Slots PROVE WaitsFor(i) = {}
  BY <1>2, EntriesByLabel DEF WaitsFor
<1>5. CountsAgree
  <2> SUFFICES ASSUME NEW i \in Slots
               PROVE  select_waiting[i] = 0 /\ Cardinality(WaitsFor(i)) = 0
    BY DEF CountsAgree
  <2> QED
    BY <1>4, FS_EmptySet DEF Init
<1> QED
  BY <1>1, <1>3, <1>5 DEF IInv

-----------------------------------------------------------------------------
(* Steps of the stack, of the servers and of event_callback.                *)

\* What they leave alone of the selects, and how they change the slots: one is
\* freed, or one that is free and not waited for is taken.
Quiet ==
  /\ UNCHANGED <<select_waiting, readset, left>>
  /\ pc' \in [Tasks -> Labels]
  /\ \A t \in Tasks : pc'[t] = pc[t] \/ (pc[t] \in ServerLabels /\ pc'[t] \in ServerLabels)
  /\ conn' = [i \in Slots |-> conn'[i]]
  /\ \A i \in Slots : \/ conn'[i] = conn[i] \/ conn'[i] = NULL
                      \/ conn[i] = NULL /\ select_waiting[i] = 0

\* They keep the invariant.
LEMMA QuietStep ==
  ASSUME IInv, Quiet
  PROVE  IInv'
<1>1. Typed'
  BY DEF IInv, Typed, Quiet
<1>2. \A t \in Selectors : pc'[t] = pc[t] \/ (pc[t] \in ServerLabels /\ pc'[t] \in ServerLabels)
  BY DEF Quiet, Tasks
<1>3. Loops'
  BY <1>2 DEF IInv, Loops, LoopOf, Quiet, ServerLabels
<1>4. ASSUME NEW t \in Selectors PROVE Entries(t)' = Entries(t)
  BY <1>2, EntriesByLabel, EntriesByLabelNext DEF Quiet, ServerLabels, Entries
<1>5. ASSUME NEW i \in Slots PROVE WaitsFor(i)' = WaitsFor(i)
  BY <1>4 DEF WaitsFor
<1>6. CountsAgree'
  <2> SUFFICES ASSUME NEW i \in Slots
               PROVE  /\ select_waiting[i] >= Cardinality(WaitsFor(i))
                      /\ conn'[i] # NULL => select_waiting[i] = Cardinality(WaitsFor(i))
    BY <1>5 DEF CountsAgree, Quiet
  <2>1. Cardinality(WaitsFor(i)) \in Nat /\ select_waiting[i] \in Nat
    BY WaitersFinite DEF IInv, Typed
  <2>2. /\ select_waiting[i] >= Cardinality(WaitsFor(i))
        /\ conn[i] # NULL => select_waiting[i] = Cardinality(WaitsFor(i))
    BY DEF IInv, CountsAgree
  <2>3. \/ conn'[i] = conn[i] \/ conn'[i] = NULL
        \/ conn[i] = NULL /\ select_waiting[i] = 0
    BY DEF Quiet
  <2> QED
    BY <2>1, <2>2, <2>3
<1> QED
  BY <1>1, <1>3, <1>6 DEF IInv

\* A task goes from one label of the servers to another, and the selects stay.
LEMMA ServerMove ==
  ASSUME Typed, NEW t \in Servers, NEW l \in ServerLabels, pc[t] \in ServerLabels, Goto(t, l)
  PROVE  /\ pc' \in [Tasks -> Labels]
         /\ \A u \in Tasks : pc'[u] = pc[u] \/ (pc[u] \in ServerLabels /\ pc'[u] \in ServerLabels)
<1>1. t \in Tasks /\ l \in Labels
  BY DEF Tasks, Labels
<1> QED
  BY <1>1 DEF Goto, Typed

\* Steps that change neither slots nor labels.
LEMMA UnchangedQuiet ==
  ASSUME Typed, UNCHANGED <<conn, select_waiting, readset, left, pc>>
  PROVE  Quiet
BY DEF Quiet, Typed

\* The steps of event_callback and of the stack are quiet.
LEMMA StackStep ==
  ASSUME Typed, \/ \E u \in Callers : EventCallback(u)
                \/ \E c \in Conns : Deliver(c) \/ AcceptFunction(c)
                \/ AcceptAborts
  PROVE  Quiet
<1>1. UNCHANGED <<conn, select_waiting, readset, left, pc>>
  BY DEF EventCallback, CountBeforeAccept, SetEvent, NextSelectCb, Deliver, AcceptFunction,
         AcceptAborts
<1> QED
  BY <1>1, UnchangedQuiet

\* The steps of the servers are quiet.
LEMMA ServersStep ==
  ASSUME Typed, NEW t \in Servers,
         Accept(t) \/ ServerStep(t) \/ \E i \in Slots : Recv(t, i) \/ Close(t, i)
  PROVE  Quiet
<1>1. CASE Accept(t)
  <2>1. \E l \in ServerLabels : Goto(t, l)
    BY <1>1 DEF Accept, ServerLabels
  <2> QED
    BY <1>1, <2>1, ServerMove DEF Accept, At, Quiet, Typed, ServerLabels
<1>2. CASE \E i \in Slots : Recv(t, i)
  BY <1>2, UnchangedQuiet DEF Recv
<1>3. CASE \E i \in Slots : Close(t, i)
  <2>1. Goto(t, "delete") /\ UNCHANGED <<conn, select_waiting, readset, left>> /\ pc[t] = "app"
    BY <1>3 DEF Close, DeleteNetconn, At
  <2> QED
    BY <2>1, ServerMove DEF Quiet, Typed, ServerLabels
<1>4. CASE AcceptFails(t)
  <2>1. Goto(t, "delete") /\ UNCHANGED <<conn, select_waiting, readset, left>> /\ pc[t] = "noSocket"
    BY <1>4 DEF AcceptFails, DeleteNetconn, At
  <2> QED
    BY <2>1, ServerMove DEF Quiet, Typed, ServerLabels
<1>5. CASE AllocSocket(t)
  <2>1. pc[t] = "alloc" /\ UNCHANGED <<select_waiting, readset, left>>
    BY <1>5 DEF AllocSocket, At
  <2>2. UNCHANGED pc \/ \E l \in ServerLabels : Goto(t, l)
    BY <1>5 DEF AllocSocket, ServerLabels
  <2>3. /\ pc' \in [Tasks -> Labels]
        /\ \A u \in Tasks : pc'[u] = pc[u] \/ (pc[u] \in ServerLabels /\ pc'[u] \in ServerLabels)
    BY <2>1, <2>2, ServerMove DEF Typed, ServerLabels
  <2>4. \/ UNCHANGED conn
        \/ /\ conn[newsock[t]] = NULL /\ select_waiting[newsock[t]] = 0
           /\ conn' = [conn EXCEPT ![newsock[t]] = newconn[t]]
    BY <1>5 DEF AllocSocket
  <2> QED
    BY <2>1, <2>3, <2>4 DEF Quiet, Typed
<1>6. CASE ResetSocket(t) \/ NumberSocket(t)
  <2>1. /\ \E l \in ServerLabels : Goto(t, l)
        /\ UNCHANGED <<conn, select_waiting, readset, left>> /\ pc[t] \in ServerLabels
    BY <1>6 DEF ResetSocket, NumberSocket, At, ServerLabels
  <2> QED
    BY <2>1, ServerMove DEF Quiet, Typed
<1>7. CASE FreeNetconn(t)
  <2>1. /\ \E l \in ServerLabels : Goto(t, l)
        /\ UNCHANGED <<conn, select_waiting, readset, left>> /\ pc[t] \in ServerLabels
    BY <1>7 DEF FreeNetconn, At, ServerLabels
  <2> QED
    BY <2>1, ServerMove DEF Quiet, Typed
<1>8. CASE FreeSocket(t)
  <2>1. /\ Goto(t, "app") /\ "app" \in ServerLabels /\ pc[t] \in ServerLabels
        /\ UNCHANGED <<select_waiting, readset, left>>
        /\ conn' = [conn EXCEPT ![newsock[t]] = NULL]
    BY <1>8 DEF FreeSocket, At, ServerLabels
  <2> QED
    BY <2>1, ServerMove DEF Quiet, Typed
<1> QED
  BY <1>1, <1>2, <1>3, <1>4, <1>5, <1>6, <1>7, <1>8 DEF ServerStep

-----------------------------------------------------------------------------
(* Steps of a select.                                                       *)

\* What holds of the other selects is what held before.
Alone(t) ==
  /\ readset' \in [Selectors -> SUBSET Slots] /\ left' \in [Selectors -> SUBSET Slots]
  /\ pc' \in [Tasks -> Labels]
  /\ UNCHANGED conn
  /\ \A u \in Selectors \ {t} : pc'[u] = pc[u] /\ readset'[u] = readset[u] /\ left'[u] = left[u]

\* So only t may come to the selects that wait for a socket, or leave them.
LEMMA OthersWait ==
  ASSUME NEW t \in Selectors, Alone(t), NEW i \in Slots
  PROVE  /\ i \in Entries(t)' => WaitsFor(i)' = WaitsFor(i) \cup {t}
         /\ i \notin Entries(t)' => WaitsFor(i)' = WaitsFor(i) \ {t}
<1>1. \A u \in Selectors \ {t} : Entries(u)' = Entries(u)
  BY DEF Alone, Entries
<1> QED
  BY <1>1 DEF WaitsFor

\* A step of a select that counts nothing keeps the invariant.
LEMMA SameEntries ==
  ASSUME IInv, NEW t \in Selectors, Alone(t), UNCHANGED select_waiting,
         Entries(t)' = Entries(t), LoopOf(t)'
  PROVE  IInv'
<1>1. Typed'
  BY DEF IInv, Typed, Alone
<1>2. Loops'
  BY DEF IInv, Loops, LoopOf, Alone
<1>3. ASSUME NEW i \in Slots PROVE WaitsFor(i)' = WaitsFor(i)
  BY OthersWait DEF WaitsFor
<1>4. CountsAgree'
  BY <1>3 DEF IInv, CountsAgree, Alone
<1> QED
  BY <1>1, <1>2, <1>4 DEF IInv

\* The loop of a select goes to the sockets after i, or ends.
LEMMA StepTo ==
  ASSUME NEW t \in Selectors, NEW i, NEW next \in Labels, NEW S \in SUBSET Slots,
         Typed, pc[t] \in Labels, left[t] \in SUBSET Slots, UNCHANGED <<conn, readset>>,
         Step(t, i, next, S)
  PROVE  /\ Alone(t)
         /\ left[t] = {i} => pc'[t] = next /\ left'[t] = S
         /\ left[t] # {i} => pc'[t] = pc[t] /\ left'[t] = left[t] \ {i}
<1>1. t \in Tasks
  BY DEF Tasks
<1> QED
  BY <1>1 DEF Step, Loop, Goto, Alone, Typed, Tasks

\* The loop of a select begins anew or ends.
LEMMA LoopTo ==
  ASSUME NEW t \in Selectors, NEW next \in Labels, NEW S \in SUBSET Slots,
         Typed, UNCHANGED <<conn, readset>>, Loop(t, next, S)
  PROVE  Alone(t) /\ pc'[t] = next /\ left'[t] = S
<1>1. t \in Tasks
  BY DEF Tasks
<1> QED
  BY <1>1 DEF Loop, Goto, Alone, Typed, Tasks

\* The steps of a select that count nothing.
LEMMA IdleSelectStep ==
  ASSUME IInv, NEW t \in Selectors,
         \/ \E S \in {x \in SUBSET Slots : <<t, x>> \in ReadSets} : Select(t, S)
         \/ Push(t) \/ Selscan(t) \/ SemWait(t) \/ Timeout(t) \/ Unlink(t)
  PROVE  IInv'
<1>0. /\ Typed /\ LoopOf(t) /\ t \in Tasks
      /\ readset[t] \in SUBSET Slots /\ left[t] \in SUBSET Slots /\ pc[t] \in Labels
  BY DEF IInv, Typed, Loops, Tasks
<1>1. ASSUME NEW S \in SUBSET Slots, <<t, S>> \in ReadSets, Select(t, S) PROVE IInv'
  <2>1. S # {} /\ pc[t] = "app" /\ UNCHANGED <<select_waiting, conn, left>>
    <3>1. S \in (SUBSET Slots) \ {{}}
      BY <1>1, SocketsAssumption
    <3>2. S # {}
      BY <3>1
    <3>3. pc[t] = "app" /\ UNCHANGED <<select_waiting, conn, left>>
      BY <1>1 DEF Select
    <3> QED
      BY <3>2, <3>3
  <2>2. Alone(t) /\ pc'[t] = "push" /\ readset'[t] = S
    BY <1>0, <1>1, <2>1 DEF Select, Goto, Alone, Typed, Labels, Tasks
  <2>3. Entries(t)' = Entries(t)
    BY <2>1, <2>2, EntriesByLabel, EntriesByLabelNext
  <2>4. LoopOf(t)'
    BY <2>1, <2>2 DEF LoopOf
  <2> QED
    BY <2>1, <2>2, <2>3, <2>4, SameEntries
<1>2. CASE Push(t)
  <2>1. pc[t] = "push" /\ UNCHANGED <<select_waiting, conn, readset>>
        /\ Loop(t, "enter", readset[t])
    BY <1>2 DEF Push
  <2>2. Alone(t) /\ pc'[t] = "enter" /\ left'[t] = readset[t]
    BY <1>0, <2>1, LoopTo DEF Labels
  <2>3. Entries(t)' = Entries(t)
    BY <2>1, <2>2, EntriesByLabel, EntriesByLabelNext
  <2>4. LoopOf(t)'
    BY <1>0, <2>1, <2>2 DEF LoopOf
  <2> QED
    BY <2>1, <2>2, <2>3, <2>4, SameEntries
<1>3. CASE Selscan(t) \/ SemWait(t) \/ Timeout(t)
  <2>1. /\ pc[t] \in {"rescan", "wait"} /\ UNCHANGED <<select_waiting, conn, readset>>
        /\ \/ Loop(t, "leave", readset[t])
           \/ pc[t] = "rescan" /\ Step(t, Lowest(left[t]), "wait", {})
    BY <1>3 DEF Selscan, SemWait, Timeout
  <2>2. CASE Loop(t, "leave", readset[t])
    <3>1. Alone(t) /\ pc'[t] = "leave" /\ left'[t] = readset[t]
      BY <1>0, <2>1, <2>2, LoopTo DEF Labels
    <3>2. Entries(t)' = Entries(t)
      BY <2>1, <3>1, EntriesByLabel, EntriesByLabelNext
    <3>3. LoopOf(t)'
      BY <1>0, <2>1, <3>1 DEF LoopOf
    <3> QED
      BY <2>1, <3>1, <3>2, <3>3, SameEntries
  <2>3. CASE pc[t] = "rescan" /\ Step(t, Lowest(left[t]), "wait", {})
    <3>1. /\ Alone(t) /\ {} \in SUBSET Slots
          /\ left[t] = {Lowest(left[t])} => pc'[t] = "wait"
          /\ left[t] # {Lowest(left[t])} =>
               pc'[t] = "rescan" /\ left'[t] = left[t] \ {Lowest(left[t])}
      BY <1>0, <2>1, <2>3, StepTo DEF Labels
    <3>2. Entries(t)' = Entries(t)
      BY <2>1, <2>3, <3>1, EntriesByLabel, EntriesByLabelNext
    <3>3. LoopOf(t)'
      BY <1>0, <2>1, <2>3, <3>1 DEF LoopOf
    <3> QED
      BY <2>1, <3>1, <3>2, <3>3, SameEntries
  <2> QED
    BY <2>1, <2>2, <2>3
<1>4. CASE Unlink(t)
  <2>1. /\ pc[t] = "unlink" /\ UNCHANGED <<select_waiting, conn, left>> /\ Goto(t, "app")
        /\ readset' = [readset EXCEPT ![t] = {}]
    BY <1>4 DEF Unlink
  <2>2. Alone(t) /\ pc'[t] = "app"
    BY <1>0, <2>1 DEF Goto, Alone, Typed, Labels, ServerLabels, Tasks
  <2>3. Entries(t)' = Entries(t)
    BY <2>1, <2>2, EntriesByLabel, EntriesByLabelNext
  <2>4. LoopOf(t)'
    BY <2>2 DEF LoopOf
  <2> QED
    BY <2>1, <2>2, <2>3, <2>4, SameEntries
<1> QED
  BY <1>1, <1>2, <1>3, <1>4

\* A select that counts itself in, or finds that it cannot.
LEMMA EnterStep ==
  ASSUME IInv, NEW t \in Selectors, Enter(t)
  PROVE  IInv'
<1>0. /\ Typed /\ LoopOf(t) /\ t \in Tasks /\ pc[t] = "enter" /\ UNCHANGED <<conn, readset>>
      /\ readset[t] \in SUBSET Slots /\ left[t] \in SUBSET Slots /\ pc[t] \in Labels
      /\ select_waiting \in [Slots -> Nat]
  BY DEF IInv, Typed, Loops, Tasks, Enter
<1>a. left[t] # {} /\ Lowest(left[t]) \in left[t]
  BY <1>0, LowestType DEF LoopOf
<1>b. PICK i \in left[t] : i = Lowest(left[t])
  BY <1>a
<1>1. /\ i \in left[t] /\ i \in Slots /\ left[t] \subseteq readset[t] /\ readset[t] # {}
      /\ \A j \in left[t] : i <= j
      /\ \A j \in readset[t] \ left[t], k \in left[t] : j < k
  BY <1>0, <1>a, <1>b, LowestType DEF LoopOf
<1>2. Slots \subseteq Int
  BY SocketsAssumption DEF Slots
<1>3. Entered(t, i) = readset[t] \ left[t]
  <2>1. ASSUME NEW j \in readset[t], j \notin left[t] PROVE j < i
    BY <1>1, <2>1
  <2>2. ASSUME NEW j \in readset[t], j \in left[t] PROVE ~(j < i)
    <3>1. i <= j
      BY <1>1, <2>2
    <3>2. i \in Slots /\ j \in Slots
      BY <1>0, <1>1, <2>2
    <3>3. i \in Int /\ j \in Int
      BY <1>2, <3>2
    <3> QED
      BY <3>1, <3>3
  <2> QED
    BY <2>1, <2>2 DEF Entered
<1>4. Entries(t) = readset[t] \ left[t]
  BY <1>0, EntriesByLabel
<1>5. CASE conn[i] = NULL
  <2>1. /\ UNCHANGED select_waiting
        /\ Loop(t, IF Entered(t, i) = {} THEN "unlink" ELSE "leave", Entered(t, i))
    BY <1>b, <1>5 DEF Enter
  <2>2. /\ Entered(t, i) \in SUBSET Slots
        /\ (IF Entered(t, i) = {} THEN "unlink" ELSE "leave") \in Labels
    BY <1>0, <1>3 DEF Labels
  <2>3. Alone(t) /\ pc'[t] = (IF Entered(t, i) = {} THEN "unlink" ELSE "leave")
        /\ left'[t] = Entered(t, i)
    BY <1>0, <2>1, <2>2, LoopTo
  <2>4. Entries(t)' = Entries(t)
    BY <1>3, <1>4, <2>3, EntriesByLabelNext
  <2>5. LoopOf(t)'
    BY <1>0, <1>3, <2>3 DEF LoopOf
  <2> QED
    BY <2>1, <2>3, <2>4, <2>5, SameEntries
<1>6. CASE conn[i] # NULL
  <2>1. /\ select_waiting' = [select_waiting EXCEPT ![i] = @ + 1]
        /\ Step(t, i, "rescan", readset[t])
    BY <1>b, <1>6 DEF Enter
  <2>2. /\ Alone(t)
        /\ left[t] = {i} => pc'[t] = "rescan" /\ left'[t] = readset[t]
        /\ left[t] # {i} => pc'[t] = "enter" /\ left'[t] = left[t] \ {i}
    <3>1. "rescan" \in Labels /\ UNCHANGED <<conn, readset>>
      BY <1>0 DEF Labels
    <3>2. /\ Alone(t)
          /\ left[t] = {i} => pc'[t] = "rescan" /\ left'[t] = readset[t]
          /\ left[t] # {i} => pc'[t] = pc[t] /\ left'[t] = left[t] \ {i}
      BY <1>0, <2>1, <3>1, StepTo
    <3> QED
      BY <1>0, <3>2
  <2>3. Entries(t)' = Entries(t) \cup {i}
    BY <1>0, <1>1, <1>4, <2>2, EntriesByLabelNext
  <2>4. LoopOf(t)'
    <3>1. ASSUME NEW j \in readset[t] \ (left[t] \ {i}), NEW k \in left[t] \ {i}
          PROVE  j < k
      <4>a. k \in left[t] /\ i <= k /\ i # k
        BY <1>1
      <4>b. i \in Slots /\ k \in Slots
        BY <1>0, <1>1, <4>a
      <4>1. k \in left[t] /\ i <= k /\ i # k /\ i \in Int /\ k \in Int
        BY <1>2, <4>a, <4>b
      <4>2. CASE j = i
        BY <4>1, <4>2
      <4>3. CASE j # i
        <5>1. j \in readset[t] \ left[t]
          BY <4>3
        <5> QED
          BY <1>1, <4>1, <5>1
      <4> QED
        BY <4>2, <4>3
    <3> QED
      BY <1>0, <1>1, <2>2, <3>1 DEF LoopOf
  <2>5. Typed'
    <3>1. select_waiting[i] + 1 \in Nat
      BY <1>0, <1>1
    <3>2. select_waiting' \in [Slots -> Nat]
      BY <1>0, <2>1, <3>1
    <3> QED
      BY <1>0, <2>2, <3>2 DEF Typed, Alone
  <2>6. Loops'
    BY <2>2, <2>4 DEF IInv, Loops, LoopOf, Alone
  <2>7. ASSUME NEW j \in Slots, j # i
        PROVE  WaitsFor(j)' = WaitsFor(j) /\ select_waiting'[j] = select_waiting[j]
    BY <1>0, <2>1, <2>2, <2>3, <2>7, OthersWait DEF WaitsFor
  <2>8. ASSUME NEW j \in Slots, j = i
        PROVE  /\ Cardinality(WaitsFor(j)') = Cardinality(WaitsFor(j)) + 1
               /\ select_waiting'[j] = select_waiting[j] + 1
    <3>1. j \in Entries(t)' /\ j \notin Entries(t)
      BY <1>0, <1>1, <1>4, <2>3, <2>8
    <3>2. WaitsFor(j)' = WaitsFor(j) \cup {t} /\ t \notin WaitsFor(j)
      BY <2>2, <3>1, OthersWait DEF WaitsFor
    <3>3. Cardinality(WaitsFor(j)') = Cardinality(WaitsFor(j)) + 1
      BY <3>2, WaitersFinite, FS_AddElement
    <3> QED
      BY <1>0, <1>1, <2>1, <2>8, <3>3
  <2>10. CountsAgree'
    <3> SUFFICES ASSUME NEW j \in Slots
                 PROVE  /\ select_waiting'[j] >= Cardinality(WaitsFor(j)')
                        /\ conn[j] # NULL => select_waiting'[j] = Cardinality(WaitsFor(j)')
      BY <1>0 DEF CountsAgree
    <3>1. /\ select_waiting[j] >= Cardinality(WaitsFor(j))
          /\ conn[j] # NULL => select_waiting[j] = Cardinality(WaitsFor(j))
          /\ select_waiting[j] \in Nat /\ Cardinality(WaitsFor(j)) \in Nat
      BY <1>0, WaitersFinite DEF IInv, CountsAgree
    <3>2. CASE j = i
      BY <2>8, <3>1, <3>2
    <3>3. CASE j # i
      BY <2>7, <3>1, <3>3
    <3> QED
      BY <3>2, <3>3
  <2> QED
    BY <2>5, <2>6, <2>10 DEF IInv
<1> QED
  BY <1>5, <1>6

\* A select that takes itself off the count of a socket.
LEMMA LeaveStep ==
  ASSUME IInv, NEW t \in Selectors, Leave(t)
  PROVE  IInv'
<1>0. /\ Typed /\ LoopOf(t) /\ t \in Tasks /\ pc[t] = "leave" /\ UNCHANGED <<conn, readset>>
      /\ left[t] \in SUBSET Slots /\ pc[t] \in Labels
      /\ select_waiting \in [Slots -> Nat]
  BY DEF IInv, Typed, Loops, Tasks, Leave
<1>a. left[t] # {} /\ Lowest(left[t]) \in left[t]
  BY <1>0, LowestType DEF LoopOf
<1>b. PICK i \in left[t] : i = Lowest(left[t])
  BY <1>a
<1>1. i \in left[t] /\ i \in Slots
  BY <1>0, <1>b
<1>2. Entries(t) = left[t]
  BY <1>0, EntriesByLabel
<1>3. /\ select_waiting' = IF conn[i] # NULL /\ select_waiting[i] > 0
                           THEN [select_waiting EXCEPT ![i] = @ - 1] ELSE select_waiting
      /\ Step(t, i, "unlink", {})
  BY <1>b DEF Leave
<1>4. /\ Alone(t)
      /\ left[t] = {i} => pc'[t] = "unlink"
      /\ left[t] # {i} => pc'[t] = "leave" /\ left'[t] = left[t] \ {i}
  <2>1. {} \in SUBSET Slots
    OBVIOUS
  <2> QED
    BY <1>0, <1>3, <2>1, StepTo DEF Labels
<1>5. Entries(t)' = left[t] \ {i}
  BY <1>4, EntriesByLabelNext
<1>6. LoopOf(t)'
  BY <1>0, <1>1, <1>4 DEF LoopOf, Alone
<1>7. Loops'
  BY <1>4, <1>6 DEF IInv, Loops, LoopOf, Alone
<1>8. ASSUME NEW j \in Slots, j # i PROVE WaitsFor(j)' = WaitsFor(j)
  BY <1>2, <1>4, <1>5, <1>8, OthersWait DEF WaitsFor
<1>9. ASSUME NEW j \in Slots, j = i
      PROVE  /\ Cardinality(WaitsFor(j)') = Cardinality(WaitsFor(j)) - 1
             /\ Cardinality(WaitsFor(j)) \in Nat /\ Cardinality(WaitsFor(j)) > 0
  <2>1. j \notin Entries(t)' /\ j \in Entries(t)
    BY <1>1, <1>2, <1>5, <1>9
  <2>2. WaitsFor(j)' = WaitsFor(j) \ {t} /\ t \in WaitsFor(j)
    BY <1>4, <2>1, OthersWait DEF WaitsFor
  <2>3. Cardinality(WaitsFor(j)') = Cardinality(WaitsFor(j)) - 1
    BY <2>2, WaitersFinite, FS_RemoveElement
  <2>4. Cardinality(WaitsFor(j)) \in Nat /\ Cardinality(WaitsFor(j)) # 0
    BY <2>2, WaitersFinite, FS_EmptySet
  <2> QED
    BY <2>3, <2>4
<1>10. ASSUME NEW j \in Slots
       PROVE  /\ select_waiting[j] >= Cardinality(WaitsFor(j))
              /\ conn[j] # NULL => select_waiting[j] = Cardinality(WaitsFor(j))
              /\ select_waiting[j] \in Nat /\ Cardinality(WaitsFor(j)) \in Nat
  BY <1>0, WaitersFinite DEF IInv, CountsAgree
<1>11. select_waiting[i] \in Nat /\ (conn[i] # NULL => select_waiting[i] > 0)
  BY <1>1, <1>9, <1>10
<1>12. CASE conn[i] # NULL
  <2>1. select_waiting' = [select_waiting EXCEPT ![i] = @ - 1]
    BY <1>3, <1>11, <1>12
  <2>2. select_waiting'[i] = select_waiting[i] - 1 /\ select_waiting[i] - 1 \in Nat
        /\ \A j \in Slots : j # i => select_waiting'[j] = select_waiting[j]
    BY <1>0, <1>1, <1>11, <1>12, <2>1
  <2>3. select_waiting' \in [Slots -> Nat]
    BY <1>0, <2>1, <2>2
  <2>4. CountsAgree'
    <3> SUFFICES ASSUME NEW j \in Slots
                 PROVE  /\ select_waiting'[j] >= Cardinality(WaitsFor(j)')
                        /\ conn[j] # NULL => select_waiting'[j] = Cardinality(WaitsFor(j)')
      BY <1>0 DEF CountsAgree
    <3>1. CASE j = i
      BY <1>9, <1>10, <1>12, <2>2, <3>1
    <3>2. CASE j # i
      BY <1>8, <2>2, <3>2 DEF IInv, CountsAgree
    <3> QED
      BY <3>1, <3>2
  <2>5. Typed'
    BY <1>0, <1>4, <2>3 DEF Typed, Alone
  <2> QED
    BY <1>7, <2>4, <2>5 DEF IInv
<1>13. CASE conn[i] = NULL
  <2>1. UNCHANGED select_waiting
    BY <1>3, <1>13
  <2>2. CountsAgree'
    <3> SUFFICES ASSUME NEW j \in Slots
                 PROVE  /\ select_waiting[j] >= Cardinality(WaitsFor(j)')
                        /\ conn[j] # NULL => select_waiting[j] = Cardinality(WaitsFor(j)')
      BY <1>0, <2>1 DEF CountsAgree
    <3>1. CASE j = i
      BY <1>9, <1>10, <1>13, <3>1
    <3>2. CASE j # i
      BY <1>8, <3>2 DEF IInv, CountsAgree
    <3> QED
      BY <3>1, <3>2
  <2>3. Typed'
    BY <1>0, <1>4, <2>1 DEF Typed, Alone
  <2> QED
    BY <1>7, <2>2, <2>3 DEF IInv
<1> QED
  BY <1>12, <1>13

-----------------------------------------------------------------------------
\* Every step is one of those, or changes nothing.
LEMMA NextSteps ==
  ASSUME IInv, [Next]_vars
  PROVE  \/ Quiet
         \/ \E t \in Selectors :
              \/ \E S \in {x \in SUBSET Slots : <<t, x>> \in ReadSets} : Select(t, S)
              \/ Push(t) \/ Selscan(t) \/ SemWait(t) \/ Timeout(t) \/ Unlink(t)
              \/ Enter(t) \/ Leave(t)
<1>0. Typed
  BY DEF IInv
<1>1. CASE UNCHANGED vars
  BY <1>0, <1>1, UnchangedQuiet DEF vars
<1>2. CASE Next
  BY <1>0, <1>2, StackStep, ServersStep DEF Next, SelectStep
<1> QED
  BY <1>1, <1>2

\* IInv is an invariant.
THEOREM AlwaysInv == Spec => []IInv
<1>1. IInv /\ [Next]_vars => IInv'
  <2> SUFFICES ASSUME IInv, [Next]_vars PROVE IInv'
    OBVIOUS
  <2> QED
    BY NextSteps, QuietStep, IdleSelectStep, EnterStep, LeaveStep
<1> QED
  BY <1>1, InitInv, PTL DEF Spec

\* select_waiting of a socket counts at least the selects that wait for it: each of
\* them will be found by event_callback, and each finds the count above zero when it
\* leaves an open socket.
THEOREM SelectsAreCounted == Spec => []WaitingCounted
<1>1. IInv => WaitingCounted
  BY DEF IInv, CountsAgree, WaitingCounted
<1> QED
  BY <1>1, AlwaysInv, PTL

\* A slot that was freed while selects wait for it stays free until they have left.
THEOREM ClosedSocketsAreKept == Spec => ClosedSocketKept
<1>1. IInv /\ [Next]_vars
       => [\A i \in Slots : WaitsFor(i) # {} /\ conn[i] = NULL => conn'[i] = NULL]_vars
  <2> SUFFICES ASSUME IInv, [Next]_vars, NEW i \in Slots, WaitsFor(i) # {}, conn[i] = NULL
               PROVE  conn'[i] = NULL
    OBVIOUS
  <2>1. select_waiting[i] # 0
    <3>1. Cardinality(WaitsFor(i)) \in Nat /\ Cardinality(WaitsFor(i)) # 0
      BY WaitersFinite, FS_EmptySet
    <3>2. select_waiting[i] >= Cardinality(WaitsFor(i))
      BY DEF IInv, CountsAgree
    <3> QED
      BY <3>1, <3>2
  <2>2. CASE Quiet
    BY <2>1, <2>2 DEF Quiet
  <2>3. CASE UNCHANGED conn
    BY <2>3
  <2> QED
    BY <2>2, <2>3, NextSteps DEF Select, Push, Selscan, SemWait, Timeout, Unlink, Enter, Leave
<1> QED
  BY <1>1, AlwaysInv, PTL DEF Spec, ClosedSocketKept

-----------------------------------------------------------------------------
(* The connections of the servers.                                          *)

\* The calls in which a server has a connection or a slot in hand.
Busy == ServerLabels \ {"app"}

\* Server t has slot i in hand: it sets it up, or gives it back.
Owns(t, i) == pc[t] \in {"reset", "number", "delete", "freeSocket"} /\ newsock[t] = i

Holds(c) == \E t \in Servers : newconn[t] = c

Queued == {acceptmbox[k] : k \in 1..Len(acceptmbox)} \ {NULL}

ConnTyped ==
  /\ conn \in [Slots -> Conns \cup {NULL}]
  /\ socket \in [Conns -> Int]
  /\ acceptmbox \in Seq(Conns \cup {NULL})
  /\ newconn \in [Servers -> Conns \cup {NULL}]
  /\ newsock \in [Servers -> Slots \cup {-1}]
  /\ Listener \in open /\ open \subseteq netconns /\ netconns \subseteq Conns
  /\ socket[Listener] = 0

ServerSound(t) ==
  /\ newsock[t] = -1 => pc[t] = "delete"
  /\ pc[t] \notin {"alloc", "noSocket", "reset", "number", "delete"} => newconn[t] = NULL
  /\ pc[t] \in {"alloc", "noSocket", "reset", "number"} =>
        newconn[t] \in open \ {Listener} /\ socket[newconn[t]] < 0
  /\ pc[t] = "delete" => newconn[t] \in netconns \ open
  /\ pc[t] \in {"reset", "number"} => conn[newsock[t]] = newconn[t]
  /\ pc[t] = "delete" /\ newsock[t] # -1 => conn[newsock[t]] = newconn[t]
  /\ pc[t] = "freeSocket" => conn[newsock[t]] \notin {NULL, Listener}

Apart ==
  \A t, u \in Servers : t # u =>
    /\ newconn[t] # NULL => newconn[t] # newconn[u]
    /\ \A i \in Slots : ~(Owns(t, i) /\ Owns(u, i))

Numbered(c) ==
  /\ socket[c] \in Slots /\ conn[socket[c]] = c
  /\ ~Holds(c) /\ c \notin Queued /\ c \notin leaked
  /\ \A t \in Servers : ~Owns(t, socket[c])

ConnSound(c) ==
  /\ c \in open /\ socket[c] >= 0 => Numbered(c)
  /\ c \in Queued => c \in open \ {Listener} /\ socket[c] < 0 /\ ~Holds(c) /\ c \notin leaked
  /\ c \in leaked => c \in open \ {Listener} /\ socket[c] < 0 /\ ~Holds(c)
  /\ c \in open /\ socket[c] < 0 => c \in Queued \/ c \in leaked \/ Holds(c)
  /\ c \in netconns \ open => Holds(c)
  /\ c \notin netconns => socket[c] < 0

\* A connection is in acceptmbox once.
QueuedOnce ==
  \A j, k \in 1..Len(acceptmbox) : acceptmbox[j] = acceptmbox[k] /\ j # k => acceptmbox[j] = NULL

\* Every connection is where its number and its owner say, and nowhere else.
ConnInv ==
  /\ ConnTyped
  /\ \A t \in Servers : ServerSound(t)
  /\ Apart
  /\ \A c \in Conns : ConnSound(c)
  /\ QueuedOnce

\* The initial states are in ConnInv.
LEMMA ConnInit == Init => ConnInv
<1> SUFFICES ASSUME Init PROVE ConnInv
  OBVIOUS
<1> USE SocketsAssumption
<1>1. 0 \in Slots
  BY DEF Slots
<1>2. \A t \in Servers : pc[t] = "app" /\ newconn[t] = NULL /\ newsock[t] = 0
  BY DEF Init, Tasks
<1>3. Queued = {} /\ Len(acceptmbox) = 0
  BY DEF Init, Queued
<1>4. ConnTyped
  BY <1>1 DEF Init, ConnTyped
<1>5. \A t \in Servers : ServerSound(t)
  BY <1>2 DEF ServerSound
<1>6. Apart
  BY <1>2 DEF Apart, Owns
<1>7. \A c \in Conns : ConnSound(c)
  BY <1>1, <1>2, <1>3 DEF Init, ConnSound, Numbered, Holds, Owns
<1>8. QueuedOnce
  BY <1>3 DEF QueuedOnce
<1> QED
  BY <1>4, <1>5, <1>6, <1>7, <1>8 DEF ConnInv

\* Steps that do not touch the connections the servers have in hand.
Aside ==
  /\ UNCHANGED <<conn, netconns, open, acceptmbox, leaked, newconn, newsock>>
  /\ \A t \in Servers : pc'[t] = pc[t] \/ (pc[t] \notin Busy /\ pc'[t] \notin Busy)
  /\ socket' \in [Conns -> Int]
  /\ \A c \in Conns : socket'[c] = socket[c] \/ (socket[c] < 0 /\ socket'[c] < 0)

\* They keep ConnInv.
LEMMA AsideStep ==
  ASSUME ConnInv, Aside
  PROVE  ConnInv'
<1> USE SocketsAssumption DEF Busy, ServerLabels
<1>1. Queued' = Queued
  BY DEF Queued, Aside
<1>2. ASSUME NEW t \in Servers, NEW i PROVE Owns(t, i)' <=> Owns(t, i)
  BY DEF Owns, Aside
<1>3. ASSUME NEW c PROVE Holds(c)' <=> Holds(c)
  BY DEF Holds, Aside
<1>4. ConnTyped'
  BY DEF ConnInv, ConnTyped, Aside
<1>5. ASSUME NEW t \in Servers PROVE ServerSound(t)'
  <2>1. ServerSound(t) /\ (pc'[t] = pc[t] \/ (pc[t] \notin Busy /\ pc'[t] \notin Busy))
    BY DEF ConnInv, Aside
  <2> QED
    BY <2>1 DEF ServerSound, Aside, ConnInv, ConnTyped
<1>6. Apart'
  BY <1>2 DEF ConnInv, Apart, Aside
<1>7. ASSUME NEW c \in Conns PROVE ConnSound(c)'
  <2>1. ConnSound(c) /\ (socket'[c] = socket[c] \/ (socket[c] < 0 /\ socket'[c] < 0))
    BY DEF ConnInv, Aside
  <2>2. socket[c] \in Int /\ socket'[c] \in Int
    BY DEF ConnInv, ConnTyped, Aside
  <2>3. Numbered(c) /\ socket'[c] = socket[c] => Numbered(c)'
    BY <1>1, <1>2, <1>3 DEF Numbered, Aside
  <2> QED
    BY <1>1, <1>3, <2>1, <2>2, <2>3 DEF ConnSound, Aside
<1>8. QueuedOnce'
  BY DEF ConnInv, QueuedOnce, Aside
<1> QED
  BY <1>4, <1>5, <1>6, <1>7, <1>8 DEF ConnInv

\* What a new last element does to the connections in acceptmbox.
LEMMA Enqueue ==
  ASSUME ConnTyped, QueuedOnce, NEW c \in Conns \cup {NULL}, c \notin Queued,
         acceptmbox' = Append(acceptmbox, c)
  PROVE  /\ acceptmbox' \in Seq(Conns \cup {NULL})
         /\ Queued' = (Queued \cup {c}) \ {NULL}
         /\ QueuedOnce'
<1>1. acceptmbox \in Seq(Conns \cup {NULL}) /\ Len(acceptmbox) \in Nat
  BY DEF ConnTyped
<1> DEFINE n == Len(acceptmbox)
<1>2. /\ acceptmbox' \in Seq(Conns \cup {NULL}) /\ Len(acceptmbox') = n + 1
      /\ acceptmbox'[n + 1] = c /\ \A k \in 1..n : acceptmbox'[k] = acceptmbox[k]
  BY <1>1
<1>3. 1..n + 1 = (1..n) \cup {n + 1}
  BY <1>1
<1>4. Queued' = (Queued \cup {c}) \ {NULL}
  BY <1>2, <1>3 DEF Queued
<1>5. \A k \in 1..n : acceptmbox[k] # NULL => acceptmbox[k] # c
  BY DEF Queued
<1>6. QueuedOnce'
  <2> SUFFICES ASSUME NEW j \in 1..n + 1, NEW k \in 1..n + 1,
                      acceptmbox'[j] = acceptmbox'[k], j # k
               PROVE  acceptmbox'[j] = NULL
    BY <1>2 DEF QueuedOnce
  <2>1. CASE j = n + 1 \/ k = n + 1
    BY <1>2, <1>3, <1>5, <2>1
  <2>2. CASE j # n + 1 /\ k # n + 1
    BY <1>2, <1>3, <2>2 DEF QueuedOnce
  <2> QED
    BY <2>1, <2>2
<1> QED
  BY <1>2, <1>4, <1>6

\* What taking the first one does.
LEMMA Dequeue ==
  ASSUME ConnTyped, QueuedOnce, acceptmbox # <<>>, acceptmbox' = Tail(acceptmbox)
  PROVE  /\ acceptmbox' \in Seq(Conns \cup {NULL}) /\ Head(acceptmbox) \in Conns \cup {NULL}
         /\ Head(acceptmbox) # NULL => Head(acceptmbox) \in Queued
         /\ Queued' = Queued \ {Head(acceptmbox)}
         /\ QueuedOnce'
<1>1. acceptmbox \in Seq(Conns \cup {NULL}) /\ Len(acceptmbox) \in Nat
  BY DEF ConnTyped
<1> DEFINE n == Len(acceptmbox)
           h == Head(acceptmbox)
<1>2. n >= 1 /\ h = acceptmbox[1] /\ h \in Conns \cup {NULL}
  BY <1>1
<1>3. /\ acceptmbox' \in Seq(Conns \cup {NULL}) /\ Len(acceptmbox') = n - 1
      /\ \A k \in 1..n - 1 : acceptmbox'[k] = acceptmbox[k + 1]
  BY <1>1, <1>2
<1>4. QueuedOnce'
  <2> SUFFICES ASSUME NEW j \in 1..n - 1, NEW k \in 1..n - 1,
                      acceptmbox'[j] = acceptmbox'[k], j # k
               PROVE  acceptmbox'[j] = NULL
    BY <1>3 DEF QueuedOnce
  <2>1. j + 1 \in 1..n /\ k + 1 \in 1..n /\ j + 1 # k + 1
    BY <1>1
  <2>2. acceptmbox[j + 1] = acceptmbox[k + 1]
    BY <1>3
  <2> HIDE DEF n
  <2> QED
    BY <1>3, <2>1, <2>2 DEF QueuedOnce, n
<1>5. ASSUME NEW x \in Queued' PROVE x \in Queued \ {h}
  <2>1. PICK k \in 1..n - 1 : x = acceptmbox'[k] /\ x # NULL
    BY <1>3 DEF Queued
  <2>2. k + 1 \in 1..n /\ x = acceptmbox[k + 1] /\ k + 1 # 1 /\ 1 \in 1..n
    BY <1>1, <1>3, <2>1
  <2>3. x # acceptmbox[1]
    BY <2>1, <2>2 DEF QueuedOnce
  <2> QED
    BY <1>2, <2>1, <2>2, <2>3 DEF Queued
<1>6. ASSUME NEW x \in Queued \ {h} PROVE x \in Queued'
  <2>1. PICK k \in 1..n : x = acceptmbox[k] /\ x # NULL
    BY DEF Queued
  <2>2. k # 1
    BY <1>2, <2>1
  <2>3. k - 1 \in 1..n - 1 /\ acceptmbox'[k - 1] = x
    BY <1>1, <1>3, <2>1, <2>2
  <2> QED
    BY <1>3, <2>1, <2>3 DEF Queued
<1>7. h # NULL => h \in Queued
  BY <1>1, <1>2 DEF Queued
<1> QED
  BY <1>2, <1>3, <1>4, <1>5, <1>6, <1>7

\* A label set: those of the other tasks stay.
LEMMA Going ==
  ASSUME Typed, NEW t \in Servers, NEW l, Goto(t, l)
  PROVE  pc'[t] = l /\ \A u \in Servers : u # t => pc'[u] = pc[u]
BY DEF Typed, Goto, Tasks

\* The stack has accepted c, and puts it into acceptmbox or loses it.
LEMMA AcceptFunctionStep ==
  ASSUME ConnInv, NEW c \in Conns, AcceptFunction(c)
  PROVE  ConnInv'
<1> USE SocketsAssumption
<1>0. ConnTyped /\ QueuedOnce /\ ConnSound(c) /\ c # NULL
  BY DEF ConnInv
<1>1. /\ c \notin netconns /\ c \notin open /\ c # Listener
      /\ netconns' = netconns \cup {c} /\ open' = open \cup {c}
      /\ UNCHANGED <<conn, newconn, newsock, pc>>
  BY <1>0 DEF AcceptFunction, ConnTyped
<1>2. socket' \in [Conns -> Int] /\ socket'[c] = -1
      /\ \A d \in Conns : d # c => socket'[d] = socket[d]
  BY <1>0 DEF AcceptFunction, ConnTyped
<1>3. c \notin Queued /\ c \notin leaked
  BY <1>0, <1>1 DEF ConnSound
<1>4. ASSUME NEW t \in Servers PROVE newconn[t] # c
  <2>1. ServerSound(t) /\ newconn[t] \in Conns \cup {NULL}
    BY <1>0 DEF ConnInv, ConnTyped
  <2> QED
    BY <1>0, <1>1, <2>1 DEF ServerSound, ConnTyped
<1>5. /\ acceptmbox' \in Seq(Conns \cup {NULL}) /\ QueuedOnce'
      /\ \/ Queued' = Queued \cup {c} /\ leaked' = leaked
         \/ Queued' = Queued /\ leaked' = leaked \cup {c}
  <2>1. CASE acceptmbox' = Append(acceptmbox, c) /\ UNCHANGED leaked
    <3>1. Queued' = (Queued \cup {c}) \ {NULL} /\ QueuedOnce' /\ acceptmbox' \in Seq(Conns \cup {NULL})
      BY <1>0, <1>3, <2>1, Enqueue
    <3>2. NULL \notin Queued \cup {c}
      BY <1>0 DEF Queued
    <3> QED
      BY <2>1, <3>1, <3>2
  <2>2. CASE leaked' = leaked \cup {c} /\ UNCHANGED acceptmbox
    BY <1>0, <2>2 DEF Queued, QueuedOnce, ConnTyped
  <2> QED
    BY <2>1, <2>2 DEF AcceptFunction
<1>6. ConnTyped'
  BY <1>0, <1>1, <1>2, <1>5 DEF ConnTyped
<1>7. ASSUME NEW t \in Servers PROVE ServerSound(t)'
  <2>1. ServerSound(t) /\ newconn[t] # c
    BY <1>4 DEF ConnInv
  <2>2. newconn[t] \in Conns => socket'[newconn[t]] = socket[newconn[t]]
    BY <1>2, <2>1
  <2> QED
    BY <1>0, <1>1, <2>1, <2>2 DEF ServerSound, ConnTyped
<1>8. ASSUME NEW t, NEW i PROVE Owns(t, i)' <=> Owns(t, i)
  BY <1>1 DEF Owns
<1>9. ASSUME NEW d PROVE Holds(d)' <=> Holds(d)
  BY <1>1 DEF Holds
<1>10. Apart'
  BY <1>1, <1>8 DEF Apart, ConnInv
<1>11. ASSUME NEW d \in Conns PROVE ConnSound(d)'
  <2>1. CASE d = c
    BY <1>0, <1>1, <1>2, <1>3, <1>4, <1>5, <1>9, <2>1 DEF ConnSound, Holds
  <2>2. CASE d # c
    <3>1. ConnSound(d) /\ socket'[d] = socket[d]
          /\ (d \in open' <=> d \in open) /\ (d \in netconns' <=> d \in netconns)
          /\ (d \in Queued' <=> d \in Queued) /\ (d \in leaked' <=> d \in leaked)
      BY <1>1, <1>2, <1>5, <2>2 DEF ConnInv
    <3>2. Numbered(d) => Numbered(d)'
      BY <1>1, <1>8, <1>9, <3>1 DEF Numbered
    <3> QED
      BY <1>9, <3>1, <3>2 DEF ConnSound
  <2> QED
    BY <2>1, <2>2
<1> QED
  BY <1>5, <1>6, <1>7, <1>10, <1>11 DEF ConnInv

\* What ConnSound says of a connection that a step leaves where it is.
LEMMA ConnStays ==
  ASSUME ConnInv, NEW d \in Conns, socket'[d] = socket[d],
         d \in open' <=> d \in open, d \in netconns' <=> d \in netconns,
         d \in Queued' <=> d \in Queued, d \in leaked' <=> d \in leaked,
         Holds(d)' <=> Holds(d),
         d \in open /\ socket[d] \in Slots =>
           /\ conn'[socket[d]] = conn[socket[d]]
           /\ \A t \in Servers : Owns(t, socket[d])' => Owns(t, socket[d])
  PROVE  ConnSound(d)'
<1>1. ConnSound(d)
  BY DEF ConnInv
<1>2. d \in open /\ Numbered(d) => Numbered(d)'
  BY DEF Numbered
<1> QED
  BY <1>1, <1>2 DEF ConnSound

\* The stack could not accept: netconn_aborted comes into acceptmbox.
LEMMA AcceptAbortsStep ==
  ASSUME ConnInv, AcceptAborts
  PROVE  ConnInv'
<1> USE SocketsAssumption
<1>0. ConnTyped /\ QueuedOnce
  BY DEF ConnInv
<1>1. UNCHANGED <<conn, newconn, newsock, pc, socket, netconns, open, leaked>>
  BY DEF AcceptAborts
<1>2. acceptmbox' \in Seq(Conns \cup {NULL}) /\ QueuedOnce' /\ Queued' = Queued
  <2>1. CASE acceptmbox' = Append(acceptmbox, NULL)
    <3>1. NULL \notin Queued /\ NULL \in Conns \cup {NULL}
      BY DEF Queued
    <3>2. acceptmbox' \in Seq(Conns \cup {NULL}) /\ QueuedOnce' /\ Queued' = (Queued \cup {NULL}) \ {NULL}
      BY <1>0, <2>1, <3>1, Enqueue
    <3> QED
      BY <3>1, <3>2
  <2>2. CASE UNCHANGED acceptmbox
    BY <1>0, <2>2 DEF Queued, QueuedOnce, ConnTyped
  <2> QED
    BY <2>1, <2>2 DEF AcceptAborts
<1>3. ConnTyped'
  BY <1>0, <1>1, <1>2 DEF ConnTyped
<1>4. \A t \in Servers : ServerSound(t)'
  BY <1>1 DEF ServerSound, ConnInv
<1>5. Apart'
  BY <1>1 DEF Apart, Owns, ConnInv
<1>6. ASSUME NEW d \in Conns PROVE ConnSound(d)'
  BY <1>1, <1>2, ConnStays DEF Holds, Owns
<1> QED
  BY <1>2, <1>3, <1>4, <1>5, <1>6 DEF ConnInv

\* A server takes the first of acceptmbox.
LEMMA AcceptStep ==
  ASSUME Typed, ConnInv, NEW t \in Servers, Accept(t)
  PROVE  ConnInv'
<1> USE SocketsAssumption
<1>0. ConnTyped /\ QueuedOnce /\ ServerSound(t)
  BY DEF ConnInv
<1> DEFINE h == Head(acceptmbox)
<1>1. /\ pc[t] = "app" /\ acceptmbox # <<>> /\ acceptmbox' = Tail(acceptmbox)
      /\ newconn' = [newconn EXCEPT ![t] = h]
      /\ Goto(t, IF h = NULL THEN "app" ELSE "alloc")
      /\ UNCHANGED <<conn, newsock, socket, netconns, open, leaked>>
  BY DEF Accept, At
<1>2. pc'[t] = (IF h = NULL THEN "app" ELSE "alloc") /\ \A u \in Servers : u # t => pc'[u] = pc[u]
  BY <1>1, Going
<1>3. /\ acceptmbox' \in Seq(Conns \cup {NULL}) /\ h \in Conns \cup {NULL}
      /\ h # NULL => h \in Queued
      /\ Queued' = Queued \ {h} /\ QueuedOnce'
  BY <1>0, <1>1, Dequeue
<1>4. newconn[t] = NULL
  BY <1>0, <1>1 DEF ServerSound
<1>5. newconn'[t] = h /\ \A u \in Servers : u # t => newconn'[u] = newconn[u]
  BY <1>0, <1>1 DEF ConnTyped
<1>6. h # NULL => h \in open \ {Listener} /\ socket[h] < 0 /\ ~Holds(h) /\ h \notin leaked
  BY <1>3 DEF ConnInv, ConnSound
<1>7. ConnTyped'
  BY <1>0, <1>1, <1>3 DEF ConnTyped
<1>8. ASSUME NEW u \in Servers PROVE ServerSound(u)'
  <2>1. CASE u = t
    BY <1>0, <1>1, <1>2, <1>5, <1>6, <2>1 DEF ServerSound
  <2>2. CASE u # t
    BY <1>1, <1>2, <1>5, <2>2 DEF ServerSound, ConnInv
  <2> QED
    BY <2>1, <2>2
<1>9. ASSUME NEW u \in Servers, NEW i PROVE Owns(u, i)' <=> Owns(u, i)
  BY <1>1, <1>2 DEF Owns
<1>10. \A u, v \in Servers : u # v /\ newconn'[u] # NULL => newconn'[u] # newconn'[v]
  BY <1>5, <1>6 DEF ConnInv, Apart, Holds
<1>11. Apart'
  BY <1>9, <1>10 DEF ConnInv, Apart
<1>12. ASSUME NEW d \in Conns PROVE ConnSound(d)'
  <2>1. CASE d = h
    BY <1>1, <1>3, <1>5, <1>6, <1>0, <2>1 DEF ConnSound, Holds, ConnTyped
  <2>2. CASE d # h
    <3>1. Holds(d)' <=> Holds(d)
      BY <1>4, <1>5, <2>2 DEF Holds
    <3> QED
      BY <1>1, <1>3, <1>9, <2>2, <3>1, ConnStays
  <2> QED
    BY <2>1, <2>2
<1> QED
  BY <1>3, <1>7, <1>8, <1>11, <1>12 DEF ConnInv

\* A server tries a socket, and takes it if it is free.
LEMMA AllocSocketStep ==
  ASSUME Typed, ConnInv, NEW t \in Servers, AllocSocket(t)
  PROVE  ConnInv'
<1> USE SocketsAssumption
<1>0. ConnTyped /\ QueuedOnce /\ ServerSound(t)
  BY DEF ConnInv
<1> DEFINE i == newsock[t]
           c == newconn[t]
<1>1. pc[t] = "alloc" /\ UNCHANGED <<socket, netconns, open, acceptmbox, leaked, newconn>>
  BY DEF AllocSocket, At
<1>2. c \in open \ {Listener} /\ socket[c] < 0 /\ i \in Slots /\ c \in Conns
  BY <1>0, <1>1 DEF ServerSound, ConnTyped
<1>3. ASSUME NEW d PROVE (Holds(d)' <=> Holds(d)) /\ Queued' = Queued
  BY <1>1 DEF Holds, Queued
<1>4. CASE conn[i] = NULL /\ conn' = [conn EXCEPT ![i] = c] /\ Goto(t, "reset") /\ UNCHANGED newsock
  <2>1. pc'[t] = "reset" /\ \A u \in Servers : u # t => pc'[u] = pc[u]
    BY <1>4, Going
  <2>2. conn'[i] = c /\ \A j \in Slots : j # i => conn'[j] = conn[j]
    BY <1>0, <1>2, <1>4 DEF ConnTyped
  <2>3. ASSUME NEW u \in Servers PROVE ~Owns(u, i)
    <3>2. pc[u] \in {"reset", "number", "delete"} => newconn[u] # NULL
      BY <1>0 DEF ConnInv, ServerSound, ConnTyped
    <3>3. ServerSound(u) /\ i # -1
      BY <1>2 DEF ConnInv, Slots
    <3> QED
      BY <1>4, <3>2, <3>3 DEF Owns, ServerSound
  <2>4. ASSUME NEW u \in Servers, NEW j \in Slots PROVE Owns(u, j)' <=> Owns(u, j) \/ (u = t /\ j = i)
    BY <1>1, <1>4, <2>1 DEF Owns
  <2>5. ConnTyped'
    BY <1>0, <1>1, <1>2, <1>4 DEF ConnTyped
  <2>6. ASSUME NEW u \in Servers PROVE ServerSound(u)'
    <3>1. CASE u = t
      BY <1>1, <1>2, <1>4, <2>1, <2>2, <3>1 DEF ServerSound, Slots
    <3>2. CASE u # t
      <4>1. ServerSound(u) /\ newsock[u] \in Slots \cup {-1} /\ ~Owns(u, i)
        BY <1>0, <2>3 DEF ConnInv, ConnTyped
      <4>2. newsock[u] \in Slots /\ newsock[u] # i => conn'[newsock[u]] = conn[newsock[u]]
        BY <2>2
      <4> QED
        BY <1>1, <1>4, <2>1, <3>2, <4>1, <4>2 DEF ServerSound, Owns
    <3> QED
      BY <3>1, <3>2
  <2>7. Apart'
    <3> SUFFICES ASSUME NEW u \in Servers, NEW v \in Servers, u # v
                 PROVE  /\ newconn[u] # NULL => newconn[u] # newconn[v]
                        /\ \A j \in Slots : ~(Owns(u, j)' /\ Owns(v, j)')
      BY <1>1 DEF Apart
    <3>1. newconn[u] # NULL => newconn[u] # newconn[v]
      BY DEF ConnInv, Apart
    <3>2. \A j \in Slots : ~(Owns(u, j) /\ Owns(v, j))
      BY DEF ConnInv, Apart
    <3> QED
      BY <2>3, <2>4, <3>1, <3>2
  <2>8. ASSUME NEW d \in Conns PROVE ConnSound(d)'
    <3>1. d \in open /\ socket[d] \in Slots => conn[socket[d]] = d
      BY <1>2 DEF ConnInv, ConnSound, Numbered, Slots
    <3>2. d \in open /\ socket[d] \in Slots => socket[d] # i
      BY <1>4, <3>1
    <3> QED
      BY <1>1, <1>3, <2>2, <2>4, <3>2, ConnStays
  <2>9. QueuedOnce'
    BY <1>0, <1>1 DEF QueuedOnce
  <2> QED
    BY <2>5, <2>6, <2>7, <2>8, <2>9 DEF ConnInv
<1>5. CASE /\ UNCHANGED conn
           /\ \/ i + 1 \in Slots /\ newsock' = [newsock EXCEPT ![t] = i + 1] /\ UNCHANGED pc
              \/ Goto(t, "noSocket") /\ UNCHANGED newsock
  <2>1. /\ pc'[t] \in {"alloc", "noSocket"} /\ newsock'[t] \in Slots
        /\ \A u \in Servers : u # t => pc'[u] = pc[u] /\ newsock'[u] = newsock[u]
        /\ newsock' \in [Servers -> Slots \cup {-1}]
    <3>1. CASE i + 1 \in Slots /\ newsock' = [newsock EXCEPT ![t] = i + 1] /\ UNCHANGED pc
      BY <1>0, <1>1, <3>1 DEF ConnTyped
    <3>2. CASE Goto(t, "noSocket") /\ UNCHANGED newsock
      BY <1>0, <1>2, <3>2, Going DEF ConnTyped
    <3> QED
      BY <1>5, <3>1, <3>2
  <2>2. ASSUME NEW u \in Servers, NEW j \in Slots PROVE Owns(u, j)' <=> Owns(u, j)
    BY <1>1, <2>1 DEF Owns
  <2>3. ConnTyped'
    BY <1>0, <1>1, <1>5, <2>1 DEF ConnTyped
  <2>4. ASSUME NEW u \in Servers PROVE ServerSound(u)'
    <3>1. CASE u = t
      BY <1>1, <1>2, <2>1, <3>1 DEF ServerSound, Slots
    <3>2. CASE u # t
      BY <1>1, <1>5, <2>1, <3>2 DEF ServerSound, ConnInv
    <3> QED
      BY <3>1, <3>2
  <2>5. Apart'
    BY <1>1, <2>2 DEF Apart, ConnInv
  <2>6. ASSUME NEW d \in Conns PROVE ConnSound(d)'
    BY <1>1, <1>3, <1>5, <2>2, ConnStays
  <2>7. QueuedOnce'
    BY <1>0, <1>1 DEF QueuedOnce
  <2> QED
    BY <2>3, <2>4, <2>5, <2>6, <2>7 DEF ConnInv
<1> QED
  BY <1>4, <1>5 DEF AllocSocket

\* The events of the socket are cleared.
LEMMA ResetSocketStep ==
  ASSUME Typed, ConnInv, NEW t \in Servers, ResetSocket(t)
  PROVE  ConnInv'
<1>1. /\ pc[t] = "reset"
      /\ UNCHANGED <<conn, socket, netconns, open, acceptmbox, leaked, newconn, newsock>>
      /\ pc'[t] = "number" /\ \A u \in Servers : u # t => pc'[u] = pc[u]
  BY Going DEF ResetSocket, At
<1>2. ASSUME NEW u \in Servers, NEW j PROVE Owns(u, j)' <=> Owns(u, j)
  BY <1>1 DEF Owns
<1>3. ConnTyped'
  BY <1>1 DEF ConnInv, ConnTyped
<1>4. ASSUME NEW u \in Servers PROVE ServerSound(u)'
  BY <1>1 DEF ServerSound, ConnInv
<1>5. Apart'
  BY <1>1, <1>2 DEF Apart, ConnInv
<1>6. ASSUME NEW d \in Conns PROVE ConnSound(d)'
  <2>1. (Holds(d)' <=> Holds(d)) /\ Queued' = Queued
    BY <1>1 DEF Holds, Queued
  <2> QED
    BY <1>1, <1>2, <2>1, ConnStays
<1>7. QueuedOnce'
  BY <1>1 DEF QueuedOnce, ConnInv
<1> QED
  BY <1>3, <1>4, <1>5, <1>6, <1>7 DEF ConnInv

\* The connection gets its number.
LEMMA NumberSocketStep ==
  ASSUME Typed, ConnInv, NEW t \in Servers, NumberSocket(t)
  PROVE  ConnInv'
<1> USE SocketsAssumption
<1>0. ConnTyped /\ QueuedOnce /\ ServerSound(t)
  BY DEF ConnInv
<1> DEFINE i == newsock[t]
           c == newconn[t]
<1>1. /\ pc[t] = "number" /\ UNCHANGED <<conn, netconns, open, acceptmbox, leaked>>
      /\ socket' = [socket EXCEPT ![c] = i]
      /\ newconn' = [newconn EXCEPT ![t] = NULL] /\ newsock' = [newsock EXCEPT ![t] = 0]
      /\ pc'[t] = "app" /\ \A u \in Servers : u # t => pc'[u] = pc[u]
  BY Going DEF NumberSocket, At
<1>2. c \in open \ {Listener} /\ socket[c] < 0 /\ i \in Slots /\ c \in Conns /\ conn[i] = c
      /\ 0 \in Slots /\ i # -1 /\ i >= 0
  BY <1>0, <1>1 DEF ServerSound, ConnTyped, Slots
<1>3. socket' \in [Conns -> Int] /\ socket'[c] = i /\ \A d \in Conns : d # c => socket'[d] = socket[d]
  BY <1>0, <1>1, <1>2 DEF ConnTyped, Slots
<1>4. /\ newconn' \in [Servers -> Conns \cup {NULL}] /\ newsock' \in [Servers -> Slots \cup {-1}]
      /\ newconn'[t] = NULL /\ newsock'[t] = 0
      /\ \A u \in Servers : u # t => newconn'[u] = newconn[u] /\ newsock'[u] = newsock[u]
  BY <1>0, <1>1, <1>2 DEF ConnTyped
<1>5. ASSUME NEW u \in Servers, NEW j \in Slots PROVE Owns(u, j)' <=> Owns(u, j) /\ u # t
  BY <1>1, <1>4 DEF Owns
<1>6. \A u \in Servers : u # t => newconn[u] # c /\ ~Owns(u, i)
  <2>1. Owns(t, i) /\ c # NULL
    BY <1>1, <1>2 DEF Owns
  <2> QED
    BY <1>2, <2>1 DEF Apart, ConnInv
<1>7. ConnTyped'
  BY <1>0, <1>1, <1>2, <1>3, <1>4 DEF ConnTyped
<1>8. ASSUME NEW u \in Servers PROVE ServerSound(u)'
  <2>1. CASE u = t
    BY <1>1, <1>4, <2>1 DEF ServerSound
  <2>2. CASE u # t
    <3>1. newconn[u] \in Conns => socket'[newconn[u]] = socket[newconn[u]]
      BY <1>3, <1>6, <2>2
    <3> QED
      BY <1>0, <1>1, <1>4, <2>2, <3>1 DEF ServerSound, ConnInv, ConnTyped
  <2> QED
    BY <2>1, <2>2
<1>9. Apart'
  BY <1>4, <1>5 DEF Apart, ConnInv
<1>10. ASSUME NEW d \in Conns PROVE ConnSound(d)'
  <2>1. CASE d = c
    <3>1. Holds(c) /\ ConnSound(c)
      BY <1>2 DEF Holds, ConnInv
    <3>2. c \notin Queued /\ c \notin leaked /\ Queued' = Queued
      BY <1>1, <3>1 DEF ConnSound, Queued
    <3>3. ~Holds(d)'
      BY <1>2, <1>4, <1>6, <2>1 DEF Holds
    <3>4. Numbered(d)'
      BY <1>1, <1>2, <1>3, <1>5, <1>6, <2>1, <3>2, <3>3 DEF Numbered
    <3> QED
      BY <1>0, <1>1, <1>2, <1>3, <2>1, <3>2, <3>3, <3>4 DEF ConnSound, ConnTyped
  <2>2. CASE d # c
    <3>1. (Holds(d)' <=> Holds(d)) /\ Queued' = Queued
      BY <1>1, <1>4, <2>2 DEF Holds, Queued
    <3> QED
      BY <1>1, <1>3, <1>5, <2>2, <3>1, ConnStays
  <2> QED
    BY <2>1, <2>2
<1>11. QueuedOnce'
  BY <1>0, <1>1 DEF QueuedOnce
<1> QED
  BY <1>7, <1>8, <1>9, <1>10, <1>11 DEF ConnInv

\* A server deletes c, with socket i in hand or none.
LEMMA DeleteStep ==
  ASSUME Typed, ConnInv, NEW t \in Servers, NEW c \in open \ {Listener}, NEW i \in Slots \cup {-1},
         DeleteNetconn(t, c), newsock' = [newsock EXCEPT ![t] = i],
         pc[t] \in {"app", "noSocket"}, newconn[t] \in {NULL, c},
         c \notin Queued, c \notin leaked, \A u \in Servers : u # t => newconn[u] # c,
         i # -1 => conn[i] = c /\ \A u \in Servers : ~Owns(u, i)
  PROVE  ConnInv'
<1> USE SocketsAssumption
<1>0. ConnTyped /\ QueuedOnce /\ ServerSound(t) /\ c \in Conns /\ c \in netconns
  BY DEF ConnInv, ConnTyped
<1>1. /\ UNCHANGED <<conn, socket, netconns, acceptmbox, leaked>>
      /\ open' = open \ {c} /\ newconn' = [newconn EXCEPT ![t] = c]
      /\ pc'[t] = "delete" /\ \A u \in Servers : u # t => pc'[u] = pc[u]
  BY Going DEF DeleteNetconn
<1>2. /\ newconn' \in [Servers -> Conns \cup {NULL}] /\ newsock' \in [Servers -> Slots \cup {-1}]
      /\ newconn'[t] = c /\ newsock'[t] = i
      /\ \A u \in Servers : u # t => newconn'[u] = newconn[u] /\ newsock'[u] = newsock[u]
  BY <1>0, <1>1 DEF ConnTyped
<1>3. ConnTyped'
  BY <1>0, <1>1, <1>2 DEF ConnTyped
<1>4. ASSUME NEW u \in Servers PROVE ServerSound(u)'
  <2>1. CASE u = t
    BY <1>0, <1>1, <1>2, <2>1 DEF ServerSound
  <2>2. CASE u # t
    BY <1>0, <1>1, <1>2, <2>2 DEF ServerSound, ConnInv
  <2> QED
    BY <2>1, <2>2
<1>5. ASSUME NEW u \in Servers, NEW j \in Slots
      PROVE  Owns(u, j)' <=> Owns(u, j) \/ (u = t /\ j = i)
  <2>1. CASE u = t
    BY <1>1, <1>2, <2>1 DEF Owns
  <2>2. CASE u # t
    BY <1>1, <1>2, <2>2 DEF Owns
  <2> QED
    BY <2>1, <2>2
<1>6. Apart'
  <2> SUFFICES ASSUME NEW u \in Servers, NEW v \in Servers, u # v
               PROVE  /\ newconn'[u] # NULL => newconn'[u] # newconn'[v]
                      /\ \A j \in Slots : ~(Owns(u, j)' /\ Owns(v, j)')
    BY DEF Apart
  <2>1. (newconn[u] # NULL => newconn[u] # newconn[v]) /\ \A j \in Slots : ~(Owns(u, j) /\ Owns(v, j))
    BY DEF ConnInv, Apart
  <2>2. i \in Slots => i # -1
    BY DEF Slots
  <2>3. newconn'[u] # NULL => newconn'[u] # newconn'[v]
    BY <1>0, <1>2, <2>1
  <2>4. \A j \in Slots : ~(Owns(u, j)' /\ Owns(v, j)')
    BY <1>5, <2>1, <2>2
  <2> QED
    BY <2>3, <2>4
<1>7. Queued' = Queued
  BY <1>1 DEF Queued
<1>8. ASSUME NEW d \in Conns PROVE ConnSound(d)'
  <2>1. CASE d = c
    <3>1. Holds(c)'
      BY <1>2 DEF Holds
    <3> QED
      BY <1>0, <1>1, <1>7, <2>1, <3>1 DEF ConnSound
  <2>2. CASE d # c
    <3>1. Holds(d)' <=> Holds(d)
      BY <1>0, <1>2, <2>2 DEF Holds
    <3>2. d \in open /\ socket[d] \in Slots => conn[socket[d]] = d
      BY DEF ConnInv, ConnSound, Numbered, Slots
    <3>3. d \in open /\ socket[d] \in Slots =>
            /\ conn'[socket[d]] = conn[socket[d]]
            /\ \A u \in Servers : Owns(u, socket[d])' => Owns(u, socket[d])
      <4>1. -1 \notin Slots
        BY DEF Slots
      <4> QED
        BY <1>1, <1>5, <2>2, <3>2, <4>1
    <3> QED
      BY <1>1, <1>7, <2>2, <3>1, <3>3, ConnStays
  <2> QED
    BY <2>1, <2>2
<1>9. QueuedOnce'
  BY <1>0, <1>1 DEF QueuedOnce
<1> QED
  BY <1>3, <1>4, <1>6, <1>8, <1>9 DEF ConnInv

\* A server closes socket i.
LEMMA CloseStep ==
  ASSUME Typed, ConnInv, NEW t \in Servers, NEW i \in Slots, Close(t, i)
  PROVE  ConnInv'
<1> USE SocketsAssumption
<1>1. PICK c \in Conns \ {Listener} :
        c = conn[i] /\ socket[c] = i /\ ~Holds(c) /\ DeleteNetconn(t, c) /\ pc[t] = "app"
        /\ newsock' = [newsock EXCEPT ![t] = i]
  BY DEF Close, Usable, At, Holds
<1>2. ConnSound(c) /\ ServerSound(t)
  BY DEF ConnInv
<1>3. i >= 0 /\ socket[c] >= 0 /\ ~(socket[c] < 0)
  BY <1>1 DEF Slots
<1>4. c \in open /\ Numbered(c)
  BY <1>1, <1>2, <1>3 DEF ConnSound
<1>5. newconn[t] = NULL
  BY <1>1, <1>2 DEF ServerSound
<1> QED
  BY <1>1, <1>4, <1>5, DeleteStep DEF Numbered, Holds

\* A server that found no socket deletes the connection.
LEMMA AcceptFailsStep ==
  ASSUME Typed, ConnInv, NEW t \in Servers, AcceptFails(t)
  PROVE  ConnInv'
<1> USE SocketsAssumption
<1>1. PICK c : c = newconn[t]
  OBVIOUS
<1>2. DeleteNetconn(t, c) /\ pc[t] = "noSocket" /\ newsock' = [newsock EXCEPT ![t] = -1]
  BY <1>1 DEF AcceptFails, At
<1>3. ServerSound(t) /\ ConnTyped /\ Apart
  BY DEF ConnInv
<1>4. c \in open \ {Listener} /\ c \in Conns
  BY <1>1, <1>2, <1>3 DEF ServerSound, ConnTyped
<1>5. ConnSound(c) /\ Holds(c)
  BY <1>1, <1>4 DEF ConnInv, Holds
<1>6. c \notin Queued /\ c \notin leaked
  BY <1>5 DEF ConnSound
<1>7. \A u \in Servers : u # t => newconn[u] # c
  BY <1>1, <1>3, <1>4 DEF Apart
<1>8. newconn[t] \in {NULL, c} /\ pc[t] \in {"app", "noSocket"} /\ -1 \in Slots \cup {-1}
  BY <1>1, <1>2
<1> QED
  BY <1>2, <1>4, <1>6, <1>7, <1>8, DeleteStep

\* The netconn is freed.
LEMMA FreeNetconnStep ==
  ASSUME Typed, ConnInv, NEW t \in Servers, FreeNetconn(t)
  PROVE  ConnInv'
<1> USE SocketsAssumption
<1>0. ConnTyped /\ QueuedOnce /\ ServerSound(t)
  BY DEF ConnInv
<1>1. PICK c : c = newconn[t]
  OBVIOUS
<1>2. /\ pc[t] = "delete" /\ UNCHANGED <<conn, open, acceptmbox, leaked>>
      /\ netconns' = netconns \ {c} /\ socket' = [socket EXCEPT ![c] = -1]
      /\ newconn' = [newconn EXCEPT ![t] = NULL]
  BY <1>1 DEF FreeNetconn, At
<1>3. c \in netconns \ open /\ c \in Conns /\ c # Listener
  BY <1>0, <1>1, <1>2 DEF ServerSound, ConnTyped
<1>4. socket' \in [Conns -> Int] /\ socket'[c] = -1 /\ \A d \in Conns : d # c => socket'[d] = socket[d]
  BY <1>0, <1>2, <1>3 DEF ConnTyped
<1>5. /\ newconn' \in [Servers -> Conns \cup {NULL}]
      /\ newconn'[t] = NULL /\ \A u \in Servers : u # t => newconn'[u] = newconn[u]
  BY <1>0, <1>2 DEF ConnTyped
<1>6. 0 \in Slots /\ 0 # -1
  BY DEF Slots
<1>7. /\ newsock' \in [Servers -> Slots \cup {-1}] /\ newsock'[t] # -1
      /\ \A u \in Servers : u # t => newsock'[u] = newsock[u] /\ pc'[u] = pc[u]
      /\ \/ newsock[t] = -1 /\ pc'[t] = "app"
         \/ newsock[t] # -1 /\ pc'[t] = "freeSocket" /\ newsock'[t] = newsock[t]
  <2>1. CASE newsock[t] = -1 /\ Goto(t, "app") /\ newsock' = [newsock EXCEPT ![t] = 0]
    BY <1>0, <1>6, <2>1, Going DEF ConnTyped
  <2>2. CASE newsock[t] # -1 /\ Goto(t, "freeSocket") /\ UNCHANGED newsock
    BY <1>0, <2>2, Going DEF ConnTyped
  <2> QED
    BY <2>1, <2>2 DEF FreeNetconn
<1>8. \A u \in Servers : u # t => newconn[u] # c
  BY <1>1, <1>3 DEF Apart, ConnInv
<1>9. ConnTyped'
  BY <1>0, <1>2, <1>3, <1>4, <1>5, <1>7 DEF ConnTyped
<1>10. ASSUME NEW u \in Servers PROVE ServerSound(u)'
  <2>1. CASE u = t
    BY <1>0, <1>1, <1>2, <1>3, <1>5, <1>7, <2>1 DEF ServerSound
  <2>2. CASE u # t
    <3>1. ServerSound(u) /\ newconn[u] \in Conns \cup {NULL} /\ newconn[u] # c
      BY <1>0, <1>8, <2>2 DEF ConnInv, ConnTyped
    <3>2. newconn[u] \in Conns => socket'[newconn[u]] = socket[newconn[u]]
      BY <1>4, <3>1
    <3> QED
      BY <1>0, <1>2, <1>5, <1>7, <2>2, <3>1, <3>2 DEF ServerSound, ConnTyped
  <2> QED
    BY <2>1, <2>2
<1>11. ASSUME NEW u \in Servers, NEW j \in Slots, Owns(u, j)' PROVE Owns(u, j)
  BY <1>2, <1>7, <1>11 DEF Owns
<1>12. Apart'
  <2>1. \A u, v \in Servers : u # v /\ newconn'[u] # NULL => newconn'[u] # newconn'[v]
    BY <1>5 DEF ConnInv, Apart
  <2> QED
    BY <1>11, <2>1 DEF Apart, ConnInv
<1>13. Queued' = Queued
  BY <1>2 DEF Queued
<1>14. ASSUME NEW d \in Conns PROVE ConnSound(d)'
  <2>1. CASE d = c
    <3>1. ConnSound(c)
      BY <1>3 DEF ConnInv
    <3> QED
      BY <1>2, <1>3, <1>4, <1>13, <2>1, <3>1 DEF ConnSound
  <2>2. CASE d # c
    <3>1. Holds(d)' <=> Holds(d)
      BY <1>1, <1>5, <2>2 DEF Holds
    <3> QED
      BY <1>2, <1>4, <1>11, <1>13, <2>2, <3>1, ConnStays
  <2> QED
    BY <2>1, <2>2
<1>15. QueuedOnce'
  BY <1>0, <1>2 DEF QueuedOnce
<1> QED
  BY <1>9, <1>10, <1>12, <1>14, <1>15 DEF ConnInv

\* The socket is free.
LEMMA FreeSocketStep ==
  ASSUME Typed, ConnInv, NEW t \in Servers, FreeSocket(t)
  PROVE  ConnInv'
<1> USE SocketsAssumption
<1>0. ConnTyped /\ QueuedOnce /\ ServerSound(t)
  BY DEF ConnInv
<1>1. PICK i \in Slots : i = newsock[t]
  BY <1>0 DEF FreeSocket, At, ServerSound, ConnTyped
<1>2. /\ pc[t] = "freeSocket" /\ conn' = [conn EXCEPT ![i] = NULL]
      /\ UNCHANGED <<open, netconns, socket, acceptmbox, leaked, newconn>>
      /\ newsock' = [newsock EXCEPT ![t] = 0]
      /\ pc'[t] = "app" /\ \A u \in Servers : u # t => pc'[u] = pc[u]
  BY <1>1, Going DEF FreeSocket, At
<1>3. 0 \in Slots /\ 0 # -1 /\ -1 \notin Slots
  BY DEF Slots
<1>4. /\ newsock' \in [Servers -> Slots \cup {-1}] /\ newsock'[t] = 0
      /\ \A u \in Servers : u # t => newsock'[u] = newsock[u]
  BY <1>0, <1>2, <1>3 DEF ConnTyped
<1>5. conn'[i] = NULL /\ \A j \in Slots : j # i => conn'[j] = conn[j]
  BY <1>0, <1>2 DEF ConnTyped
<1>6. ConnTyped'
  BY <1>0, <1>2, <1>4 DEF ConnTyped
<1>7. Owns(t, i) /\ \A u \in Servers : u # t => ~Owns(u, i)
  BY <1>1, <1>2 DEF Owns, Apart, ConnInv
<1>8. ASSUME NEW u \in Servers PROVE ServerSound(u)'
  <2>1. CASE u = t
    BY <1>0, <1>2, <1>3, <1>4, <2>1 DEF ServerSound
  <2>2. CASE u # t
    <3>1. ServerSound(u) /\ newsock[u] \in Slots \cup {-1} /\ ~Owns(u, i)
      BY <1>0, <1>7, <2>2 DEF ConnInv, ConnTyped
    <3>2. newsock[u] \in Slots /\ newsock[u] # i => conn'[newsock[u]] = conn[newsock[u]]
      BY <1>5
    <3> QED
      BY <1>2, <1>4, <2>2, <3>1, <3>2 DEF ServerSound, Owns
  <2> QED
    BY <2>1, <2>2
<1>9. ASSUME NEW u \in Servers, NEW j \in Slots, Owns(u, j)' PROVE Owns(u, j)
  BY <1>2, <1>4, <1>9 DEF Owns
<1>10. Apart'
  BY <1>2, <1>9 DEF Apart, ConnInv
<1>11. ASSUME NEW d \in Conns PROVE ConnSound(d)'
  <2>1. (Holds(d)' <=> Holds(d)) /\ Queued' = Queued
    BY <1>2 DEF Holds, Queued
  <2>2. d \in open /\ socket[d] \in Slots => socket[d] # i
    BY <1>7 DEF ConnInv, ConnSound, Numbered, Slots
  <2> QED
    BY <1>2, <1>5, <1>9, <2>1, <2>2, ConnStays
<1>12. QueuedOnce'
  BY <1>0, <1>2 DEF QueuedOnce
<1> QED
  BY <1>6, <1>8, <1>10, <1>11, <1>12 DEF ConnInv

\* A step of lwip_select leaves the servers alone.
LEMMA SelectorStep ==
  ASSUME Typed, NEW t \in Selectors,
         SelectStep(t) \/ Timeout(t) \/ \E S \in SUBSET Slots : Select(t, S)
  PROVE  /\ UNCHANGED <<conn, rcvevent, netconns, open, recvmbox, acceptmbox, lost, leaked,
                        newconn, newsock, socket>>
         /\ event' = event \/ ListChanges
         /\ \A u \in Servers : pc'[u] = pc[u] \/ (pc[u] \notin Busy /\ pc'[u] \notin Busy)
<1> USE DEF Labels, Busy, ServerLabels
<1>1. /\ UNCHANGED <<conn, rcvevent, netconns, open, recvmbox, acceptmbox, lost, leaked,
                     newconn, newsock, socket>>
      /\ event' = event \/ ListChanges
      /\ pc[t] \in Labels \ Busy
  BY DEF SelectStep, Selscan, Push, Enter, SemWait, Leave, Unlink, Timeout, Select
<1>2. PICK l \in Labels \ Busy : pc' = [pc EXCEPT ![t] = l]
  <2>1. CASE Timeout(t) \/ SemWait(t)
    BY <2>1 DEF Timeout, SemWait, Loop, Goto
  <2>2. CASE Push(t) \/ Unlink(t) \/ \E S \in SUBSET Slots : Select(t, S)
    BY <2>2 DEF Push, Unlink, Select, Loop, Goto
  <2>3. CASE Selscan(t)
    BY <1>1, <2>3 DEF Selscan, Step, Loop, Goto
  <2>4. CASE Enter(t)
    BY <1>1, <2>4 DEF Enter, Step, Loop, Goto
  <2>5. CASE Leave(t)
    BY <1>1, <2>5 DEF Leave, Step, Loop, Goto
  <2> QED
    BY <2>1, <2>2, <2>3, <2>4, <2>5 DEF SelectStep
<1>3. \A u \in Servers : pc'[u] = pc[u] \/ (pc[u] \notin Busy /\ pc'[u] \notin Busy)
  BY <1>1, <1>2 DEF Typed, Tasks
<1> QED
  BY <1>1, <1>3

\* Every step of the system keeps the invariant of the connections.
LEMMA ConnNext ==
  ASSUME IInv, ConnInv, [Next]_vars
  PROVE  ConnInv'
<1>0. Typed /\ ConnTyped
  BY DEF IInv, ConnInv
<1>1. CASE UNCHANGED vars
  BY <1>0, <1>1, AsideStep DEF vars, Aside, ConnTyped
<1>2. ASSUME NEW u \in Callers, EventCallback(u) PROVE ConnInv'
  <2>1. /\ UNCHANGED <<conn, netconns, open, acceptmbox, leaked, newconn, newsock, pc>>
        /\ \/ UNCHANGED socket
           \/ \E c : socket[c] < 0 /\ socket' = [socket EXCEPT ![c] = @ - 1]
    BY <1>2 DEF EventCallback, CountBeforeAccept, SetEvent, NextSelectCb
  <2>2. Aside
    BY <1>0, <2>1 DEF Aside, ConnTyped
  <2> QED
    BY <2>2, AsideStep
<1>3. ASSUME NEW c \in Conns, Deliver(c) PROVE ConnInv'
  BY <1>0, <1>3, AsideStep DEF Deliver, Aside, ConnTyped
<1>4. ASSUME NEW t \in Servers, NEW i \in Slots, Recv(t, i) PROVE ConnInv'
  BY <1>0, <1>4, AsideStep DEF Recv, Aside, ConnTyped
<1>5. ASSUME NEW t \in Selectors,
             SelectStep(t) \/ Timeout(t) \/ \E S \in SUBSET Slots : Select(t, S)
      PROVE  ConnInv'
  BY <1>0, <1>5, SelectorStep, AsideStep DEF Aside, ConnTyped
<1> QED
  BY <1>0, <1>1, <1>2, <1>3, <1>4, <1>5, AcceptFunctionStep, AcceptAbortsStep, AcceptStep,
     AllocSocketStep, ResetSocketStep, NumberSocketStep, CloseStep, AcceptFailsStep,
     FreeNetconnStep, FreeSocketStep
     DEF Next, ServerStep

\* ConnInv is an invariant.
THEOREM AlwaysConnInv == Spec => []ConnInv
<1>1. IInv /\ ConnInv /\ [Next]_vars => ConnInv'
  BY ConnNext
<1> QED
  BY <1>1, ConnInit, AlwaysInv, PTL DEF Spec

\* Every open connection is found in exactly one place, or was dropped: a connection
\* is neither lost nor handed to two servers or two sockets.
THEOREM ConnectionsAreAccounted == Spec => []ConnectionsAccounted
<1>1. ConnInv => ConnectionsAccounted
  <2> SUFFICES ASSUME ConnInv, NEW c \in open \ {Listener}
               PROVE  Cardinality({k \in 1..Len(acceptmbox) : acceptmbox[k] = c})
                      + Cardinality({t \in Servers : newconn[t] = c})
                      + Cardinality({i \in Slots : conn[i] = c /\ socket[c] = i})
                      = IF c \in leaked THEN 0 ELSE 1
    BY DEF ConnectionsAccounted
  <2> DEFINE K == {k \in 1..Len(acceptmbox) : acceptmbox[k] = c}
             T == {t \in Servers : newconn[t] = c}
             I == {i \in Slots : conn[i] = c /\ socket[c] = i}
  <2>1. c \in Conns /\ c # NULL /\ socket[c] \in Int /\ ConnSound(c)
    BY SocketsAssumption DEF ConnInv, ConnTyped
  <2>2. c \notin Queued => Cardinality(K) = 0
    <3>1. c \notin Queued => K = {}
      BY <2>1 DEF Queued
    <3> QED
      BY <3>1, FS_EmptySet
  <2>3. ~Holds(c) => Cardinality(T) = 0
    <3>1. ~Holds(c) => T = {}
      BY DEF Holds
    <3> QED
      BY <3>1, FS_EmptySet
  <2>4. socket[c] < 0 => Cardinality(I) = 0
    <3>1. socket[c] < 0 => I = {}
      BY <2>1 DEF Slots
    <3> QED
      BY <3>1, FS_EmptySet
  <2>5. c \in Queued => Cardinality(K) = 1
    <3>1. c \in Queued => \E k : K = {k}
      BY <2>1 DEF Queued, ConnInv, QueuedOnce
    <3> QED
      BY <3>1, FS_Singleton
  <2>6. Holds(c) => Cardinality(T) = 1
    <3>1. Holds(c) => \E t : T = {t}
      BY <2>1 DEF Holds, ConnInv, Apart
    <3> QED
      BY <3>1, FS_Singleton
  <2>7. Numbered(c) => Cardinality(I) = 1
    <3>1. Numbered(c) => I = {socket[c]}
      BY DEF Numbered
    <3> QED
      BY <3>1, FS_Singleton
  <2>8. CASE socket[c] >= 0
    <3>1. Numbered(c) /\ ~Holds(c) /\ c \notin Queued /\ c \notin leaked
      BY <2>1, <2>8 DEF ConnSound, Numbered
    <3> QED
      BY <2>2, <2>3, <2>7, <3>1
  <2>9. CASE socket[c] < 0
    BY <2>1, <2>2, <2>3, <2>4, <2>5, <2>6, <2>9 DEF ConnSound
  <2> QED
    BY <2>1, <2>8, <2>9
<1> QED
  BY <1>1, AlwaysConnInv, PTL

-----------------------------------------------------------------------------
(* The events of the connections.                                           *)

\* The fields of a call of event_callback.
Fields == {"conn", "evt", "at", "s", "scb", "changed"}

\* The event of u that is raised and not counted yet.
Pending(u) == event[u] # NULL /\ event[u].at # "walk"

EventTyped ==
  /\ rcvevent \in [Slots -> Int] /\ recvmbox \in [Conns -> Int] /\ lost \in [Conns -> Int]
  /\ event = [u \in Callers |-> event[u]]
  /\ \A u \in Callers :
       /\ event[u] # NULL => event[u] = [k \in Fields |-> event[u][k]]
       /\ Pending(u) => event[u] \in Events

\* u goes on with the list, or returns: its event is counted.
LEMMA VisitCounts ==
  ASSUME EventTyped, NEW u \in Callers, event[u] # NULL, NEW scb, Visit(u, scb)
  PROVE  /\ event' = [x \in Callers |-> event'[x]]
         /\ ~Pending(u)' /\ (event'[u] # NULL => event'[u] = [k \in Fields |-> event'[u][k]])
         /\ \A x \in Callers : x # u => event'[x] = event[x]
<1>1. CASE scb = NULL
  <2>1. event' = [event EXCEPT ![u] = NULL]
    BY <1>1 DEF Visit, Returns
  <2> QED
    BY <2>1 DEF EventTyped, Pending
<1>2. CASE scb # NULL
  <2>1. event' = [event EXCEPT ![u].at = "walk", ![u].scb = scb, ![u].changed = FALSE]
    BY <1>2 DEF Visit
  <2>2. event[u] = [k \in Fields |-> event[u][k]]
    BY DEF EventTyped
  <2>3. event'[u] = [[[event[u] EXCEPT !.at = "walk"] EXCEPT !.scb = scb] EXCEPT !.changed = FALSE]
    BY <2>1 DEF EventTyped
  <2>4. event'[u].at = "walk" /\ event'[u] = [k \in Fields |-> event'[u][k]]
    BY <2>2, <2>3 DEF Fields
  <2> QED
    BY <2>1, <2>4 DEF EventTyped, Pending
<1> QED
  BY <1>1, <1>2

\* An event is raised.
LEMMA RaiseAdds ==
  ASSUME EventTyped, ConnTyped, NEW u \in Callers, NEW c \in Conns, NEW evt \in {1, -1},
         Raise(u, c, evt)
  PROVE  /\ event' = [x \in Callers |-> event'[x]]
         /\ Pending(u)' /\ event'[u] \in Events /\ event'[u].conn = c /\ event'[u].evt = evt
         /\ event'[u].s = socket[c] /\ event'[u].at = (IF socket[c] < 0 THEN "count" ELSE "set")
         /\ event'[u] = [k \in Fields |-> event'[u][k]]
         /\ \A x \in Callers : x # u => event'[x] = event[x]
<1> DEFINE e == [conn |-> c, evt |-> evt, at |-> IF socket[c] < 0 THEN "count" ELSE "set",
                 s |-> socket[c], scb |-> NULL, changed |-> FALSE]
<1>1. event' = [event EXCEPT ![u] = e]
  BY DEF Raise
<1>2. e \in Events
  BY DEF Events, ConnTyped
<1>3. e # NULL
  BY <1>2, SocketsAssumption
<1>4. e = [k \in Fields |-> e[k]]
  BY DEF Fields
<1>5. event'[u] = e /\ event' = [x \in Callers |-> event'[x]]
      /\ \A x \in Callers : x # u => event'[x] = event[x]
  BY <1>1 DEF EventTyped
<1>6. e.conn = c /\ e.evt = evt /\ e.s = socket[c] /\ e.at = (IF socket[c] < 0 THEN "count" ELSE "set")
  OBVIOUS
<1> HIDE DEF e
<1> QED
  BY <1>2, <1>3, <1>4, <1>5, <1>6 DEF Pending

\* The list of the selects changes: the walks are told.
LEMMA ListChangesKeeps ==
  ASSUME EventTyped, ListChanges
  PROVE  /\ event' = [x \in Callers |-> event'[x]]
         /\ \A x \in Callers :
              /\ Pending(x)' => event'[x] = event[x]
              /\ Pending(x) => event'[x] = event[x]
              /\ event'[x] # NULL => event'[x] = [k \in Fields |-> event'[x][k]]
<1>1. event' = [u \in Callers |->
         IF Calls(u, "walk") THEN [event[u] EXCEPT !.changed = TRUE] ELSE event[u]]
  BY DEF ListChanges
<1>2. ASSUME NEW x \in Callers, Calls(x, "walk")
      PROVE  event'[x].at = "walk" /\ event'[x] = [k \in Fields |-> event'[x][k]] /\ ~Pending(x)
  <2>1. event'[x] = [event[x] EXCEPT !.changed = TRUE] /\ event[x].at = "walk" /\ event[x] # NULL
    BY <1>1, <1>2 DEF Calls
  <2>2. event[x] = [k \in Fields |-> event[x][k]]
    BY <2>1 DEF EventTyped
  <2> QED
    BY <2>1, <2>2 DEF Fields, Pending
<1>3. ASSUME NEW x \in Callers, ~Calls(x, "walk") PROVE event'[x] = event[x]
  BY <1>1, <1>3
<1>4. event' = [x \in Callers |-> event'[x]]
  BY <1>1
<1> QED
  BY <1>2, <1>3, <1>4 DEF Pending, EventTyped

\* u has an event of c that is not counted yet.
Brings(u, c, evt) == Pending(u) /\ event[u].conn = c /\ event[u].evt = evt

\* The callers that bring an event are finitely many.
LEMMA ComingFinite ==
  ASSUME NEW c, NEW v
  PROVE  /\ Coming(c, v) = {u \in Callers : Brings(u, c, v)}
         /\ IsFiniteSet(Coming(c, v)) /\ Cardinality(Coming(c, v)) \in Nat
<1>1. Coming(c, v) = {u \in Callers : Brings(u, c, v)}
  BY DEF Coming, Brings, Pending
<1>2. IsFiniteSet(Callers)
  BY SocketsAssumption, FS_Singleton, FS_Union DEF Callers
<1>3. Coming(c, v) \subseteq Callers
  BY <1>1
<1> QED
  BY <1>1, <1>2, <1>3, FS_Subset, FS_CardinalityType

\* The same after a step.
LEMMA ComingNext ==
  ASSUME NEW c, NEW v
  PROVE  Coming(c, v)' = {u \in Callers : Brings(u, c, v)'}
BY DEF Coming, Brings, Pending, Callers

\* A caller that raises an event adds one to those that come.
LEMMA ComingMore ==
  ASSUME NEW u \in Callers, NEW c, NEW v, ~Brings(u, c, v), Brings(u, c, v)',
         \A x \in Callers : x # u => (Brings(x, c, v)' <=> Brings(x, c, v))
  PROVE  Cardinality(Coming(c, v)') = Cardinality(Coming(c, v)) + 1
<1>1. Coming(c, v)' = Coming(c, v) \cup {u} /\ u \notin Coming(c, v)
  BY ComingFinite, ComingNext
<1> QED
  BY <1>1, ComingFinite, FS_AddElement

\* A caller whose event is counted takes one from them.
LEMMA ComingLess ==
  ASSUME NEW u \in Callers, NEW c, NEW v, Brings(u, c, v), ~Brings(u, c, v)',
         \A x \in Callers : x # u => (Brings(x, c, v)' <=> Brings(x, c, v))
  PROVE  Cardinality(Coming(c, v)') = Cardinality(Coming(c, v)) - 1
<1>1. Coming(c, v)' = Coming(c, v) \ {u} /\ u \in Coming(c, v)
  BY ComingFinite, ComingNext
<1> QED
  BY <1>1, ComingFinite, FS_RemoveElement

\* A caller that brings the event before and after a step changes nothing.
LEMMA ComingSame ==
  ASSUME NEW c, NEW v, \A x \in Callers : Brings(x, c, v)' <=> Brings(x, c, v)
  PROVE  Coming(c, v)' = Coming(c, v)
BY ComingFinite, ComingNext

\* What event_callback relies on: the connection stays, and the number it has read is
\* still its number.
EventSound(u) ==
  Pending(u) =>
    /\ \/ event[u].conn \in open
       \/ u \in Servers /\ pc[u] = "delete" /\ newconn[u] = event[u].conn
    /\ u \in Servers => \/ event[u].conn = Listener \/ socket[event[u].conn] >= 0
                        \/ pc[u] = "delete" /\ newconn[u] = event[u].conn
    /\ event[u].at = "set" => event[u].s = socket[event[u].conn] /\ event[u].s \in Slots
    /\ event[u].evt = -1 => event[u].at = "set"

\* What a server knows of the socket in its hand.
HandSound(t) ==
  /\ pc[t] = "number" => rcvevent[newsock[t]] = 0
  /\ pc[t] = "delete" => IF newsock[t] = -1 THEN socket[newconn[t]] < 0
                                            ELSE socket[newconn[t]] = newsock[t]

\* The balance of EventsMatchMessages, for one connection.
Balanced(c) ==
  Counted(c) + Cardinality(Coming(c, 1)) - Cardinality(Coming(c, -1)) = Messages(c) + lost[c]

\* The events that are counted and those that come add up to the messages.
EventInv ==
  /\ EventTyped
  /\ \A u \in Callers : EventSound(u)
  /\ \A t \in Servers : HandSound(t)
  /\ \A c \in open : Balanced(c)

\* The initial states are in EventInv.
LEMMA EventInit == Init => EventInv
<1> SUFFICES ASSUME Init PROVE EventInv
  OBVIOUS
<1> USE SocketsAssumption
<1>1. \A u \in Callers : event[u] = NULL
  BY DEF Init
<1>2. EventTyped
  BY DEF Init, EventTyped, Pending
<1>3. \A u \in Callers : EventSound(u)
  BY <1>1 DEF EventSound, Pending
<1>4. \A t \in Servers : HandSound(t)
  BY DEF Init, HandSound, Tasks
<1>5. ASSUME NEW c, NEW v PROVE Cardinality(Coming(c, v)) = 0
  <2>1. Coming(c, v) = {}
    BY <1>1 DEF Coming
  <2> QED
    BY <2>1, FS_EmptySet
<1>6. ASSUME NEW c \in open PROVE Balanced(c)
  <2>1. c = Listener /\ c \in Conns /\ 0 \in Slots
    BY DEF Init, Slots
  <2>2. Counted(c) = 0 /\ Messages(c) = 0 /\ lost[c] = 0
    BY <2>1 DEF Init, Counted, Messages
  <2> QED
    BY <1>5, <2>2 DEF Balanced
<1> QED
  BY <1>2, <1>3, <1>4, <1>6 DEF EventInv

\* An open connection that has a number has a socket of its own.
LEMMA NumberIsOwn ==
  ASSUME ConnInv, NEW c \in open, socket[c] >= 0
  PROVE  /\ socket[c] \in Slots /\ conn[socket[c]] = c /\ c \in Conns
         /\ \A t \in Servers : ~Owns(t, socket[c])
         /\ \A d \in open : d # c /\ socket[d] >= 0 => socket[d] # socket[c]
BY DEF ConnInv, ConnTyped, ConnSound, Numbered

\* The counts are whole numbers.
LEMMA CountsAreInt ==
  ASSUME ConnInv, EventInv, NEW c \in open
  PROVE  /\ Counted(c) \in Int /\ Messages(c) \in Int /\ lost[c] \in Int /\ socket[c] \in Int
         /\ Cardinality(Coming(c, 1)) \in Nat /\ Cardinality(Coming(c, -1)) \in Nat
         /\ c \in Conns /\ Balanced(c)
<1>1. c \in Conns /\ socket[c] \in Int /\ lost[c] \in Int /\ recvmbox[c] \in Int
  BY DEF ConnInv, ConnTyped, EventInv, EventTyped
<1>2. Len(acceptmbox) \in Nat
  BY DEF ConnInv, ConnTyped
<1>3. socket[c] >= 0 => rcvevent[socket[c]] \in Int
  BY NumberIsOwn DEF EventInv, EventTyped
<1> QED
  BY <1>1, <1>2, <1>3, ComingFinite DEF Counted, Messages, EventInv

\* A step that neither raises nor counts an event.
LEMMA EventStays ==
  ASSUME EventInv,
         UNCHANGED <<rcvevent, socket, open, recvmbox, acceptmbox, lost>>,
         event' = [x \in Callers |-> event'[x]],
         \A x \in Callers :
           /\ Pending(x)' <=> Pending(x)
           /\ Pending(x) => event'[x] = event[x]
           /\ event'[x] # NULL => event'[x] = [k \in Fields |-> event'[x][k]],
         \A t \in Servers :
           /\ pc[t] = "delete" /\ Pending(t) => pc'[t] = "delete" /\ newconn'[t] = newconn[t]
           /\ pc'[t] \in {"number", "delete"} =>
                pc'[t] = pc[t] /\ newconn'[t] = newconn[t] /\ newsock'[t] = newsock[t]
  PROVE  EventInv'
<1>1. EventTyped'
  BY DEF EventInv, EventTyped
<1>2. ASSUME NEW x \in Callers PROVE EventSound(x)'
  <2>1. EventSound(x)
    BY DEF EventInv
  <2> QED
    BY <2>1 DEF EventSound
<1>3. ASSUME NEW t \in Servers PROVE HandSound(t)'
  BY DEF HandSound, EventInv
<1>4. ASSUME NEW c \in open PROVE Balanced(c)'
  <2>1. ASSUME NEW v PROVE Coming(c, v)' = Coming(c, v)
    BY ComingSame DEF Brings
  <2>2. Counted(c)' = Counted(c) /\ Messages(c)' = Messages(c)
    BY DEF Counted, Messages
  <2> QED
    BY <2>1, <2>2 DEF Balanced, EventInv
<1> QED
  BY <1>1, <1>2, <1>3, <1>4 DEF EventInv

\* The socket of a pending event is not one that a server sets up.
LEMMA EventSocket ==
  ASSUME ConnInv, EventInv, NEW u \in Callers, Pending(u), event[u].at = "set"
  PROVE  /\ event[u].s \in Slots /\ event[u].s = socket[event[u].conn] /\ socket[event[u].conn] >= 0
         /\ \A t \in Servers : pc[t] \in {"reset", "number"} => newsock[t] # event[u].s
         /\ \A d \in open : d # event[u].conn /\ socket[d] >= 0 => socket[d] # event[u].s
<1> DEFINE c == event[u].conn
           s == event[u].s
<1>1. EventSound(u) /\ s \in Slots /\ s = socket[c] /\ socket[c] >= 0
  BY DEF EventInv, EventSound, Slots
<1>2. CASE c \in open
  <2>1. \A t \in Servers : ~Owns(t, s)
    BY <1>1, <1>2, NumberIsOwn
  <2>2. \A d \in open : d # c /\ socket[d] >= 0 => socket[d] # s
    BY <1>1, <1>2, NumberIsOwn
  <2> QED
    BY <1>1, <2>1, <2>2 DEF Owns
<1>3. CASE u \in Servers /\ pc[u] = "delete" /\ newconn[u] = c
  <2>1. newsock[u] = s
    <3>1. HandSound(u) /\ s \in Int
      BY <1>1, <1>3 DEF EventInv, Slots
    <3> QED
      BY <1>1, <1>3, <3>1 DEF HandSound
  <2>2. Owns(u, s)
    BY <1>3, <2>1 DEF Owns
  <2>3. \A t \in Servers : pc[t] \in {"reset", "number"} => newsock[t] # s
    BY <1>1, <1>3, <2>2 DEF Owns, ConnInv, Apart
  <2>4. \A d \in open : socket[d] >= 0 => socket[d] # s
    BY <1>3, <2>2, NumberIsOwn
  <2> QED
    BY <1>1, <2>3, <2>4
<1> QED
  BY <1>1, <1>2, <1>3 DEF EventSound

\* The event is counted in its socket.
LEMMA SetEventStep ==
  ASSUME ConnInv, EventInv, NEW u \in Callers, SetEvent(u)
  PROVE  EventInv'
<1>1. PICK c, s, v : c = event[u].conn /\ s = event[u].s /\ v = event[u].evt
  OBVIOUS
<1>2. Pending(u) /\ event[u] # NULL /\ event[u].at = "set" /\ event[u] \in Events
  BY DEF SetEvent, Calls, Pending, EventInv, EventTyped
<1>3. c \in Conns /\ v \in {1, -1} /\ s \in Slots /\ s = socket[c] /\ socket[c] >= 0
  BY <1>1, <1>2, EventSocket DEF Events
<1>4. /\ UNCHANGED <<socket, open, recvmbox, acceptmbox, lost, newconn, newsock, pc>>
      /\ rcvevent' = [rcvevent EXCEPT ![s] = @ + v]
      /\ \E scb : Visit(u, scb)
  BY <1>1 DEF SetEvent
<1>5. /\ event' = [x \in Callers |-> event'[x]]
      /\ ~Pending(u)' /\ (event'[u] # NULL => event'[u] = [k \in Fields |-> event'[u][k]])
      /\ \A x \in Callers : x # u => event'[x] = event[x]
  BY <1>2, <1>4, VisitCounts DEF EventInv
<1>6. /\ rcvevent' \in [Slots -> Int] /\ rcvevent'[s] = rcvevent[s] + v /\ rcvevent[s] \in Int
      /\ \A j \in Slots : j # s => rcvevent'[j] = rcvevent[j]
  BY <1>3, <1>4 DEF EventInv, EventTyped
<1>7. EventTyped'
  BY <1>4, <1>5, <1>6 DEF EventInv, EventTyped, Pending
<1>8. ASSUME NEW x \in Callers PROVE EventSound(x)'
  <2>1. EventSound(x)
    BY DEF EventInv
  <2> QED
    BY <1>4, <1>5, <2>1 DEF EventSound, Pending
<1>9. ASSUME NEW t \in Servers PROVE HandSound(t)'
  <2>1. HandSound(t) /\ (pc[t] = "number" => newsock[t] # s /\ newsock[t] \in Slots)
    BY <1>1, <1>2, EventSocket DEF EventInv, ConnInv, ConnTyped, ServerSound
  <2> QED
    BY <1>4, <1>6, <2>1 DEF HandSound
<1>10. ASSUME NEW d \in open PROVE Balanced(d)'
  <2>1. /\ Counted(d) \in Int /\ Messages(d) \in Int /\ lost[d] \in Int /\ socket[d] \in Int
        /\ Cardinality(Coming(d, 1)) \in Nat /\ Cardinality(Coming(d, -1)) \in Nat
        /\ Balanced(d)
    BY CountsAreInt
  <2>2. Messages(d)' = Messages(d) /\ lost'[d] = lost[d] /\ socket'[d] = socket[d]
    BY <1>4 DEF Messages
  <2>3. CASE d = c
    <3>1. Counted(d)' = Counted(d) + v
      <4>1. socket[d] = s /\ socket'[d] = s /\ ~(s < 0)
        BY <1>3, <2>2, <2>3 DEF Slots
      <4> QED
        BY <1>6, <4>1 DEF Counted
    <3>2. Cardinality(Coming(d, v)') = Cardinality(Coming(d, v)) - 1
      BY <1>1, <1>2, <1>5, <2>3, ComingLess DEF Brings, Pending
    <3>3. ASSUME NEW w, w # v PROVE Coming(d, w)' = Coming(d, w)
      BY <1>1, <1>5, <3>3, ComingSame DEF Brings, Pending
    <3>4. CASE v = 1
      <4>1. Coming(d, -1)' = Coming(d, -1)
        BY <3>3, <3>4
      <4> QED
        BY <2>1, <2>2, <3>1, <3>2, <3>4, <4>1 DEF Balanced
    <3>5. CASE v = -1
      <4>1. Coming(d, 1)' = Coming(d, 1)
        BY <3>3, <3>5
      <4> QED
        BY <2>1, <2>2, <3>1, <3>2, <3>5, <4>1 DEF Balanced
    <3> QED
      BY <1>3, <3>4, <3>5
  <2>4. CASE d # c
    <3>1. socket[d] >= 0 => socket[d] # s /\ socket[d] \in Slots
      BY <1>1, <1>2, <2>4, EventSocket, NumberIsOwn
    <3>2. Counted(d)' = Counted(d)
      BY <1>6, <2>1, <2>2, <3>1 DEF Counted
    <3>3. ASSUME NEW w PROVE Coming(d, w)' = Coming(d, w)
      BY <1>1, <1>5, <2>4, ComingSame DEF Brings, Pending
    <3> QED
      BY <2>1, <2>2, <3>2, <3>3 DEF Balanced
  <2> QED
    BY <2>3, <2>4
<1> QED
  BY <1>4, <1>7, <1>8, <1>9, <1>10 DEF EventInv

\* The socket of a pending event, once its connection has a number.
LEMMA EventNumber ==
  ASSUME ConnInv, EventInv, NEW u \in Callers, Pending(u), socket[event[u].conn] >= 0
  PROVE  socket[event[u].conn] \in Slots
<1> DEFINE c == event[u].conn
<1>1. EventSound(u) /\ c \in Conns
  BY DEF EventInv, EventTyped, Events
<1>2. CASE c \in open
  BY <1>2, NumberIsOwn
<1>3. CASE u \in Servers /\ pc[u] = "delete" /\ newconn[u] = c
  <2>1. HandSound(u) /\ newsock[u] \in Slots \cup {-1} /\ socket[c] \in Int
    BY <1>1, <1>3 DEF EventInv, ConnInv, ConnTyped
  <2> QED
    BY <1>3, <2>1 DEF HandSound
<1> QED
  BY <1>1, <1>2, <1>3 DEF EventSound

\* The event is counted in the number that its connection does not have yet, or the
\* number is there by now.
LEMMA CountBeforeAcceptStep ==
  ASSUME ConnInv, EventInv, NEW u \in Callers, CountBeforeAccept(u)
  PROVE  EventInv'
<1> USE SocketsAssumption
<1>1. PICK c : c = event[u].conn
  OBVIOUS
<1>2. /\ Pending(u) /\ event[u] # NULL /\ event[u].at = "count" /\ event[u] \in Events
      /\ EventSound(u)
  BY DEF CountBeforeAccept, Calls, Pending, EventInv, EventTyped
<1>3. c \in Conns /\ event[u].evt = 1 /\ socket[c] \in Int
  BY <1>1, <1>2 DEF Events, EventSound, ConnInv, ConnTyped
<1>4. UNCHANGED <<rcvevent, open, recvmbox, acceptmbox, lost, newconn, newsock, pc>>
  BY DEF CountBeforeAccept
<1>5. CASE socket[c] < 0
  <2>1. socket' = [socket EXCEPT ![c] = @ - 1] /\ event' = [event EXCEPT ![u] = NULL]
    BY <1>1, <1>3, <1>5 DEF CountBeforeAccept, Returns
  <2>2. socket'[c] = socket[c] - 1 /\ \A d \in Conns : d # c => socket'[d] = socket[d]
    BY <1>3, <2>1 DEF ConnInv, ConnTyped
  <2>3. /\ event'[u] = NULL /\ event' = [x \in Callers |-> event'[x]]
        /\ \A x \in Callers : x # u => event'[x] = event[x]
    BY <2>1 DEF EventInv, EventTyped
  <2>4. EventTyped'
    BY <1>4, <2>3 DEF EventInv, EventTyped, Pending
  <2>5. ASSUME NEW x \in Callers PROVE EventSound(x)'
    <3>1. CASE x = u
      BY <2>3, <3>1 DEF EventSound, Pending
    <3>2. CASE x # u
      <4>1. EventSound(x) /\ event'[x] = event[x] /\ (Pending(x)' <=> Pending(x))
        BY <2>3, <3>2 DEF EventInv, Pending
      <4>2. Pending(x) => event[x].conn \in Conns
        BY DEF EventInv, EventTyped, Events
      <4>3. CASE event[x].conn = c
        <5>1. Pending(x) => event[x].at # "set"
          BY <1>5, <4>1, <4>3 DEF EventSound, Slots
        <5> QED
          BY <1>3, <1>4, <1>5, <4>1, <4>3, <5>1 DEF EventSound
      <4>4. CASE event[x].conn # c
        BY <1>4, <2>2, <4>1, <4>2, <4>4 DEF EventSound
      <4> QED
        BY <4>3, <4>4
    <3> QED
      BY <3>1, <3>2
  <2>6. ASSUME NEW t \in Servers PROVE HandSound(t)'
    <3>1. HandSound(t) /\ newsock[t] \in Slots \cup {-1} /\ newconn[t] \in Conns \cup {NULL}
          /\ ServerSound(t)
      BY DEF EventInv, ConnInv, ConnTyped
    <3>2. pc[t] = "delete" => newconn[t] \in Conns
      BY <3>1 DEF ServerSound, ConnInv, ConnTyped
    <3>3. newsock[t] \in Slots => newsock[t] >= 0
      BY DEF Slots
    <3> QED
      BY <1>3, <1>4, <1>5, <2>2, <3>1, <3>2, <3>3 DEF HandSound
  <2>7. ASSUME NEW d \in open PROVE Balanced(d)'
    <3>1. /\ Counted(d) \in Int /\ Messages(d) \in Int /\ lost[d] \in Int /\ socket[d] \in Int
          /\ Cardinality(Coming(d, 1)) \in Nat /\ Cardinality(Coming(d, -1)) \in Nat
          /\ d \in Conns /\ Balanced(d)
      BY CountsAreInt
    <3>2. Messages(d)' = Messages(d) /\ lost'[d] = lost[d]
      BY <1>4 DEF Messages
    <3>3. Coming(d, -1)' = Coming(d, -1)
      BY <1>3, <2>3, ComingSame DEF Brings, Pending
    <3>4. CASE d = c
      <4>1. Counted(d)' = Counted(d) + 1
        BY <1>5, <2>2, <3>1, <3>4 DEF Counted
      <4>2. Cardinality(Coming(d, 1)') = Cardinality(Coming(d, 1)) - 1
        BY <1>1, <1>2, <1>3, <2>3, <3>4, ComingLess DEF Brings, Pending
      <4> QED
        BY <3>1, <3>2, <3>3, <4>1, <4>2 DEF Balanced
    <3>5. CASE d # c
      <4>1. Counted(d)' = Counted(d)
        BY <1>4, <2>2, <3>1, <3>5 DEF Counted
      <4>2. Coming(d, 1)' = Coming(d, 1)
        BY <1>1, <2>3, <3>5, ComingSame DEF Brings, Pending
      <4> QED
        BY <3>1, <3>2, <3>3, <4>1, <4>2 DEF Balanced
    <3> QED
      BY <3>4, <3>5
  <2> QED
    BY <1>4, <2>4, <2>5, <2>6, <2>7 DEF EventInv
<1>6. CASE ~(socket[c] < 0)
  <2>1. UNCHANGED socket /\ event' = [event EXCEPT ![u].s = socket[c], ![u].at = "set"]
    BY <1>1, <1>6 DEF CountBeforeAccept
  <2>2. socket[c] \in Slots
    BY <1>1, <1>2, <1>3, <1>6, EventNumber
  <2>3. event[u] = [k \in Fields |-> event[u][k]]
    BY <1>2 DEF EventInv, EventTyped
  <2>4. event'[u] = [[event[u] EXCEPT !.s = socket[c]] EXCEPT !.at = "set"]
        /\ event' = [x \in Callers |-> event'[x]]
        /\ \A x \in Callers : x # u => event'[x] = event[x]
    BY <2>1 DEF EventInv, EventTyped
  <2>5. /\ event'[u].at = "set" /\ event'[u].s = socket[c] /\ event'[u].conn = c
        /\ event'[u].evt = 1 /\ event'[u] = [k \in Fields |-> event'[u][k]]
    BY <1>1, <1>3, <2>3, <2>4 DEF Fields
  <2>6. event'[u] \in Events
    BY <1>2, <1>3, <2>4 DEF Events
  <2>7. Pending(u)'
    BY <2>5, <2>6 DEF Pending
  <2>8. EventTyped'
    <3>1. ASSUME NEW x \in Callers
          PROVE  /\ event'[x] # NULL => event'[x] = [k \in Fields |-> event'[x][k]]
                 /\ Pending(x)' => event'[x] \in Events
      <4>1. CASE x = u
        BY <2>5, <2>6, <4>1
      <4>2. CASE x # u
        BY <2>4, <4>2 DEF EventInv, EventTyped, Pending
      <4> QED
        BY <4>1, <4>2
    <3> QED
      BY <1>4, <2>4, <3>1 DEF EventInv, EventTyped
  <2>9. ASSUME NEW x \in Callers PROVE EventSound(x)'
    <3>1. EventSound(x)
      BY DEF EventInv
    <3>2. CASE x = u
      BY <1>1, <1>2, <1>4, <2>1, <2>2, <2>5, <2>7, <3>1, <3>2 DEF EventSound
    <3>3. CASE x # u
      BY <1>4, <2>1, <2>4, <3>1, <3>3 DEF EventSound, Pending
    <3> QED
      BY <3>2, <3>3
  <2>10. ASSUME NEW t \in Servers PROVE HandSound(t)'
    BY <1>4, <2>1 DEF EventInv, HandSound
  <2>11. ASSUME NEW d \in open PROVE Balanced(d)'
    <3>1. ASSUME NEW v PROVE Coming(d, v)' = Coming(d, v)
      <4>1. \A x \in Callers : Brings(x, d, v)' <=> Brings(x, d, v)
        <5>1. Brings(u, d, v)' <=> Brings(u, d, v)
          BY <1>1, <1>2, <1>3, <2>5, <2>7 DEF Brings
        <5>2. \A x \in Callers : x # u => (Brings(x, d, v)' <=> Brings(x, d, v))
          BY <2>4 DEF Brings, Pending
        <5> QED
          BY <5>1, <5>2
      <4> QED
        BY <4>1, ComingSame
    <3>2. Messages(d)' = Messages(d) /\ Counted(d)' = Counted(d)
      BY <1>4, <2>1 DEF Messages, Counted
    <3> QED
      BY <1>4, <3>1, <3>2 DEF Balanced, EventInv
  <2> QED
    BY <1>4, <2>8, <2>9, <2>10, <2>11 DEF EventInv
<1> QED
  BY <1>5, <1>6

\* The events of a socket are cleared that has no connection yet.
LEMMA ResetStep ==
  ASSUME Typed, ConnInv, EventInv, NEW t \in Servers, ResetSocket(t)
  PROVE  EventInv'
<1>1. PICK i \in Slots : i = newsock[t]
  BY DEF ResetSocket, At, ConnInv, ConnTyped, ServerSound
<1>2. /\ pc[t] = "reset" /\ event[t] = NULL /\ rcvevent' = [rcvevent EXCEPT ![i] = 0]
      /\ UNCHANGED <<socket, open, recvmbox, acceptmbox, lost, newconn, newsock, event>>
      /\ pc'[t] = "number" /\ \A u \in Servers : u # t => pc'[u] = pc[u]
  BY <1>1, Going DEF ResetSocket, At
<1>3. rcvevent' \in [Slots -> Int] /\ rcvevent'[i] = 0 /\ \A j \in Slots : j # i => rcvevent'[j] = rcvevent[j]
  BY <1>2 DEF EventInv, EventTyped
<1>4. EventTyped'
  BY <1>2, <1>3 DEF EventInv, EventTyped, Pending
<1>5. ASSUME NEW x \in Callers PROVE EventSound(x)'
  <2>1. EventSound(x)
    BY DEF EventInv
  <2>2. x = t => ~Pending(x)
    BY <1>2 DEF Pending
  <2> QED
    BY <1>2, <2>1, <2>2 DEF EventSound, Pending
<1>6. ASSUME NEW u \in Servers PROVE HandSound(u)'
  <2>1. HandSound(u)
    BY DEF EventInv
  <2>2. CASE u = t
    BY <1>1, <1>2, <1>3, <2>2 DEF HandSound
  <2>3. CASE u # t
    <3>1. pc[u] = "number" => newsock[u] \in Slots
      BY DEF ConnInv, ConnTyped, ServerSound
    <3> QED
      BY <1>2, <1>3, <2>1, <2>3, <3>1 DEF HandSound
  <2> QED
    BY <2>2, <2>3
<1>7. ASSUME NEW d \in open PROVE Balanced(d)'
  <2>1. ASSUME NEW v PROVE Coming(d, v)' = Coming(d, v)
    BY <1>2, ComingSame DEF Brings, Pending
  <2>2. Owns(t, i) /\ socket[d] \in Int
    BY <1>1, <1>2, CountsAreInt DEF Owns
  <2>3. socket[d] >= 0 => socket[d] # i /\ socket[d] \in Slots
    BY <2>2, NumberIsOwn
  <2>4. Messages(d)' = Messages(d) /\ Counted(d)' = Counted(d)
    BY <1>2, <1>3, <2>2, <2>3 DEF Messages, Counted
  <2> QED
    BY <1>2, <2>1, <2>4 DEF Balanced, EventInv
<1> QED
  BY <1>2, <1>4, <1>5, <1>6, <1>7 DEF EventInv

\* lwip_accept takes over the events of the connection.
LEMMA NumberStep ==
  ASSUME Typed, ConnInv, EventInv, NEW t \in Servers, NumberSocket(t)
  PROVE  EventInv'
<1> USE SocketsAssumption
<1>1. PICK i \in Slots, c \in open \ {Listener} : i = newsock[t] /\ c = newconn[t] /\ socket[c] < 0
  BY DEF NumberSocket, At, ConnInv, ConnTyped, ServerSound
<1>2. /\ pc[t] = "number" /\ event[t] = NULL /\ rcvevent' = [rcvevent EXCEPT ![i] = @ + (-1 - socket[c])]
      /\ socket' = [socket EXCEPT ![c] = i]
      /\ UNCHANGED <<open, recvmbox, acceptmbox, lost, event>>
      /\ newconn' = [newconn EXCEPT ![t] = NULL] /\ newsock' = [newsock EXCEPT ![t] = 0]
      /\ pc'[t] = "app" /\ \A u \in Servers : u # t => pc'[u] = pc[u]
  BY <1>1, Going DEF NumberSocket, At
<1>3. c \in Conns /\ socket[c] \in Int /\ i >= 0 /\ i \in Int /\ rcvevent[i] = 0
  BY <1>1, <1>2, CountsAreInt DEF Slots, EventInv, HandSound
<1>4. /\ rcvevent' \in [Slots -> Int] /\ rcvevent'[i] = -1 - socket[c]
      /\ \A j \in Slots : j # i => rcvevent'[j] = rcvevent[j]
  BY <1>2, <1>3 DEF EventInv, EventTyped
<1>5. socket'[c] = i /\ \A d \in Conns : d # c => socket'[d] = socket[d]
  BY <1>2, <1>3 DEF ConnInv, ConnTyped
<1>6. \A u \in Servers : u # t => newconn'[u] = newconn[u] /\ newsock'[u] = newsock[u]
  BY <1>2 DEF ConnInv, ConnTyped
<1>7. Owns(t, i) /\ \A u \in Servers : u # t => newconn[u] # c /\ ~Owns(u, i)
  <2>1. Owns(t, i) /\ c # NULL
    BY <1>1, <1>2, <1>3 DEF Owns
  <2> QED
    BY <1>1, <2>1 DEF Apart, ConnInv
<1>8. EventTyped'
  BY <1>2, <1>4 DEF EventInv, EventTyped, Pending
<1>9. ASSUME NEW x \in Callers PROVE EventSound(x)'
  <2>1. EventSound(x) /\ (Pending(x) => event[x].conn \in Conns)
    BY DEF EventInv, EventTyped, Events
  <2>2. x = t => ~Pending(x)
    BY <1>2 DEF Pending
  <2>3. CASE event[x].conn = c
    <3>1. Pending(x) => event[x].at # "set"
      BY <1>1, <1>3, <2>1, <2>3 DEF EventSound, Slots
    <3> QED
      BY <1>1, <1>2, <1>3, <1>5, <2>1, <2>2, <2>3, <3>1 DEF EventSound, Pending
  <2>4. CASE event[x].conn # c
    BY <1>2, <1>5, <1>6, <2>1, <2>2, <2>4 DEF EventSound, Pending
  <2> QED
    BY <2>3, <2>4
<1>10. ASSUME NEW u \in Servers PROVE HandSound(u)'
  <2>1. HandSound(u)
    BY DEF EventInv
  <2>2. CASE u = t
    BY <1>2, <2>2 DEF HandSound
  <2>3. CASE u # t
    <3>1. pc[u] = "number" => newsock[u] \in Slots /\ newsock[u] # i
      BY <1>7, <2>3 DEF ConnInv, ConnTyped, ServerSound, Owns
    <3>2. pc[u] = "delete" => newconn[u] \in Conns /\ newconn[u] # c
      BY <1>7, <2>3 DEF ConnInv, ConnTyped, ServerSound
    <3> QED
      BY <1>2, <1>4, <1>5, <1>6, <2>1, <2>3, <3>1, <3>2 DEF HandSound
  <2> QED
    BY <2>2, <2>3
<1>11. ASSUME NEW d \in open PROVE Balanced(d)'
  <2>1. ASSUME NEW v PROVE Coming(d, v)' = Coming(d, v)
    BY <1>2, ComingSame DEF Brings, Pending
  <2>2. d \in Conns /\ socket[d] \in Int /\ Messages(d)' = Messages(d)
    BY <1>2, CountsAreInt DEF Messages
  <2>4. Counted(d)' = Counted(d)
    <3>1. CASE d = c
      BY <1>1, <1>3, <1>4, <1>5, <2>2, <3>1 DEF Counted
    <3>2. CASE d # c
      <4>1. socket[d] >= 0 => socket[d] # i /\ socket[d] \in Slots
        BY <1>7, NumberIsOwn
      <4> QED
        BY <1>4, <1>5, <2>2, <3>2, <4>1 DEF Counted
    <3> QED
      BY <3>1, <3>2
  <2> QED
    BY <1>2, <2>1, <2>2, <2>4 DEF Balanced, EventInv
<1> QED
  BY <1>2, <1>8, <1>9, <1>10, <1>11 DEF EventInv

\* An event is raised of an open connection, and the other events stay what they were.
LEMMA RaiseSound ==
  ASSUME ConnInv, EventInv, NEW u \in Callers, NEW c \in open, NEW evt \in {1, -1},
         Raise(u, c, evt), event[u] = NULL,
         UNCHANGED rcvevent, recvmbox' \in [Conns -> Int], lost' \in [Conns -> Int],
         socket'[c] = socket[c],
         c \in open' \/ (u \in Servers /\ pc'[u] = "delete" /\ newconn'[u] = c),
         evt = -1 => socket[c] >= 0,
         u \in Servers => \/ c = Listener \/ socket[c] >= 0
                          \/ pc'[u] = "delete" /\ newconn'[u] = c,
         \A x \in Callers : x # u /\ Pending(x) =>
           /\ socket'[event[x].conn] = socket[event[x].conn]
           /\ event[x].conn \in open => event[x].conn \in open'
           /\ x \in Servers => pc'[x] = pc[x] /\ newconn'[x] = newconn[x]
  PROVE  /\ EventTyped' /\ \A x \in Callers : EventSound(x)'
         /\ Cardinality(Coming(c, evt)') = Cardinality(Coming(c, evt)) + 1
         /\ \A d, v : d # c \/ v # evt => Coming(d, v)' = Coming(d, v)
<1>0. ConnTyped /\ EventTyped /\ c \in Conns
  BY DEF ConnInv, ConnTyped, EventInv
<1>1. /\ event' = [x \in Callers |-> event'[x]]
      /\ Pending(u)' /\ event'[u] \in Events /\ event'[u].conn = c /\ event'[u].evt = evt
      /\ event'[u].s = socket[c] /\ event'[u].at = (IF socket[c] < 0 THEN "count" ELSE "set")
      /\ event'[u] = [k \in Fields |-> event'[u][k]]
      /\ \A x \in Callers : x # u => event'[x] = event[x]
  BY <1>0, RaiseAdds
<1>2. EventTyped'
  <2>1. ASSUME NEW x \in Callers
        PROVE  /\ event'[x] # NULL => event'[x] = [k \in Fields |-> event'[x][k]]
               /\ Pending(x)' => event'[x] \in Events
    BY <1>0, <1>1 DEF EventTyped, Pending
  <2> QED
    BY <1>0, <1>1, <2>1 DEF EventTyped
<1>3. ASSUME NEW x \in Callers PROVE EventSound(x)'
  <2>1. CASE x = u
    <3>1. socket[c] \in Int /\ (socket[c] >= 0 => socket[c] \in Slots)
      BY <1>0, NumberIsOwn DEF ConnTyped
    <3> QED
      BY <1>1, <2>1, <3>1 DEF EventSound
  <2>2. CASE x # u
    <3>1. EventSound(x) /\ event'[x] = event[x] /\ (Pending(x)' <=> Pending(x))
      BY <1>1, <2>2 DEF EventInv, Pending
    <3> QED
      BY <2>2, <3>1 DEF EventSound
  <2> QED
    BY <2>1, <2>2
<1>4. ~Pending(u)
  BY DEF Pending
<1>5. Cardinality(Coming(c, evt)') = Cardinality(Coming(c, evt)) + 1
  BY <1>1, <1>4, ComingMore DEF Brings, Pending
<1>6. ASSUME NEW d, NEW v, d # c \/ v # evt PROVE Coming(d, v)' = Coming(d, v)
  <2>1. ~Brings(u, d, v)' /\ ~Brings(u, d, v)
    BY <1>1, <1>4, <1>6 DEF Brings
  <2>2. \A x \in Callers : x # u => (Brings(x, d, v)' <=> Brings(x, d, v))
    BY <1>1 DEF Brings, Pending
  <2> QED
    BY <2>1, <2>2, ComingSame
<1> QED
  BY <1>2, <1>3, <1>5, <1>6

\* The connections other than c, of which the event is, are balanced as before.
LEMMA OthersBalanced ==
  ASSUME ConnInv, EventInv, NEW d \in open,
         \A v : Coming(d, v)' = Coming(d, v),
         UNCHANGED rcvevent, socket'[d] = socket[d], lost'[d] = lost[d], Messages(d)' = Messages(d)
  PROVE  Balanced(d)'
<1>1. Counted(d)' = Counted(d)
  BY DEF Counted
<1> QED
  BY <1>1 DEF Balanced, EventInv

\* So is c itself, if what it has, lost messages included, changes by the event.
LEMMA RaisedBalanced ==
  ASSUME ConnInv, EventInv, NEW c \in open, NEW evt \in {1, -1},
         Cardinality(Coming(c, evt)') = Cardinality(Coming(c, evt)) + 1,
         \A v : v # evt => Coming(c, v)' = Coming(c, v),
         UNCHANGED rcvevent, socket'[c] = socket[c],
         Messages(c)' + lost'[c] = Messages(c) + lost[c] + evt
  PROVE  Balanced(c)'
<1>1. /\ Counted(c) \in Int /\ Messages(c) \in Int /\ lost[c] \in Int
      /\ Cardinality(Coming(c, 1)) \in Nat /\ Cardinality(Coming(c, -1)) \in Nat
      /\ Balanced(c)
  BY CountsAreInt
<1>2. Counted(c)' = Counted(c)
  BY DEF Counted
<1>3. CASE evt = 1
  <2>1. Coming(c, -1)' = Coming(c, -1)
    BY <1>3
  <2> QED
    BY <1>1, <1>2, <1>3, <2>1 DEF Balanced
<1>4. CASE evt = -1
  <2>1. Coming(c, 1)' = Coming(c, 1)
    BY <1>4
  <2> QED
    BY <1>1, <1>2, <1>4, <2>1 DEF Balanced
<1> QED
  BY <1>3, <1>4

\* tcpip_thread calls event_callback, and is no server.
LEMMA TcpipCalls == "tcpip" \in Callers /\ "tcpip" \notin Servers
BY SocketsAssumption DEF Callers

\* A message comes for c.
LEMMA DeliverStep ==
  ASSUME ConnInv, EventInv, NEW c \in Conns, Deliver(c)
  PROVE  EventInv'
<1>0. ConnTyped /\ EventTyped
  BY DEF ConnInv, EventInv
<1>1. /\ c \in open \ {Listener} /\ event["tcpip"] = NULL /\ Raise("tcpip", c, 1)
      /\ UNCHANGED <<rcvevent, socket, open, acceptmbox, newconn, newsock, pc>>
  BY DEF Deliver, CoreLockFree
<1>2. /\ recvmbox' \in [Conns -> Int] /\ lost' \in [Conns -> Int]
      /\ recvmbox'[c] + lost'[c] = recvmbox[c] + lost[c] + 1
      /\ \A d \in Conns : d # c => recvmbox'[d] = recvmbox[d] /\ lost'[d] = lost[d]
  <2>1. CASE recvmbox' = [recvmbox EXCEPT ![c] = @ + 1] /\ UNCHANGED lost
    BY <1>0, <2>1 DEF EventTyped
  <2>2. CASE lost' = [lost EXCEPT ![c] = @ + 1] /\ UNCHANGED recvmbox
    BY <1>0, <2>2 DEF EventTyped
  <2> QED
    BY <2>1, <2>2 DEF Deliver
<1>3. /\ EventTyped' /\ \A x \in Callers : EventSound(x)'
      /\ Cardinality(Coming(c, 1)') = Cardinality(Coming(c, 1)) + 1
      /\ \A d, v : d # c \/ v # 1 => Coming(d, v)' = Coming(d, v)
  BY <1>1, <1>2, TcpipCalls, RaiseSound
<1>4. \A t \in Servers : HandSound(t)'
  BY <1>1 DEF HandSound, EventInv
<1>5. ASSUME NEW d \in open PROVE Balanced(d)'
  <2>1. d \in Conns
    BY <1>0 DEF ConnTyped
  <2>2. CASE d = c
    <3>1. Messages(c)' + lost'[c] = Messages(c) + lost[c] + 1
      BY <1>1, <1>2 DEF Messages
    <3> QED
      BY <1>1, <1>3, <2>2, <3>1, RaisedBalanced
  <2>3. CASE d # c
    <3>1. Messages(d)' = Messages(d) /\ lost'[d] = lost[d]
      BY <1>1, <1>2, <2>1, <2>3 DEF Messages
    <3> QED
      BY <1>1, <1>3, <2>3, <3>1, OthersBalanced
  <2> QED
    BY <2>2, <2>3
<1> QED
  BY <1>1, <1>3, <1>4, <1>5 DEF EventInv

\* A server takes a message of socket i.
LEMMA RecvStep ==
  ASSUME ConnInv, EventInv, NEW t \in Servers, NEW i \in Slots, Recv(t, i)
  PROVE  EventInv'
<1>0. ConnTyped /\ EventTyped /\ t \in Callers
  BY DEF ConnInv, EventInv, Callers
<1>1. PICK c \in Conns \ {Listener} :
        /\ c = conn[i] /\ socket[c] = i /\ ~Holds(c) /\ event[t] = NULL /\ Raise(t, c, -1)
        /\ recvmbox' = [recvmbox EXCEPT ![c] = @ - 1]
        /\ UNCHANGED <<rcvevent, socket, open, acceptmbox, newconn, newsock, pc, lost>>
  BY DEF Recv, Usable, At, Holds
<1>2. socket[c] >= 0 /\ c \in open
  <2>1. ConnSound(c) /\ socket[c] >= 0 /\ ~(socket[c] < 0)
    BY <1>1 DEF ConnInv, Slots
  <2> QED
    BY <1>1, <2>1 DEF ConnSound
<1>3. /\ recvmbox' \in [Conns -> Int] /\ lost' \in [Conns -> Int]
      /\ recvmbox'[c] + lost'[c] = recvmbox[c] + lost[c] + -1
      /\ \A d \in Conns : d # c => recvmbox'[d] = recvmbox[d] /\ lost'[d] = lost[d]
  BY <1>0, <1>1 DEF EventTyped
<1>4. /\ EventTyped' /\ \A x \in Callers : EventSound(x)'
      /\ Cardinality(Coming(c, -1)') = Cardinality(Coming(c, -1)) + 1
      /\ \A d, v : d # c \/ v # -1 => Coming(d, v)' = Coming(d, v)
  BY <1>0, <1>1, <1>2, <1>3, RaiseSound
<1>5. \A u \in Servers : HandSound(u)'
  BY <1>1 DEF HandSound, EventInv
<1>6. ASSUME NEW d \in open PROVE Balanced(d)'
  <2>1. d \in Conns
    BY <1>0 DEF ConnTyped
  <2>2. CASE d = c
    <3>1. Messages(c)' + lost'[c] = Messages(c) + lost[c] + -1
      BY <1>1, <1>3 DEF Messages
    <3> QED
      BY <1>1, <1>4, <2>2, <3>1, RaisedBalanced
  <2>3. CASE d # c
    <3>1. Messages(d)' = Messages(d)
      BY <1>1, <1>3, <2>1, <2>3 DEF Messages
    <3> QED
      BY <1>1, <1>4, <2>3, <3>1, OthersBalanced
  <2> QED
    BY <2>2, <2>3
<1> QED
  BY <1>1, <1>4, <1>5, <1>6 DEF EventInv

\* Pending events are of netconns that are allocated.
LEMMA PendingAllocated ==
  ASSUME ConnInv, EventInv, NEW x \in Callers, Pending(x)
  PROVE  /\ event[x].conn \in netconns /\ event[x].conn \in Conns
         /\ event[x].conn \notin open => x \in Servers /\ pc[x] = "delete" /\ newconn[x] = event[x].conn
<1>1. EventSound(x)
  BY DEF EventInv
<1>2. \A t \in Servers : pc[t] = "delete" => newconn[t] \in netconns
  BY DEF ConnInv, ServerSound
<1> QED
  BY <1>1, <1>2 DEF EventSound, ConnInv, ConnTyped

\* The stack has accepted c.
LEMMA AcceptFunctionCounts ==
  ASSUME ConnInv, EventInv, NEW c \in Conns, AcceptFunction(c)
  PROVE  EventInv'
<1> USE SocketsAssumption
<1>0. ConnTyped /\ EventTyped /\ Listener \in open
  BY DEF ConnInv, EventInv, ConnTyped
<1>1. /\ event["tcpip"] = NULL /\ Raise("tcpip", Listener, 1) /\ c \notin netconns
      /\ socket' = [socket EXCEPT ![c] = -1] /\ recvmbox' = [recvmbox EXCEPT ![c] = 0]
      /\ open' = open \cup {c} /\ UNCHANGED <<rcvevent, newconn, newsock, pc>>
  BY DEF AcceptFunction, CoreLockFree
<1>2. c # Listener /\ c \notin open
  BY <1>0, <1>1 DEF ConnTyped
<1>3. /\ lost' \in [Conns -> Int] /\ lost'[c] = 0
      /\ \A d \in Conns : d # c /\ d # Listener => lost'[d] = lost[d]
      /\ Len(acceptmbox') + lost'[Listener] = Len(acceptmbox) + lost[Listener] + 1
  <2>1. acceptmbox \in Seq(Conns \cup {NULL}) /\ c \in Conns \cup {NULL} /\ Listener \in Conns
    BY <1>0 DEF ConnTyped
  <2>2. CASE acceptmbox' = Append(acceptmbox, c) /\ lost' = [lost EXCEPT ![c] = 0]
    <3>1. Len(acceptmbox') = Len(acceptmbox) + 1 /\ Len(acceptmbox) \in Nat
      BY <2>1, <2>2
    <3>2. lost \in [Conns -> Int]
      BY <1>0 DEF EventTyped
    <3>3. lost' \in [Conns -> Int] /\ lost'[c] = 0
          /\ \A d \in Conns : d # c => lost'[d] = lost[d]
      BY <2>2, <3>2
    <3>4. lost'[Listener] = lost[Listener] /\ lost[Listener] \in Int
      BY <1>2, <2>1, <3>2, <3>3
    <3> QED
      BY <3>1, <3>3, <3>4
  <2>3. CASE lost' = [lost EXCEPT ![c] = 0, ![Listener] = @ + 1] /\ UNCHANGED acceptmbox
    <3>1. Len(acceptmbox) \in Nat /\ Len(acceptmbox') = Len(acceptmbox)
      BY <2>1, <2>3
    <3>2. lost \in [Conns -> Int]
      BY <1>0 DEF EventTyped
    <3>3. lost' \in [Conns -> Int] /\ lost'[c] = 0 /\ lost'[Listener] = lost[Listener] + 1
          /\ \A d \in Conns : d # c /\ d # Listener => lost'[d] = lost[d]
      BY <1>2, <2>1, <2>3, <3>2
    <3>4. lost[Listener] \in Int
      BY <2>1, <3>2
    <3> QED
      BY <3>1, <3>3, <3>4
  <2> QED
    BY <2>2, <2>3 DEF AcceptFunction
<1>4. recvmbox' \in [Conns -> Int] /\ recvmbox'[c] = 0
      /\ \A d \in Conns : d # c => recvmbox'[d] = recvmbox[d]
  BY <1>0, <1>1 DEF EventTyped
<1>5. socket'[c] = -1 /\ \A d \in Conns : d # c => socket'[d] = socket[d]
  BY <1>0, <1>1 DEF ConnTyped
<1>6. \A x \in Callers : Pending(x) => event[x].conn # c /\ event[x].conn \in Conns
  BY <1>1, PendingAllocated
<1>7. /\ EventTyped' /\ \A x \in Callers : EventSound(x)'
      /\ Cardinality(Coming(Listener, 1)') = Cardinality(Coming(Listener, 1)) + 1
      /\ \A d, v : d # Listener \/ v # 1 => Coming(d, v)' = Coming(d, v)
  <2>1. Listener \in open' /\ socket'[Listener] = socket[Listener]
    BY <1>0, <1>1, <1>2, <1>5
  <2>2. \A x \in Callers : Pending(x) =>
          /\ socket'[event[x].conn] = socket[event[x].conn]
          /\ event[x].conn \in open => event[x].conn \in open'
          /\ x \in Servers => pc'[x] = pc[x] /\ newconn'[x] = newconn[x]
    BY <1>1, <1>5, <1>6
  <2> QED
    BY <1>0, <1>1, <1>3, <1>4, <2>1, <2>2, TcpipCalls, RaiseSound
<1>8. ASSUME NEW t \in Servers PROVE HandSound(t)'
  <2>1. pc[t] = "delete" => newconn[t] \in netconns /\ newconn[t] \in Conns
    BY <1>0 DEF ConnInv, ServerSound, ConnTyped
  <2> QED
    BY <1>1, <1>5, <2>1 DEF HandSound, EventInv
<1>9. ASSUME NEW d \in open' PROVE Balanced(d)'
  <2>1. d \in Conns
    BY <1>0, <1>1 DEF ConnTyped
  <2>2. CASE d = c
    <3>1. ASSUME NEW v PROVE Cardinality(Coming(c, v)') = 0
      <4>1. Coming(c, v) = {}
        BY <1>6, ComingFinite DEF Brings
      <4>2. Coming(c, v)' = {}
        BY <1>2, <1>7, <4>1
      <4> QED
        BY <4>2, FS_EmptySet
    <3>2. Counted(c)' = 0 /\ Messages(c)' = 0 /\ lost'[c] = 0
      BY <1>2, <1>3, <1>4, <1>5 DEF Counted, Messages
    <3> QED
      BY <2>2, <3>1, <3>2 DEF Balanced
  <2>3. CASE d = Listener
    <3>1. Messages(d)' + lost'[d] = Messages(d) + lost[d] + 1
      BY <1>3, <2>3 DEF Messages
    <3> QED
      BY <1>0, <1>1, <1>2, <1>5, <1>7, <2>1, <2>3, <3>1, RaisedBalanced
  <2>4. CASE d # c /\ d # Listener
    <3>1. Messages(d)' = Messages(d) /\ lost'[d] = lost[d] /\ socket'[d] = socket[d] /\ d \in open
      BY <1>1, <1>3, <1>4, <1>5, <2>1, <2>4 DEF Messages
    <3> QED
      BY <1>1, <1>7, <2>4, <3>1, OthersBalanced
  <2> QED
    BY <2>2, <2>3, <2>4
<1> QED
  BY <1>7, <1>8, <1>9 DEF EventInv

\* The stack could not accept.
LEMMA AcceptAbortsCounts ==
  ASSUME ConnInv, EventInv, AcceptAborts
  PROVE  EventInv'
<1> USE SocketsAssumption
<1>0. ConnTyped /\ EventTyped /\ Listener \in open
  BY DEF ConnInv, EventInv, ConnTyped
<1>1. /\ event["tcpip"] = NULL /\ Raise("tcpip", Listener, 1)
      /\ UNCHANGED <<rcvevent, socket, open, recvmbox, newconn, newsock, pc>>
  BY DEF AcceptAborts, CoreLockFree
<1>2. /\ lost' \in [Conns -> Int] /\ \A d \in Conns : d # Listener => lost'[d] = lost[d]
      /\ Len(acceptmbox') + lost'[Listener] = Len(acceptmbox) + lost[Listener] + 1
  <2>1. acceptmbox \in Seq(Conns \cup {NULL}) /\ Listener \in Conns /\ Len(acceptmbox) \in Nat
    BY <1>0 DEF ConnTyped
  <2>2. CASE acceptmbox' = Append(acceptmbox, NULL) /\ UNCHANGED lost
    <3>1. Len(acceptmbox') = Len(acceptmbox) + 1
      BY <2>1, <2>2
    <3>2. lost' = lost /\ lost \in [Conns -> Int] /\ lost[Listener] \in Int
      BY <1>0, <2>1, <2>2 DEF EventTyped
    <3> QED
      BY <2>1, <3>1, <3>2
  <2>3. CASE lost' = [lost EXCEPT ![Listener] = @ + 1] /\ UNCHANGED acceptmbox
    <3>1. lost \in [Conns -> Int] /\ lost[Listener] \in Int
      BY <1>0, <2>1 DEF EventTyped
    <3>2. lost' \in [Conns -> Int] /\ lost'[Listener] = lost[Listener] + 1
          /\ \A d \in Conns : d # Listener => lost'[d] = lost[d]
      BY <2>1, <2>3, <3>1
    <3> QED
      BY <2>1, <2>3, <3>1, <3>2
  <2> QED
    BY <2>2, <2>3 DEF AcceptAborts
<1>3. /\ EventTyped' /\ \A x \in Callers : EventSound(x)'
      /\ Cardinality(Coming(Listener, 1)') = Cardinality(Coming(Listener, 1)) + 1
      /\ \A d, v : d # Listener \/ v # 1 => Coming(d, v)' = Coming(d, v)
  <2>1. recvmbox' \in [Conns -> Int]
    BY <1>0, <1>1 DEF EventTyped
  <2> QED
    BY <1>0, <1>1, <1>2, <2>1, TcpipCalls, RaiseSound
<1>4. \A t \in Servers : HandSound(t)'
  BY <1>1 DEF HandSound, EventInv
<1>5. ASSUME NEW d \in open PROVE Balanced(d)'
  <2>1. d \in Conns
    BY <1>0 DEF ConnTyped
  <2>2. CASE d = Listener
    <3>1. Messages(d)' + lost'[d] = Messages(d) + lost[d] + 1
      BY <1>2, <2>2 DEF Messages
    <3> QED
      BY <1>0, <1>1, <1>3, <2>2, <3>1, RaisedBalanced
  <2>3. CASE d # Listener
    <3>1. Messages(d)' = Messages(d) /\ lost'[d] = lost[d]
      BY <1>1, <1>2, <2>1, <2>3 DEF Messages
    <3> QED
      BY <1>1, <1>3, <2>3, <3>1, OthersBalanced
  <2> QED
    BY <2>2, <2>3
<1> QED
  BY <1>1, <1>3, <1>4, <1>5 DEF EventInv

\* A server takes the first of acceptmbox.
LEMMA AcceptCounts ==
  ASSUME Typed, ConnInv, EventInv, NEW t \in Servers, Accept(t)
  PROVE  EventInv'
<1> USE SocketsAssumption
<1>0. ConnTyped /\ EventTyped /\ Listener \in open /\ t \in Callers
  BY DEF ConnInv, EventInv, ConnTyped, Callers
<1>1. /\ event[t] = NULL /\ Raise(t, Listener, -1) /\ acceptmbox # <<>>
      /\ acceptmbox' = Tail(acceptmbox)
      /\ newconn' = [newconn EXCEPT ![t] = Head(acceptmbox)]
      /\ \E l \in {"app", "alloc"} : Goto(t, l)
      /\ UNCHANGED <<rcvevent, socket, open, recvmbox, newsock, lost>>
  BY DEF Accept, At
<1>2. Len(acceptmbox') = Len(acceptmbox) - 1 /\ Len(acceptmbox) \in Nat
  <2>1. acceptmbox \in Seq(Conns \cup {NULL})
    BY <1>0 DEF ConnTyped
  <2> QED
    BY <1>1, <2>1
<1>3. /\ pc'[t] \in {"app", "alloc"}
      /\ \A u \in Servers : u # t => pc'[u] = pc[u] /\ newconn'[u] = newconn[u]
  BY <1>0, <1>1, Going DEF ConnTyped
<1>4. /\ EventTyped' /\ \A x \in Callers : EventSound(x)'
      /\ Cardinality(Coming(Listener, -1)') = Cardinality(Coming(Listener, -1)) + 1
      /\ \A d, v : d # Listener \/ v # -1 => Coming(d, v)' = Coming(d, v)
  <2>1. recvmbox' \in [Conns -> Int] /\ lost' \in [Conns -> Int] /\ socket[Listener] >= 0
    BY <1>0, <1>1 DEF EventTyped, ConnTyped
  <2> QED
    BY <1>0, <1>1, <1>3, <2>1, RaiseSound
<1>5. ASSUME NEW u \in Servers PROVE HandSound(u)'
  BY <1>1, <1>3 DEF HandSound, EventInv
<1>6. ASSUME NEW d \in open PROVE Balanced(d)'
  <2>1. d \in Conns
    BY <1>0 DEF ConnTyped
  <2>2. CASE d = Listener
    <3>1. Messages(d)' + lost'[d] = Messages(d) + lost[d] + -1
      BY <1>0, <1>1, <1>2, <2>1, <2>2 DEF Messages, EventTyped
    <3> QED
      BY <1>0, <1>1, <1>4, <2>2, <3>1, RaisedBalanced
  <2>3. CASE d # Listener
    <3>1. Messages(d)' = Messages(d)
      BY <1>1, <2>3 DEF Messages
    <3> QED
      BY <1>1, <1>4, <2>3, <3>1, OthersBalanced
  <2> QED
    BY <2>2, <2>3
<1> QED
  BY <1>1, <1>4, <1>5, <1>6 DEF EventInv

\* A server deletes c, and no other event of c is under way.
LEMMA DeleteCounts ==
  ASSUME Typed, ConnInv, EventInv, NEW t \in Servers, NEW c \in open \ {Listener},
         NEW i \in Slots \cup {-1},
         DeleteNetconn(t, c), newsock' = [newsock EXCEPT ![t] = i], event[t] = NULL,
         \A x \in Callers : Pending(x) => event[x].conn # c,
         IF i = -1 THEN socket[c] < 0 ELSE socket[c] = i
  PROVE  EventInv'
<1>0. ConnTyped /\ EventTyped /\ t \in Callers /\ c \in Conns
  BY DEF ConnInv, EventInv, ConnTyped, Callers
<1>1. /\ Raise(t, c, 1) /\ open' = open \ {c} /\ recvmbox' = [recvmbox EXCEPT ![c] = 0]
      /\ newconn' = [newconn EXCEPT ![t] = c]
      /\ pc'[t] = "delete" /\ \A u \in Servers : u # t => pc'[u] = pc[u]
      /\ UNCHANGED <<rcvevent, socket, acceptmbox, lost>>
  BY Going DEF DeleteNetconn
<1>2. newconn'[t] = c /\ newsock'[t] = i
      /\ \A u \in Servers : u # t => newconn'[u] = newconn[u] /\ newsock'[u] = newsock[u]
  BY <1>0, <1>1 DEF ConnTyped
<1>3. recvmbox' \in [Conns -> Int] /\ \A d \in Conns : d # c => recvmbox'[d] = recvmbox[d]
  BY <1>0, <1>1 DEF EventTyped
<1>4. /\ EventTyped' /\ \A x \in Callers : EventSound(x)'
      /\ \A d, v : d # c \/ v # 1 => Coming(d, v)' = Coming(d, v)
  <2>1. lost' \in [Conns -> Int]
    BY <1>0, <1>1 DEF EventTyped
  <2>2. \A x \in Callers : x # t /\ Pending(x) =>
          /\ socket'[event[x].conn] = socket[event[x].conn]
          /\ event[x].conn \in open => event[x].conn \in open'
          /\ x \in Servers => pc'[x] = pc[x] /\ newconn'[x] = newconn[x]
    BY <1>1, <1>2
  <2> QED
    BY <1>0, <1>1, <1>2, <1>3, <2>1, <2>2, RaiseSound
<1>5. ASSUME NEW u \in Servers PROVE HandSound(u)'
  <2>1. CASE u = t
    BY <1>1, <1>2, <2>1 DEF HandSound
  <2>2. CASE u # t
    BY <1>1, <1>2, <2>2 DEF HandSound, EventInv
  <2> QED
    BY <2>1, <2>2
<1>6. ASSUME NEW d \in open' PROVE Balanced(d)'
  <2>1. d \in open /\ d # c /\ d \in Conns
    BY <1>0, <1>1 DEF ConnTyped
  <2>2. Messages(d)' = Messages(d)
    BY <1>1, <1>3, <2>1 DEF Messages
  <2> QED
    BY <1>1, <1>4, <2>1, <2>2, OthersBalanced
<1> QED
  BY <1>4, <1>5, <1>6 DEF EventInv

\* lwip_close keeps EventInv.
LEMMA CloseCounts ==
  ASSUME Typed, ConnInv, EventInv, NEW t \in Servers, NEW i \in Slots, Close(t, i)
  PROVE  EventInv'
<1> USE SocketsAssumption
<1>1. PICK c \in Conns \ {Listener} :
        /\ c = conn[i] /\ socket[c] = i /\ DeleteNetconn(t, c) /\ event[t] = NULL
        /\ ~Holds(c) /\ newsock' = [newsock EXCEPT ![t] = i]
        /\ event["tcpip"] = NULL
        /\ \A u \in Servers : event[u] # NULL => event[u].conn # c
  BY DEF Close, Usable, At, DeleteNetconn, CoreLockFree, Holds
<1>2. c \in open /\ i # -1
  <2>1. ConnSound(c) /\ ~(socket[c] < 0) /\ i # -1
    BY <1>1 DEF ConnInv, Slots
  <2> QED
    BY <1>1, <2>1 DEF ConnSound
<1>3. \A x \in Callers : Pending(x) => event[x].conn # c
  BY <1>1 DEF Callers, Pending
<1> QED
  BY <1>1, <1>2, <1>3, DeleteCounts

\* So does the end of lwip_accept when there was no socket.
LEMMA AcceptFailsCounts ==
  ASSUME Typed, ConnInv, EventInv, NEW t \in Servers, AcceptFails(t)
  PROVE  EventInv'
<1> USE SocketsAssumption
<1>1. PICK c : c = newconn[t]
  OBVIOUS
<1>2. /\ DeleteNetconn(t, c) /\ pc[t] = "noSocket" /\ event[t] = NULL
      /\ newsock' = [newsock EXCEPT ![t] = -1] /\ event["tcpip"] = NULL
  BY <1>1 DEF AcceptFails, At, DeleteNetconn, CoreLockFree
<1>3. c \in open \ {Listener} /\ socket[c] < 0 /\ c # NULL /\ socket[c] \in Int
  BY <1>1, <1>2 DEF ConnInv, ServerSound, ConnTyped
<1>4. ASSUME NEW x \in Callers, Pending(x) PROVE event[x].conn # c
  <2>1. x \in Servers /\ x # t
    BY <1>2, <1>4 DEF Callers, Pending
  <2>2. newconn[x] # c
    BY <1>1, <1>3, <2>1 DEF ConnInv, Apart
  <2>3. EventSound(x)
    BY DEF EventInv
  <2> QED
    BY <1>3, <1>4, <2>1, <2>2, <2>3 DEF EventSound
<1>5. -1 \in Slots \cup {-1}
  OBVIOUS
<1> QED
  BY <1>2, <1>3, <1>4, <1>5, DeleteCounts

\* The netconn is freed, and no event of it is under way.
LEMMA FreeNetconnCounts ==
  ASSUME Typed, ConnInv, EventInv, NEW t \in Servers, FreeNetconn(t)
  PROVE  EventInv'
<1> USE SocketsAssumption
<1>0. ConnTyped /\ EventTyped
  BY DEF ConnInv, EventInv
<1>1. PICK c : c = newconn[t]
  OBVIOUS
<1>2. /\ pc[t] = "delete" /\ event[t] = NULL
      /\ UNCHANGED <<rcvevent, open, recvmbox, acceptmbox, event>>
      /\ socket' = [socket EXCEPT ![c] = -1] /\ lost' = [lost EXCEPT ![c] = 0]
      /\ newconn' = [newconn EXCEPT ![t] = NULL]
  BY <1>1 DEF FreeNetconn, At
<1>3. /\ pc'[t] \in {"app", "freeSocket"}
      /\ \A u \in Servers : u # t => pc'[u] = pc[u] /\ newconn'[u] = newconn[u] /\ newsock'[u] = newsock[u]
  <2>1. CASE Goto(t, "app") /\ newsock' = [newsock EXCEPT ![t] = 0]
    BY <1>0, <1>2, <2>1, Going DEF ConnTyped
  <2>2. CASE Goto(t, "freeSocket") /\ UNCHANGED newsock
    BY <1>0, <1>2, <2>2, Going DEF ConnTyped
  <2> QED
    BY <2>1, <2>2 DEF FreeNetconn
<1>4. c \in netconns \ open /\ c \in Conns /\ c # NULL
  BY <1>0, <1>1, <1>2 DEF ConnInv, ServerSound, ConnTyped
<1>5. /\ lost' \in [Conns -> Int]
      /\ \A d \in Conns : d # c => socket'[d] = socket[d] /\ lost'[d] = lost[d]
  BY <1>0, <1>2 DEF ConnTyped, EventTyped
<1>6. \A u \in Servers : u # t => newconn[u] # c
  BY <1>1, <1>4 DEF ConnInv, Apart
<1>7. \A x \in Callers : Pending(x) => event[x].conn # c /\ event[x].conn \in Conns /\ x # t
  BY <1>2, <1>4, <1>6, PendingAllocated DEF Pending
<1>8. EventTyped'
  BY <1>0, <1>2, <1>5 DEF EventTyped, Pending
<1>9. ASSUME NEW x \in Callers PROVE EventSound(x)'
  <2>1. EventSound(x)
    BY DEF EventInv
  <2> QED
    BY <1>2, <1>3, <1>5, <1>7, <2>1 DEF EventSound, Pending
<1>10. ASSUME NEW u \in Servers PROVE HandSound(u)'
  <2>1. HandSound(u)
    BY DEF EventInv
  <2>2. CASE u = t
    BY <1>3, <2>2 DEF HandSound
  <2>3. CASE u # t
    <3>1. pc[u] = "delete" => newconn[u] \in Conns /\ newconn[u] # c
      BY <1>0, <1>6, <2>3 DEF ConnInv, ServerSound, ConnTyped
    <3> QED
      BY <1>2, <1>3, <1>5, <2>1, <2>3, <3>1 DEF HandSound
  <2> QED
    BY <2>2, <2>3
<1>11. ASSUME NEW d \in open PROVE Balanced(d)'
  <2>1. d \in Conns /\ d # c
    BY <1>0, <1>4 DEF ConnTyped
  <2>2. \A v : Coming(d, v)' = Coming(d, v)
    BY <1>2, ComingSame DEF Brings, Pending
  <2>3. Messages(d)' = Messages(d)
    BY <1>2 DEF Messages
  <2> QED
    BY <1>2, <1>5, <2>1, <2>2, <2>3, OthersBalanced
<1> QED
  BY <1>2, <1>8, <1>9, <1>10, <1>11 DEF EventInv

\* Steps of event_callback along the list of the selects.
LEMMA NextSelectCbCounts ==
  ASSUME EventInv, NEW u \in Callers, NextSelectCb(u)
  PROVE  EventInv'
<1>1. /\ UNCHANGED <<rcvevent, socket, open, recvmbox, acceptmbox, lost, newconn, newsock, pc>>
      /\ event[u] # NULL /\ event[u].at = "walk" /\ \E scb : Visit(u, scb)
  BY DEF NextSelectCb, Calls
<1>2. /\ event' = [x \in Callers |-> event'[x]]
      /\ ~Pending(u)' /\ (event'[u] # NULL => event'[u] = [k \in Fields |-> event'[u][k]])
      /\ \A x \in Callers : x # u => event'[x] = event[x]
  BY <1>1, VisitCounts DEF EventInv
<1>3. ASSUME NEW x \in Callers
      PROVE  /\ Pending(x)' <=> Pending(x)
             /\ Pending(x) => event'[x] = event[x]
             /\ event'[x] # NULL => event'[x] = [k \in Fields |-> event'[x][k]]
  <2>1. CASE x = u
    BY <1>1, <1>2, <2>1 DEF Pending
  <2>2. CASE x # u
    BY <1>2, <2>2 DEF Pending, EventInv, EventTyped
  <2> QED
    BY <2>1, <2>2
<1> QED
  BY <1>1, <1>2, <1>3, EventStays

\* Every step of the system keeps the invariant of the events.
LEMMA EventNext ==
  ASSUME IInv, ConnInv, EventInv, [Next]_vars
  PROVE  EventInv'
<1>0. Typed /\ EventTyped /\ ConnTyped
  BY DEF IInv, EventInv, ConnInv
<1>1. ASSUME UNCHANGED event
      PROVE  /\ event' = [x \in Callers |-> event'[x]]
             /\ \A x \in Callers :
                  /\ Pending(x)' <=> Pending(x)
                  /\ Pending(x) => event'[x] = event[x]
                  /\ event'[x] # NULL => event'[x] = [k \in Fields |-> event'[x][k]]
  BY <1>0, <1>1 DEF EventTyped, Pending
<1>2. CASE UNCHANGED vars
  BY <1>1, <1>2, EventStays DEF vars
<1>3. ASSUME NEW t \in Servers, AllocSocket(t) \/ FreeSocket(t)
      PROVE  EventInv'
  <2>1. /\ UNCHANGED <<rcvevent, socket, open, recvmbox, acceptmbox, lost, newconn, event>>
        /\ event[t] = NULL /\ pc[t] # "delete"
        /\ \A u \in Servers : u # t => newsock'[u] = newsock[u]
        /\ UNCHANGED pc \/ \E l \in {"app", "reset", "noSocket"} : Goto(t, l)
        /\ pc[t] \in {"alloc", "freeSocket"}
    BY <1>0, <1>3 DEF AllocSocket, FreeSocket, At, ConnTyped
  <2>2. /\ pc'[t] \notin {"number", "delete"}
        /\ \A u \in Servers : u # t => pc'[u] = pc[u]
    BY <1>0, <2>1, Going
  <2> QED
    BY <1>1, <2>1, <2>2, EventStays
<1>4. ASSUME NEW t \in Selectors,
             SelectStep(t) \/ Timeout(t) \/ \E S \in SUBSET Slots : Select(t, S)
      PROVE  EventInv'
  <2>1. /\ UNCHANGED <<rcvevent, socket, open, recvmbox, acceptmbox, lost, newconn, newsock>>
        /\ event' = event \/ ListChanges
        /\ \A u \in Servers : pc'[u] = pc[u] \/ (pc[u] \notin Busy /\ pc'[u] \notin Busy)
    BY <1>0, <1>4, SelectorStep
  <2>2. /\ event' = [x \in Callers |-> event'[x]]
        /\ \A x \in Callers :
             /\ Pending(x)' <=> Pending(x)
             /\ Pending(x) => event'[x] = event[x]
             /\ event'[x] # NULL => event'[x] = [k \in Fields |-> event'[x][k]]
    <3>1. CASE event' = event
      BY <1>1, <3>1
    <3>2. CASE ListChanges
      BY <1>0, <3>2, ListChangesKeeps DEF Pending
    <3> QED
      BY <2>1, <3>1, <3>2
  <2> QED
    BY <2>1, <2>2, EventStays DEF Busy, ServerLabels
<1> QED
  BY <1>0, <1>2, <1>3, <1>4, SetEventStep, CountBeforeAcceptStep, NextSelectCbCounts, DeliverStep,
     AcceptFunctionCounts, AcceptAbortsCounts, AcceptCounts, ResetStep, NumberStep, RecvStep,
     CloseCounts, AcceptFailsCounts, FreeNetconnCounts
     DEF Next, ServerStep, EventCallback

\* EventInv is an invariant.
THEOREM AlwaysEventInv == Spec => []EventInv
<1>1. IInv /\ ConnInv /\ EventInv /\ [Next]_vars => EventInv'
  BY EventNext
<1> QED
  BY <1>1, EventInit, AlwaysInv, AlwaysConnInv, PTL DEF Spec

\* rcvevent of a socket, or what stands for it before lwip_accept has given the
\* connection its number, is the number of messages in the mailbox up to the calls of
\* event_callback under way: no event is lost or counted twice.
THEOREM EventsAreCounted == Spec => []EventsMatchMessages
<1>1. EventInv => EventsMatchMessages
  BY DEF EventInv, Balanced, EventsMatchMessages
<1> QED
  BY <1>1, AlwaysEventInv, PTL

-----------------------------------------------------------------------------
(* The list of the selects, and the walks along it.                         *)

\* The selects on the list.
OnList == {select_cb_list[k] : k \in 1..Len(select_cb_list)}

\* The labels between Push and Unlink.
Listed == {"enter", "rescan", "wait", "leave", "unlink"}

\* The list holds every select between Push and Unlink, once.
ListInv ==
  /\ select_cb_list \in Seq(Selectors)
  /\ \A j, k \in 1..Len(select_cb_list) : select_cb_list[j] = select_cb_list[k] => j = k
  /\ \A t \in Selectors : t \in OnList <=> pc[t] \in Listed
  /\ sem_signalled \in [Selectors -> BOOLEAN]
  /\ \A t \in Selectors : pc[t] = "wait" => left[t] = {}
  /\ \A u \in Callers : Calls(u, "walk") =>
       event[u] \in Events /\ (~event[u].changed => event[u].scb \in OnList)

\* j comes before t on the list.
Before(j, t) ==
  \E m, n \in 1..Len(select_cb_list) : m < n /\ select_cb_list[m] = j /\ select_cb_list[n] = t

\* A select that a walk has yet to come to.
WalkComes(t, i) ==
  \E u \in Callers :
    Calls(u, "walk") /\ event[u].s = i /\ (event[u].changed \/ Before(event[u].scb, t))

\* The select t has looked at socket i.
Looked(t, i) == pc[t] \in {"rescan", "wait"} /\ i \in readset[t] \ left[t]

Missed(t, i) ==
  Looked(t, i) /\ ~sem_signalled[t] /\ IsReady(i) /\ <<t, i>> \notin early /\ ~WalkComes(t, i)

\* No select that has looked at a ready socket is left waiting without a signal.
SelectInv == ListInv /\ \A t \in Selectors, i \in Slots : ~Missed(t, i)

\* The initial states are in SelectInv.
LEMMA SelectInit == Init => SelectInv
<1> SUFFICES ASSUME Init PROVE SelectInv
  OBVIOUS
<1>1. Len(select_cb_list) = 0 /\ OnList = {} /\ select_cb_list \in Seq(Selectors)
  BY DEF Init, OnList
<1>2. \A t \in Selectors : pc[t] = "app"
  BY DEF Init, Tasks
<1>3. ListInv
  BY <1>1, <1>2 DEF Init, ListInv, Listed, Calls
<1> QED
  BY <1>2, <1>3 DEF SelectInv, Missed, Looked

\* Where a select of the list is, and what comes behind it.
LEMMA PlaceOnList ==
  ASSUME ListInv, NEW scb \in OnList
  PROVE  /\ Place(scb) \in 1..Len(select_cb_list) /\ select_cb_list[Place(scb)] = scb
         /\ \A t : Before(scb, t) => Behind(scb) = t \/ Before(Behind(scb), t)
         /\ Behind(scb) # NULL => Behind(scb) \in OnList
<1>1. /\ select_cb_list \in Seq(Selectors) /\ Len(select_cb_list) \in Nat
      /\ \A k \in 1..Len(select_cb_list) : select_cb_list[k] \in Selectors
  BY DEF ListInv
<1>2. \E k \in 1..Len(select_cb_list) : select_cb_list[k] = scb
  BY DEF OnList
<1>3. Place(scb) \in 1..Len(select_cb_list) /\ select_cb_list[Place(scb)] = scb
  BY <1>2 DEF Place
<1>4. PICK p \in 1..Len(select_cb_list) : p = Place(scb)
  BY <1>3
<1>5. \A t : Before(scb, t) => Behind(scb) = t \/ Before(Behind(scb), t)
  <2> SUFFICES ASSUME NEW t, Before(scb, t), Behind(scb) # t PROVE Before(Behind(scb), t)
    OBVIOUS
  <2>1. PICK m \in 1..Len(select_cb_list), n \in 1..Len(select_cb_list) :
          m < n /\ select_cb_list[m] = scb /\ select_cb_list[n] = t
    BY DEF Before
  <2>2. m = p
    BY <1>3, <1>4, <2>1 DEF ListInv
  <2>3. p < Len(select_cb_list) /\ Behind(scb) = select_cb_list[p + 1]
        /\ p + 1 \in 1..Len(select_cb_list)
    BY <1>1, <1>4, <2>1, <2>2 DEF Behind
  <2>4. p + 1 # n /\ p + 1 < n
    BY <1>1, <2>1, <2>2, <2>3
  <2> QED
    BY <2>1, <2>3, <2>4 DEF Before
<1>6. Behind(scb) # NULL => Behind(scb) \in OnList
  BY <1>1, <1>4 DEF Behind, OnList
<1> QED
  BY <1>3, <1>5, <1>6

\* The same of the first one.
LEMMA FirstOnList ==
  ASSUME ListInv
  PROVE  /\ First # NULL => First \in OnList
         /\ \A t \in OnList : First # NULL /\ (First = t \/ Before(First, t))
<1>1. /\ select_cb_list \in Seq(Selectors) /\ Len(select_cb_list) \in Nat
      /\ \A k \in 1..Len(select_cb_list) : select_cb_list[k] \in Selectors
  BY DEF ListInv
<1>2. CASE select_cb_list = <<>>
  BY <1>1, <1>2 DEF First, OnList
<1>3. CASE select_cb_list # <<>>
  <2>1. First = select_cb_list[1] /\ 1 \in 1..Len(select_cb_list)
    BY <1>1, <1>3 DEF First
  <2>2. First \in OnList /\ First # NULL
    BY <1>1, <2>1, SocketsAssumption DEF OnList
  <2>3. ASSUME NEW t \in OnList PROVE First = t \/ Before(First, t)
    <3>1. PICK k \in 1..Len(select_cb_list) : select_cb_list[k] = t
      BY DEF OnList
    <3>2. k = 1 \/ 1 < k
      OBVIOUS
    <3> QED
      BY <2>1, <3>1, <3>2 DEF Before
  <2> QED
    BY <2>2, <2>3
<1> QED
  BY <1>2, <1>3

\* What event_callback does at one select of the list.
LEMMA VisitSignals ==
  ASSUME ListInv, EventTyped, NEW u \in Callers, event[u] \in Events, NEW scb \in OnList, Visit(u, scb)
  PROVE  /\ Calls(u, "walk")' /\ event'[u] \in Events
         /\ event'[u].s = event[u].s /\ event'[u].scb = scb /\ event'[u].changed = FALSE
         /\ \A x \in Callers : x # u => event'[x] = event[x]
         /\ sem_signalled' \in [Selectors -> BOOLEAN]
         /\ \A t \in Selectors : sem_signalled[t] => sem_signalled'[t]
         /\ rcvevent'[event[u].s] > 0 /\ event[u].s \in readset[scb] => sem_signalled'[scb]
<1>1. scb \in Selectors /\ scb # NULL
  BY SocketsAssumption DEF ListInv, OnList
<1>2. /\ event' = [event EXCEPT ![u].at = "walk", ![u].scb = scb, ![u].changed = FALSE]
      /\ sem_signalled' = [sem_signalled EXCEPT ![scb] =
           @ \/ (rcvevent'[event[u].s] > 0 /\ event[u].s \in readset[scb])]
  BY <1>1 DEF Visit
<1>3. event'[u] = [[[event[u] EXCEPT !.at = "walk"] EXCEPT !.scb = scb] EXCEPT !.changed = FALSE]
      /\ \A x \in Callers : x # u => event'[x] = event[x]
  BY <1>2 DEF EventTyped
<1>4. event'[u] \in Events /\ event'[u].at = "walk" /\ event'[u].s = event[u].s
      /\ event'[u].scb = scb /\ event'[u].changed = FALSE
  BY <1>1, <1>3 DEF Events
<1>5. Calls(u, "walk")'
  BY <1>4, SocketsAssumption DEF Calls
<1>6. sem_signalled \in [Selectors -> BOOLEAN]
  BY DEF ListInv
<1>7. sem_signalled' = [t \in Selectors |-> IF t = scb
        THEN sem_signalled[t] \/ (rcvevent'[event[u].s] > 0 /\ event[u].s \in readset[scb])
        ELSE sem_signalled[t]]
  BY <1>2, <1>6
<1>8. /\ sem_signalled' \in [Selectors -> BOOLEAN]
      /\ \A t \in Selectors : sem_signalled[t] => sem_signalled'[t]
      /\ rcvevent'[event[u].s] > 0 /\ event[u].s \in readset[scb] => sem_signalled'[scb]
  BY <1>1, <1>6, <1>7
<1> QED
  BY <1>3, <1>4, <1>5, <1>8

\* A select that has looked at a socket is counted there, and is on the list.
LEMMA LookedCounts ==
  ASSUME IInv, ListInv, NEW t \in Selectors, NEW i \in Slots, Looked(t, i)
  PROVE  select_waiting[i] # 0 /\ t \in OnList /\ i \in readset[t]
<1>1. t \in WaitsFor(i)
  BY EntriesByLabel DEF Looked, WaitsFor
<1>2. Cardinality(WaitsFor(i)) \in Nat /\ Cardinality(WaitsFor(i)) # 0
  BY <1>1, WaitersFinite, FS_EmptySet
<1>3. select_waiting[i] # 0
  BY <1>2 DEF IInv, CountsAgree
<1> QED
  BY <1>3 DEF Looked, ListInv, Listed

\* The walk of u has yet to come to t.
Comes(u, t) == Calls(u, "walk") /\ (event[u].changed \/ Before(event[u].scb, t))

\* A step of event_callback at the list of the selects: u visits scb.  If its walk was
\* to come to t it still is, or is there.
LEMMA VisitStep ==
  ASSUME SelectInv, EventTyped, NEW u \in Callers, event[u] \in Events,
         NEW scb \in OnList \cup {NULL}, Visit(u, scb),
         UNCHANGED <<conn, select_cb_list, readset, left, pc, early>>,
         \A j \in Slots : j # event[u].s => rcvevent'[j] = rcvevent[j],
         \A t \in Selectors : Looked(t, event[u].s) =>
           \/ scb # NULL /\ (scb = t \/ Before(scb, t))
           \/ UNCHANGED rcvevent /\ ~Comes(u, t)
  PROVE  SelectInv'
<1>0. ListInv
  BY DEF SelectInv
<1>1. OnList' = OnList /\ \A j, t : Before(j, t)' <=> Before(j, t)
  BY DEF OnList, Before
<1>2. /\ \A x \in Callers : x # u => event'[x] = event[x]
      /\ sem_signalled' \in [Selectors -> BOOLEAN]
      /\ \A t \in Selectors : sem_signalled[t] => sem_signalled'[t]
      /\ Calls(u, "walk")' => event'[u] \in Events /\ scb # NULL /\ event'[u].scb = scb
  <2>1. CASE scb = NULL
    BY <1>0, <2>1 DEF Visit, Returns, EventTyped, ListInv, Calls
  <2>2. CASE scb # NULL
    BY <1>0, <2>2, VisitSignals
  <2> QED
    BY <2>1, <2>2
<1>3. ListInv'
  <2>1. ASSUME NEW x \in Callers, Calls(x, "walk")'
        PROVE  event'[x] \in Events /\ (~event'[x].changed => event'[x].scb \in OnList)
    <3>1. CASE x = u
      BY <1>2, <2>1, <3>1
    <3>2. CASE x # u
      BY <1>0, <1>2, <2>1, <3>2 DEF ListInv, Calls
    <3> QED
      BY <3>1, <3>2
  <2> QED
    BY <1>0, <1>1, <1>2, <2>1 DEF ListInv
<1>4. ASSUME NEW t \in Selectors, NEW i \in Slots PROVE ~Missed(t, i)'
  <2> SUFFICES ASSUME Looked(t, i), ~sem_signalled'[t], IsReady(i)', <<t, i>> \notin early
               PROVE  WalkComes(t, i)'
    BY DEF Missed, Looked
  <2>1. ~sem_signalled[t]
    BY <1>2
  <2>2. ASSUME IsReady(i), event[u].s = i => ~Comes(u, t) PROVE WalkComes(t, i)'
    <3>1. PICK x \in Callers : Comes(x, t) /\ event[x].s = i
      BY <2>1, <2>2 DEF SelectInv, Missed, WalkComes, Comes
    <3>2. event'[x] = event[x]
      BY <1>2, <2>2, <3>1
    <3> QED
      BY <1>1, <3>1, <3>2 DEF WalkComes, Comes, Calls
  <2>3. CASE event[u].s # i
    <3>1. IsReady(i)
      BY <2>3 DEF IsReady
    <3> QED
      BY <2>2, <2>3, <3>1
  <2>4. CASE event[u].s = i /\ UNCHANGED rcvevent /\ ~Comes(u, t)
    BY <2>2, <2>4 DEF IsReady
  <2>5. CASE event[u].s = i /\ scb # NULL /\ (scb = t \/ Before(scb, t))
    <3>1. /\ Calls(u, "walk")' /\ event'[u].s = i /\ event'[u].scb = scb
          /\ rcvevent'[i] > 0 /\ i \in readset[scb] => sem_signalled'[scb]
      BY <1>0, <2>5, VisitSignals
    <3>2. scb # t
      BY <3>1 DEF IsReady, Looked
    <3> QED
      BY <1>1, <2>5, <3>1, <3>2 DEF WalkComes
  <2> QED
    BY <2>3, <2>4, <2>5
<1> QED
  BY <1>3, <1>4 DEF SelectInv

\* Counting an event in the socket starts the walk that reaches every select.
LEMMA SetEventSignals ==
  ASSUME IInv, ConnInv, EventInv, SelectInv, NEW u \in Callers, SetEvent(u)
  PROVE  SelectInv'
<1>0. ListInv
  BY DEF SelectInv
<1>1. PICK s \in Slots : s = event[u].s
  BY EventSocket DEF SetEvent, Calls, Pending
<1>2. event[u] \in Events /\ event[u].at = "set"
  BY DEF SetEvent, Calls, Pending, EventInv, EventTyped
<1>3. /\ UNCHANGED <<conn, select_cb_list, readset, left, pc, early>>
      /\ Visit(u, IF select_waiting[s] = 0 THEN NULL ELSE First)
      /\ \A j \in Slots : j # s => rcvevent'[j] = rcvevent[j]
  BY <1>1 DEF SetEvent, EventInv, EventTyped
<1> DEFINE scb == IF select_waiting[s] = 0 THEN NULL ELSE First
<1>4. scb \in OnList \cup {NULL}
  BY <1>0, FirstOnList
<1>5. ASSUME NEW t \in Selectors, Looked(t, s) PROVE scb # NULL /\ (scb = t \/ Before(scb, t))
  BY <1>0, <1>5, LookedCounts, FirstOnList
<1> HIDE DEF scb
<1> QED
  BY <1>1, <1>2, <1>3, <1>4, <1>5, VisitStep DEF scb, EventInv

\* A walk goes on, or starts again when the list has changed.
LEMMA NextSelectCbSignals ==
  ASSUME IInv, EventInv, SelectInv, NEW u \in Callers, NextSelectCb(u)
  PROVE  SelectInv'
<1>0. ListInv
  BY DEF SelectInv
<1>1. /\ UNCHANGED <<conn, rcvevent, select_cb_list, readset, left, pc, early>>
      /\ Visit(u, IF event[u].changed THEN First ELSE Behind(event[u].scb))
      /\ Calls(u, "walk")
  BY DEF NextSelectCb
<1>2. event[u] \in Events /\ (~event[u].changed => event[u].scb \in OnList)
  BY <1>0, <1>1 DEF ListInv
<1> DEFINE scb == IF event[u].changed THEN First ELSE Behind(event[u].scb)
<1>3. scb \in OnList \cup {NULL}
  BY <1>0, <1>2, FirstOnList, PlaceOnList
<1>4. NULL \notin OnList
  BY <1>0, SocketsAssumption DEF ListInv, OnList
<1>5. ASSUME NEW t \in Selectors, NEW i \in Slots, Looked(t, i), Comes(u, t)
      PROVE  scb # NULL /\ (scb = t \/ Before(scb, t))
  <2>1. t \in OnList
    BY <1>0, <1>5, LookedCounts
  <2>2. CASE event[u].changed
    BY <1>0, <2>1, <2>2, FirstOnList
  <2>3. CASE ~event[u].changed
    <3>1. Before(event[u].scb, t) /\ event[u].scb \in OnList
      BY <1>2, <1>5, <2>3 DEF Comes
    <3>2. Behind(event[u].scb) = t \/ Before(Behind(event[u].scb), t)
      BY <1>0, <3>1, PlaceOnList
    <3>3. \A j : Before(j, t) => j \in OnList
      BY DEF Before, OnList
    <3> QED
      BY <1>4, <2>1, <2>3, <3>2, <3>3
  <2> QED
    BY <2>2, <2>3
<1>6. ASSUME NEW t \in Selectors, Looked(t, event[u].s)
      PROVE  \/ scb # NULL /\ (scb = t \/ Before(scb, t))
             \/ UNCHANGED rcvevent /\ ~Comes(u, t)
  <2>1. event[u].s \in Slots
    BY <1>6 DEF Looked, IInv, Typed
  <2> QED
    BY <1>1, <1>5, <1>6, <2>1
<1> HIDE DEF scb
<1> QED
  BY <1>1, <1>2, <1>3, <1>6, VisitStep DEF scb, EventInv

\* A step that neither visits nor changes the list, and after which no select has
\* looked at a socket that is ready unless it had.
LEMMA MissesStay ==
  ASSUME SelectInv, UNCHANGED <<select_cb_list, sem_signalled>>,
         \A u \in Callers : /\ Calls(u, "walk")' => Calls(u, "walk")
                            /\ Calls(u, "walk") => event'[u] = event[u],
         \A t \in Selectors : /\ pc'[t] \in Listed <=> pc[t] \in Listed
                              /\ pc'[t] = "wait" => left'[t] = {},
         \A t \in Selectors, i \in Slots :
           Looked(t, i)' /\ IsReady(i)' /\ <<t, i>> \notin early' =>
             Looked(t, i) /\ IsReady(i) /\ <<t, i>> \notin early
  PROVE  SelectInv'
<1>1. OnList' = OnList /\ \A j, t : Before(j, t)' <=> Before(j, t)
  BY DEF OnList, Before
<1>2. \A u \in Callers : Calls(u, "walk") => Calls(u, "walk")' /\ event'[u] = event[u]
  BY DEF Calls
<1>3. ListInv'
  BY <1>1, <1>2 DEF SelectInv, ListInv
<1>4. ASSUME NEW t \in Selectors, NEW i \in Slots PROVE ~Missed(t, i)'
  <2>1. WalkComes(t, i) => WalkComes(t, i)'
    BY <1>1, <1>2 DEF WalkComes
  <2> QED
    BY <2>1 DEF Missed, SelectInv
<1> QED
  BY <1>3, <1>4 DEF SelectInv

\* Raising an event, and counting it without a socket, are no steps of a walk.
LEMMA RaiseNoWalk ==
  ASSUME EventTyped, NEW u \in Callers, event[u] = NULL, NEW c, NEW v, Raise(u, c, v)
  PROVE  \A x \in Callers : /\ Calls(x, "walk")' => Calls(x, "walk")
                            /\ Calls(x, "walk") => event'[x] = event[x]
<1>1. event' = [event EXCEPT ![u] =
        [conn |-> c, evt |-> v, at |-> IF socket[c] < 0 THEN "count" ELSE "set",
         s |-> socket[c], scb |-> NULL, changed |-> FALSE]]
  BY DEF Raise
<1>2. event'[u].at # "walk" /\ \A x \in Callers : x # u => event'[x] = event[x]
  BY <1>1 DEF EventTyped
<1> QED
  BY <1>2 DEF Calls

\* Counting an event in the connection starts no walk and ends none.
LEMMA CountNoWalk ==
  ASSUME EventTyped, NEW u \in Callers, CountBeforeAccept(u)
  PROVE  \A x \in Callers : /\ Calls(x, "walk")' => Calls(x, "walk")
                            /\ Calls(x, "walk") => event'[x] = event[x]
<1>1. event[u] # NULL /\ event[u].at = "count"
  BY DEF CountBeforeAccept, Calls
<1>2. event[u] = [k \in Fields |-> event[u][k]]
  BY <1>1 DEF EventTyped
<1>3. (event'[u] = NULL \/ event'[u].at = "set") /\ \A x \in Callers : x # u => event'[x] = event[x]
  <2>1. CASE event' = [event EXCEPT ![u] = NULL]
    BY <2>1 DEF EventTyped
  <2>2. CASE event' = [event EXCEPT ![u].s = socket[event[u].conn], ![u].at = "set"]
    <3>1. event'[u] = [[event[u] EXCEPT !.s = socket[event[u].conn]] EXCEPT !.at = "set"]
          /\ \A x \in Callers : x # u => event'[x] = event[x]
      BY <2>2 DEF EventTyped
    <3> QED
      BY <1>2, <3>1 DEF Fields
  <2> QED
    BY <2>1, <2>2 DEF CountBeforeAccept, Returns
<1> QED
  BY <1>1, <1>3 DEF Calls

\* The servers and the stack leave what the selects have looked at, and no socket gets
\* ready behind their back but by event_callback and by lwip_accept.
LEMMA QuietMisses ==
  ASSUME IInv, SelectInv, Quiet, UNCHANGED <<select_cb_list, sem_signalled>>,
         \A u \in Callers : /\ Calls(u, "walk")' => Calls(u, "walk")
                            /\ Calls(u, "walk") => event'[u] = event[u],
         \A t \in Selectors, i \in Slots :
           Looked(t, i) /\ conn[i] # NULL /\ conn'[i] # NULL /\ rcvevent'[i] > 0
           /\ <<t, i>> \notin early' => rcvevent[i] > 0 /\ <<t, i>> \notin early
  PROVE  SelectInv'
<1>0. ListInv
  BY DEF SelectInv
<1>1. \A t \in Selectors : pc'[t] = pc[t] \/ (pc[t] \in ServerLabels /\ pc'[t] \in ServerLabels)
  BY DEF Quiet, Tasks
<1>2. ASSUME NEW t \in Selectors
      PROVE  /\ pc'[t] \in Listed <=> pc[t] \in Listed
             /\ pc'[t] = "wait" => left'[t] = {}
             /\ \A i : Looked(t, i)' <=> Looked(t, i)
  BY <1>0, <1>1 DEF Quiet, Listed, ServerLabels, ListInv, Looked
<1>3. ASSUME NEW t \in Selectors, NEW i \in Slots,
             Looked(t, i)', IsReady(i)', <<t, i>> \notin early'
      PROVE  Looked(t, i) /\ IsReady(i) /\ <<t, i>> \notin early
  <2>1. Looked(t, i) /\ select_waiting[i] # 0
    BY <1>0, <1>2, <1>3, LookedCounts
  <2>2. conn'[i] # NULL /\ rcvevent'[i] > 0
    BY <1>3 DEF IsReady
  <2>3. conn[i] # NULL
    BY <2>1, <2>2 DEF Quiet
  <2> QED
    BY <1>3, <2>1, <2>2, <2>3 DEF IsReady
<1> QED
  BY <1>2, <1>3, MissesStay

\* The steps of the stack and of the servers.
LEMMA OthersSignal ==
  ASSUME IInv, ConnInv, EventInv, SelectInv, Quiet,
         \/ \E u \in Callers : CountBeforeAccept(u)
         \/ \E c \in Conns : Deliver(c) \/ AcceptFunction(c)
         \/ AcceptAborts
         \/ \E t \in Servers : Accept(t) \/ ServerStep(t)
                               \/ \E i \in Slots : Recv(t, i) \/ Close(t, i)
  PROVE  SelectInv'
<1>0. EventTyped /\ rcvevent \in [Slots -> Int]
  BY DEF EventInv, EventTyped
<1>1. UNCHANGED <<select_cb_list, sem_signalled>>
  BY DEF CountBeforeAccept, Deliver, AcceptFunction, AcceptAborts, Accept, ServerStep, Recv, Close,
         DeleteNetconn, AllocSocket, ResetSocket, NumberSocket, AcceptFails, FreeNetconn, FreeSocket
<1>2. \A x \in Callers : /\ Calls(x, "walk")' => Calls(x, "walk")
                         /\ Calls(x, "walk") => event'[x] = event[x]
  <2>1. ASSUME NEW u \in Callers, CountBeforeAccept(u)
        PROVE  \A x \in Callers : /\ Calls(x, "walk")' => Calls(x, "walk")
                                  /\ Calls(x, "walk") => event'[x] = event[x]
    BY <1>0, <2>1, CountNoWalk
  <2>2. CASE \E u \in Callers : \E c, v : event[u] = NULL /\ Raise(u, c, v)
    BY <1>0, <2>2, RaiseNoWalk
  <2>3. CASE UNCHANGED event
    BY <2>3 DEF Calls
  <2>4. (\E c \in Conns : Deliver(c) \/ AcceptFunction(c)) \/ AcceptAborts
        => \E u \in Callers : \E c, v : event[u] = NULL /\ Raise(u, c, v)
    BY TcpipCalls DEF Deliver, AcceptFunction, AcceptAborts, CoreLockFree
  <2>5. ASSUME NEW t \in Servers, Accept(t) \/ AcceptFails(t) \/ \E i \in Slots : Recv(t, i) \/ Close(t, i)
        PROVE  \E u \in Callers : \E c, v : event[u] = NULL /\ Raise(u, c, v)
    <3>1. t \in Callers /\ event[t] = NULL
      BY <2>5 DEF Accept, AcceptFails, Recv, Close, At, Callers
    <3>2. \E c, v : Raise(t, c, v)
      BY <2>5 DEF Accept, AcceptFails, Recv, Close, DeleteNetconn
    <3> QED
      BY <3>1, <3>2
  <2>6. ASSUME NEW t \in Servers,
               AllocSocket(t) \/ ResetSocket(t) \/ NumberSocket(t) \/ FreeNetconn(t) \/ FreeSocket(t)
        PROVE  UNCHANGED event
    BY <2>6 DEF AllocSocket, ResetSocket, NumberSocket, FreeNetconn, FreeSocket
  <2> QED
    BY <2>1, <2>2, <2>3, <2>4, <2>5, <2>6 DEF ServerStep
<1>3. ASSUME NEW t \in Selectors, NEW i \in Slots, Looked(t, i), rcvevent'[i] > 0, <<t, i>> \notin early'
      PROVE  rcvevent[i] > 0 /\ <<t, i>> \notin early
  <2>1. CASE UNCHANGED <<rcvevent, early>>
    BY <1>3, <2>1
  <2>2. CASE \E u \in Servers : ResetSocket(u)
    <3>1. PICK u \in Servers : rcvevent' = [rcvevent EXCEPT ![newsock[u]] = 0] /\ UNCHANGED early
      BY <2>2 DEF ResetSocket
    <3>2. i # newsock[u]
      BY <1>0, <1>3, <3>1
    <3> QED
      BY <1>0, <1>3, <3>1, <3>2
  <2>3. CASE \E u \in Servers : NumberSocket(u)
    <3>1. PICK u \in Servers :
            /\ rcvevent' = [rcvevent EXCEPT ![newsock[u]] = @ + (-1 - socket[newconn[u]])]
            /\ early' = early \cup (LookedAt(newsock[u]) \X {newsock[u]})
      BY <2>3 DEF NumberSocket
    <3>2. t \in LookedAt(i)
      BY <1>3 DEF LookedAt, Looked
    <3>3. i # newsock[u]
      BY <1>3, <3>1, <3>2
    <3> QED
      BY <1>0, <1>3, <3>1, <3>3
  <2> QED
    BY <2>1, <2>2, <2>3 DEF CountBeforeAccept, Deliver, AcceptFunction, AcceptAborts, Accept,
                            ServerStep,
       Recv, Close, DeleteNetconn, AllocSocket, AcceptFails, FreeNetconn, FreeSocket
<1> QED
  BY <1>1, <1>2, <1>3, QuietMisses

\* A select moves: the labels of the others stay.
LEMMA SelectMoves ==
  ASSUME Typed, NEW t \in Selectors, NEW l, Goto(t, l)
  PROVE  pc'[t] = l /\ \A u \in Selectors : u # t => pc'[u] = pc[u]
BY DEF Typed, Goto, Tasks

\* The steps of a select that do not change the list.
LEMMA SelectingStep ==
  ASSUME IInv, SelectInv, NEW t \in Selectors,
         \/ \E S \in SUBSET Slots : Select(t, S)
         \/ Selscan(t) \/ Enter(t) \/ SemWait(t) \/ Timeout(t) \/ Leave(t)
  PROVE  SelectInv'
<1>0. Typed /\ ListInv /\ LoopOf(t)
  BY DEF IInv, SelectInv, Loops
<1>1. /\ UNCHANGED <<conn, rcvevent, select_cb_list, sem_signalled, event, early>>
  BY DEF Select, Selscan, Enter, SemWait, Timeout, Leave
<1>2. \A u \in Selectors : u # t =>
        pc'[u] = pc[u] /\ left'[u] = left[u] /\ readset'[u] = readset[u]
  <2>1. CASE \E S \in SUBSET Slots : Select(t, S)
    BY <1>0, <2>1, SelectMoves DEF Select, Typed
  <2>2. CASE SemWait(t) \/ Timeout(t)
    BY <1>0, <2>2, SelectMoves DEF SemWait, Timeout, Loop, Typed
  <2>3. CASE Selscan(t)
    BY <1>0, <2>3, SelectMoves DEF Selscan, Step, Loop, Typed
  <2>4. CASE Enter(t)
    BY <1>0, <2>4, SelectMoves DEF Enter, Step, Loop, Typed
  <2>5. CASE Leave(t)
    BY <1>0, <2>5, SelectMoves DEF Leave, Step, Loop, Typed
  <2> QED
    BY <2>1, <2>2, <2>3, <2>4, <2>5
<1>3. /\ pc'[t] \in Listed <=> pc[t] \in Listed
      /\ pc'[t] = "wait" => left'[t] = {}
      /\ \A i \in Slots : Looked(t, i)' => Looked(t, i) \/ ~IsReady(i)
  <2>1. CASE \E S \in SUBSET Slots : Select(t, S)
    BY <1>0, <2>1, SelectMoves DEF Select, Listed, Looked
  <2>2. CASE SemWait(t) \/ Timeout(t)
    BY <1>0, <2>2, SelectMoves DEF SemWait, Timeout, Loop, Listed, Looked
  <2>3. CASE Enter(t)
    <3>1. pc[t] = "enter" /\ UNCHANGED readset
      BY <2>3 DEF Enter
    <3>2. \/ pc'[t] = "rescan" /\ left'[t] = readset[t]
          \/ pc'[t] \in {"enter", "leave", "unlink"}
      BY <1>0, <2>3, <3>1, SelectMoves DEF Enter, Step, Loop, Typed
    <3> QED
      BY <3>1, <3>2 DEF Listed, Looked
  <2>4. CASE Leave(t)
    <3>1. pc[t] = "leave" /\ pc'[t] \in {"leave", "unlink"}
      BY <1>0, <2>4, SelectMoves DEF Leave, Step, Loop
    <3> QED
      BY <3>1 DEF Listed, Looked
  <2>5. CASE Selscan(t)
    <3>1. pc[t] = "rescan" /\ UNCHANGED readset /\ left[t] \in SUBSET Slots /\ left[t] # {}
      BY <1>0, <2>5 DEF Selscan, Typed, LoopOf
    <3>2. PICK i \in left[t] : i = Lowest(left[t])
      BY <3>1, LowestType
    <3>3. CASE IsReady(i) /\ Loop(t, "leave", readset[t])
      BY <1>0, <3>1, <3>3, SelectMoves DEF Loop, Listed, Looked
    <3>4. CASE ~IsReady(i) /\ Step(t, i, "wait", {})
      <4>1. \/ left[t] = {i} /\ pc'[t] = "wait" /\ left'[t] = {}
            \/ pc'[t] = "rescan" /\ left'[t] = left[t] \ {i}
        BY <1>0, <3>1, <3>4, SelectMoves DEF Step, Loop, Typed
      <4>2. \A j : Looked(t, j)' => Looked(t, j) \/ j = i
        BY <3>1, <4>1 DEF Looked
      <4> QED
        BY <3>1, <3>4, <4>1, <4>2 DEF Listed
    <3> QED
      BY <2>5, <3>2, <3>3, <3>4 DEF Selscan
  <2> QED
    BY <2>1, <2>2, <2>3, <2>4, <2>5
<1>4. ASSUME NEW u \in Selectors
      PROVE  /\ pc'[u] \in Listed <=> pc[u] \in Listed
             /\ pc'[u] = "wait" => left'[u] = {}
             /\ \A i \in Slots : Looked(u, i)' => Looked(u, i) \/ ~IsReady(i)
  <2>1. CASE u = t
    BY <1>3, <2>1
  <2>2. CASE u # t
    BY <1>0, <1>2, <2>2 DEF ListInv, Looked
  <2> QED
    BY <2>1, <2>2
<1>5. \A i \in Slots : IsReady(i)' => IsReady(i)
  BY <1>1 DEF IsReady
<1>6. \A x \in Callers : /\ Calls(x, "walk")' => Calls(x, "walk")
                         /\ Calls(x, "walk") => event'[x] = event[x]
  BY <1>1 DEF Calls
<1> QED
  BY <1>1, <1>4, <1>5, <1>6, MissesStay

\* A step that changes the list tells every walk.
LEMMA ListChangesStep ==
  ASSUME SelectInv, EventTyped, NEW t \in Selectors, ListChanges,
         UNCHANGED <<conn, rcvevent>>,
         sem_signalled' \in [Selectors -> BOOLEAN],
         select_cb_list' \in Seq(Selectors),
         \A j, k \in 1..Len(select_cb_list') : select_cb_list'[j] = select_cb_list'[k] => j = k,
         \A u \in Selectors : u # t =>
           /\ u \in OnList' <=> u \in OnList
           /\ pc'[u] = pc[u] /\ left'[u] = left[u] /\ readset'[u] = readset[u]
           /\ sem_signalled'[u] = sem_signalled[u]
           /\ \A i \in Slots : <<u, i>> \in early => <<u, i>> \in early',
         t \in OnList' <=> pc'[t] \in Listed,
         pc'[t] \notin {"rescan", "wait"}
  PROVE  SelectInv'
<1>0. ListInv
  BY DEF SelectInv
<1>1. ASSUME NEW x \in Callers
      PROVE  /\ Calls(x, "walk")' => event'[x] \in Events /\ event'[x].changed
             /\ Calls(x, "walk") => Calls(x, "walk")' /\ event'[x].s = event[x].s /\ event'[x].changed
  <2>1. event'[x] = IF Calls(x, "walk") THEN [event[x] EXCEPT !.changed = TRUE] ELSE event[x]
    BY DEF ListChanges
  <2>2. CASE Calls(x, "walk")
    <3>1. event[x] \in Events /\ event[x].at = "walk"
      BY <1>0, <2>2 DEF ListInv, Calls
    <3>2. event'[x] \in Events /\ event'[x].at = "walk" /\ event'[x].s = event[x].s /\ event'[x].changed
      BY <2>1, <2>2, <3>1 DEF Events
    <3> QED
      BY <3>2, SocketsAssumption DEF Calls
  <2>3. CASE ~Calls(x, "walk")
    BY <2>1, <2>3 DEF Calls
  <2> QED
    BY <2>2, <2>3
<1>2. ListInv'
  <2>1. \A u \in Selectors : u \in OnList' <=> pc'[u] \in Listed
    BY <1>0 DEF ListInv
  <2>2. \A u \in Selectors : pc'[u] = "wait" => left'[u] = {}
    BY <1>0 DEF ListInv
  <2> QED
    BY <1>1, <2>1, <2>2 DEF ListInv
<1>3. ASSUME NEW u \in Selectors, NEW i \in Slots PROVE ~Missed(u, i)'
  <2>1. WalkComes(u, i) => WalkComes(u, i)'
    BY <1>1 DEF WalkComes
  <2>2. CASE u = t
    BY <2>2 DEF Missed, Looked
  <2>3. CASE u # t
    <3>1. /\ Looked(u, i)' => Looked(u, i)
          /\ IsReady(i)' => IsReady(i)
          /\ sem_signalled'[u] = sem_signalled[u] /\ (<<u, i>> \in early => <<u, i>> \in early')
      BY <2>3 DEF Looked, IsReady
    <3> QED
      BY <2>1, <3>1 DEF Missed, SelectInv
  <2> QED
    BY <2>2, <2>3
<1> QED
  BY <1>2, <1>3 DEF SelectInv

\* A select goes to the front of the list.
LEMMA PushStep ==
  ASSUME IInv, EventInv, SelectInv, NEW t \in Selectors, Push(t)
  PROVE  SelectInv'
<1>0. Typed /\ ListInv /\ EventTyped
  BY DEF IInv, SelectInv, EventInv
<1>1. /\ pc[t] = "push" /\ select_cb_list' = <<t>> \o select_cb_list /\ ListChanges
      /\ Goto(t, "enter") /\ left' = [left EXCEPT ![t] = readset[t]]
      /\ UNCHANGED <<conn, rcvevent, sem_signalled, readset, early>>
  BY DEF Push, Loop
<1>2. pc'[t] = "enter" /\ \A u \in Selectors : u # t => pc'[u] = pc[u] /\ left'[u] = left[u]
  BY <1>0, <1>1, SelectMoves DEF Typed
<1> DEFINE n == Len(select_cb_list)
<1>3. select_cb_list \in Seq(Selectors) /\ n \in Nat
  BY <1>0 DEF ListInv
<1>4. /\ select_cb_list' \in Seq(Selectors) /\ Len(select_cb_list') = n + 1 /\ select_cb_list'[1] = t
      /\ \A k \in 1..n + 1 : k # 1 => k - 1 \in 1..n /\ select_cb_list'[k] = select_cb_list[k - 1]
  BY <1>1, <1>3
<1>5. \A k \in 1..n : select_cb_list[k] # t
  BY <1>0, <1>1 DEF ListInv, OnList, Listed
<1>6. \A j, k \in 1..n + 1 : select_cb_list'[j] = select_cb_list'[k] => j = k
  <2> SUFFICES ASSUME NEW j \in 1..n + 1, NEW k \in 1..n + 1, select_cb_list'[j] = select_cb_list'[k]
               PROVE  j = k
    OBVIOUS
  <2>1. CASE j = 1 \/ k = 1
    BY <1>4, <1>5, <2>1
  <2>2. CASE j # 1 /\ k # 1
    <3>1. j - 1 \in 1..n /\ k - 1 \in 1..n /\ select_cb_list[j - 1] = select_cb_list[k - 1]
      BY <1>4, <2>2
    <3>2. j - 1 = k - 1
      BY <1>0, <3>1 DEF ListInv
    <3> QED
      BY <3>2
  <2> QED
    BY <2>1, <2>2
<1>7. OnList' = OnList \cup {t}
  <2>1. \A k \in 1..n : k + 1 \in 1..n + 1 /\ k + 1 # 1 /\ k + 1 - 1 = k
    BY <1>3
  <2>2. 1 \in 1..n + 1
    BY <1>3
  <2>3. \A k \in 1..n : select_cb_list'[k + 1] = select_cb_list[k]
    BY <1>4, <2>1
  <2>4. OnList' = {select_cb_list'[k] : k \in 1..n + 1}
    BY <1>4 DEF OnList
  <2>5. ASSUME NEW x \in OnList' PROVE x \in OnList \cup {t}
    <3>1. PICK k \in 1..n + 1 : x = select_cb_list'[k]
      BY <2>4
    <3>2. k = 1 \/ (k - 1 \in 1..n /\ x = select_cb_list[k - 1])
      BY <1>4, <3>1
    <3> QED
      BY <1>4, <3>1, <3>2 DEF OnList
  <2>6. ASSUME NEW x \in OnList PROVE x \in OnList'
    <3>1. PICK k \in 1..n : x = select_cb_list[k]
      BY DEF OnList
    <3>2. k + 1 \in 1..n + 1 /\ x = select_cb_list'[k + 1]
      BY <2>1, <2>3, <3>1
    <3> QED
      BY <2>4, <3>2
  <2>7. t \in OnList'
    BY <1>4, <2>2, <2>4
  <2> QED
    BY <2>5, <2>6, <2>7
<1>8. \A u \in Selectors : u # t => (u \in OnList' <=> u \in OnList)
  BY <1>7
<1>9. t \in OnList' /\ pc'[t] \in Listed /\ pc'[t] \notin {"rescan", "wait"}
  BY <1>2, <1>7 DEF Listed
<1> QED
  BY <1>0, <1>1, <1>2, <1>4, <1>6, <1>8, <1>9, ListChangesStep DEF ListInv

\* A select leaves the list.
LEMMA UnlinkStep ==
  ASSUME IInv, EventInv, SelectInv, NEW t \in Selectors, Unlink(t)
  PROVE  SelectInv'
<1>0. Typed /\ ListInv /\ EventTyped
  BY DEF IInv, SelectInv, EventInv
<1>1. PICK p : p = Place(t)
  OBVIOUS
<1> DEFINE n == Len(select_cb_list)
<1>2. /\ pc[t] = "unlink" /\ ListChanges /\ Goto(t, "app")
      /\ select_cb_list' = SubSeq(select_cb_list, 1, p - 1) \o SubSeq(select_cb_list, p + 1, n)
      /\ sem_signalled' = [sem_signalled EXCEPT ![t] = FALSE]
      /\ readset' = [readset EXCEPT ![t] = {}]
      /\ early' = {x \in early : x[1] # t}
      /\ UNCHANGED <<conn, rcvevent, left>>
  BY <1>1 DEF Unlink
<1>3. t \in OnList /\ p \in 1..n /\ select_cb_list[p] = t
  BY <1>0, <1>1, <1>2, PlaceOnList DEF ListInv, Listed
<1>4. select_cb_list \in Seq(Selectors) /\ n \in Nat
  BY <1>0 DEF ListInv
<1>5. /\ select_cb_list' \in Seq(Selectors) /\ Len(select_cb_list') = n - 1
      /\ \A k \in 1..n - 1 :
           select_cb_list'[k] = IF k < p THEN select_cb_list[k] ELSE select_cb_list[k + 1]
  <2> DEFINE A == SubSeq(select_cb_list, 1, p - 1)
             B == SubSeq(select_cb_list, p + 1, n)
  <2>0. p \in Int /\ n \in Int /\ p - 1 \in Int /\ p + 1 \in Int
        /\ \A k \in 1..n : select_cb_list[k] \in Selectors
    BY <1>3, <1>4
  <2>1. A \in Seq(Selectors) /\ Len(A) = p - 1 /\ \A k \in 1..p - 1 : A[k] = select_cb_list[k]
    <3>1. \A k \in 1..p - 1 : select_cb_list[k] \in Selectors
      BY <1>3, <2>0
    <3>2. /\ A \in Seq(Selectors) /\ Len(A) = IF 1 <= p - 1 THEN (p - 1) - 1 + 1 ELSE 0
          /\ \A k \in 1..(p - 1) - 1 + 1 : A[k] = select_cb_list[1 + k - 1]
      BY <2>0, <3>1, SubSeqProperties
    <3> HIDE DEF A
    <3> QED
      BY <1>3, <2>0, <3>2
  <2>2. B \in Seq(Selectors) /\ Len(B) = n - p /\ \A k \in 1..n - p : B[k] = select_cb_list[p + k]
    <3>1. \A k \in p + 1..n : select_cb_list[k] \in Selectors
      BY <1>3, <2>0
    <3>2. /\ B \in Seq(Selectors) /\ Len(B) = IF p + 1 <= n THEN n - (p + 1) + 1 ELSE 0
          /\ \A k \in 1..n - (p + 1) + 1 : B[k] = select_cb_list[p + 1 + k - 1]
      BY <2>0, <3>1, SubSeqProperties
    <3> HIDE DEF B
    <3> QED
      BY <1>3, <2>0, <3>2
  <2>3. select_cb_list' = A \o B
    BY <1>2
  <2> HIDE DEF A, B
  <2>4. /\ select_cb_list' \in Seq(Selectors) /\ Len(select_cb_list') = n - 1
        /\ \A k \in 1..n - 1 : select_cb_list'[k] = IF k <= Len(A) THEN A[k] ELSE B[k - Len(A)]
    <3>1. Len(A) + Len(B) = n - 1
      BY <2>0, <2>1, <2>2
    <3> QED
      BY <2>1, <2>2, <2>3, <3>1, ConcatProperties
  <2>5. ASSUME NEW k \in 1..n - 1
        PROVE  select_cb_list'[k] = IF k < p THEN select_cb_list[k] ELSE select_cb_list[k + 1]
    <3>1. CASE k < p
      <4>1. k \in 1..p - 1 /\ k <= Len(A)
        BY <2>0, <2>1, <3>1
      <4> QED
        BY <2>1, <2>4, <3>1, <4>1
    <3>2. CASE ~(k < p)
      <4>1. k - (p - 1) \in 1..n - p /\ p + (k - (p - 1)) = k + 1 /\ ~(k <= p - 1)
        BY <1>3, <1>4, <2>0, <3>2
      <4>2. B[k - (p - 1)] = select_cb_list[k + 1]
        BY <2>2, <4>1
      <4> QED
        BY <2>1, <2>4, <3>2, <4>1, <4>2
    <3> QED
      BY <3>1, <3>2
  <2> QED
    BY <2>4, <2>5
<1> DEFINE old(k) == IF k < p THEN k ELSE k + 1
<1>6. /\ \A k \in 1..n - 1 : old(k) \in 1..n /\ old(k) # p /\ select_cb_list'[k] = select_cb_list[old(k)]
      /\ \A j, k \in 1..n - 1 : old(j) = old(k) => j = k
      /\ \A m \in 1..n : m # p => \E k \in 1..n - 1 : old(k) = m
  <2>1. ASSUME NEW m \in 1..n, m # p PROVE \E k \in 1..n - 1 : old(k) = m
    <3>1. CASE m < p
      BY <1>3, <1>4, <3>1
    <3>2. CASE m > p
      <4>1. m - 1 \in 1..n - 1 /\ old(m - 1) = m
        BY <1>3, <1>4, <3>2
      <4> QED
        BY <4>1
    <3> QED
      BY <1>3, <2>1, <3>1, <3>2
  <2> QED
    BY <1>3, <1>4, <1>5, <2>1
<1>7. \A j, k \in 1..n : select_cb_list[j] = select_cb_list[k] => j = k
  BY <1>0 DEF ListInv
<1>8. \A j, k \in 1..n - 1 : select_cb_list'[j] = select_cb_list'[k] => j = k
  <2> HIDE DEF old, n
  <2> QED
    BY <1>6, <1>7
<1>9. OnList' = OnList \ {t}
  <2>1. OnList = {select_cb_list[k] : k \in 1..n} /\ OnList' = {select_cb_list'[k] : k \in 1..n - 1}
    BY <1>5 DEF OnList
  <2> HIDE DEF old, n
  <2> QED
    BY <1>3, <1>6, <1>7, <2>1
<1>10. pc'[t] = "app" /\ \A u \in Selectors : u # t => pc'[u] = pc[u] /\ readset'[u] = readset[u]
  BY <1>0, <1>2, SelectMoves DEF Typed
<1>11. /\ sem_signalled' \in [Selectors -> BOOLEAN]
       /\ \A u \in Selectors : u # t => sem_signalled'[u] = sem_signalled[u]
  BY <1>0, <1>2 DEF ListInv
<1>12. \A u \in Selectors : u # t => \A i \in Slots : <<u, i>> \in early => <<u, i>> \in early'
  BY <1>2
<1>13. /\ \A u \in Selectors : u # t => (u \in OnList' <=> u \in OnList)
       /\ (t \in OnList' <=> pc'[t] \in Listed) /\ pc'[t] \notin {"rescan", "wait"}
  BY <1>9, <1>10 DEF Listed
<1>14. \A j, k \in 1..Len(select_cb_list') : select_cb_list'[j] = select_cb_list'[k] => j = k
  BY <1>5, <1>8
<1>15. \A u \in Selectors : u # t =>
         /\ u \in OnList' <=> u \in OnList
         /\ pc'[u] = pc[u] /\ left'[u] = left[u] /\ readset'[u] = readset[u]
         /\ sem_signalled'[u] = sem_signalled[u]
         /\ \A i \in Slots : <<u, i>> \in early => <<u, i>> \in early'
  BY <1>2, <1>10, <1>11, <1>12, <1>13
<1> HIDE DEF n, old
<1> QED
  BY <1>0, <1>2, <1>5, <1>11, <1>13, <1>14, <1>15, ListChangesStep

\* Every step of the system keeps the invariant of the selects.
LEMMA SelectNext ==
  ASSUME IInv, ConnInv, EventInv, SelectInv, [Next]_vars
  PROVE  SelectInv'
<1>0. Typed
  BY DEF IInv
<1>1. CASE UNCHANGED vars
  <2>1. SelectInv' <=> SelectInv
    BY <1>1 DEF vars, SelectInv, ListInv, OnList, Calls, Missed, Looked, IsReady, WalkComes, Before
  <2> QED
    BY <2>1
<1>2. CASE \/ \E u \in Callers : CountBeforeAccept(u)
           \/ \E c \in Conns : Deliver(c) \/ AcceptFunction(c)
           \/ AcceptAborts
           \/ \E t \in Servers : Accept(t) \/ ServerStep(t)
                                 \/ \E i \in Slots : Recv(t, i) \/ Close(t, i)
  <2>1. Quiet
    BY <1>0, <1>2, StackStep, ServersStep DEF EventCallback
  <2> QED
    BY <1>2, <2>1, OthersSignal
<1> QED
  BY <1>1, <1>2, SetEventSignals, NextSelectCbSignals, SelectingStep, PushStep, UnlinkStep
     DEF Next, EventCallback, SelectStep

\* SelectInv is an invariant.
THEOREM AlwaysSelectInv == Spec => []SelectInv
<1>1. IInv /\ ConnInv /\ EventInv /\ SelectInv /\ [Next]_vars => SelectInv'
  BY SelectNext
<1> QED
  BY <1>1, SelectInit, AlwaysInv, AlwaysConnInv, AlwaysEventInv, PTL DEF Spec

\* No event passes a select that waits: while one of its sockets is ready, it is
\* signalled or the walk of an event_callback has yet to come to it.
THEOREM NoSelectIsMissed == Spec => []NoSelectMissed
<1>1. IInv /\ SelectInv => NoSelectMissed
  <2> SUFFICES ASSUME IInv, SelectInv, NEW t \in Selectors, pc[t] = "wait", ~sem_signalled[t],
                      NEW i \in readset[t], IsReady(i), <<t, i>> \notin early
               PROVE  WalkComes(t, i)
    BY DEF NoSelectMissed, WalkComes, Before
  <2>1. i \in Slots /\ left[t] = {}
    BY DEF IInv, Typed, SelectInv, ListInv
  <2>2. ~Missed(t, i) /\ Looked(t, i)
    BY <2>1 DEF SelectInv, Looked
  <2> QED
    BY <2>2 DEF Missed
<1> QED
  BY <1>1, AlwaysInv, AlwaysSelectInv, PTL

-----------------------------------------------------------------------------
(* The bounds of the mailboxes and of the counts.                           *)

\* What the other invariants leave open of TypeOK.
Bounds ==
  /\ \A i \in Slots : select_waiting[i] <= Cardinality(Selectors)
  /\ recvmbox \in [Conns -> 0..MboxSize]
  /\ Len(acceptmbox) <= MboxSize
  /\ lost \in [Conns -> 0..MaxLost]
  /\ leaked \subseteq Conns /\ early \subseteq Selectors \X Slots

\* The initial states are in Bounds.
LEMMA BoundsInit == Init => Bounds
<1> USE SocketsAssumption
<1>1. Cardinality(Selectors) \in Nat
  BY FS_CardinalityType
<1> QED
  BY <1>1 DEF Init, Bounds

\* select_waiting is above the number of selects at no time: it is exact while the
\* socket is open, and does not go up while it is closed.
LEMMA WaitingBound ==
  ASSUME IInv, IInv', Bounds,
         \A i \in Slots : conn'[i] # NULL \/ select_waiting'[i] <= select_waiting[i]
  PROVE  \A i \in Slots : select_waiting'[i] <= Cardinality(Selectors)
<1> SUFFICES ASSUME NEW i \in Slots PROVE select_waiting'[i] <= Cardinality(Selectors)
  OBVIOUS
<1>1. Cardinality(Selectors) \in Nat /\ IsFiniteSet(Selectors)
  BY SocketsAssumption, FS_CardinalityType
<1>2. select_waiting[i] \in Nat /\ select_waiting'[i] \in Nat
  BY DEF IInv, Typed
<1>3. CASE conn'[i] # NULL
  <2>1. select_waiting'[i] = Cardinality(WaitsFor(i)')
    BY <1>3 DEF IInv, CountsAgree
  <2>2. WaitsFor(i)' \subseteq Selectors
    BY DEF WaitsFor
  <2>3. Cardinality(WaitsFor(i)') <= Cardinality(Selectors)
    BY <1>1, <2>2, FS_Subset
  <2> QED
    BY <2>1, <2>3
<1>4. CASE select_waiting'[i] <= select_waiting[i]
  BY <1>1, <1>2, <1>4 DEF Bounds
<1> QED
  BY <1>3, <1>4

\* Every step keeps Bounds.
LEMMA BoundsNext ==
  ASSUME IInv, IInv', ConnInv, ConnInv', Bounds, [Next]_vars
  PROVE  Bounds'
<1> USE SocketsAssumption
<1>0. Typed /\ ConnTyped /\ recvmbox \in [Conns -> 0..MboxSize] /\ lost \in [Conns -> 0..MaxLost]
  BY DEF IInv, ConnInv, Bounds
<1>1. CASE UNCHANGED <<recvmbox, acceptmbox, lost, leaked, early, select_waiting>>
  BY <1>1 DEF Bounds
<1>2. ASSUME NEW c \in Conns, Deliver(c) PROVE Bounds'
  <2>1. UNCHANGED <<acceptmbox, leaked, early, select_waiting>>
    BY <1>2 DEF Deliver
  <2>2. CASE recvmbox[c] < MboxSize /\ recvmbox' = [recvmbox EXCEPT ![c] = @ + 1] /\ UNCHANGED lost
    BY <1>0, <2>1, <2>2 DEF Bounds
  <2>3. CASE lost[c] < MaxLost /\ lost' = [lost EXCEPT ![c] = @ + 1] /\ UNCHANGED recvmbox
    BY <1>0, <2>1, <2>3 DEF Bounds
  <2> QED
    BY <1>2, <2>2, <2>3 DEF Deliver
<1>3. ASSUME NEW c \in Conns, AcceptFunction(c) PROVE Bounds'
  <2>1. UNCHANGED <<early, select_waiting>> /\ recvmbox' = [recvmbox EXCEPT ![c] = 0]
    BY <1>3 DEF AcceptFunction
  <2>2. CASE /\ Len(acceptmbox) < MboxSize /\ acceptmbox' = Append(acceptmbox, c)
             /\ lost' = [lost EXCEPT ![c] = 0] /\ UNCHANGED leaked
    <3>1. Len(acceptmbox') = Len(acceptmbox) + 1 /\ Len(acceptmbox) \in Nat
      BY <1>0, <2>2 DEF ConnTyped
    <3> QED
      BY <1>0, <2>1, <2>2, <3>1 DEF Bounds
  <2>3. CASE /\ lost[Listener] < MaxLost /\ lost' = [lost EXCEPT ![c] = 0, ![Listener] = @ + 1]
             /\ leaked' = leaked \cup {c} /\ UNCHANGED acceptmbox
    <3>1. c # Listener
      BY <1>0, <1>3 DEF AcceptFunction, ConnTyped
    <3>2. lost' \in [Conns -> 0..MaxLost]
      BY <1>0, <2>3, <3>1
    <3> QED
      BY <1>0, <2>1, <2>3, <3>2 DEF Bounds
  <2> QED
    BY <1>3, <2>2, <2>3 DEF AcceptFunction
<1>4. CASE AcceptAborts
  <2>1. UNCHANGED <<recvmbox, leaked, early, select_waiting>>
    BY <1>4 DEF AcceptAborts
  <2>2. CASE Len(acceptmbox) < MboxSize /\ acceptmbox' = Append(acceptmbox, NULL) /\ UNCHANGED lost
    <3>1. Len(acceptmbox') = Len(acceptmbox) + 1 /\ Len(acceptmbox) \in Nat
      BY <1>0, <2>2 DEF ConnTyped
    <3> QED
      BY <2>1, <2>2, <3>1 DEF Bounds
  <2>3. CASE lost[Listener] < MaxLost /\ lost' = [lost EXCEPT ![Listener] = @ + 1] /\ UNCHANGED acceptmbox
    BY <1>0, <2>1, <2>3 DEF Bounds
  <2> QED
    BY <1>4, <2>2, <2>3 DEF AcceptAborts
<1>5. ASSUME NEW t \in Servers, Accept(t) PROVE Bounds'
  <2>1. UNCHANGED <<recvmbox, lost, leaked, early, select_waiting>>
        /\ acceptmbox # <<>> /\ acceptmbox' = Tail(acceptmbox)
    BY <1>5 DEF Accept
  <2>2. Len(acceptmbox') = Len(acceptmbox) - 1 /\ Len(acceptmbox) \in Nat
    BY <1>0, <2>1 DEF ConnTyped
  <2> QED
    BY <2>1, <2>2 DEF Bounds
<1>6. ASSUME NEW t \in Servers, NumberSocket(t) PROVE Bounds'
  <2>1. /\ UNCHANGED <<recvmbox, acceptmbox, lost, leaked, select_waiting>>
        /\ early' = early \cup (LookedAt(newsock[t]) \X {newsock[t]}) /\ pc[t] = "number"
    BY <1>6 DEF NumberSocket, At
  <2>2. newsock[t] \in Slots /\ LookedAt(newsock[t]) \subseteq Selectors
    BY <2>1 DEF ConnInv, ConnTyped, ServerSound, LookedAt
  <2> QED
    BY <2>1, <2>2 DEF Bounds
<1>7. ASSUME NEW t \in Servers, NEW i \in Slots, Recv(t, i) PROVE Bounds'
  <2>1. /\ UNCHANGED <<acceptmbox, lost, leaked, early, select_waiting>>
        /\ conn[i] \in Conns /\ recvmbox[conn[i]] > 0
        /\ recvmbox' = [recvmbox EXCEPT ![conn[i]] = @ - 1]
    BY <1>7 DEF Recv, Usable
  <2> QED
    BY <1>0, <2>1 DEF Bounds
<1>8. ASSUME NEW t \in Servers, AcceptFails(t) \/ \E i \in Slots : Close(t, i) PROVE Bounds'
  <2>1. /\ UNCHANGED <<acceptmbox, lost, leaked, early, select_waiting>>
        /\ \E c : recvmbox' = [recvmbox EXCEPT ![c] = 0]
    BY <1>8 DEF AcceptFails, Close, DeleteNetconn
  <2>2. PICK c : recvmbox' = [recvmbox EXCEPT ![c] = 0]
    BY <2>1
  <2>3. recvmbox' \in [Conns -> 0..MboxSize]
    <3>1. 0 \in 0..MboxSize
      OBVIOUS
    <3>2. recvmbox' = [d \in Conns |-> IF d = c THEN 0 ELSE recvmbox[d]]
      BY <1>0, <2>2
    <3> QED
      BY <1>0, <3>1, <3>2
  <2> QED
    BY <2>1, <2>3 DEF Bounds
<1>9. ASSUME NEW t \in Servers, FreeNetconn(t) PROVE Bounds'
  <2>1. /\ UNCHANGED <<recvmbox, acceptmbox, leaked, early, select_waiting>>
        /\ \E c : lost' = [lost EXCEPT ![c] = 0]
    BY <1>9 DEF FreeNetconn
  <2>2. PICK c : lost' = [lost EXCEPT ![c] = 0]
    BY <2>1
  <2>3. lost' \in [Conns -> 0..MaxLost]
    <3>1. 0 \in 0..MaxLost
      OBVIOUS
    <3>2. lost' = [d \in Conns |-> IF d = c THEN 0 ELSE lost[d]]
      BY <1>0, <2>2
    <3> QED
      BY <1>0, <3>1, <3>2
  <2> QED
    BY <2>1, <2>3 DEF Bounds
<1>10. ASSUME NEW t \in Selectors, Enter(t) \/ Leave(t) PROVE Bounds'
  <2>1. UNCHANGED <<recvmbox, acceptmbox, lost, leaked, early, conn>>
    BY <1>10 DEF Enter, Leave
  <2>2. \A i \in Slots : conn'[i] # NULL \/ select_waiting'[i] <= select_waiting[i]
    BY <1>0, <1>10, <2>1 DEF Enter, Leave, Typed
  <2> QED
    BY <2>1, <2>2, WaitingBound DEF Bounds
<1>11. ASSUME NEW t \in Selectors, Unlink(t) PROVE Bounds'
  BY <1>11 DEF Unlink, Bounds
<1> QED
  BY <1>1, <1>2, <1>3, <1>4, <1>5, <1>6, <1>7, <1>8, <1>9, <1>10, <1>11
     DEF Next, vars, EventCallback, CountBeforeAccept, SetEvent, NextSelectCb, ServerStep,
         AllocSocket,
         ResetSocket, FreeSocket, SelectStep, Selscan, Push, SemWait, Timeout, Select

\* Every variable keeps its type: no mailbox, count or number of a socket leaves its range.
THEOREM TypeCorrect == Spec => []TypeOK
<1>1. IInv /\ IInv' /\ ConnInv /\ ConnInv' /\ Bounds /\ [Next]_vars => Bounds'
  BY BoundsNext
<1>2. IInv /\ ConnInv /\ EventInv /\ SelectInv /\ Bounds => TypeOK
  <2> SUFFICES ASSUME IInv, ConnInv, EventInv, SelectInv, Bounds PROVE TypeOK
    OBVIOUS
  <2>1. select_waiting \in [Slots -> 0..Cardinality(Selectors)]
    <3>1. Cardinality(Selectors) \in Nat
      BY SocketsAssumption, FS_CardinalityType
    <3> QED
      BY <3>1 DEF IInv, Typed, Bounds
  <2>2. ASSUME NEW c \in Conns PROVE socket[c] < NUM_SOCKETS
    <3>1. socket[c] \in Int /\ NUM_SOCKETS \in Nat \ {0} /\ ConnSound(c)
      BY SocketsAssumption DEF ConnInv, ConnTyped
    <3>2. CASE socket[c] < 0
      BY <3>1, <3>2
    <3>3. CASE socket[c] >= 0 /\ c \in open
      BY <3>1, <3>3 DEF ConnSound, Numbered, Slots
    <3>4. CASE socket[c] >= 0 /\ c \notin open
      <4>1. Holds(c)
        BY <3>1, <3>4 DEF ConnSound
      <4>2. PICK t \in Servers : newconn[t] = c
        BY <4>1 DEF Holds
      <4>3. ServerSound(t) /\ HandSound(t) /\ newsock[t] \in Slots \cup {-1} /\ c # NULL
        BY SocketsAssumption DEF ConnInv, ConnTyped, EventInv
      <4>4. pc[t] = "delete"
        BY <3>4, <4>2, <4>3 DEF ServerSound
      <4>5. socket[c] = newsock[t] /\ newsock[t] \in Slots
        BY <3>1, <3>4, <4>2, <4>3, <4>4 DEF HandSound
      <4> QED
        BY <3>1, <4>5 DEF Slots
    <3> QED
      BY <3>1, <3>2, <3>3, <3>4
  <2> QED
    BY <2>1, <2>2 DEF TypeOK, IInv, Typed, ConnInv, ConnTyped, EventInv, EventTyped, SelectInv,
                      ListInv, Bounds
<1> QED
  BY <1>1, <1>2, BoundsInit, AlwaysInv, AlwaysConnInv, AlwaysEventInv, AlwaysSelectInv, PTL DEF Spec
=============================================================================
