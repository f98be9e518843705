-------------------------- MODULE CanRestartProofs --------------------------
(***************************************************************************)
(* Theorems about CanRestart, for any nodes and a semaphore of any size.   *)
(*                                                                         *)
(* TokensMatchFailures is not inductive: between the moment a handler      *)
(* turns an alert off and its give, a node waits for which no token is     *)
(* there yet.  Reserved counts that token too, AlertOnce says that a       *)
(* handler starts only for a node whose alert is on, and Threads that no   *)
(* two of the handlers that are under way are before their give.           *)
(***************************************************************************)
EXTENDS CanRestart, FiniteSetTheorems, TLAPS

Waiting == {n \in Nodes : ~ALIE[n]}

One(condition) == IF condition THEN 1 ELSE 0

\* A handler has turned its alert off and not given its token yet.
Giving == \E n \in Nodes : handlerAt[n] = "give"

Reserved ==
  Tokens + One(task = "restart") + One(Giving) <= Cardinality(Waiting)

AlertOnce == \A n \in Nodes : request[n] => ALIE[n]

\* Only one handler is before its give; the task has a semaphore once it has
\* created it.
Threads ==
  /\ \A m, n \in Nodes : handlerAt[m] = "give" /\ handlerAt[n] = "give" => m = n
  /\ task # "create" => g_can_restart_phore # NULL

IInv == TypeOK /\ Threads /\ AlertOnce /\ Reserved

USE DEF nodeVars

-----------------------------------------------------------------------------
\* The nodes that wait are finitely many.
LEMMA WaitingFinite ==
  /\ IsFiniteSet(Waiting) /\ Cardinality(Waiting) \in Nat
  /\ IsFiniteSet(Waiting') /\ Cardinality(Waiting') \in Nat
<1>1. Waiting \subseteq Nodes /\ Waiting' \subseteq Nodes
  BY DEF Waiting
<1> QED
  BY <1>1, CanRestartAssumption, FS_Subset, FS_CardinalityType

\* A count is a number, and NULL is none.
LEMMA CountType ==
  ASSUME TypeOK
  PROVE  /\ Tokens \in 0..MaxCount /\ MaxCount \in Nat \ {0}
         /\ g_can_restart_phore # NULL => g_can_restart_phore \in 0..MaxCount
                                          /\ Tokens = g_can_restart_phore
  BY CanRestartAssumption DEF TypeOK, Tokens

\* The initial state is in IInv.
LEMMA InitInv == Init => IInv
<1> SUFFICES ASSUME Init PROVE IInv
  OBVIOUS
<1>1. TypeOK
  BY CanRestartAssumption DEF Init, TypeOK
<1>2. Threads /\ AlertOnce
  BY DEF Init, Threads, AlertOnce
<1>3. Reserved
  <2>1. Tokens = 0 /\ One(task = "restart") = 0 /\ One(Giving) = 0
    BY DEF Init, Tokens, One, Giving
  <2> QED
    BY <2>1, WaitingFinite DEF Reserved
<1> QED
  BY <1>1, <1>2, <1>3 DEF IInv

\* Every step keeps the types.
LEMMA TypeStep == ASSUME IInv, [Next]_vars PROVE TypeOK'
<1>0. TypeOK /\ Threads /\ MaxCount \in Nat \ {0} /\ 0 \in 0..MaxCount
  BY CanRestartAssumption DEF IInv
<1>1. ASSUME NEW n \in Nodes, NEW kind \in {"active", "warning", "failed"}, NodeError(n, kind)
      PROVE  TypeOK'
  <2>1. state' \in [Nodes -> {"active", "warning", "failed"}]
    BY <1>0, <1>1 DEF TypeOK, NodeError
  <2>2. request' \in [Nodes -> BOOLEAN]
    BY <1>0, <1>1 DEF TypeOK, NodeError
  <2> QED
    BY <1>0, <1>1, <2>1, <2>2 DEF TypeOK, NodeError
<1>2. ASSUME NEW n \in Nodes, HandlerReadsStatus(n) PROVE TypeOK'
  <2>1. request' \in [Nodes -> BOOLEAN] /\ ALIE' \in [Nodes -> BOOLEAN]
    BY <1>0, <1>2 DEF TypeOK, HandlerReadsStatus
  <2>2. handlerAt' \in [Nodes -> {"idle", "give", "number", "asserted"}]
    BY <1>0, <1>2 DEF TypeOK, HandlerReadsStatus
  <2> QED
    BY <1>0, <1>2, <2>1, <2>2 DEF TypeOK, HandlerReadsStatus
<1>3. ASSUME NEW n \in Nodes, HandlerGives(n) PROVE TypeOK'
  <2>1. g_can_restart_phore' \in 0..MaxCount \cup {NULL}
    <3>1. CASE g_can_restart_phore = NULL
      BY <1>0, <1>3, <3>1 DEF TypeOK, HandlerGives
    <3>2. CASE g_can_restart_phore # NULL
      BY <1>0, <1>3, <3>2, CountType DEF HandlerGives
    <3> QED
      BY <3>1, <3>2
  <2>2. handlerAt' \in [Nodes -> {"idle", "give", "number", "asserted"}]
    BY <1>0, <1>3 DEF TypeOK, HandlerGives
  <2> QED
    BY <1>0, <1>3, <2>1, <2>2 DEF TypeOK, HandlerGives
<1>4. ASSUME NEW n \in Nodes, HandlerSetsNumber(n) PROVE TypeOK'
  BY <1>0, <1>4 DEF TypeOK, HandlerSetsNumber
<1>5. CASE CreateSemaphore
  BY <1>0, <1>5 DEF TypeOK, CreateSemaphore
<1>6. CASE TakeToken
  <2>1. g_can_restart_phore' \in 0..MaxCount
    <3>1. g_can_restart_phore \in 0..MaxCount
      BY <1>0, <1>6, CountType DEF Threads, TakeToken
    <3> QED
      BY <1>0, <1>6, <3>1 DEF TakeToken
  <2> QED
    BY <1>0, <1>6, <2>1 DEF TypeOK, TakeToken
<1>7. CASE RestartNode
  <2>1. state' \in [Nodes -> {"active", "warning", "failed"}] /\ ALIE' \in [Nodes -> BOOLEAN]
    BY <1>0, <1>7 DEF TypeOK, RestartNode
  <2> QED
    BY <1>0, <1>7, <2>1 DEF TypeOK, RestartNode
<1>8. CASE Delay
  BY <1>0, <1>8 DEF TypeOK, Delay
<1>9. CASE UNCHANGED vars
  BY <1>0, <1>9 DEF TypeOK, vars
<1> QED
  BY <1>1, <1>2, <1>3, <1>4, <1>5, <1>6, <1>7, <1>8, <1>9 DEF Next, Handler, RestartTask

\* A handler starts when no other is before its give; only a semaphore that exists
\* is taken.
LEMMA ThreadsStep == ASSUME IInv, [Next]_vars PROVE Threads'
<1>0. TypeOK /\ Threads
  BY DEF IInv
<1>1. ASSUME NEW n \in Nodes, HandlerGives(n) PROVE Threads'
  <2>1. \A m \in Nodes : handlerAt'[m] = "give" => handlerAt[m] = "give"
    BY <1>0, <1>1 DEF TypeOK, HandlerGives
  <2>2. g_can_restart_phore # NULL => g_can_restart_phore' # NULL
    BY <1>0, <1>1, CountType, CanRestartAssumption DEF HandlerGives
  <2> QED
    BY <1>0, <1>1, <2>1, <2>2 DEF Threads, HandlerGives
<1>2. CASE TakeToken \/ CreateSemaphore
  <2>1. g_can_restart_phore' \in Int
    BY <1>0, <1>2, CountType DEF Threads, TakeToken, CreateSemaphore
  <2>2. g_can_restart_phore' # NULL
    <3>1. g_can_restart_phore' \in Nat
      BY <1>0, <1>2, CountType DEF Threads, TakeToken, CreateSemaphore
    <3> QED
      BY <3>1, CanRestartAssumption
  <2> QED
    BY <1>0, <1>2, <2>2 DEF Threads, TakeToken, CreateSemaphore
<1>3. ASSUME NEW n \in Nodes, HandlerReadsStatus(n) PROVE Threads'
  <2>1. \A m \in Nodes : handlerAt[m] # "give"
    BY <1>3 DEF HandlerReadsStatus, MayStart, Active
  <2>2. \A m \in Nodes : handlerAt'[m] = "give" => m = n
    BY <1>0, <1>3, <2>1 DEF TypeOK, HandlerReadsStatus
  <2> QED
    BY <1>0, <1>3, <2>2 DEF Threads, HandlerReadsStatus
<1>4. CASE RestartNode \/ Delay \/ UNCHANGED vars
  BY <1>0, <1>4 DEF Threads, RestartNode, Delay, vars
<1>6. ASSUME NEW n \in Nodes, HandlerSetsNumber(n) PROVE Threads'
  <2>1. \A m \in Nodes : handlerAt'[m] = "give" => handlerAt[m] = "give"
    BY <1>0, <1>6 DEF TypeOK, HandlerSetsNumber
  <2> QED
    BY <1>0, <1>6, <2>1 DEF Threads, HandlerSetsNumber
<1>5. ASSUME NEW n \in Nodes, NEW kind \in {"active", "warning", "failed"}, NodeError(n, kind)
      PROVE  Threads'
  BY <1>0, <1>5 DEF Threads, NodeError
<1> QED
  BY <1>1, <1>2, <1>3, <1>4, <1>5, <1>6 DEF Next, Handler, RestartTask

\* An alert is requested only while it is enabled, and the handler that turns it off
\* has cleared the request.
LEMMA AlertStep == ASSUME IInv, [Next]_vars PROVE AlertOnce'
<1>0. TypeOK /\ AlertOnce
  BY DEF IInv
<1>1. ASSUME NEW n \in Nodes, NEW kind \in {"active", "warning", "failed"}, NodeError(n, kind)
      PROVE  AlertOnce'
  BY <1>0, <1>1 DEF TypeOK, AlertOnce, NodeError
<1>2. ASSUME NEW n \in Nodes, HandlerReadsStatus(n) \/ HandlerGives(n) \/ HandlerSetsNumber(n)
      PROVE  AlertOnce'
  BY <1>0, <1>2 DEF TypeOK, AlertOnce, HandlerReadsStatus, HandlerGives, HandlerSetsNumber
<1>3. CASE RestartNode
  BY <1>0, <1>3 DEF TypeOK, AlertOnce, RestartNode
<1>4. CASE CreateSemaphore \/ TakeToken \/ Delay \/ UNCHANGED vars
  BY <1>0, <1>4 DEF AlertOnce, CreateSemaphore, TakeToken, Delay, vars
<1> QED
  BY <1>1, <1>2, <1>3, <1>4 DEF Next, Handler, RestartTask

\* A token is put in for a node that waits, and a node stops waiting only when one is
\* taken out.
LEMMA ReservedStep == ASSUME IInv, [Next]_vars PROVE Reserved'
<1>0. /\ TypeOK /\ Threads /\ AlertOnce /\ Reserved
      /\ Cardinality(Waiting) \in Nat /\ Cardinality(Waiting') \in Nat
      /\ IsFiniteSet(Waiting) /\ Tokens \in Nat
  BY WaitingFinite, CountType DEF IInv
<1>1. ASSUME NEW n \in Nodes, HandlerReadsStatus(n) PROVE Reserved'
  <2>1. CASE state[n] = "failed"
    <3>1. n \notin Waiting
      BY <1>0, <1>1 DEF Waiting, AlertOnce, HandlerReadsStatus, MayStart
    <3>2. Waiting' = Waiting \cup {n}
      BY <1>0, <1>1, <2>1 DEF TypeOK, Waiting, HandlerReadsStatus
    <3>3. Cardinality(Waiting') = Cardinality(Waiting) + 1
      BY <1>0, <3>1, <3>2, FS_AddElement
    <3>4. Tokens' = Tokens /\ One(task = "restart")' = One(task = "restart")
      BY <1>1, <2>1 DEF HandlerReadsStatus, Tokens, One
    <3>5. One(task = "restart") \in {0, 1}
      BY DEF One
    <3>6. One(Giving) = 0 /\ One(Giving)' \in {0, 1}
      BY <1>1 DEF HandlerReadsStatus, MayStart, Active, Giving, One
    <3> QED
      BY <1>0, <3>3, <3>4, <3>5, <3>6 DEF Reserved
  <2>2. CASE state[n] # "failed"
    BY <1>0, <1>1, <2>2 DEF Reserved, HandlerReadsStatus, Tokens, One, Waiting, Giving
  <2> QED
    BY <2>1, <2>2
<1>2. ASSUME NEW n \in Nodes, HandlerGives(n) PROVE Reserved'
  <2>1. Waiting' = Waiting /\ task' = task
    BY <1>2 DEF HandlerGives, Waiting
  <2>2. One(task = "restart")' = One(task = "restart") /\ One(task = "restart") \in {0, 1}
    BY <2>1 DEF One
  <2>3. One(Giving) = 1 /\ One(Giving)' = 0
    <3>1. Giving /\ \A m \in Nodes : handlerAt'[m] # "give"
      BY <1>0, <1>2 DEF TypeOK, Threads, HandlerGives, Giving
    <3> QED
      BY <3>1 DEF Giving, One
  <2>4. Tokens' \in Nat /\ Tokens' <= Tokens + 1
    <3>1. CASE g_can_restart_phore = NULL
      BY <1>2, <3>1 DEF HandlerGives, Tokens
    <3>2. CASE g_can_restart_phore # NULL
      <4>1. g_can_restart_phore \in Nat /\ Tokens = g_can_restart_phore /\ MaxCount \in Nat
        BY <1>0, <3>2, CountType
      <4>2. g_can_restart_phore' \in Nat /\ g_can_restart_phore' <= g_can_restart_phore + 1
        BY <1>2, <3>2, <4>1 DEF HandlerGives
      <4>3. g_can_restart_phore' # NULL
        BY <4>2, CanRestartAssumption
      <4>4. Tokens' = g_can_restart_phore'
        BY <4>3 DEF Tokens
      <4> QED
        BY <4>1, <4>2, <4>4
    <3> QED
      BY <3>1, <3>2
  <2> QED
    BY <1>0, <2>1, <2>2, <2>3, <2>4 DEF Reserved
<1>3. CASE TakeToken
  <2>1. /\ g_can_restart_phore \in Nat /\ Tokens = g_can_restart_phore
        /\ g_can_restart_phore > 0
    BY <1>0, <1>3, CountType DEF Threads, TakeToken
  <2>2. g_can_restart_phore' = Tokens - 1 /\ Tokens - 1 \in Nat
    BY <1>3, <2>1 DEF TakeToken
  <2>3. g_can_restart_phore' # NULL
    BY <2>2, CanRestartAssumption
  <2>4. Tokens' = Tokens - 1
    BY <2>2, <2>3 DEF Tokens
  <2>5. /\ Waiting' = Waiting /\ One(task = "restart") = 0 /\ One(task = "restart")' = 1
        /\ One(Giving)' = One(Giving)
        /\ One(Giving) \in {0, 1}
    BY <1>3 DEF TakeToken, Waiting, One, Giving
  <2> QED
    BY <1>0, <2>4, <2>5 DEF Reserved
<1>4. CASE RestartNode
  <2>1. restart_num \in Nodes
    BY <1>0 DEF TypeOK
  <2>2. Waiting' = Waiting \ {restart_num}
    BY <1>0, <1>4, <2>1 DEF TypeOK, Waiting, RestartNode
  <2>3. Cardinality(Waiting') >= Cardinality(Waiting) - 1
    BY <1>0, <2>2, FS_RemoveElement
  <2>4. /\ Tokens' = Tokens /\ One(task = "restart") = 1 /\ One(task = "restart")' = 0
        /\ One(Giving)' = One(Giving)
        /\ One(Giving) \in {0, 1}
    BY <1>4 DEF RestartNode, Tokens, One, Giving
  <2> QED
    BY <1>0, <2>3, <2>4 DEF Reserved
<1>5. CASE CreateSemaphore
  <2>1. /\ Tokens' = 0 /\ Waiting' = Waiting
        /\ One(task = "restart")' = One(task = "restart") /\ One(task = "restart") \in {0, 1}
        /\ One(Giving)' = One(Giving)
        /\ One(Giving) \in {0, 1}
    BY <1>5 DEF CreateSemaphore, Tokens, Waiting, One, Giving
  <2> QED
    BY <1>0, <2>1 DEF Reserved
<1>6. CASE Delay
  <2>1. /\ Tokens' = Tokens /\ Waiting' = Waiting
        /\ One(task = "restart")' = One(task = "restart") /\ One(Giving)' = One(Giving)
    BY <1>6 DEF Delay, Tokens, Waiting, One, Giving
  <2> QED
    BY <1>0, <2>1 DEF Reserved
<1>9. ASSUME NEW n \in Nodes, HandlerSetsNumber(n) PROVE Reserved'
  <2>1. Giving' = Giving
    BY <1>0, <1>9 DEF TypeOK, HandlerSetsNumber, Giving
  <2>2. Tokens' = Tokens /\ Waiting' = Waiting /\ One(task = "restart")' = One(task = "restart")
    BY <1>9 DEF HandlerSetsNumber, Tokens, Waiting, One
  <2> QED
    BY <1>0, <2>1, <2>2 DEF Reserved, One
<1>7. ASSUME NEW n \in Nodes, NEW kind \in {"active", "warning", "failed"}, NodeError(n, kind)
      PROVE  Reserved'
  <2>1. Tokens' = Tokens /\ Waiting' = Waiting /\ task' = task /\ handlerAt' = handlerAt
    BY <1>7 DEF NodeError, Tokens, Waiting
  <2> QED
    BY <1>0, <2>1 DEF Reserved, One, Giving
<1>8. CASE UNCHANGED vars
  BY <1>0, <1>8 DEF Reserved, Tokens, Waiting, One, Giving, vars
<1> QED
  BY <1>1, <1>2, <1>3, <1>4, <1>5, <1>6, <1>7, <1>8, <1>9 DEF Next, Handler, RestartTask

\* IInv holds in every reachable state.
THEOREM AlwaysInv == Spec => []IInv
<1>1. IInv /\ [Next]_vars => IInv'
  BY TypeStep, ThreadsStep, AlertStep, ReservedStep DEF IInv
<1> QED
  BY InitInv, <1>1, PTL DEF Spec

-----------------------------------------------------------------------------
\* The type invariant: the semaphore never counts beyond its maximum, and the task
\* never takes from one that it has not created.
THEOREM TypeInvariant == Spec => []TypeOK
<1>1. IInv => TypeOK
  BY DEF IInv
<1> QED
  BY AlwaysInv, <1>1, PTL

\* canIsrAlertHandler and multi_can_restart: the tokens never outnumber the nodes
\* whose alert is off, whichever node the task restarts.
THEOREM TokensMatch == Spec => []TokensMatchFailures
<1>1. IInv => TokensMatchFailures
  <2> SUFFICES ASSUME IInv PROVE TokensMatchFailures
    OBVIOUS
  <2>1. Tokens \in Nat /\ Cardinality(Waiting) \in Nat
    BY CountType, WaitingFinite DEF IInv
  <2>2. /\ One(task = "restart") \in {0, 1} /\ One(Giving) \in {0, 1}
        /\ One(task = "restart") = IF task = "restart" THEN 1 ELSE 0
    BY DEF One
  <2>3. Tokens + One(task = "restart") <= Cardinality(Waiting)
    BY <2>1, <2>2 DEF IInv, Reserved
  <2> QED
    BY <2>2, <2>3 DEF TokensMatchFailures, Waiting
<1> QED
  BY AlwaysInv, <1>1, PTL
=============================================================================
