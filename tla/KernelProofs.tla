---------------------------- MODULE KernelProofs ----------------------------
(***************************************************************************)
(* Proofs about Kernel, for any number of tasks, queues and mutexes, any   *)
(* calls of the application and of its interrupts, and any priorities.     *)
(***************************************************************************)
EXTENDS Kernel, FiniteSetTheorems, SequenceTheorems, WellFoundedInduction, TLAPS

(* The lists. *)

\* Whoever is in the new list was in the old one, in the same order.
InOrder(new, old) ==
  /\ ToSet(new) \subseteq ToSet(old)
  /\ \A i, j \in 1..Len(new) : i < j =>
       \E a, b \in 1..Len(old) : a < b /\ old[a] = new[i] /\ old[b] = new[j]

\* Nobody in the list is behind a task of lower priority.
Sorted(list) == \A i, j \in 1..Len(list) : i < j => uxPriority[list[i]] >= uxPriority[list[j]]

\* Removing tasks from a list keeps the others in order, and no task twice that was there once:
\* for each k up to the number of kept positions there is one that k of them lead up to.
LEMMA WithoutProperties ==
  ASSUME NEW list \in Seq(Tasks), NEW T
  PROVE  /\ Without(list, T) \in Seq(Tasks)
         /\ ToSet(Without(list, T)) = ToSet(list) \ T
         /\ IsInjective(list) => IsInjective(Without(list, T))
         /\ InOrder(Without(list, T), list)
<1> DEFINE Kept(n) == {i \in 1..n : list[i] \notin T}
           all == Kept(Len(list))
           N == Cardinality(all)
           rank == [i \in all |-> Cardinality(Kept(i))]
<1>1. Len(list) \in Nat /\ \A i \in 1..Len(list) : list[i] \in Tasks
  BY LenProperties, ElementOfSeq
<1>2. ASSUME NEW n \in Nat PROVE IsFiniteSet(Kept(n)) /\ Cardinality(Kept(n)) \in Nat
  <2>1. IsFiniteSet(1..n)
    BY FS_Interval
  <2>2. Kept(n) \in SUBSET (1..n)
    OBVIOUS
  <2> HIDE DEF Kept
  <2>3. IsFiniteSet(Kept(n))
    BY <2>1, <2>2, FS_Subset
  <2> QED
    BY <2>3, FS_CardinalityType
<1>3. all \subseteq 1..Len(list) /\ N \in Nat /\ IsFiniteSet(all)
  BY <1>1, <1>2
<1>4. ASSUME NEW i \in all PROVE rank[i] \in 1..N
  <2>1. i \in 1..Len(list) /\ i \in Kept(i) /\ Kept(i) \in SUBSET all
    BY <1>1
  <2>2. Cardinality(Kept(i)) <= N /\ Cardinality(Kept(i)) # 0
    <3>1. i \in Nat
      BY <1>1, <2>1
    <3>2. IsFiniteSet(Kept(i))
      BY <1>2, <3>1
    <3>3. Kept(i) # {}
      BY <2>1
    <3> HIDE DEF all, Kept
    <3>4. Cardinality(Kept(i)) <= N
      BY <1>3, <2>1, FS_Subset
    <3>5. Cardinality(Kept(i)) # 0
      BY <3>2, <3>3, FS_EmptySet
    <3> QED
      BY <3>4, <3>5
  <2>3. Cardinality(Kept(i)) \in Nat
    <3>1. i \in Nat
      BY <1>1, <2>1
    <3> QED
      BY <1>2, <3>1
  <2> QED
    BY <1>3, <2>2, <2>3
<1>5. ASSUME NEW i \in all, NEW j \in all, i < j PROVE rank[i] < rank[j]
  <2>1. i \in Nat /\ j \in Nat
    BY <1>1
  <2>2. Kept(i) \in SUBSET Kept(j) /\ j \in Kept(j) /\ j \notin Kept(i)
    BY <1>5, <2>1
  <2>3. IsFiniteSet(Kept(j))
    BY <1>2, <2>1
  <2>4. Cardinality(Kept(i)) < Cardinality(Kept(j))
    <3>1. Cardinality(Kept(i)) \in Nat /\ Cardinality(Kept(j)) \in Nat
      BY <1>2, <2>1
    <3> HIDE DEF all, Kept
    <3> QED
      BY <2>2, <2>3, <3>1, FS_Subset
  <2> QED
    BY <2>4
<1>6. rank \in Injection(all, 1..N)
  <2>1. rank \in [all -> 1..N]
    BY <1>4
  <2>2. \A i, j \in all : i < j \/ j < i \/ i = j
    BY <1>3
  <2> HIDE DEF rank, all
  <2>3. \A i, j \in all : rank[i] = rank[j] => i = j
    BY <1>5, <2>1, <2>2
  <2> QED
    BY <2>1, <2>3 DEF Injection, IsInjective
<1>7. rank \in Surjection(all, 1..N)
  <2>1. IsFiniteSet(1..N) /\ Cardinality(1..N) = N
    BY <1>3, FS_Interval
  <2> HIDE DEF rank, all
  <2> QED
    BY <1>6, <2>1, FS_Injection
<1>8. ASSUME NEW k \in 1..N
      PROVE  list[CHOOSE i \in all : Cardinality(Kept(i)) = k] \in Tasks
  <2>1. \E i \in all : Cardinality(Kept(i)) = k
    BY <1>7 DEF Surjection
  <2>2. (CHOOSE i \in all : Cardinality(Kept(i)) = k) \in all
    <3> HIDE DEF all, Kept
    <3> QED
      BY <2>1
  <2> QED
    BY <1>1, <1>3, <2>2
<1> DEFINE place == [k \in 1..N |-> CHOOSE i \in all : Cardinality(Kept(i)) = k]
           W == [k \in 1..N |-> list[place[k]]]
<1>9. Without(list, T) = W
  BY DEF Without
<1>10. \A i : i \in all <=> i \in 1..Len(list) /\ list[i] \notin T
  OBVIOUS
<1>11. N \in Nat /\ DOMAIN list = 1..Len(list)
  BY <1>3, LenProperties
<1> HIDE DEF Kept
<1>12. ASSUME NEW k \in 1..N PROVE place[k] \in all /\ rank[place[k]] = k
  <2>1. \E i \in all : Cardinality(Kept(i)) = k
    BY <1>7 DEF Surjection
  <2> HIDE DEF all
  <2> QED
    BY <2>1
<1> HIDE DEF all, N, place, rank
<1>17. ASSUME NEW k \in 1..N, NEW l \in 1..N, k < l PROVE place[k] < place[l]
  <2>1. place[k] \in all /\ place[l] \in all /\ rank[place[k]] = k /\ rank[place[l]] = l
    BY <1>12
  <2>2. place[k] \in 1..Len(list) /\ place[l] \in 1..Len(list)
    BY <1>10, <2>1
  <2>3. ~(place[l] < place[k]) /\ place[l] # place[k]
    BY <1>5, <1>11, <1>17, <2>1
  <2> QED
    BY <1>1, <2>2, <2>3
<1>13. ASSUME NEW i \in all PROVE rank[i] \in 1..N /\ place[rank[i]] = i
  <2>1. rank \in [all -> 1..N]
    BY <1>6 DEF Injection
  <2>2. \A a, b \in all : rank[a] = rank[b] => a = b
    BY <1>6 DEF Injection, IsInjective
  <2> QED
    BY <1>12, <2>1, <2>2
<1>14. W \in Seq(Tasks)
  <2>1. \A k \in 1..N : list[place[k]] \in Tasks
    BY <1>1, <1>10, <1>12
  <2>2. W \in [1..N -> Tasks]
    BY <2>1
  <2> HIDE DEF W
  <2> QED
    BY <1>11, <2>2, SeqDef
<1>15. ToSet(W) = ToSet(list) \ T
  <2>1. ASSUME NEW k \in 1..N PROVE W[k] \in ToSet(list) \ T
    BY <1>10, <1>11, <1>12, <2>1 DEF ToSet
  <2>2. ASSUME NEW i \in 1..Len(list), list[i] \notin T PROVE list[i] \in ToSet(W)
    <3>1. rank[i] \in 1..N /\ W[rank[i]] = list[i]
      BY <1>10, <1>13, <2>2
    <3> QED
      BY <3>1 DEF ToSet
  <2> QED
    BY <1>11, <2>1, <2>2 DEF ToSet
<1>16. ASSUME IsInjective(list), NEW k \in 1..N, NEW l \in 1..N, W[k] = W[l] PROVE k = l
  <2>1. place[k] \in DOMAIN list /\ place[l] \in DOMAIN list
    BY <1>10, <1>11, <1>12
  <2>2. place[k] = place[l]
    BY <1>16, <2>1 DEF IsInjective
  <2> QED
    BY <1>12, <2>2
<1>18. InOrder(W, list)
  <2>1. Len(W) = N
    BY <1>11, <1>14, LenProperties
  <2>2. ASSUME NEW k \in 1..N, NEW l \in 1..N, k < l
        PROVE  \E a, b \in 1..Len(list) : a < b /\ list[a] = W[k] /\ list[b] = W[l]
    BY <1>10, <1>12, <1>17, <2>2
  <2> HIDE DEF W
  <2> QED
    BY <1>15, <2>1, <2>2 DEF InOrder
<1> QED
  BY <1>9, <1>14, <1>15, <1>16, <1>18 DEF IsInjective

\* Inserting a task adds it to the list: there is a first place that its priority admits.
LEMMA InsertByPriorityProperties ==
  ASSUME NEW list \in Seq(Tasks), NEW t \in Tasks
  PROVE  /\ InsertByPriority(list, t) \in Seq(Tasks)
         /\ ToSet(InsertByPriority(list, t)) = ToSet(list) \cup {t}
         /\ IsInjective(list) /\ t \notin ToSet(list) => IsInjective(InsertByPriority(list, t))
         /\ uxPriority \in [Tasks -> Nat] /\ Sorted(list) => Sorted(InsertByPriority(list, t))
<1> DEFINE Stop(k) == k > Len(list) \/ uxPriority[list[k]] < uxPriority[t]
           first == CHOOSE k \in 1..Len(list) + 1 :
                      Stop(k) /\ \A i \in 1..k - 1 : ~Stop(i)
           B == {k \in 1..Len(list) + 1 : Stop(k)}
<1>1. Len(list) \in Nat /\ \A i \in 1..Len(list) : list[i] \in Tasks
  BY LenProperties, ElementOfSeq
<1>2. B \subseteq Nat /\ Len(list) + 1 \in B
  BY <1>1
<1>3. PICK k \in B : \A i \in B : ~(i < k)
  <2>1. \E k \in B : \A i \in B : <<i, k>> \notin OpToRel(<, Nat)
    <3> HIDE DEF B
    <3>1. B # {}
      BY <1>2
    <3> QED
      BY <1>2, <3>1, NatLessThanWellFounded, WFMin
  <2> QED
    BY <1>2, <2>1 DEF OpToRel
<1>4. Stop(k) /\ \A i \in 1..k - 1 : ~Stop(i)
  BY <1>1, <1>3
<1>5. first \in 1..Len(list) + 1
  <2>1. \E j \in 1..Len(list) + 1 : Stop(j) /\ \A i \in 1..j - 1 : ~Stop(i)
    BY <1>4
  <2> HIDE DEF Stop
  <2> QED
    BY <2>1
<1>6. InsertByPriority(list, t) = SubSeq(list, 1, first - 1) \o <<t>> \o SubSeq(list, first, Len(list))
  BY DEF InsertByPriority, InsertAt
<1>16. Stop(first) /\ \A i \in 1..first - 1 : ~Stop(i)
  <2>1. \E j \in 1..Len(list) + 1 : Stop(j) /\ \A i \in 1..j - 1 : ~Stop(i)
    BY <1>4
  <2> HIDE DEF Stop
  <2> QED
    BY <2>1
<1> HIDE DEF first
<1> DEFINE new == InsertByPriority(list, t)
           front == SubSeq(list, 1, first - 1)
           rest == SubSeq(list, first, Len(list))
<1>7. /\ front \in Seq(Tasks) /\ Len(front) = first - 1
      /\ \A i \in 1..first - 1 : front[i] = list[i]
  BY <1>1, <1>5, SubSeqProperties
<1>8. /\ rest \in Seq(Tasks) /\ Len(rest) = Len(list) + 1 - first
      /\ \A i \in 1..Len(list) + 1 - first : rest[i] = list[first + i - 1]
  BY <1>1, <1>5, SubSeqProperties
<1>9. <<t>> \in Seq(Tasks) /\ Len(<<t>>) = 1 /\ <<t>>[1] = t
  OBVIOUS
<1> HIDE DEF front, rest
<1>10. /\ front \o <<t>> \in Seq(Tasks) /\ Len(front \o <<t>>) = first
       /\ \A i \in 1..first : (front \o <<t>>)[i] = IF i < first THEN list[i] ELSE t
  BY <1>1, <1>5, <1>7, <1>9, ConcatProperties
<1>11. /\ new \in Seq(Tasks) /\ Len(new) = Len(list) + 1
       /\ \A i \in 1..Len(list) + 1 :
            new[i] = IF i < first THEN list[i] ELSE IF i = first THEN t ELSE list[i - 1]
  <2>1. new = (front \o <<t>>) \o rest
    BY <1>6 DEF front, rest
  <2> DEFINE start == front \o <<t>>
  <2>2. start \in Seq(Tasks) /\ Len(start) = first
    BY <1>10
  <2> HIDE DEF start
  <2>3. /\ start \o rest \in Seq(Tasks) /\ Len(start \o rest) = Len(list) + 1
        /\ \A i \in 1..Len(list) + 1 :
             (start \o rest)[i] = IF i <= first THEN start[i] ELSE rest[i - first]
    <3>1. /\ start \o rest \in Seq(Tasks) /\ Len(start \o rest) = Len(start) + Len(rest)
          /\ \A i \in 1..Len(start) + Len(rest) :
               (start \o rest)[i] = IF i <= Len(start) THEN start[i] ELSE rest[i - Len(start)]
      BY <1>8, <2>2, ConcatProperties
    <3>2. Len(start) + Len(rest) = Len(list) + 1
      BY <1>1, <1>5, <1>8, <2>2
    <3> QED
      BY <2>2, <3>1, <3>2
  <2>4. \A i \in 1..first : start[i] = IF i < first THEN list[i] ELSE t
    BY <1>10 DEF start
  <2> HIDE DEF new
  <2>6. new = start \o rest
    BY <2>1 DEF start
  <2>5. ASSUME NEW i \in 1..Len(list) + 1
        PROVE new[i] = IF i < first THEN list[i] ELSE IF i = first THEN t ELSE list[i - 1]
    <3>1. CASE i <= first
      <4>1. i \in 1..first /\ new[i] = start[i]
        BY <1>5, <2>3, <2>5, <2>6, <3>1
      <4> QED
        BY <1>5, <2>4, <2>5, <3>1, <4>1
    <3>2. CASE i > first
      <4>1. i - first \in 1..Len(list) + 1 - first /\ first + (i - first) - 1 = i - 1
        BY <1>1, <1>5, <2>5, <3>2
      <4>2. new[i] = rest[i - first]
        BY <1>5, <2>3, <2>5, <2>6, <3>2
      <4>3. rest[i - first] = list[i - 1]
        BY <1>8, <4>1
      <4> QED
        BY <1>5, <2>5, <3>2, <4>2, <4>3
    <3> QED
      BY <1>5, <2>5, <3>1, <3>2
  <2> QED
    BY <2>3, <2>5, <2>6
<1> HIDE DEF new
<1>12. DOMAIN new = 1..Len(list) + 1 /\ DOMAIN list = 1..Len(list)
  BY <1>11, LenProperties
<1>13. ToSet(new) = ToSet(list) \cup {t}
  <2>1. ASSUME NEW i \in 1..Len(list) PROVE list[i] \in ToSet(new)
    <3>1. i < first => new[i] = list[i] /\ i \in 1..Len(list) + 1
      BY <1>1, <1>5, <1>11
    <3>2. ~(i < first) => new[i + 1] = list[i] /\ i + 1 \in 1..Len(list) + 1
      BY <1>1, <1>5, <1>11
    <3> QED
      BY <1>12, <3>1, <3>2 DEF ToSet
  <2>2. t \in ToSet(new)
    <3>1. first \in DOMAIN new /\ new[first] = t
      BY <1>1, <1>5, <1>11, <1>12
    <3> QED
      BY <3>1 DEF ToSet
  <2>3. ASSUME NEW i \in 1..Len(list) + 1 PROVE new[i] \in ToSet(list) \cup {t}
    <3>1. i < first => i \in DOMAIN list /\ new[i] = list[i]
      BY <1>1, <1>5, <1>11, <1>12
    <3>2. i > first => i - 1 \in DOMAIN list /\ new[i] = list[i - 1]
      BY <1>1, <1>5, <1>11, <1>12
    <3>3. i = first => new[i] = t
      BY <1>11
    <3>4. i < first \/ i > first \/ i = first
      BY <1>1, <1>5
    <3> QED
      BY <3>1, <3>2, <3>3, <3>4 DEF ToSet
  <2> QED
    BY <1>12, <2>1, <2>2, <2>3 DEF ToSet
<1>14. ASSUME IsInjective(list), t \notin ToSet(list),
              NEW i \in 1..Len(list) + 1, NEW j \in 1..Len(list) + 1, i < j
       PROVE  new[i] # new[j]
  <2>1. \A a, b \in 1..Len(list) : a # b => list[a] # list[b]
    BY <1>12, <1>14 DEF IsInjective
  <2>2. \A a \in 1..Len(list) : list[a] # t
    BY <1>12, <1>14 DEF ToSet
  <2>3. /\ new[i] = IF i < first THEN list[i] ELSE IF i = first THEN t ELSE list[i - 1]
        /\ new[j] = IF j < first THEN list[j] ELSE IF j = first THEN t ELSE list[j - 1]
    BY <1>11
  <2>4. CASE j < first
    BY <1>1, <1>5, <1>14, <2>1, <2>3, <2>4
  <2>5. CASE j = first
    BY <1>1, <1>5, <1>14, <2>2, <2>3, <2>5
  <2>6. CASE j > first /\ i < first
    BY <1>1, <1>5, <1>14, <2>1, <2>3, <2>6
  <2>7. CASE j > first /\ i = first
    BY <1>1, <1>5, <1>14, <2>2, <2>3, <2>7
  <2>8. CASE j > first /\ i > first
    BY <1>1, <1>5, <1>14, <2>1, <2>3, <2>8
  <2> QED
    BY <1>1, <1>5, <2>4, <2>5, <2>6, <2>7, <2>8
<1>15. IsInjective(list) /\ t \notin ToSet(list) => IsInjective(new)
  <2>1. \A i, j \in 1..Len(list) + 1 : i < j \/ j < i \/ i = j
    BY <1>1
  <2> QED
    BY <1>12, <1>14, <2>1 DEF IsInjective
<1>17. ASSUME uxPriority \in [Tasks -> Nat], Sorted(list),
              NEW i \in 1..Len(list) + 1, NEW j \in 1..Len(list) + 1, i < j
       PROVE  uxPriority[new[i]] >= uxPriority[new[j]]
  <2>1. \A a, b \in 1..Len(list) : a < b => uxPriority[list[a]] >= uxPriority[list[b]]
    BY <1>17 DEF Sorted
  <2>2. /\ \A a \in 1..Len(list) : uxPriority[list[a]] \in Nat
        /\ uxPriority[t] \in Nat
    BY <1>1, <1>17
  <2>3. /\ new[i] = IF i < first THEN list[i] ELSE IF i = first THEN t ELSE list[i - 1]
        /\ new[j] = IF j < first THEN list[j] ELSE IF j = first THEN t ELSE list[j - 1]
    BY <1>11
  <2>4. \A a \in 1..first - 1 : a \in 1..Len(list) /\ ~(uxPriority[list[a]] < uxPriority[t])
    BY <1>1, <1>5, <1>16
  <2>5. first <= Len(list) => uxPriority[list[first]] < uxPriority[t]
    BY <1>1, <1>5, <1>16
  <2> HIDE DEF Stop
  <2>6. CASE j < first
    BY <1>1, <1>5, <1>17, <2>1, <2>3, <2>6
  <2>7. CASE j = first
    BY <1>1, <1>5, <1>17, <2>2, <2>3, <2>4, <2>7
  <2>8. CASE j > first /\ i # first
    <3>1. CASE i < first
      <4>1. i \in 1..Len(list) /\ j - 1 \in 1..Len(list) /\ i < j - 1
        BY <1>1, <1>5, <2>8, <3>1
      <4>2. new[i] = list[i] /\ new[j] = list[j - 1]
        BY <1>1, <1>5, <2>3, <2>8, <3>1
      <4> QED
        BY <2>1, <4>1, <4>2
    <3>2. CASE i > first
      <4>1. i - 1 \in 1..Len(list) /\ j - 1 \in 1..Len(list) /\ i - 1 < j - 1
        BY <1>1, <1>5, <1>17, <2>8, <3>2
      <4>2. new[i] = list[i - 1] /\ new[j] = list[j - 1]
        BY <1>1, <1>5, <2>3, <2>8, <3>2
      <4> QED
        BY <2>1, <4>1, <4>2
    <3> QED
      BY <1>1, <1>5, <2>8, <3>1, <3>2
  <2>9. CASE j > first /\ i = first
    <3>1. first \in 1..Len(list) /\ j - 1 \in 1..Len(list) /\ new[i] = t /\ new[j] = list[j - 1]
      BY <1>1, <1>5, <2>3, <2>9
    <3>2. first = j - 1 \/ first < j - 1
      BY <1>1, <1>5, <2>9
    <3>3. uxPriority[list[j - 1]] <= uxPriority[list[first]]
      BY <2>1, <2>2, <3>1, <3>2
    <3> QED
      BY <2>2, <2>5, <3>1, <3>3
  <2> QED
    BY <1>1, <1>5, <2>6, <2>7, <2>8, <2>9
<1>18. uxPriority \in [Tasks -> Nat] /\ Sorted(list) => Sorted(new)
  BY <1>11, <1>17 DEF Sorted
<1> QED
  BY <1>11, <1>13, <1>15, <1>18 DEF new

-----------------------------------------------------------------------------
(* Types.  The bounds of uxSchedulerSuspended and uxMutexesHeld follow from   *)
(* the invariants further down; here they are integers.                       *)

TasksTyped ==
  /\ pxCurrentTCB \in Tasks
  /\ xYieldPending \in BOOLEAN
  /\ pc \in [Tasks -> Labels]
  /\ call \in [Tasks -> Calls \cup {NULL}]
  /\ xTicksToWait \in [Tasks -> Waits]
  /\ expired \in [Tasks -> BOOLEAN]
  /\ outcome \in [Tasks -> {"again", "timedOut", "blocked", "delayed"}]
  /\ xInheritanceOccurred \in [Tasks -> BOOLEAN]

ListsTyped ==
  /\ stateList \in [Tasks -> {"ready", "delayed", "suspended"}]
  /\ xPendingReadyList \in Seq(Tasks)
  /\ xTasksWaiting \in [Queues \X Fns -> Seq(Tasks)]

QueuesTyped ==
  /\ uxMessagesWaiting \in [Queues -> Nat]
  /\ \A q \in Queues : uxMessagesWaiting[q] <= uxLength[q]
  /\ cLock \in [Queues \X Fns -> Nat \cup {queueUNLOCKED}]

PriorityTyped ==
  /\ uxPriority \in [Tasks -> Nat]
  /\ uxMutexesHeld \in [Tasks -> Int]
  /\ pxMutexHolder \in [Mutexes -> Tasks \cup {NULL}]

CountersTyped == uxSchedulerSuspended \in Int /\ uxPendedTicks \in Nat

QueueLabels == {"try", "lock", "check", "test", "inherit", "unlockTx", "unlockRx",
                "retest", "disinherit"}

\* Where a task is in its call tells what kind of call it is.
CallsFitLabels ==
  \A t \in Tasks :
    /\ pc[t] # "app" => call[t] \in Calls
    /\ pc[t] \in QueueLabels => call[t].fn \in Fns
    /\ pc[t] \in {"inherit", "disinherit"} => call[t].queue \in Mutexes
    /\ pc[t] # "app" /\ xInheritanceOccurred[t] => call[t].queue \in Mutexes
    /\ pc[t] \in {"resume", "yield"} /\ outcome[t] # "delayed" => call[t].fn \in Fns

Typed == /\ TasksTyped /\ ListsTyped /\ QueuesTyped
         /\ PriorityTyped /\ CountersTyped /\ CallsFitLabels

\* The fields of a call from Calls have the types Kernel gives them.
LEMMA CallFields ==
  ASSUME NEW c \in Calls
  PROVE  c.task \in Tasks /\ c.fn \in Fns \cup {"delay"} /\ c.queue \in Queues /\ c.wait \in Waits
BY KernelAssumption DEF CallType

\* What the running task knows of its call at a label.
LEMMA AtLabel ==
  ASSUME Typed, NEW t \in Tasks, NEW label, At(t, label), label # "app"
  PROVE  /\ call[t] \in Calls /\ call[t].queue \in Queues
         /\ call[t].fn \in Fns \cup {"delay"} /\ call[t].wait \in Waits
         /\ label \in QueueLabels => call[t].fn \in Fns
BY CallFields DEF Typed, CallsFitLabels, At

\* The other side of a queue is a side of it.
LEMMA OtherType == \A f \in Fns : Other(f) \in Fns
BY DEF Fns, Other

\* Receiving and sending keep a message count between 0 and uxLength.
LEMMA TransferType ==
  ASSUME QueuesTyped, NEW q \in Queues, NEW f \in Fns, Possible(q, f), Transfer(q, f)
  PROVE  /\ uxMessagesWaiting' \in [Queues -> Nat]
         /\ \A r \in Queues : uxMessagesWaiting'[r] <= uxLength[r]
<1>1. uxLength \in [Queues -> Nat]
  BY KernelAssumption
<1>2. CASE f = "send"
  <2>1. uxMessagesWaiting[q] < uxLength[q]
    BY <1>2 DEF Possible
  <2>2. uxMessagesWaiting' = [uxMessagesWaiting EXCEPT ![q] = @ + 1]
    BY <1>2 DEF Transfer
  <2> QED
    BY <1>1, <2>1, <2>2 DEF QueuesTyped
<1>3. CASE f = "take"
  <2>1. uxMessagesWaiting[q] > 0
    BY <1>3 DEF Possible
  <2>2. uxMessagesWaiting' = [uxMessagesWaiting EXCEPT ![q] = @ - 1]
    BY <1>3 DEF Transfer
  <2> QED
    BY <1>1, <2>1, <2>2 DEF QueuesTyped
<1> QED
  BY <1>2, <1>3 DEF Fns

\* vTaskSwitchContext picks a task.
LEMMA SwitchContextType ==
  ASSUME SwitchContext, pxCurrentTCB \in Tasks
  PROVE  pxCurrentTCB' \in Tasks /\ xYieldPending' \in BOOLEAN
BY DEF SwitchContext, HighestReady, Ready

\* A yield picks a task, or leaves the running one.
LEMMA YieldType ==
  ASSUME NEW needed \in BOOLEAN, Yield(needed), TasksTyped
  PROVE  pxCurrentTCB' \in Tasks /\ xYieldPending' \in BOOLEAN
BY SwitchContextType DEF Yield, TasksTyped

\* xTaskRemoveFromEventList leaves lists of tasks behind.
LEMMA WakeOneType ==
  ASSUME ListsTyped, NEW q \in Queues, NEW f \in Fns, WakeOne(q, f)
  PROVE  ListsTyped'
<1>1. CASE xTasksWaiting[<<q, f>>] = <<>>
  BY <1>1 DEF WakeOne, ListsTyped
<1>2. CASE xTasksWaiting[<<q, f>>] # <<>>
  <2> DEFINE list == xTasksWaiting[<<q, f>>]
  <2>1. list \in Seq(Tasks)
    BY DEF ListsTyped
  <2>2. Head(list) \in Tasks /\ Tail(list) \in Seq(Tasks)
    BY <1>2, <2>1, HeadTailProperties
  <2>3. Append(xPendingReadyList, Head(list)) \in Seq(Tasks)
    BY <2>2, AppendProperties DEF ListsTyped
  <2>4. RemoveFromEventList(q, f)
    BY <1>2 DEF WakeOne
  <2> QED
    BY <2>2, <2>3, <2>4 DEF RemoveFromEventList, ListsTyped
<1> QED
  BY <1>1, <1>2

\* Taking and giving a mutex keeps counts natural and holders tasks.
LEMMA UpdateMutexType ==
  ASSUME PriorityTyped, NEW t \in Tasks, NEW q \in Queues, NEW f \in Fns, UpdateMutex(t, q, f)
  PROVE  PriorityTyped'
<1>1. CASE q \notin Mutexes
  BY <1>1 DEF UpdateMutex, prioVars, PriorityTyped
<1>2. CASE q \in Mutexes /\ f = "take"
  <2>1. TakeMutex(t, q)
    BY <1>2 DEF UpdateMutex
  <2>2. pxMutexHolder' \in [Mutexes -> Tasks \cup {NULL}]
    BY <2>1 DEF TakeMutex, PriorityTyped
  <2>3. uxMutexesHeld' \in [Tasks -> Int] /\ uxPriority' \in [Tasks -> Nat]
    BY <2>1 DEF TakeMutex, PriorityTyped
  <2> QED
    BY <2>2, <2>3 DEF PriorityTyped
<1>3. CASE q \in Mutexes /\ f = "send"
  <2>1. GiveMutex(t, q)
    BY <1>3 DEF UpdateMutex
  <2>2. pxMutexHolder' \in [Mutexes -> Tasks \cup {NULL}]
    BY <2>1 DEF GiveMutex, PriorityTyped
  <2>3. uxMutexesHeld' \in [Tasks -> Int]
    BY <2>1 DEF GiveMutex, PriorityTyped
  <2>4. uxPriority' \in [Tasks -> Nat]
    BY <2>1, KernelAssumption DEF GiveMutex, PriorityTyped
  <2> QED
    BY <2>2, <2>3, <2>4 DEF PriorityTyped
<1> QED
  BY <1>1, <1>2, <1>3 DEF Fns

\* The tick wakes tasks from lists of tasks.
LEMMA ExpireType ==
  ASSUME ListsTyped, NEW E, Expire(E)
  PROVE  /\ xTasksWaiting' \in [Queues \X Fns -> Seq(Tasks)]
         /\ expired' \in [Tasks -> BOOLEAN]
<1>1. \A qf \in Queues \X Fns : xTasksWaiting[qf] \in Seq(Tasks)
  BY DEF ListsTyped
<1>2. \A qf \in Queues \X Fns : Without(xTasksWaiting[qf], E) \in Seq(Tasks)
  BY <1>1, WithoutProperties
<1> QED
  BY <1>2 DEF Expire, WithoutTasks

USE DEF schedVars, prioVars, callVars

\* The initial state is typed.
LEMMA TypedInit == Init => Typed
<1> SUFFICES ASSUME Init PROVE Typed
  OBVIOUS
<1>1. uxPriority = BasePriority /\ BasePriority \in [Tasks -> Nat]
  BY KernelAssumption DEF Init
<1>2. TasksTyped
  <2>1. pxCurrentTCB \in Tasks
    BY DEF Init, HighestReady, Ready
  <2> QED
    BY <2>1 DEF Init, TasksTyped, Labels, Waits
<1>3. ListsTyped
  <2>1. <<>> \in Seq(Tasks)
    BY EmptySeq
  <2> QED
    BY <2>1 DEF Init, ListsTyped
<1>4. QueuesTyped
  <2>1. uxLength \in [Queues -> Nat \ {0}]
    BY KernelAssumption
  <2> QED
    BY <2>1 DEF Init, QueuesTyped
<1>5. PriorityTyped /\ CountersTyped
  BY <1>1 DEF Init, PriorityTyped, CountersTyped
<1>6. CallsFitLabels
  BY DEF Init, CallsFitLabels, QueueLabels
<1> QED
  BY <1>2, <1>3, <1>4, <1>5, <1>6 DEF Typed

\* A task that enters a call leaves the state typed.
LEMMA CallTyped ==
  ASSUME Typed, NEW t \in Tasks, NEW c \in Calls, Call(t, c)
  PROVE  Typed'
<1> USE DEF Typed, At, Goto
<1>1. TasksTyped'
  BY CallFields DEF Call, TasksTyped, Labels
<1>2. CallsFitLabels'
  BY CallFields DEF Call, TasksTyped, CallsFitLabels, QueueLabels
<1>3. ListsTyped' /\ QueuesTyped' /\ PriorityTyped' /\ CountersTyped'
  BY DEF Call, ListsTyped, QueuesTyped, PriorityTyped, CountersTyped
<1> QED
  BY <1>1, <1>2, <1>3

\* The loop's first section without success: the time-out is recorded, or the call ends.
LEMMA TryFailsTyped ==
  ASSUME Typed, NEW t \in Tasks, TryFails(t)
  PROVE  Typed'
<1> USE DEF Typed, At, Goto
<1>1. TasksTyped'
  BY DEF TryFails, TasksTyped, Labels
<1>2. CallsFitLabels'
  BY DEF TryFails, TasksTyped, CallsFitLabels, QueueLabels
<1>3. ListsTyped' /\ QueuesTyped' /\ PriorityTyped' /\ CountersTyped'
  BY DEF TryFails, ListsTyped, QueuesTyped, PriorityTyped, CountersTyped
<1> QED
  BY <1>1, <1>2, <1>3

\* prvLockQueue.
LEMMA LockQueueTyped ==
  ASSUME Typed, NEW t \in Tasks, LockQueue(t)
  PROVE  Typed'
<1> USE DEF Typed, At, Goto
<1>1. TasksTyped'
  BY DEF LockQueue, TasksTyped, Labels
<1>2. CallsFitLabels'
  BY DEF LockQueue, TasksTyped, CallsFitLabels, QueueLabels
<1>3. QueuesTyped'
  BY DEF LockQueue, QueuesTyped, queueLOCKED_UNMODIFIED
<1>4. ListsTyped' /\ PriorityTyped' /\ CountersTyped'
  BY DEF LockQueue, ListsTyped, PriorityTyped, CountersTyped
<1> QED
  BY <1>1, <1>2, <1>3, <1>4

\* The last look at the queue when the time is over.
LEMMA RetestTyped ==
  ASSUME Typed, NEW t \in Tasks, Retest(t)
  PROVE  Typed'
<1> USE DEF Typed, At, Goto
<1>1. TasksTyped'
  BY DEF Retest, TasksTyped, Labels
<1>2. CallsFitLabels'
  BY DEF Retest, TasksTyped, CallsFitLabels, QueueLabels
<1>3. ListsTyped' /\ QueuesTyped' /\ PriorityTyped' /\ CountersTyped'
  BY DEF Retest, ListsTyped, QueuesTyped, PriorityTyped, CountersTyped
<1> QED
  BY <1>1, <1>2, <1>3

\* vTaskSuspendAll: the suspension does not nest.
LEMMA SuspendAllTyped ==
  ASSUME Typed, NEW t \in Tasks, SuspendAll(t)
  PROVE  Typed'
<1> USE DEF Typed, At, Goto
<1>1. TasksTyped'
  BY DEF SuspendAll, TasksTyped, Labels
<1>2. CallsFitLabels'
  BY CallFields DEF SuspendAll, TasksTyped, CallsFitLabels, QueueLabels
<1>3. ListsTyped' /\ QueuesTyped' /\ PriorityTyped' /\ CountersTyped'
  BY DEF SuspendAll, ListsTyped, QueuesTyped, PriorityTyped, CountersTyped
<1> QED
  BY <1>1, <1>2, <1>3

\* xTaskCheckForTimeOut.
LEMMA CheckForTimeOutTyped ==
  ASSUME Typed, NEW t \in Tasks, NEW timedOut \in BOOLEAN, CheckForTimeOut(t, timedOut)
  PROVE  Typed'
<1> USE DEF Typed, At, Goto
<1>1. TasksTyped'
  BY DEF CheckForTimeOut, TasksTyped, Labels, Waits
<1>2. CallsFitLabels'
  BY DEF CheckForTimeOut, TasksTyped, CallsFitLabels, QueueLabels
<1>3. ListsTyped' /\ QueuesTyped' /\ PriorityTyped' /\ CountersTyped'
  BY DEF CheckForTimeOut, ListsTyped, QueuesTyped, PriorityTyped, CountersTyped
<1> QED
  BY <1>1, <1>2, <1>3

\* prvIsQueueFull and prvIsQueueEmpty.
LEMMA TestQueueTyped ==
  ASSUME Typed, NEW t \in Tasks, TestQueue(t)
  PROVE  Typed'
<1> USE DEF Typed, At, Goto
<1>1. TasksTyped'
  BY DEF TestQueue, TasksTyped, Labels
<1>2. CallsFitLabels'
  BY DEF TestQueue, TasksTyped, CallsFitLabels, QueueLabels
<1>3. ListsTyped' /\ QueuesTyped' /\ PriorityTyped' /\ CountersTyped'
  BY DEF TestQueue, ListsTyped, QueuesTyped, PriorityTyped, CountersTyped
<1> QED
  BY <1>1, <1>2, <1>3

\* xTaskPriorityInherit: the priority given is the priority of a task.
LEMMA PriorityInheritTyped ==
  ASSUME Typed, NEW t \in Tasks, PriorityInherit(t)
  PROVE  Typed'
<1> USE DEF Typed, At, Goto
<1>1. TasksTyped'
  BY DEF PriorityInherit, TasksTyped, Labels
<1>2. PriorityTyped'
  BY DEF PriorityInherit, PriorityTyped, CallsFitLabels
<1>3. CallsFitLabels'
  BY DEF PriorityInherit, TasksTyped, CallsFitLabels, QueueLabels
<1>4. ListsTyped' /\ QueuesTyped' /\ CountersTyped'
  BY DEF PriorityInherit, ListsTyped, QueuesTyped, CountersTyped
<1> QED
  BY <1>1, <1>2, <1>3, <1>4

\* vTaskPriorityDisinheritAfterTimeout.
LEMMA DisinheritTyped ==
  ASSUME Typed, NEW t \in Tasks, PriorityDisinheritAfterTimeout(t)
  PROVE  Typed'
<1> USE DEF Typed, At, Goto
<1>1. TasksTyped'
  BY DEF PriorityDisinheritAfterTimeout, TasksTyped, Labels
<1>2. PriorityTyped'
  <2> DEFINE m == call[t].queue
  <2>1. m \in Mutexes /\ m \in Queues
    BY KernelAssumption DEF PriorityDisinheritAfterTimeout, CallsFitLabels
  <2>2. HighestWaiting(m) \in Nat
    <3>1. xTasksWaiting[<<m, "take">>] \in Seq(Tasks)
      BY <2>1 DEF ListsTyped, Fns
    <3>2. xTasksWaiting[<<m, "take">>] # <<>> => Head(xTasksWaiting[<<m, "take">>]) \in Tasks
      BY <3>1, HeadTailProperties
    <3> QED
      BY <3>2, KernelAssumption DEF HighestWaiting, PriorityTyped
  <2> QED
    BY <2>1, <2>2, KernelAssumption DEF PriorityDisinheritAfterTimeout, PriorityTyped
<1>3. CallsFitLabels'
  BY DEF PriorityDisinheritAfterTimeout, TasksTyped, CallsFitLabels, QueueLabels
<1>4. ListsTyped' /\ QueuesTyped' /\ CountersTyped'
  BY DEF PriorityDisinheritAfterTimeout, ListsTyped, QueuesTyped, CountersTyped
<1> QED
  BY <1>1, <1>2, <1>3, <1>4

\* vTaskPlaceOnEventList, and vTaskDelay's move to the delayed list.
LEMMA PlaceTyped ==
  ASSUME Typed, NEW t \in Tasks, PlaceOnEventList(t)
  PROVE  Typed'
<1> USE DEF Typed, At, Goto
<1>1. call[t].fn \in Fns \cup {"delay"} /\ call[t].queue \in Queues
  BY AtLabel DEF PlaceOnEventList
<1>2. TasksTyped'
  BY DEF PlaceOnEventList, TasksTyped, Labels
<1>3. ListsTyped'
  <2>1. stateList' \in [Tasks -> {"ready", "delayed", "suspended"}]
    BY DEF PlaceOnEventList, ListsTyped
  <2>2. xTasksWaiting' \in [Queues \X Fns -> Seq(Tasks)]
    <3>1. CASE call[t].fn = "delay"
      BY <3>1 DEF PlaceOnEventList, ListsTyped
    <3>2. CASE call[t].fn # "delay"
      <4> DEFINE qf == <<call[t].queue, call[t].fn>>
      <4>1. qf \in Queues \X Fns /\ xTasksWaiting[qf] \in Seq(Tasks)
        BY <1>1, <3>2 DEF ListsTyped
      <4>2. InsertByPriority(xTasksWaiting[qf], t) \in Seq(Tasks)
        BY <4>1, InsertByPriorityProperties
      <4>3. xTasksWaiting' = [xTasksWaiting EXCEPT ![qf] = InsertByPriority(xTasksWaiting[qf], t)]
        BY <3>2 DEF PlaceOnEventList
      <4> QED
        BY <4>2, <4>3 DEF ListsTyped
    <3> QED
      BY <3>1, <3>2
  <2> QED
    BY <2>1, <2>2 DEF PlaceOnEventList, ListsTyped
<1>4. CallsFitLabels'
  BY <1>1 DEF PlaceOnEventList, TasksTyped, CallsFitLabels, QueueLabels
<1>5. QueuesTyped' /\ PriorityTyped' /\ CountersTyped'
  BY DEF PlaceOnEventList, QueuesTyped, PriorityTyped, CountersTyped
<1> QED
  BY <1>2, <1>3, <1>4, <1>5

\* prvUnlockQueue moves a prefix of an event list to the pending ready list.
LEMMA UnlockTyped ==
  ASSUME Typed, NEW t \in Tasks, NEW q \in Queues, q = call[t].queue, NEW f \in Fns, Unlock(t, f)
  PROVE  /\ ListsTyped' /\ QueuesTyped' /\ PriorityTyped' /\ CountersTyped'
         /\ pxCurrentTCB' = pxCurrentTCB /\ xYieldPending' \in BOOLEAN
         /\ UNCHANGED callVars
<1> DEFINE of == <<q, Other(f)>>
           list == xTasksWaiting[of]
           n == WokenAtUnlock(q, f)
<1>1. <<q, f>> \in Queues \X Fns /\ of \in Queues \X Fns /\ list \in Seq(Tasks)
  BY OtherType DEF Typed, ListsTyped
<1>2. Len(list) \in Nat /\ \A i \in 1..Len(list) : list[i] \in Tasks
  BY <1>1, LenProperties, ElementOfSeq
<1>3. n \in Nat /\ n <= Len(list)
  BY <1>1, <1>2 DEF WokenAtUnlock, Typed, QueuesTyped, queueLOCKED_UNMODIFIED, queueUNLOCKED
<1>4. SubSeq(list, 1, n) \in Seq(Tasks) /\ SubSeq(list, n + 1, Len(list)) \in Seq(Tasks)
  <2> HIDE DEF list, n
  <2> QED
    BY <1>2, <1>3, SubSeqProperties
<1>5. xPendingReadyList \o SubSeq(list, 1, n) \in Seq(Tasks)
  <2> HIDE DEF list, n
  <2> QED
    BY <1>4, ConcatProperties DEF Typed, ListsTyped
<1>6. /\ xTasksWaiting' = [xTasksWaiting EXCEPT ![of] = SubSeq(list, n + 1, Len(list))]
      /\ xPendingReadyList' = xPendingReadyList \o SubSeq(list, 1, n)
  BY DEF Unlock
<1>7. ListsTyped'
  <2>1. stateList' = stateList
    BY DEF Unlock
  <2> HIDE DEF list, n
  <2> QED
    BY <1>4, <1>5, <1>6, <2>1 DEF Typed, ListsTyped
<1>8. QueuesTyped'
  BY DEF Unlock, UnlockedCount, Typed, QueuesTyped
<1>9. PriorityTyped' /\ CountersTyped' /\ pxCurrentTCB' = pxCurrentTCB /\ UNCHANGED callVars
  BY DEF Unlock, Typed, PriorityTyped, CountersTyped
<1>10. xYieldPending' \in BOOLEAN
  BY DEF Unlock
<1> QED
  BY <1>7, <1>8, <1>9, <1>10

\* The first critical section of prvUnlockQueue.
LEMMA UnlockTxTyped ==
  ASSUME Typed, NEW t \in Tasks, UnlockTx(t)
  PROVE  Typed'
<1> USE DEF At, Goto
<1>1. call[t].fn \in Fns /\ call[t].queue \in Queues
  BY AtLabel DEF UnlockTx, QueueLabels
<1>2. /\ ListsTyped' /\ QueuesTyped' /\ PriorityTyped' /\ CountersTyped'
      /\ pxCurrentTCB' = pxCurrentTCB /\ xYieldPending' \in BOOLEAN /\ UNCHANGED callVars
  BY <1>1, UnlockTyped DEF UnlockTx, Fns
<1>3. TasksTyped'
  BY <1>2 DEF UnlockTx, Typed, TasksTyped, Labels
<1>4. CallsFitLabels'
  BY <1>1, <1>2 DEF UnlockTx, Typed, TasksTyped, CallsFitLabels, QueueLabels
<1> QED
  BY <1>2, <1>3, <1>4 DEF Typed

\* The second critical section of prvUnlockQueue.
LEMMA UnlockRxTyped ==
  ASSUME Typed, NEW t \in Tasks, UnlockRx(t)
  PROVE  Typed'
<1> USE DEF At, Goto
<1>1. call[t].fn \in Fns /\ call[t].queue \in Queues
  BY AtLabel DEF UnlockRx, QueueLabels
<1>2. /\ ListsTyped' /\ QueuesTyped' /\ PriorityTyped' /\ CountersTyped'
      /\ pxCurrentTCB' = pxCurrentTCB /\ xYieldPending' \in BOOLEAN /\ UNCHANGED callVars
  BY <1>1, UnlockTyped DEF UnlockRx, Fns
<1>3. TasksTyped'
  BY <1>2 DEF UnlockRx, Typed, TasksTyped, Labels
<1>4. CallsFitLabels'
  BY <1>1, <1>2 DEF UnlockRx, Typed, TasksTyped, CallsFitLabels, QueueLabels
<1> QED
  BY <1>2, <1>3, <1>4 DEF Typed

\* A task that goes on after vTaskSuspendAll tries again only in a queue call.
LEMMA AfterType ==
  ASSUME Typed, NEW t \in Tasks, pc[t] \in {"resume", "yield"}
  PROVE  /\ After(t) \in {"try", "app", "retest"}
         /\ After(t) \in {"try", "retest"} => call[t].fn \in Fns
<1>1. outcome[t] \in {"again", "timedOut", "blocked", "delayed"}
  BY DEF Typed, TasksTyped
<1> QED
  BY <1>1 DEF After, Typed, CallsFitLabels

\* portYIELD_WITHIN_API.
LEMMA YieldWithinAPITyped ==
  ASSUME Typed, NEW t \in Tasks, YieldWithinAPI(t)
  PROVE  Typed'
<1> USE DEF At, Goto
<1>1. pc[t] = "yield" /\ pc' = [pc EXCEPT ![t] = After(t)]
  BY DEF YieldWithinAPI
<1>2. /\ After(t) \in {"try", "app", "retest"}
      /\ After(t) \in {"try", "retest"} => call[t].fn \in Fns
  BY <1>1, AfterType
<1>3. pxCurrentTCB' \in Tasks /\ xYieldPending' \in BOOLEAN
  BY SwitchContextType DEF YieldWithinAPI, Typed, TasksTyped
<1>4. UNCHANGED <<stateList, uxMessagesWaiting, cLock, xTasksWaiting, schedVars, prioVars, callVars>>
  BY DEF YieldWithinAPI
<1>5. TasksTyped'
  BY <1>1, <1>2, <1>3, <1>4 DEF Typed, TasksTyped, Labels
<1>6. CallsFitLabels'
  BY <1>1, <1>2, <1>4 DEF Typed, TasksTyped, CallsFitLabels, QueueLabels
<1>7. ListsTyped' /\ QueuesTyped' /\ PriorityTyped' /\ CountersTyped'
  BY <1>4 DEF Typed, ListsTyped, QueuesTyped, PriorityTyped, CountersTyped
<1> QED
  BY <1>5, <1>6, <1>7 DEF Typed

\* xTaskResumeAll: pending tasks become ready, pended ticks are made good.
LEMMA ResumeAllTyped ==
  ASSUME Typed, NEW t \in Tasks, ResumeAll(t)
  PROVE  Typed'
<1> USE DEF At, Goto
<1> DEFINE pended == ToSet(xPendingReadyList)
           moved == [u \in Tasks |-> IF u \in pended THEN "ready" ELSE stateList[u]]
           yield(E) == \/ xYieldPending
                       \/ \E u \in pended : uxPriority[u] >= uxPriority[t]
                       \/ uxPendedTicks > 0 /\ SwitchAtTick(E)
<1>1. PICK E \in SUBSET Delayed(moved) :
        /\ stateList' = [u \in Tasks |-> IF u \in E THEN "ready" ELSE moved[u]]
        /\ Expire(E)
        /\ Yield(yield(E))
        /\ Goto(t, IF ~yield(E) /\ outcome[t] \in {"blocked", "delayed"} THEN "yield" ELSE After(t))
  BY DEF ResumeAll
<1>2. /\ pc[t] = "resume" /\ uxSchedulerSuspended' = uxSchedulerSuspended - 1
      /\ xPendingReadyList' = <<>> /\ uxPendedTicks' = 0 /\ UNCHANGED prioVars
      /\ UNCHANGED <<uxMessagesWaiting, cLock, call, xTicksToWait, outcome, xInheritanceOccurred>>
  BY DEF ResumeAll
<1>3. /\ After(t) \in {"try", "app", "retest"}
      /\ After(t) \in {"try", "retest"} => call[t].fn \in Fns
  BY <1>2, AfterType
<1>4. PICK next \in {"try", "app", "retest", "yield"} :
        /\ pc' = [pc EXCEPT ![t] = next]
        /\ next \in {"try", "retest"} => call[t].fn \in Fns
  BY <1>1, <1>3
<1>5. pxCurrentTCB' \in Tasks /\ xYieldPending' \in BOOLEAN
  <2>1. yield(E) \in BOOLEAN
    BY DEF Typed, TasksTyped
  <2> HIDE DEF yield
  <2> QED
    BY <1>1, <2>1, YieldType DEF Typed
<1>6. ListsTyped' /\ expired' \in [Tasks -> BOOLEAN]
  <2>1. xTasksWaiting' \in [Queues \X Fns -> Seq(Tasks)] /\ expired' \in [Tasks -> BOOLEAN]
    BY <1>1, ExpireType DEF Typed
  <2>2. stateList' \in [Tasks -> {"ready", "delayed", "suspended"}]
    BY <1>1 DEF Typed, ListsTyped
  <2>3. xPendingReadyList' \in Seq(Tasks)
    BY <1>2, EmptySeq
  <2> QED
    BY <2>1, <2>2, <2>3 DEF ListsTyped
<1>7. TasksTyped'
  BY <1>2, <1>4, <1>5, <1>6 DEF Typed, TasksTyped, Labels
<1>8. CallsFitLabels'
  BY <1>2, <1>4 DEF Typed, TasksTyped, CallsFitLabels, QueueLabels
<1>9. QueuesTyped' /\ PriorityTyped' /\ CountersTyped'
  BY <1>2 DEF Typed, QueuesTyped, PriorityTyped, CountersTyped
<1> QED
  BY <1>6, <1>7, <1>8, <1>9 DEF Typed

\* The loop's first section with success: a message moves and one waiter is woken.
LEMMA TrySucceedsTyped ==
  ASSUME Typed, NEW t \in Tasks, TrySucceeds(t)
  PROVE  Typed'
<1> USE DEF At, Goto
<1> DEFINE q == call[t].queue
           f == call[t].fn
<1>1. q \in Queues /\ f \in Fns /\ Other(f) \in Fns
  BY AtLabel, OtherType DEF TrySucceeds, QueueLabels
<1>2. /\ Possible(q, f) /\ Transfer(q, f) /\ UpdateMutex(t, q, f) /\ WakeOne(q, Other(f))
      /\ pc' = [pc EXCEPT ![t] = "app"]
      /\ UNCHANGED <<uxSchedulerSuspended, uxPendedTicks, cLock, callVars>>
      /\ Yield(YieldAfter(t, q, f))
  BY DEF TrySucceeds
<1>3. YieldAfter(t, q, f) \in BOOLEAN
  BY DEF YieldAfter, Outranks
<1> HIDE DEF q, f
<1>4. pxCurrentTCB' \in Tasks /\ xYieldPending' \in BOOLEAN
  BY <1>2, <1>3, YieldType DEF Typed
<1>5. ListsTyped'
  BY <1>1, <1>2, WakeOneType DEF Typed
<1>6. QueuesTyped'
  BY <1>1, <1>2, TransferType DEF Typed, QueuesTyped
<1>7. PriorityTyped'
  BY <1>1, <1>2, UpdateMutexType DEF Typed
<1>8. TasksTyped'
  BY <1>2, <1>4 DEF Typed, TasksTyped, Labels
<1>9. CallsFitLabels' /\ CountersTyped'
  BY <1>2 DEF Typed, TasksTyped, CallsFitLabels, QueueLabels, CountersTyped
<1> QED
  BY <1>5, <1>6, <1>7, <1>8, <1>9 DEF Typed

\* The FromISR calls, on a locked and on an unlocked queue.
LEMMA FromISRTyped ==
  ASSUME Typed, NEW q \in Queues, NEW f \in Fns, FromISR(q, f)
  PROVE  Typed'
<1>1. /\ Possible(q, f) /\ Transfer(q, f)
      /\ UNCHANGED <<pc, uxSchedulerSuspended, uxPendedTicks, prioVars, callVars>>
  BY DEF FromISR
<1>2. uxMessagesWaiting' \in [Queues -> Nat] /\ \A r \in Queues : uxMessagesWaiting'[r] <= uxLength[r]
  BY <1>1, TransferType DEF Typed
<1>3. /\ ListsTyped' /\ pxCurrentTCB' \in Tasks /\ xYieldPending' \in BOOLEAN
      /\ cLock' \in [Queues \X Fns -> Nat \cup {queueUNLOCKED}]
  <2>1. CASE cLock[<<q, f>>] = queueUNLOCKED
    <3>1. WakeOne(q, Other(f)) /\ Yield(Outranks(q, Other(f))) /\ cLock' = cLock
      BY <2>1 DEF FromISR
    <3>2. Outranks(q, Other(f)) \in BOOLEAN
      BY DEF Outranks
    <3>3. ListsTyped'
      BY <3>1, OtherType, WakeOneType DEF Typed
    <3>4. pxCurrentTCB' \in Tasks /\ xYieldPending' \in BOOLEAN
      BY <3>1, <3>2, YieldType DEF Typed
    <3> QED
      BY <3>1, <3>3, <3>4 DEF Typed, QueuesTyped
  <2>2. CASE cLock[<<q, f>>] # queueUNLOCKED
    <3>1. /\ cLock' = [cLock EXCEPT ![<<q, f>>] = @ + 1]
          /\ UNCHANGED <<pxCurrentTCB, xYieldPending, stateList, xTasksWaiting, xPendingReadyList>>
      BY <2>2 DEF FromISR
    <3>2. cLock[<<q, f>>] \in Nat
      BY <2>2 DEF Typed, QueuesTyped
    <3> QED
      BY <3>1, <3>2 DEF Typed, ListsTyped, TasksTyped, QueuesTyped
  <2> QED
    BY <2>1, <2>2
<1>4. TasksTyped' /\ CallsFitLabels'
  BY <1>1, <1>3 DEF Typed, TasksTyped, CallsFitLabels
<1> QED
  BY <1>1, <1>2, <1>3, <1>4 DEF Typed, QueuesTyped, PriorityTyped, CountersTyped

\* xTaskIncrementTick.
LEMMA TickTyped == ASSUME Typed, Tick PROVE Typed'
<1>1. PICK E \in SUBSET Delayed(stateList) :
        /\ stateList' = [t \in Tasks |-> IF t \in E THEN "ready" ELSE stateList[t]]
        /\ Expire(E)
        /\ UNCHANGED <<uxMessagesWaiting, cLock, pc, schedVars, prioVars,
                       call, xTicksToWait, outcome, xInheritanceOccurred>>
        /\ Yield(SwitchAtTick(E) \/ xYieldPending)
  BY DEF Tick
<1>2. (SwitchAtTick(E) \/ xYieldPending) \in BOOLEAN
  BY DEF Typed, TasksTyped
<1>3. pxCurrentTCB' \in Tasks /\ xYieldPending' \in BOOLEAN
  BY <1>1, <1>2, YieldType DEF Typed
<1>4. ListsTyped' /\ expired' \in [Tasks -> BOOLEAN]
  <2>1. xTasksWaiting' \in [Queues \X Fns -> Seq(Tasks)] /\ expired' \in [Tasks -> BOOLEAN]
    BY <1>1, ExpireType DEF Typed
  <2> QED
    BY <1>1, <2>1 DEF Typed, ListsTyped
<1>5. TasksTyped' /\ CallsFitLabels'
  BY <1>1, <1>3, <1>4 DEF Typed, TasksTyped, CallsFitLabels
<1> QED
  BY <1>1, <1>4, <1>5 DEF Typed, QueuesTyped, PriorityTyped, CountersTyped

\* xTaskIncrementTick while the scheduler is suspended, and stuttering.
LEMMA PendTickTyped == ASSUME Typed, PendTick \/ UNCHANGED vars PROVE Typed'
BY DEF PendTick, vars, Typed, TasksTyped, ListsTyped, QueuesTyped, PriorityTyped,
       CountersTyped, CallsFitLabels

\* Typed holds in every reachable state.
THEOREM AlwaysTyped == Spec => []Typed
<1>1. Typed /\ [Next]_vars => Typed'
  <2> SUFFICES ASSUME Typed, [Next]_vars PROVE Typed'
    OBVIOUS
  <2>1. CASE Interrupt
    BY <2>1, TickTyped, PendTickTyped, FromISRTyped DEF Interrupt
  <2>2. ASSUME NEW t \in Tasks, TaskStep(t) PROVE Typed'
    BY <2>2, CallTyped, TrySucceedsTyped, TryFailsTyped, SuspendAllTyped, LockQueueTyped,
       CheckForTimeOutTyped, TestQueueTyped, PriorityInheritTyped, PlaceTyped,
       UnlockTxTyped, UnlockRxTyped, ResumeAllTyped, YieldWithinAPITyped, RetestTyped,
       DisinheritTyped DEF TaskStep
  <2>3. CASE UNCHANGED vars
    BY <2>3, PendTickTyped
  <2> QED
    BY <2>1, <2>2, <2>3 DEF Next
<1> QED
  BY <1>1, TypedInit, PTL DEF Spec

-----------------------------------------------------------------------------
(* The scheduler is suspended exactly while the running task is between       *)
(* vTaskSuspendAll and xTaskResumeAll, and only then may a queue be locked.   *)

Window == {"lock", "check", "test", "inherit", "place", "unlockTx", "unlockRx", "resume"}

\* The labels at which cTxLock, for f = "send", or cRxLock may be other than unlocked.
LockedLabels(f) ==
  {"check", "test", "inherit", "place", "unlockTx"} \cup (IF f = "send" THEN {} ELSE {"unlockRx"})

Suspension ==
  /\ uxSchedulerSuspended = IF pc[pxCurrentTCB] \in Window THEN 1 ELSE 0
  /\ \A t \in Tasks \ {pxCurrentTCB} : pc[t] \notin Window

Locks ==
  \A q \in Queues, f \in Fns : cLock[<<q, f>>] # queueUNLOCKED =>
    /\ call[pxCurrentTCB].queue = q /\ call[pxCurrentTCB].fn \in Fns
    /\ pc[pxCurrentTCB] \in LockedLabels(f)

\* A context switch leaves the running task only outside the window.
LEMMA YieldKeeps ==
  ASSUME NEW needed, Yield(needed)
  PROVE  pxCurrentTCB' = pxCurrentTCB \/ uxSchedulerSuspended' = 0
BY DEF Yield, SwitchContext

\* Outside the window no queue is locked.
LEMMA UnlockedOutside ==
  ASSUME Locks, pc[pxCurrentTCB] \notin Window
  PROVE  \A q \in Queues, f \in Fns : cLock[<<q, f>>] = queueUNLOCKED
BY DEF Locks, LockedLabels, Window

\* A step that goes on outside the window with every queue unlocked.
LEMMA OutsideWindow ==
  ASSUME Typed', \A t \in Tasks : pc'[t] \notin Window, uxSchedulerSuspended' = 0,
         \A q \in Queues, f \in Fns : cLock'[<<q, f>>] = queueUNLOCKED
  PROVE  Suspension' /\ Locks'
BY DEF Typed, TasksTyped, Suspension, Locks

\* A step of the running task that does not switch.
LEMMA InsideWindow ==
  ASSUME Typed, Suspension, NEW t \in Tasks, pxCurrentTCB = t, pxCurrentTCB' = t,
         NEW label, pc' = [pc EXCEPT ![t] = label],
         uxSchedulerSuspended' = IF label \in Window THEN 1 ELSE 0
  PROVE  Suspension'
BY DEF Typed, TasksTyped, Suspension

\* Every step keeps the scheduler's suspension with the running task, by the label that
\* task has after the step.
LEMMA SuspensionStep ==
  ASSUME Typed, Typed', Suspension, Locks, [Next]_vars
  PROVE  Suspension' /\ Locks'
<1> USE DEF At, Goto
<1>1. ASSUME NEW t \in Tasks, NEW c \in Calls, Call(t, c) PROVE Suspension' /\ Locks'
  <2>1. pc[t] \notin Window /\ uxSchedulerSuspended = 0
    BY <1>1 DEF Call, Suspension, Window
  <2>2. Suspension'
    BY <1>1, <2>1, InsideWindow DEF Call, Window
  <2> QED
    BY <1>1, <2>1, <2>2, UnlockedOutside DEF Call, Locks
<1>2. ASSUME NEW t \in Tasks, TrySucceeds(t) PROVE Suspension' /\ Locks'
  <2>1. pc[t] \notin Window /\ uxSchedulerSuspended = 0 /\ pxCurrentTCB = t
    BY <1>2 DEF TrySucceeds, Suspension, Window
  <2>2. /\ pc' = [pc EXCEPT ![t] = "app"]
        /\ uxSchedulerSuspended' = uxSchedulerSuspended /\ cLock' = cLock
    BY <1>2 DEF TrySucceeds
  <2>3. \A u \in Tasks : pc'[u] \notin Window
    BY <2>1, <2>2 DEF Suspension, Typed, TasksTyped, Window
  <2> QED
    BY <2>1, <2>2, <2>3, UnlockedOutside, OutsideWindow
<1>3. ASSUME NEW t \in Tasks, TryFails(t) \/ Retest(t) \/ PriorityDisinheritAfterTimeout(t)
      PROVE  Suspension' /\ Locks'
  <2>1. pc[t] \notin Window /\ uxSchedulerSuspended = 0 /\ pxCurrentTCB = t
    BY <1>3 DEF TryFails, Retest, PriorityDisinheritAfterTimeout, Suspension, Window
  <2>2. PICK label \in {"app", "suspend", "try", "disinherit"} : pc' = [pc EXCEPT ![t] = label]
    BY <1>3 DEF TryFails, Retest, PriorityDisinheritAfterTimeout
  <2>3. uxSchedulerSuspended' = uxSchedulerSuspended /\ cLock' = cLock
    BY <1>3 DEF TryFails, Retest, PriorityDisinheritAfterTimeout
  <2>4. \A u \in Tasks : pc'[u] \notin Window
    BY <2>1, <2>2 DEF Suspension, Typed, TasksTyped, Window
  <2> QED
    BY <2>1, <2>3, <2>4, UnlockedOutside, OutsideWindow
<1>4. ASSUME NEW t \in Tasks, SuspendAll(t) PROVE Suspension' /\ Locks'
  <2>1. pc[t] \notin Window /\ uxSchedulerSuspended = 0
    BY <1>4 DEF SuspendAll, Suspension, Window
  <2>2. Suspension'
    <3>1. PICK label \in {"place", "lock"} : pc' = [pc EXCEPT ![t] = label]
      BY <1>4 DEF SuspendAll
    <3>2. pxCurrentTCB = t /\ pxCurrentTCB' = t /\ uxSchedulerSuspended' = 1
      BY <1>4, <2>1 DEF SuspendAll
    <3> QED
      BY <3>1, <3>2, InsideWindow DEF Window
  <2> QED
    BY <1>4, <2>1, <2>2, UnlockedOutside DEF SuspendAll, Locks
<1>5. ASSUME NEW t \in Tasks, LockQueue(t) PROVE Suspension' /\ Locks'
  <2>1. pc[t] \in Window /\ uxSchedulerSuspended = 1 /\ call[t].fn \in Fns
    BY <1>5, AtLabel DEF LockQueue, Suspension, Window, QueueLabels
  <2>2. Suspension'
    BY <1>5, <2>1, InsideWindow DEF LockQueue, Window
  <2>3. \A q \in Queues, f \in Fns : cLock[<<q, f>>] = queueUNLOCKED
    BY <1>5 DEF LockQueue, Locks, LockedLabels
  <2>4. \A q \in Queues, f \in Fns : cLock'[<<q, f>>] # queueUNLOCKED => q = call[t].queue
    BY <1>5, <2>3 DEF LockQueue
  <2>5. pxCurrentTCB' = t /\ pc'[t] = "check" /\ call' = call
    BY <1>5 DEF LockQueue, Typed, TasksTyped
  <2> QED
    BY <2>1, <2>2, <2>4, <2>5 DEF Locks, LockedLabels
<1>6. ASSUME NEW t \in Tasks,
             \/ TestQueue(t) \/ PriorityInherit(t)
             \/ PlaceOnEventList(t) /\ call[t].fn # "delay"
             \/ \E timedOut \in BOOLEAN : CheckForTimeOut(t, timedOut)
      PROVE  Suspension' /\ Locks'
  <2>1. pc[t] \in LockedLabels("send") /\ uxSchedulerSuspended = 1 /\ pxCurrentTCB = t
    BY <1>6 DEF TestQueue, PriorityInherit, PlaceOnEventList, CheckForTimeOut, Suspension,
                LockedLabels, Window
  <2>2. PICK label \in {"test", "inherit", "place", "unlockTx"} : pc' = [pc EXCEPT ![t] = label]
    BY <1>6 DEF TestQueue, PriorityInherit, PlaceOnEventList, CheckForTimeOut
  <2>3. /\ pxCurrentTCB' = pxCurrentTCB /\ uxSchedulerSuspended' = uxSchedulerSuspended
        /\ cLock' = cLock /\ call' = call
    BY <1>6 DEF TestQueue, PriorityInherit, PlaceOnEventList, CheckForTimeOut
  <2>4. Suspension'
    BY <2>1, <2>2, <2>3, InsideWindow DEF Window
  <2> QED
    BY <2>1, <2>2, <2>3, <2>4 DEF Locks, LockedLabels, Typed, TasksTyped
<1>7. ASSUME NEW t \in Tasks, PlaceOnEventList(t), call[t].fn = "delay" PROVE Suspension' /\ Locks'
  <2>1. pc[t] \in Window /\ uxSchedulerSuspended = 1 /\ pxCurrentTCB = t
    BY <1>7 DEF PlaceOnEventList, Suspension, Window
  <2>2. /\ pc' = [pc EXCEPT ![t] = "resume"] /\ pxCurrentTCB' = t
        /\ uxSchedulerSuspended' = uxSchedulerSuspended /\ cLock' = cLock
    BY <1>7 DEF PlaceOnEventList
  <2>3. Suspension'
    BY <2>1, <2>2, InsideWindow DEF Window
  <2>4. \A q \in Queues, f \in Fns : cLock[<<q, f>>] = queueUNLOCKED
    BY <1>7, <2>1 DEF Locks, Fns
  <2> QED
    BY <2>2, <2>3, <2>4 DEF Locks
<1>8. ASSUME NEW t \in Tasks, UnlockTx(t) PROVE Suspension' /\ Locks'
  <2>1. pc[t] = "unlockTx" /\ uxSchedulerSuspended = 1 /\ pxCurrentTCB = t
    BY <1>8 DEF UnlockTx, Suspension, Window
  <2>2. call[t].fn \in Fns /\ call[t].queue \in Queues
    BY <2>1, AtLabel DEF QueueLabels
  <2>3. /\ pc' = [pc EXCEPT ![t] = "unlockRx"] /\ pxCurrentTCB' = t /\ call' = call
        /\ uxSchedulerSuspended' = uxSchedulerSuspended
        /\ cLock' = [cLock EXCEPT ![<<call[t].queue, "send">>] = queueUNLOCKED]
    BY <1>8 DEF UnlockTx, Unlock, UnlockedCount
  <2>4. Suspension'
    BY <2>1, <2>3, InsideWindow DEF Window
  <2>5. pc'[t] = "unlockRx"
    BY <2>3 DEF Typed, TasksTyped
  <2>6. ASSUME NEW q \in Queues, NEW f \in Fns, cLock'[<<q, f>>] # queueUNLOCKED
        PROVE  q = call[t].queue /\ f = "take"
    <3>1. <<call[t].queue, "send">> \in Queues \X Fns /\ <<q, f>> \in Queues \X Fns
      BY <2>2 DEF Fns
    <3>2. cLock[<<q, f>>] # queueUNLOCKED /\ <<q, f>> # <<call[t].queue, "send">>
      BY <2>3, <2>6, <3>1 DEF Typed, QueuesTyped
    <3> QED
      BY <2>1, <3>2 DEF Locks, Fns
  <2> QED
    BY <2>2, <2>3, <2>4, <2>5, <2>6 DEF Locks, LockedLabels
<1>9. ASSUME NEW t \in Tasks, UnlockRx(t) PROVE Suspension' /\ Locks'
  <2>1. pc[t] = "unlockRx" /\ uxSchedulerSuspended = 1 /\ pxCurrentTCB = t
    BY <1>9 DEF UnlockRx, Suspension, Window
  <2>2. call[t].fn \in Fns /\ call[t].queue \in Queues
    BY <2>1, AtLabel DEF QueueLabels
  <2>3. /\ pc' = [pc EXCEPT ![t] = "resume"] /\ pxCurrentTCB' = t
        /\ uxSchedulerSuspended' = uxSchedulerSuspended
        /\ cLock' = [cLock EXCEPT ![<<call[t].queue, "take">>] = queueUNLOCKED]
    BY <1>9 DEF UnlockRx, Unlock, UnlockedCount
  <2>4. Suspension'
    BY <2>1, <2>3, InsideWindow DEF Window
  <2>5. ASSUME NEW q \in Queues, NEW f \in Fns PROVE cLock'[<<q, f>>] = queueUNLOCKED
    <3>1. <<call[t].queue, "take">> \in Queues \X Fns /\ <<q, f>> \in Queues \X Fns
      BY <2>2 DEF Fns
    <3>2. CASE <<q, f>> = <<call[t].queue, "take">>
      BY <2>3, <3>1, <3>2 DEF Typed, QueuesTyped
    <3>3. CASE <<q, f>> # <<call[t].queue, "take">>
      <4>1. cLock'[<<q, f>>] = cLock[<<q, f>>]
        BY <2>3, <3>1, <3>3 DEF Typed, QueuesTyped
      <4> QED
        BY <2>1, <3>3, <4>1 DEF Locks, LockedLabels, Fns
    <3> QED
      BY <3>2, <3>3
  <2> QED
    BY <2>4, <2>5 DEF Locks
<1>10. ASSUME NEW t \in Tasks, ResumeAll(t) PROVE Suspension' /\ Locks'
  <2>1. pc[t] = "resume" /\ uxSchedulerSuspended = 1 /\ pxCurrentTCB = t
    BY <1>10 DEF ResumeAll, Suspension, Window
  <2>2. uxSchedulerSuspended' = 0 /\ cLock' = cLock
    BY <1>10, <2>1 DEF ResumeAll
  <2>3. After(t) \in {"try", "app", "retest"}
    BY <2>1, AfterType
  <2>4. PICK label \in {"try", "app", "retest", "yield"} : pc' = [pc EXCEPT ![t] = label]
    BY <1>10, <2>3 DEF ResumeAll
  <2>5. \A u \in Tasks : pc'[u] \notin Window
    BY <2>1, <2>4 DEF Suspension, Typed, TasksTyped, Window
  <2>6. \A q \in Queues, f \in Fns : cLock[<<q, f>>] = queueUNLOCKED
    BY <2>1 DEF Locks, LockedLabels
  <2> QED
    BY <2>2, <2>5, <2>6, OutsideWindow
<1>11. ASSUME NEW t \in Tasks, YieldWithinAPI(t) PROVE Suspension' /\ Locks'
  <2>1. pc[t] = "yield" /\ uxSchedulerSuspended = 0 /\ pxCurrentTCB = t
    BY <1>11 DEF YieldWithinAPI, Suspension, Window
  <2>2. /\ pc' = [pc EXCEPT ![t] = After(t)]
        /\ uxSchedulerSuspended' = uxSchedulerSuspended /\ cLock' = cLock
    BY <1>11 DEF YieldWithinAPI
  <2>3. After(t) \in {"try", "app", "retest"}
    BY <2>1, AfterType
  <2>4. \A u \in Tasks : pc'[u] \notin Window
    BY <2>1, <2>2, <2>3 DEF Suspension, Typed, TasksTyped, Window
  <2>5. \A q \in Queues, f \in Fns : cLock[<<q, f>>] = queueUNLOCKED
    BY <2>1, UnlockedOutside DEF Window
  <2> QED
    BY <2>1, <2>2, <2>4, <2>5, OutsideWindow
<1>12. CASE Interrupt
  <2>1. pc' = pc /\ call' = call /\ uxSchedulerSuspended' = uxSchedulerSuspended
    BY <1>12 DEF Interrupt, Tick, PendTick, FromISR
  <2>2. \A q \in Queues, f \in Fns : cLock[<<q, f>>] = queueUNLOCKED => cLock'[<<q, f>>] = queueUNLOCKED
    <3>1. CASE Tick \/ PendTick
      BY <3>1 DEF Tick, PendTick
    <3>2. ASSUME NEW q \in Queues, NEW f \in Fns, FromISR(q, f)
          PROVE  \A qf \in Queues \X Fns : cLock[qf] = queueUNLOCKED => cLock'[qf] = queueUNLOCKED
      BY <3>2 DEF FromISR, Typed, QueuesTyped
    <3> QED
      BY <1>12, <3>1, <3>2 DEF Interrupt
  <2>3. pxCurrentTCB' = pxCurrentTCB \/ uxSchedulerSuspended' = 0
    BY <1>12, YieldKeeps DEF Interrupt, Tick, PendTick, FromISR
  <2>4. CASE uxSchedulerSuspended = 0
    <3>1. \A u \in Tasks : pc'[u] \notin Window
      BY <2>1, <2>4 DEF Suspension, Typed, TasksTyped
    <3>2. \A q \in Queues, f \in Fns : cLock'[<<q, f>>] = queueUNLOCKED
      BY <2>1, <2>2, <3>1, UnlockedOutside DEF Typed, TasksTyped
    <3> QED
      BY <2>1, <2>4, <3>1, <3>2, OutsideWindow
  <2>5. CASE uxSchedulerSuspended # 0
    <3>1. pxCurrentTCB' = pxCurrentTCB
      BY <2>1, <2>3, <2>5
    <3>2. Suspension'
      BY <2>1, <3>1 DEF Suspension
    <3>3. Locks'
      BY <2>1, <2>2, <3>1 DEF Locks
    <3> QED
      BY <3>2, <3>3
  <2> QED
    BY <2>4, <2>5
<1>13. CASE UNCHANGED vars
  BY <1>13 DEF vars, Suspension, Locks
<1>14. ASSUME NEW t \in Tasks, TaskStep(t) PROVE Suspension' /\ Locks'
  BY <1>1, <1>2, <1>3, <1>4, <1>5, <1>6, <1>7, <1>8, <1>9, <1>10, <1>11, <1>14 DEF TaskStep
<1> QED
  BY <1>12, <1>13, <1>14 DEF Next

\* The scheduler's window and the locks of the queues, always.
THEOREM AlwaysSuspension == Spec => [](Suspension /\ Locks)
<1>1. Init => Suspension /\ Locks
  <2> SUFFICES ASSUME Init PROVE Suspension /\ Locks
    OBVIOUS
  <2>1. pxCurrentTCB \in Tasks
    BY DEF Init, HighestReady, Ready
  <2> QED
    BY <2>1 DEF Init, Suspension, Locks, Window
<1>2. Typed /\ Typed' /\ Suspension /\ Locks /\ [Next]_vars => Suspension' /\ Locks'
  BY SuspensionStep
<1> QED
  BY <1>1, <1>2, AlwaysTyped, PTL DEF Spec

\* LockedOnlyByRunner, for every queue and task: an interrupt finds a queue locked
\* only in the running task's own window, and never in another task's.
THEOREM OnlyTheRunnerLocks == Spec => []LockedOnlyByRunner
<1>1. Typed /\ Suspension /\ Locks => LockedOnlyByRunner
  <2> SUFFICES ASSUME Typed, Suspension, Locks PROVE LockedOnlyByRunner
    OBVIOUS
  <2>1. ASSUME NEW qf \in Queues \X Fns, cLock[qf] # queueUNLOCKED
        PROVE  /\ uxSchedulerSuspended = 1
               /\ call[pxCurrentTCB].queue = qf[1]
               /\ pc[pxCurrentTCB] \in {"check", "test", "inherit", "place", "unlockTx", "unlockRx"}
    <3>1. qf = <<qf[1], qf[2]>> /\ qf[1] \in Queues /\ qf[2] \in Fns
      OBVIOUS
    <3>2. call[pxCurrentTCB].queue = qf[1] /\ pc[pxCurrentTCB] \in LockedLabels(qf[2])
      BY <2>1, <3>1 DEF Locks
    <3> QED
      BY <3>2 DEF LockedLabels, Suspension, Window
  <2> QED
    BY <2>1 DEF LockedOnlyByRunner, Suspension, Window
<1> QED
  BY <1>1, AlwaysTyped, AlwaysSuspension, PTL

-----------------------------------------------------------------------------
(* Mutexes and the counts of locked queues. *)

\* Who gives a mutex back holds it.
GiversHold ==
  \A t \in Tasks : pc[t] # "app" /\ call[t].fn = "send" /\ call[t].queue \in Mutexes =>
    pxMutexHolder[call[t].queue] = t

Held(t) == {m \in Mutexes : pxMutexHolder[m] = t}

\* The mutexes a task holds are finitely many.
LEMMA HeldFinite ==
  ASSUME NEW t
  PROVE  IsFiniteSet(Held(t)) /\ Cardinality(Held(t)) \in Nat
<1>1. IsFiniteSet(Mutexes) /\ Held(t) \in SUBSET Mutexes
  BY KernelAssumption DEF Held
<1>2. IsFiniteSet(Held(t))
  BY <1>1, FS_Subset
<1> QED
  BY <1>2, FS_CardinalityType

MutexInv == MutexHolders /\ GiversHold

\* All but one successful call leave the mutexes, and the calls, alone.
LEMMA MutexFrame ==
  ASSUME Typed, Typed', MutexInv, NEW t \in Tasks,
         UNCHANGED <<uxMutexesHeld, pxMutexHolder>>,
         \A m \in Mutexes : uxMessagesWaiting'[m] = uxMessagesWaiting[m],
         \A u \in Tasks \ {t} : pc'[u] = pc[u] /\ call'[u] = call[u],
         pc'[t] # "app" /\ call'[t].fn = "send" /\ call'[t].queue \in Mutexes =>
           pxMutexHolder[call'[t].queue] = t
  PROVE  MutexInv'
<1>1. MutexHolders'
  BY DEF MutexInv, MutexHolders
<1>2. GiversHold'
  BY DEF MutexInv, GiversHold
<1> QED
  BY <1>1, <1>2 DEF MutexInv

\* The take of a mutex: it was free, so it counts for its new holder only.
LEMMA TakeKeepsMutexes ==
  ASSUME Typed, Typed', MutexInv, NEW t \in Tasks, NEW m \in Mutexes, TakeMutex(t, m),
         Possible(m, "take"), Transfer(m, "take"), pc' = [pc EXCEPT ![t] = "app"], call' = call
  PROVE  MutexInv'
<1>1. m \in Queues /\ uxLength[m] = 1 /\ t # NULL
  BY KernelAssumption
<1>2. uxMessagesWaiting[m] = 1
  BY <1>1 DEF Possible, Typed, QueuesTyped
<1>3. uxMessagesWaiting' = [uxMessagesWaiting EXCEPT ![m] = 0]
  BY <1>2 DEF Transfer
<1>4. pxMutexHolder[m] = NULL
  BY <1>2 DEF MutexInv, MutexHolders
<1>5. pxMutexHolder' = [pxMutexHolder EXCEPT ![m] = t] /\ pxMutexHolder \in [Mutexes -> Tasks \cup {NULL}]
  BY DEF TakeMutex, Typed, PriorityTyped
<1>6. \A n \in Mutexes : pxMutexHolder'[n] = NULL <=> uxMessagesWaiting'[n] = 1
  BY <1>1, <1>3, <1>5, KernelAssumption DEF MutexInv, MutexHolders, Typed, QueuesTyped
<1>7. ASSUME NEW u \in Tasks PROVE uxMutexesHeld'[u] = Cardinality(Held(u)')
  <2>1. uxMutexesHeld[u] = Cardinality(Held(u))
    BY DEF MutexInv, MutexHolders, Held
  <2>2. CASE u = t
    <3>1. Held(u)' = Held(u) \cup {m} /\ m \notin Held(u)
      BY <1>1, <1>4, <1>5, <2>2 DEF Held
    <3>2. Cardinality(Held(u) \cup {m}) = Cardinality(Held(u)) + 1
      BY <3>1, HeldFinite, FS_AddElement
    <3>3. uxMutexesHeld'[u] = uxMutexesHeld[u] + 1
      BY <2>2 DEF TakeMutex, Typed, PriorityTyped
    <3> QED
      BY <2>1, <3>1, <3>2, <3>3
  <2>3. CASE u # t
    <3>1. Held(u)' = Held(u)
      BY <1>4, <1>5, <2>3, KernelAssumption DEF Held
    <3>2. uxMutexesHeld'[u] = uxMutexesHeld[u]
      BY <2>3 DEF TakeMutex, Typed, PriorityTyped
    <3> QED
      BY <2>1, <3>1, <3>2
  <2> QED
    BY <2>2, <2>3
<1>8. GiversHold'
  <2> SUFFICES ASSUME NEW u \in Tasks, pc'[u] # "app", call'[u].fn = "send", call'[u].queue \in Mutexes
               PROVE  pxMutexHolder'[call'[u].queue] = u
    BY DEF GiversHold
  <2>1. u # t /\ pc[u] # "app" /\ call[u] = call'[u]
    BY DEF Typed, TasksTyped
  <2>2. pxMutexHolder[call[u].queue] = u
    BY <2>1 DEF MutexInv, GiversHold
  <2> QED
    BY <1>4, <1>5, <2>1, <2>2, KernelAssumption
<1> QED
  BY <1>6, <1>7, <1>8 DEF MutexInv, MutexHolders, Held

\* The give of a mutex: its holder gives it, and holds one fewer.
LEMMA GiveKeepsMutexes ==
  ASSUME Typed, Typed', MutexInv, NEW t \in Tasks, NEW m \in Mutexes, GiveMutex(t, m),
         Possible(m, "send"), Transfer(m, "send"), pc' = [pc EXCEPT ![t] = "app"], call' = call,
         pxMutexHolder[m] = t
  PROVE  MutexInv'
<1>1. m \in Queues /\ uxLength[m] = 1 /\ t # NULL
  BY KernelAssumption
<1>2. uxMessagesWaiting[m] = 0
  BY <1>1 DEF Possible, Typed, QueuesTyped
<1>3. uxMessagesWaiting' = [uxMessagesWaiting EXCEPT ![m] = 1]
  BY <1>2 DEF Transfer
<1>4. pxMutexHolder' = [pxMutexHolder EXCEPT ![m] = NULL] /\ pxMutexHolder \in [Mutexes -> Tasks \cup {NULL}]
  BY DEF GiveMutex, Typed, PriorityTyped
<1>5. \A n \in Mutexes : pxMutexHolder'[n] = NULL <=> uxMessagesWaiting'[n] = 1
  BY <1>1, <1>3, <1>4, KernelAssumption DEF MutexInv, MutexHolders, Typed, QueuesTyped
<1>6. ASSUME NEW u \in Tasks PROVE uxMutexesHeld'[u] = Cardinality(Held(u)')
  <2>1. uxMutexesHeld[u] = Cardinality(Held(u))
    BY DEF MutexInv, MutexHolders, Held
  <2>2. CASE u = t
    <3>1. Held(u)' = Held(u) \ {m} /\ m \in Held(u)
      BY <1>1, <1>4, <2>2 DEF Held
    <3>2. Cardinality(Held(u) \ {m}) = Cardinality(Held(u)) - 1
      BY <3>1, HeldFinite, FS_RemoveElement
    <3>3. uxMutexesHeld'[u] = uxMutexesHeld[u] - 1
      BY <2>2 DEF GiveMutex, Typed, PriorityTyped
    <3> QED
      BY <2>1, <3>1, <3>2, <3>3
  <2>3. CASE u # t
    <3>1. Held(u)' = Held(u)
      BY <1>4, <2>3, KernelAssumption DEF Held
    <3>2. uxMutexesHeld'[u] = uxMutexesHeld[u]
      BY <2>3 DEF GiveMutex, Typed, PriorityTyped
    <3> QED
      BY <2>1, <3>1, <3>2
  <2> QED
    BY <2>2, <2>3
<1>7. GiversHold'
  <2> SUFFICES ASSUME NEW u \in Tasks, pc'[u] # "app", call'[u].fn = "send", call'[u].queue \in Mutexes
               PROVE  pxMutexHolder'[call'[u].queue] = u
    BY DEF GiversHold
  <2>1. u # t /\ pc[u] # "app" /\ call[u] = call'[u]
    BY DEF Typed, TasksTyped
  <2>2. pxMutexHolder[call[u].queue] = u
    BY <2>1 DEF MutexInv, GiversHold
  <2> QED
    BY <1>4, <2>1, <2>2
<1> QED
  BY <1>5, <1>6, <1>7 DEF MutexInv, MutexHolders, Held

\* Every step keeps holders, counts and messages of the mutexes in agreement: only taking
\* and giving a mutex change any of them.
LEMMA MutexStep ==
  ASSUME Typed, Typed', MutexInv, [Next]_vars
  PROVE  MutexInv'
<1> USE DEF At, Goto
<1>1. ASSUME NEW t \in Tasks, NEW c \in Calls, Call(t, c) PROVE MutexInv'
  <2>1. /\ UNCHANGED <<uxMutexesHeld, pxMutexHolder, uxMessagesWaiting>>
        /\ \A u \in Tasks \ {t} : pc'[u] = pc[u] /\ call'[u] = call[u]
        /\ call'[t] = c
    BY <1>1 DEF Call, Typed, TasksTyped
  <2>2. c.fn = "send" /\ c.queue \in Mutexes => pxMutexHolder[c.queue] = t
    BY <1>1 DEF Call
  <2> QED
    BY <2>1, <2>2, MutexFrame
<1>2. ASSUME NEW t \in Tasks, TrySucceeds(t) PROVE MutexInv'
  <2> DEFINE q == call[t].queue
             f == call[t].fn
  <2>1. q \in Queues /\ f \in Fns /\ pc[t] = "try"
    BY <1>2, AtLabel DEF TrySucceeds, QueueLabels
  <2>2. /\ Possible(q, f) /\ Transfer(q, f) /\ UpdateMutex(t, q, f)
        /\ pc' = [pc EXCEPT ![t] = "app"] /\ call' = call
    BY <1>2 DEF TrySucceeds
  <2>3. CASE q \notin Mutexes
    <3>1. UNCHANGED <<uxMutexesHeld, pxMutexHolder>>
      BY <2>2, <2>3 DEF UpdateMutex
    <3>2. \A m \in Mutexes : uxMessagesWaiting'[m] = uxMessagesWaiting[m]
      BY <2>1, <2>2, <2>3, KernelAssumption DEF Transfer, Typed, QueuesTyped
    <3>3. pc'[t] = "app" /\ \A u \in Tasks \ {t} : pc'[u] = pc[u] /\ call'[u] = call[u]
      BY <2>2 DEF Typed, TasksTyped
    <3> QED
      BY <3>1, <3>2, <3>3, MutexFrame
  <2>4. CASE q \in Mutexes /\ f = "take"
    <3>1. TakeMutex(t, q)
      BY <2>2, <2>4 DEF UpdateMutex
    <3> QED
      BY <2>2, <2>4, <3>1, TakeKeepsMutexes
  <2>5. CASE q \in Mutexes /\ f = "send"
    <3>1. GiveMutex(t, q)
      BY <2>2, <2>5 DEF UpdateMutex
    <3>2. pxMutexHolder[q] = t
      BY <2>1, <2>5 DEF MutexInv, GiversHold
    <3> QED
      BY <2>2, <2>5, <3>1, <3>2, GiveKeepsMutexes
  <2> QED
    BY <2>1, <2>3, <2>4, <2>5 DEF Fns
<1>3. ASSUME NEW t \in Tasks,
             \/ TryFails(t) \/ SuspendAll(t) \/ LockQueue(t)
             \/ \E timedOut \in BOOLEAN : CheckForTimeOut(t, timedOut)
             \/ TestQueue(t) \/ PriorityInherit(t) \/ PlaceOnEventList(t)
             \/ UnlockTx(t) \/ UnlockRx(t) \/ ResumeAll(t) \/ YieldWithinAPI(t)
             \/ Retest(t) \/ PriorityDisinheritAfterTimeout(t)
      PROVE  MutexInv'
  <2> USE DEF TryFails, SuspendAll, LockQueue, CheckForTimeOut, TestQueue, PriorityInherit,
              PlaceOnEventList, UnlockTx, UnlockRx, Unlock, ResumeAll, YieldWithinAPI,
              Retest, PriorityDisinheritAfterTimeout
  <2>1. UNCHANGED <<uxMutexesHeld, pxMutexHolder, uxMessagesWaiting, call>> /\ pc[t] # "app"
    BY <1>3
  <2>2. \E label : pc' = [pc EXCEPT ![t] = label]
    BY <1>3
  <2>3. \A u \in Tasks \ {t} : pc'[u] = pc[u] /\ call'[u] = call[u]
    BY <2>1, <2>2 DEF Typed, TasksTyped
  <2>4. call[t].fn = "send" /\ call[t].queue \in Mutexes => pxMutexHolder[call[t].queue] = t
    BY <2>1 DEF MutexInv, GiversHold
  <2> QED
    BY <2>1, <2>3, <2>4, MutexFrame
<1>4. CASE Interrupt \/ UNCHANGED vars
  <2>1. UNCHANGED <<uxMutexesHeld, pxMutexHolder, pc, call>>
    BY <1>4 DEF Interrupt, Tick, PendTick, FromISR, vars
  <2>2. \A m \in Mutexes : uxMessagesWaiting'[m] = uxMessagesWaiting[m]
    <3>1. CASE Tick \/ PendTick \/ UNCHANGED vars
      BY <3>1 DEF Tick, PendTick, vars
    <3>2. ASSUME NEW q \in Queues, NEW f \in Fns, FromISR(q, f)
          PROVE  \A m \in Mutexes : uxMessagesWaiting'[m] = uxMessagesWaiting[m]
      <4>1. q \in Queues \ Mutexes
        BY <3>2, KernelAssumption DEF FromISR
      <4> QED
        BY <3>2, <4>1, KernelAssumption DEF FromISR, Transfer, Typed, QueuesTyped
    <3> QED
      BY <1>4, <3>1, <3>2 DEF Interrupt
  <2> QED
    BY <2>1, <2>2 DEF MutexInv, MutexHolders, GiversHold
<1> QED
  BY <1>1, <1>2, <1>3, <1>4 DEF Next, TaskStep

\* Holders, counts and the calls that give mutexes back, always.
THEOREM AlwaysMutexes == Spec => []MutexInv
<1>1. Init => MutexInv
  <2> SUFFICES ASSUME Init PROVE MutexInv
    OBVIOUS
  <2>1. \A m \in Mutexes : pxMutexHolder[m] = NULL /\ uxMessagesWaiting[m] = 1
    BY KernelAssumption DEF Init
  <2>2. ASSUME NEW t \in Tasks PROVE uxMutexesHeld[t] = Cardinality(Held(t))
    <3>1. Held(t) = {}
      BY <2>1, KernelAssumption DEF Held
    <3> QED
      BY <3>1, FS_EmptySet DEF Init
  <2> QED
    BY <2>1, <2>2 DEF Init, MutexInv, MutexHolders, GiversHold, Held
<1>2. Typed /\ Typed' /\ MutexInv /\ [Next]_vars => MutexInv'
  BY MutexStep
<1> QED
  BY <1>1, <1>2, AlwaysTyped, PTL DEF Spec

\* MutexHolders, for any number of mutexes held and waited for in any order: a
\* mutex is free exactly when nobody holds it, and uxMutexesHeld counts holders.
THEOREM MutexesAreCounted == Spec => []MutexHolders
<1>1. MutexInv => MutexHolders
  BY DEF MutexInv
<1> QED
  BY <1>1, AlwaysMutexes, PTL

\* The type invariant of the kernel: vTaskSuspendAll is never nested, no count of
\* messages leaves 0..uxLength and no count of held mutexes drops below zero.
THEOREM TypeInvariant == Spec => []TypeOK
<1>1. Typed /\ Suspension /\ MutexInv => TypeOK
  <2> SUFFICES ASSUME Typed, Suspension, MutexInv PROVE TypeOK
    OBVIOUS
  <2>1. uxSchedulerSuspended \in {0, 1}
    BY DEF Suspension
  <2>2. uxMutexesHeld \in [Tasks -> Nat]
    <3>1. \A t \in Tasks : uxMutexesHeld[t] = Cardinality(Held(t))
      BY DEF MutexInv, MutexHolders, Held
    <3>2. \A t \in Tasks : uxMutexesHeld[t] \in Nat
      BY <3>1, HeldFinite
    <3> QED
      BY <3>2 DEF Typed, PriorityTyped
  <2> QED
    BY <2>1, <2>2 DEF TypeOK, Typed, TasksTyped, ListsTyped, QueuesTyped, PriorityTyped, CountersTyped
<1> QED
  BY <1>1, AlwaysTyped, AlwaysSuspension, AlwaysMutexes, PTL

-----------------------------------------------------------------------------
(* Priorities. *)

\* A task whose mutex is waited for holds a mutex.
LEMMA HolderHolds ==
  ASSUME Typed, MutexInv, NEW m \in Mutexes, NEW t \in Tasks, pxMutexHolder[m] = t
  PROVE  uxMutexesHeld[t] \in Nat \ {0}
<1>1. m \in Held(t)
  BY DEF Held
<1>2. IsFiniteSet(Held(t)) /\ Cardinality(Held(t)) \in Nat
  BY HeldFinite
<1>3. Cardinality(Held(t)) # 0
  BY <1>1, <1>2, FS_EmptySet
<1> QED
  BY <1>2, <1>3 DEF MutexInv, MutexHolders, Held

\* Every step keeps priorities above their base, and at it for tasks that hold no mutex.
LEMMA PriorityStep ==
  ASSUME Typed, MutexInv, MutexInv', PriorityRestored, [Next]_vars
  PROVE  PriorityRestored'
<1> USE DEF At
<1>1. BasePriority \in [Tasks -> Nat] /\ uxPriority \in [Tasks -> Nat] /\ uxMutexesHeld \in [Tasks -> Int]
  BY KernelAssumption DEF Typed, PriorityTyped
<1>2. ASSUME NEW t \in Tasks, TrySucceeds(t) PROVE PriorityRestored'
  <2> DEFINE q == call[t].queue
             f == call[t].fn
  <2>1. q \in Queues /\ f \in Fns /\ pc[t] = "try"
    BY <1>2, AtLabel DEF TrySucceeds, QueueLabels
  <2>2. UpdateMutex(t, q, f)
    BY <1>2 DEF TrySucceeds
  <2>3. CASE q \notin Mutexes
    BY <2>2, <2>3 DEF UpdateMutex, PriorityRestored
  <2>4. CASE q \in Mutexes /\ f = "take"
    <3>1. TakeMutex(t, q)
      BY <2>2, <2>4 DEF UpdateMutex
    <3>2. uxMutexesHeld[t] \in Nat
      <4>1. uxMutexesHeld[t] = Cardinality(Held(t))
        BY DEF MutexInv, MutexHolders, Held
      <4> QED
        BY <4>1, HeldFinite
    <3> QED
      BY <1>1, <3>1, <3>2 DEF TakeMutex, PriorityRestored
  <2>5. CASE q \in Mutexes /\ f = "send"
    <3>1. GiveMutex(t, q)
      BY <2>2, <2>5 DEF UpdateMutex
    <3> QED
      BY <1>1, <3>1 DEF GiveMutex, Disinherits, PriorityRestored
  <2> QED
    BY <2>1, <2>3, <2>4, <2>5 DEF Fns
<1>3. ASSUME NEW t \in Tasks, PriorityInherit(t) PROVE PriorityRestored'
  <2> DEFINE holder == pxMutexHolder[call[t].queue]
  <2>1. call[t].queue \in Mutexes /\ holder \in Tasks \cup {NULL}
    BY <1>3 DEF PriorityInherit, Typed, CallsFitLabels, PriorityTyped
  <2>2. uxMutexesHeld' = uxMutexesHeld
    BY <1>3 DEF PriorityInherit
  <2>3. CASE holder # NULL /\ uxPriority[holder] < uxPriority[t]
    <3>1. uxPriority' = [uxPriority EXCEPT ![holder] = uxPriority[t]]
      BY <1>3, <2>3 DEF PriorityInherit
    <3>2. uxMutexesHeld[holder] # 0 /\ holder \in Tasks
      BY <2>1, <2>3, HolderHolds
    <3> QED
      BY <1>1, <2>2, <2>3, <3>1, <3>2 DEF PriorityRestored
  <2>4. CASE ~(holder # NULL /\ uxPriority[holder] < uxPriority[t])
    <3>1. uxPriority' = uxPriority
      BY <1>3, <2>4 DEF PriorityInherit
    <3> QED
      BY <2>2, <3>1 DEF PriorityRestored
  <2> QED
    BY <2>3, <2>4
<1>4. ASSUME NEW t \in Tasks, PriorityDisinheritAfterTimeout(t) PROVE PriorityRestored'
  <2> DEFINE m == call[t].queue
             holder == pxMutexHolder[m]
             ToUse == IF BasePriority[holder] < HighestWaiting(m)
                      THEN HighestWaiting(m) ELSE BasePriority[holder]
  <2>1. m \in Mutexes /\ m \in Queues /\ holder \in Tasks \cup {NULL}
    BY <1>4, KernelAssumption DEF PriorityDisinheritAfterTimeout, Typed, CallsFitLabels, PriorityTyped
  <2>2. uxMutexesHeld' = uxMutexesHeld
    BY <1>4 DEF PriorityDisinheritAfterTimeout
  <2>3. HighestWaiting(m) \in Nat
    <3>1. xTasksWaiting[<<m, "take">>] \in Seq(Tasks)
      BY <2>1 DEF Typed, ListsTyped, Fns
    <3>2. xTasksWaiting[<<m, "take">>] # <<>> => Head(xTasksWaiting[<<m, "take">>]) \in Tasks
      BY <3>1, HeadTailProperties
    <3> QED
      BY <1>1, <3>2, KernelAssumption DEF HighestWaiting
  <2>4. CASE holder # NULL /\ uxMutexesHeld[holder] = 1
    <3>1. uxPriority' = [uxPriority EXCEPT ![holder] = ToUse]
      BY <1>4, <2>4 DEF PriorityDisinheritAfterTimeout
    <3>2. ToUse >= BasePriority[holder] /\ holder \in Tasks
      BY <1>1, <2>1, <2>3, <2>4
    <3> HIDE DEF ToUse
    <3> QED
      BY <1>1, <2>2, <2>4, <3>1, <3>2 DEF PriorityRestored
  <2>5. CASE ~(holder # NULL /\ uxMutexesHeld[holder] = 1)
    <3>1. uxPriority' = uxPriority
      BY <1>4, <2>5 DEF PriorityDisinheritAfterTimeout
    <3> QED
      BY <2>2, <3>1 DEF PriorityRestored
  <2> QED
    BY <2>4, <2>5
<1>5. CASE UNCHANGED prioVars
  BY <1>5 DEF PriorityRestored
<1>6. ASSUME NEW t \in Tasks,
             \/ \E c \in Calls : Call(t, c)
             \/ TryFails(t) \/ SuspendAll(t) \/ LockQueue(t)
             \/ \E timedOut \in BOOLEAN : CheckForTimeOut(t, timedOut)
             \/ TestQueue(t) \/ PlaceOnEventList(t)
             \/ UnlockTx(t) \/ UnlockRx(t) \/ ResumeAll(t) \/ YieldWithinAPI(t) \/ Retest(t)
      PROVE  UNCHANGED prioVars
  BY <1>6 DEF Call, TryFails, SuspendAll, LockQueue, CheckForTimeOut, TestQueue, PlaceOnEventList,
              UnlockTx, UnlockRx, Unlock, ResumeAll, YieldWithinAPI, Retest
<1>7. CASE Interrupt \/ UNCHANGED vars
  BY <1>5, <1>7 DEF Interrupt, Tick, PendTick, FromISR, vars
<1> QED
  BY <1>2, <1>3, <1>4, <1>5, <1>6, <1>7 DEF Next, TaskStep

\* PriorityRestored, however mutexes are nested and waits end: a task without a
\* mutex is back at its base priority, and no task is ever below its own.
THEOREM PrioritiesAreRestored == Spec => []PriorityRestored
<1>1. Init => PriorityRestored
  <2> SUFFICES ASSUME Init PROVE PriorityRestored
    OBVIOUS
  <2>1. uxPriority = BasePriority /\ BasePriority \in [Tasks -> Nat]
    BY KernelAssumption DEF Init
  <2> QED
    BY <2>1 DEF PriorityRestored
<1>2. Typed /\ MutexInv /\ MutexInv' /\ PriorityRestored /\ [Next]_vars => PriorityRestored'
  BY PriorityStep
<1> QED
  BY <1>1, <1>2, AlwaysTyped, AlwaysMutexes, PTL DEF Spec

-----------------------------------------------------------------------------
(* The counts of a locked queue. *)

\* Every step keeps the lock count of a queue below its messages: a give from an interrupt
\* raises both, and no take lowers the messages while the queue is locked.
LEMMA LockCountStep ==
  ASSUME Typed, Typed', Suspension, Locks, LockCountBounded, [Next]_vars
  PROVE  LockCountBounded'
<1> USE DEF At
<1> SUFFICES ASSUME NEW q \in Queues, <<q, "take">> \notin IsrCalls
             PROVE  cLock'[<<q, "send">>] <= uxMessagesWaiting'[q]
  BY DEF LockCountBounded
<1> DEFINE tx == <<q, "send">>
<1>1. /\ tx \in Queues \X Fns /\ cLock[tx] <= uxMessagesWaiting[q] /\ cLock[tx] \in Int
      /\ uxMessagesWaiting[q] \in Nat /\ uxMessagesWaiting'[q] \in Nat
  BY DEF LockCountBounded, Typed, QueuesTyped, Fns, queueUNLOCKED
<1>2. CASE cLock'[tx] = queueUNLOCKED
  BY <1>1, <1>2 DEF queueUNLOCKED
<1>3. CASE cLock'[tx] = queueLOCKED_UNMODIFIED
  BY <1>1, <1>3 DEF queueLOCKED_UNMODIFIED
<1>4. CASE cLock' = cLock /\ uxMessagesWaiting' = uxMessagesWaiting
  BY <1>1, <1>4
<1>5. ASSUME NEW t \in Tasks, TrySucceeds(t) PROVE cLock'[tx] = queueUNLOCKED
  <2>1. pc[pxCurrentTCB] \notin Window /\ cLock' = cLock
    BY <1>5 DEF TrySucceeds, Window
  <2> QED
    BY <2>1, UnlockedOutside DEF Fns
<1>6. ASSUME NEW t \in Tasks, LockQueue(t)
      PROVE  \/ cLock'[tx] = queueLOCKED_UNMODIFIED
             \/ cLock'[tx] = cLock[tx] /\ uxMessagesWaiting' = uxMessagesWaiting
  BY <1>1, <1>6 DEF LockQueue
<1>7. ASSUME NEW t \in Tasks, NEW f \in Fns, Unlock(t, f)
      PROVE  \/ cLock'[tx] = queueUNLOCKED
             \/ cLock'[tx] = cLock[tx] /\ uxMessagesWaiting' = uxMessagesWaiting
  BY <1>1, <1>7 DEF Unlock, UnlockedCount, Typed, QueuesTyped
<1>8. ASSUME NEW t \in Tasks,
             \/ \E c \in Calls : Call(t, c)
             \/ TryFails(t) \/ SuspendAll(t)
             \/ \E timedOut \in BOOLEAN : CheckForTimeOut(t, timedOut)
             \/ TestQueue(t) \/ PriorityInherit(t) \/ PlaceOnEventList(t)
             \/ ResumeAll(t) \/ YieldWithinAPI(t)
             \/ Retest(t) \/ PriorityDisinheritAfterTimeout(t)
      PROVE  cLock' = cLock /\ uxMessagesWaiting' = uxMessagesWaiting
  BY <1>8 DEF Call, TryFails, SuspendAll, CheckForTimeOut, TestQueue, PriorityInherit,
              PlaceOnEventList, ResumeAll, YieldWithinAPI, Retest, PriorityDisinheritAfterTimeout
<1>9. ASSUME NEW r \in Queues, NEW f \in Fns, FromISR(r, f)
      PROVE  cLock'[tx] <= uxMessagesWaiting'[q]
  <2>1. Transfer(r, f) /\ <<r, f>> \in IsrCalls
    BY <1>9 DEF FromISR
  <2>2. CASE r # q
    <3>1. uxMessagesWaiting'[q] = uxMessagesWaiting[q]
      BY <2>1, <2>2 DEF Transfer, Typed, QueuesTyped
    <3>2. cLock'[tx] = cLock[tx]
      BY <1>1, <1>9, <2>2 DEF FromISR, Typed, QueuesTyped
    <3> QED
      BY <1>1, <3>1, <3>2
  <2>3. CASE r = q
    <3>1. f = "send"
      BY <2>1, <2>3 DEF Fns
    <3>2. uxMessagesWaiting'[q] = uxMessagesWaiting[q] + 1
      BY <2>1, <2>3, <3>1 DEF Transfer, Typed, QueuesTyped
    <3>3. cLock'[tx] = cLock[tx] \/ cLock'[tx] = cLock[tx] + 1
      BY <1>1, <1>9, <2>3, <3>1 DEF FromISR, Typed, QueuesTyped
    <3> QED
      BY <1>1, <3>2, <3>3
  <2> QED
    BY <2>2, <2>3
<1>10. CASE Tick \/ PendTick \/ UNCHANGED vars
  BY <1>4, <1>10 DEF Tick, PendTick, vars
<1>11. ASSUME NEW t \in Tasks, UnlockTx(t) \/ UnlockRx(t)
       PROVE  \/ cLock'[tx] = queueUNLOCKED
              \/ cLock'[tx] = cLock[tx] /\ uxMessagesWaiting' = uxMessagesWaiting
  BY <1>7, <1>11 DEF UnlockTx, UnlockRx, Fns
<1> QED
  BY <1>1, <1>2, <1>3, <1>4, <1>5, <1>6, <1>8, <1>9, <1>10, <1>11 DEF Next, Interrupt, TaskStep

\* LockCountBounded, for queues of any length: with the bound of TypeOK on messages, an
\* interrupt that only gives never pushes cTxLock past the length of the queue.
THEOREM LockCountsAreBounded == Spec => []LockCountBounded
<1>1. Init => LockCountBounded
  <2> SUFFICES ASSUME Init, NEW q \in Queues PROVE cLock[<<q, "send">>] <= uxMessagesWaiting[q]
    BY DEF LockCountBounded
  <2>1. <<q, "send">> \in Queues \X Fns
    BY DEF Fns
  <2> QED
    BY <2>1 DEF Init, queueUNLOCKED
<1>2. Typed /\ Typed' /\ Suspension /\ Locks /\ LockCountBounded /\ [Next]_vars => LockCountBounded'
  BY LockCountStep
<1> QED
  BY <1>1, <1>2, AlwaysTyped, AlwaysSuspension, PTL DEF Spec

-----------------------------------------------------------------------------
(* The lists of the scheduler: a task is in one place, and only while it waits. *)

\* The first task of a list and the others.
LEMMA HeadAndTail ==
  ASSUME NEW list \in Seq(Tasks), list # <<>>
  PROVE  /\ Head(list) \in Tasks /\ Tail(list) \in Seq(Tasks)
         /\ ToSet(list) = ToSet(Tail(list)) \cup {Head(list)}
         /\ IsInjective(list) => IsInjective(Tail(list)) /\ Head(list) \notin ToSet(Tail(list))
<1>1. /\ Head(list) \in Tasks /\ Tail(list) \in Seq(Tasks) /\ Len(Tail(list)) = Len(list) - 1
      /\ \A i \in 1..Len(list) - 1 : Tail(list)[i] = list[i + 1]
  BY HeadTailProperties
<1>2. /\ Len(list) \in Nat \ {0} /\ DOMAIN list = 1..Len(list)
      /\ DOMAIN Tail(list) = 1..Len(list) - 1
  BY <1>1, LenProperties, EmptySeq
<1>3. Head(list) = list[1]
  OBVIOUS
<1>4. ToSet(list) = ToSet(Tail(list)) \cup {Head(list)}
  <2>1. ASSUME NEW i \in 1..Len(list), i # 1 PROVE i - 1 \in 1..Len(list) - 1 /\ Tail(list)[i - 1] = list[i]
    BY <1>1, <1>2, <2>1
  <2>2. ASSUME NEW i \in 1..Len(list) - 1 PROVE i + 1 \in 1..Len(list)
    BY <1>2
  <2>3. 1 \in 1..Len(list)
    BY <1>2
  <2>4. ToSet(list) \subseteq ToSet(Tail(list)) \cup {Head(list)}
    BY <1>2, <1>3, <2>1 DEF ToSet
  <2>5. ToSet(Tail(list)) \cup {Head(list)} \subseteq ToSet(list)
    BY <1>1, <1>2, <1>3, <2>2, <2>3 DEF ToSet
  <2> QED
    BY <2>4, <2>5
<1>5. ASSUME IsInjective(list) PROVE IsInjective(Tail(list)) /\ Head(list) \notin ToSet(Tail(list))
  <2>1. \A i, j \in 1..Len(list) : list[i] = list[j] => i = j
    BY <1>2, <1>5 DEF IsInjective
  <2>2. \A i \in 1..Len(list) - 1 : i + 1 \in 1..Len(list) /\ i + 1 # 1 /\ Tail(list)[i] = list[i + 1]
    BY <1>1, <1>2
  <2>3. ASSUME NEW i \in 1..Len(list) - 1, NEW j \in 1..Len(list) - 1, Tail(list)[i] = Tail(list)[j]
        PROVE  i = j
    <3>1. i + 1 = j + 1
      BY <2>1, <2>2, <2>3
    <3> QED
      BY <1>2, <3>1
  <2>4. \A i \in 1..Len(list) - 1 : Tail(list)[i] # list[1]
    BY <1>2, <2>1, <2>2
  <2>5. IsInjective(Tail(list))
    BY <1>2, <2>3 DEF IsInjective
  <2> QED
    BY <1>2, <1>3, <2>4, <2>5 DEF ToSet
<1> QED
  BY <1>1, <1>4, <1>5

\* Two lists one behind the other.
LEMMA Joined ==
  ASSUME NEW s \in Seq(Tasks), NEW r \in Seq(Tasks)
  PROVE  /\ s \o r \in Seq(Tasks)
         /\ ToSet(s \o r) = ToSet(s) \cup ToSet(r)
         /\ IsInjective(s) /\ IsInjective(r) /\ ToSet(s) \cap ToSet(r) = {} => IsInjective(s \o r)
<1> DEFINE m == Len(s)  n == Len(r)  both == s \o r
<1>1. /\ both \in Seq(Tasks) /\ Len(both) = m + n
      /\ \A i \in 1..m + n : both[i] = IF i <= m THEN s[i] ELSE r[i - m]
  BY ConcatProperties
<1>2. /\ m \in Nat /\ n \in Nat
      /\ DOMAIN s = 1..m /\ DOMAIN r = 1..n /\ DOMAIN both = 1..m + n
  BY <1>1, LenProperties
<1> HIDE DEF m, n, both
<1>3. ASSUME NEW i \in 1..m PROVE i \in 1..m + n /\ both[i] = s[i]
  BY <1>1, <1>2
<1>4. ASSUME NEW i \in 1..n PROVE m + i \in 1..m + n /\ both[m + i] = r[i]
  BY <1>1, <1>2
<1>5. ASSUME NEW k \in 1..m + n
      PROVE  \/ k \in 1..m /\ both[k] = s[k]
             \/ k - m \in 1..n /\ both[k] = r[k - m]
  BY <1>1, <1>2
<1>6. ToSet(both) = ToSet(s) \cup ToSet(r)
  <2>1. ToSet(both) \subseteq ToSet(s) \cup ToSet(r)
    BY <1>2, <1>5 DEF ToSet
  <2>2. ToSet(s) \cup ToSet(r) \subseteq ToSet(both)
    BY <1>2, <1>3, <1>4 DEF ToSet
  <2> QED
    BY <2>1, <2>2
<1>7. ASSUME IsInjective(s), IsInjective(r), ToSet(s) \cap ToSet(r) = {},
             NEW k \in 1..m + n, NEW l \in 1..m + n, both[k] = both[l]
      PROVE  k = l
  <2>1. CASE k \in 1..m /\ both[k] = s[k] /\ l \in 1..m /\ both[l] = s[l]
    BY <1>2, <1>7, <2>1 DEF IsInjective
  <2>2. CASE k - m \in 1..n /\ both[k] = r[k - m] /\ l - m \in 1..n /\ both[l] = r[l - m]
    <3>1. k - m = l - m
      BY <1>2, <1>7, <2>2 DEF IsInjective
    <3> QED
      BY <1>2, <3>1
  <2>3. ASSUME NEW i \in 1..m, NEW j \in 1..n PROVE s[i] # r[j]
    BY <1>2, <1>7 DEF ToSet
  <2> QED
    BY <1>5, <1>7, <2>1, <2>2, <2>3
<1> QED
  BY <1>1, <1>2, <1>6, <1>7 DEF both, IsInjective

\* A list cut in two.
LEMMA Cut ==
  ASSUME NEW list \in Seq(Tasks), NEW n \in 0..Len(list)
  PROVE  LET front == SubSeq(list, 1, n)  rest == SubSeq(list, n + 1, Len(list)) IN
         /\ front \in Seq(Tasks) /\ rest \in Seq(Tasks)
         /\ ToSet(list) = ToSet(front) \cup ToSet(rest)
         /\ IsInjective(list) =>
              IsInjective(front) /\ IsInjective(rest) /\ ToSet(front) \cap ToSet(rest) = {}
<1> DEFINE front == SubSeq(list, 1, n)  rest == SubSeq(list, n + 1, Len(list))  N == Len(list)
<1>1. N \in Nat /\ n \in Nat /\ n <= N /\ DOMAIN list = 1..N /\ \A i \in 1..N : list[i] \in Tasks
  BY LenProperties, ElementOfSeq
<1>2. front \in Seq(Tasks) /\ Len(front) = n /\ \A i \in 1..n : front[i] = list[i]
  BY <1>1, SubSeqProperties
<1>3. rest \in Seq(Tasks) /\ Len(rest) = N - n /\ \A i \in 1..N - n : rest[i] = list[n + i]
  <2>1. n + 1 \in Int /\ N \in Int /\ \A i \in n + 1..N : list[i] \in Tasks
    BY <1>1
  <2>2. /\ rest \in Seq(Tasks) /\ Len(rest) = IF n + 1 <= N THEN N - (n + 1) + 1 ELSE 0
        /\ \A i \in 1..N - (n + 1) + 1 : rest[i] = list[(n + 1) + i - 1]
    BY <2>1, SubSeqProperties
  <2> HIDE DEF rest, N
  <2>3. N - (n + 1) + 1 = N - n /\ (~(n + 1 <= N) => N - n = 0)
    BY <1>1
  <2>4. \A i \in 1..N - n : (n + 1) + i - 1 = n + i
    BY <1>1
  <2> QED
    BY <2>2, <2>3, <2>4
<1>4. DOMAIN front = 1..n /\ DOMAIN rest = 1..N - n
  BY <1>2, <1>3, LenProperties
<1> HIDE DEF front, rest, N
<1>5. ToSet(list) = ToSet(front) \cup ToSet(rest)
  <2>1. ASSUME NEW i \in 1..N PROVE list[i] \in ToSet(front) \cup ToSet(rest)
    <3>1. i \in 1..n \/ (i - n \in 1..N - n /\ n + (i - n) = i)
      BY <1>1
    <3> QED
      BY <1>2, <1>3, <1>4, <3>1 DEF ToSet
  <2>2. ASSUME NEW i \in 1..n PROVE front[i] \in ToSet(list)
    BY <1>1, <1>2 DEF ToSet
  <2>3. ASSUME NEW i \in 1..N - n PROVE rest[i] \in ToSet(list)
    <3>1. n + i \in 1..N
      BY <1>1
    <3> QED
      BY <1>1, <1>3, <3>1 DEF ToSet
  <2>4. ToSet(list) \subseteq ToSet(front) \cup ToSet(rest)
    BY <1>1, <2>1 DEF ToSet
  <2>5. ToSet(front) \cup ToSet(rest) \subseteq ToSet(list)
    BY <1>4, <2>2, <2>3 DEF ToSet
  <2> QED
    BY <2>4, <2>5
<1>6. ASSUME IsInjective(list)
      PROVE  IsInjective(front) /\ IsInjective(rest) /\ ToSet(front) \cap ToSet(rest) = {}
  <2>1. \A i, j \in 1..N : list[i] = list[j] => i = j
    BY <1>1, <1>6 DEF IsInjective
  <2>2. \A i \in 1..n : i \in 1..N
    BY <1>1
  <2>3. \A i \in 1..N - n : n + i \in 1..N
    BY <1>1
  <2>4. IsInjective(front)
    BY <1>2, <1>4, <2>1, <2>2 DEF IsInjective
  <2>5. IsInjective(rest)
    <3>1. ASSUME NEW i \in 1..N - n, NEW j \in 1..N - n, rest[i] = rest[j] PROVE i = j
      <4>1. n + i = n + j
        BY <1>3, <2>1, <2>3, <3>1
      <4> QED
        BY <1>1, <4>1
    <3> QED
      BY <1>4, <3>1 DEF IsInjective
  <2>6. ASSUME NEW i \in 1..n, NEW j \in 1..N - n PROVE front[i] # rest[j]
    <3>1. i # n + j
      BY <1>1
    <3> QED
      BY <1>2, <1>3, <2>1, <2>2, <2>3, <3>1
  <2> QED
    BY <1>4, <2>4, <2>5, <2>6 DEF ToSet
<1> QED
  BY <1>2, <1>3, <1>5, <1>6 DEF front, rest, N

Pending == ToSet(xPendingReadyList)

\* What waits to be made ready is in the list once, is not ready, and is there only
\* while the scheduler is suspended.
PendingSound ==
  /\ \A t \in Pending : stateList[t] # "ready"
  /\ uxSchedulerSuspended = 0 => xPendingReadyList = <<>>

\* The running task is ready, unless it blocked itself and has not yet yielded.
RunnerReady ==
  \/ stateList[pxCurrentTCB] = "ready"
  \/ pc[pxCurrentTCB] = "yield"
  \/ /\ pc[pxCurrentTCB] \in {"unlockTx", "unlockRx", "resume"}
     /\ outcome[pxCurrentTCB] \in {"blocked", "delayed"}

\* Tasks only become ready in the step.
Readied == \A t \in Tasks : stateList[t] = "ready" => stateList'[t] = "ready"

\* A switch is to a ready task.
LEMMA SwitchToReady ==
  ASSUME SwitchContext, uxSchedulerSuspended' = 0, pxCurrentTCB \in Tasks
  PROVE  pxCurrentTCB' \in Tasks /\ stateList'[pxCurrentTCB'] = "ready"
BY DEF SwitchContext, HighestReady, Ready

\* Waking a task makes nobody unready.
LEMMA WakeOneReadies ==
  ASSUME Typed, NEW q \in Queues, NEW f \in Fns, WakeOne(q, f)
  PROVE  Readied
<1>1. CASE xTasksWaiting[<<q, f>>] = <<>>
  BY <1>1 DEF WakeOne, Readied
<1>2. CASE xTasksWaiting[<<q, f>>] # <<>>
  BY <1>2 DEF WakeOne, RemoveFromEventList, Readied, Typed, ListsTyped
<1> QED
  BY <1>1, <1>2

\* Every step leaves a ready task running, or one that is about to yield.
LEMMA RunnerReadyStep ==
  ASSUME Typed, Typed', Suspension, Suspension', RunnerReady, [Next]_vars
  PROVE  RunnerReady'
<1> USE DEF At, Goto
<1>0. pxCurrentTCB \in Tasks /\ pxCurrentTCB' \in Tasks
  BY DEF Typed, TasksTyped
<1>1. ASSUME NEW t \in Tasks, pxCurrentTCB = t, stateList[t] = "ready",
             UNCHANGED <<pxCurrentTCB, stateList>>
      PROVE  RunnerReady'
  BY <1>1 DEF RunnerReady
<1>2. ASSUME NEW t \in Tasks, NEW c \in Calls, Call(t, c) PROVE RunnerReady'
  BY <1>1, <1>2 DEF Call, RunnerReady
<1>3. ASSUME NEW t \in Tasks, TryFails(t) \/ SuspendAll(t) \/ LockQueue(t) \/ Retest(t)
      PROVE RunnerReady'
  BY <1>1, <1>3 DEF TryFails, SuspendAll, LockQueue, Retest, RunnerReady
<1>4. ASSUME NEW t \in Tasks,
             \/ TestQueue(t) \/ PriorityInherit(t) \/ PriorityDisinheritAfterTimeout(t)
             \/ \E timedOut \in BOOLEAN : CheckForTimeOut(t, timedOut)
      PROVE  RunnerReady'
  BY <1>1, <1>4 DEF TestQueue, PriorityInherit, PriorityDisinheritAfterTimeout,
                    CheckForTimeOut, RunnerReady
<1>5. ASSUME Readied, stateList[pxCurrentTCB] = "ready", NEW needed, Yield(needed),
             needed => uxSchedulerSuspended' = 0
      PROVE  RunnerReady'
  <2>1. CASE needed
    BY <1>0, <1>5, <2>1, SwitchToReady DEF Yield, RunnerReady
  <2>2. CASE ~needed
    BY <1>0, <1>5, <2>2 DEF Yield, RunnerReady, Readied
  <2> QED
    BY <2>1, <2>2
<1>6. ASSUME NEW t \in Tasks, TrySucceeds(t) PROVE RunnerReady'
  <2> DEFINE q == call[t].queue
             f == call[t].fn
  <2>1. q \in Queues /\ Other(f) \in Fns
    BY <1>6, AtLabel, OtherType DEF TrySucceeds, QueueLabels
  <2>2. /\ pxCurrentTCB = t /\ pc[t] = "try" /\ WakeOne(q, Other(f))
        /\ uxSchedulerSuspended' = uxSchedulerSuspended /\ Yield(YieldAfter(t, q, f))
    BY <1>6 DEF TrySucceeds
  <2>3. uxSchedulerSuspended = 0 /\ stateList[t] = "ready"
    BY <2>2 DEF Suspension, Window, RunnerReady
  <2> HIDE DEF q, f
  <2>4. Readied
    BY <2>1, <2>2, WakeOneReadies
  <2> QED
    BY <1>5, <2>2, <2>3, <2>4
<1>7. ASSUME NEW t \in Tasks, PlaceOnEventList(t) PROVE RunnerReady'
  <2>1. /\ pxCurrentTCB' = t /\ outcome'[t] \in {"blocked", "delayed"}
        /\ pc'[t] \in {"unlockTx", "resume"}
    BY <1>7 DEF PlaceOnEventList, Typed, TasksTyped
  <2> QED
    BY <2>1 DEF RunnerReady
<1>8. ASSUME NEW t \in Tasks, UnlockTx(t) \/ UnlockRx(t) PROVE RunnerReady'
  <2>1. /\ pxCurrentTCB = t /\ pxCurrentTCB' = t /\ pc[t] \in {"unlockTx", "unlockRx"}
        /\ pc'[t] \in {"unlockRx", "resume"} /\ outcome' = outcome /\ stateList' = stateList
    BY <1>8 DEF UnlockTx, UnlockRx, Unlock, callVars, Typed, TasksTyped
  <2> QED
    BY <2>1 DEF RunnerReady
<1>9. ASSUME NEW t \in Tasks, ResumeAll(t) PROVE RunnerReady'
  <2> DEFINE pended == ToSet(xPendingReadyList)
             moved == [u \in Tasks |-> IF u \in pended THEN "ready" ELSE stateList[u]]
             yield(E) == \/ xYieldPending
                         \/ \E u \in pended : uxPriority[u] >= uxPriority[t]
                         \/ uxPendedTicks > 0 /\ SwitchAtTick(E)
  <2>1. PICK E \in SUBSET Delayed(moved) :
          /\ stateList' = [u \in Tasks |-> IF u \in E THEN "ready" ELSE moved[u]]
          /\ Yield(yield(E))
          /\ Goto(t, IF ~yield(E) /\ outcome[t] \in {"blocked", "delayed"} THEN "yield" ELSE After(t))
    BY <1>9 DEF ResumeAll
  <2>2. /\ pc[t] = "resume" /\ pxCurrentTCB = t
        /\ uxSchedulerSuspended' = uxSchedulerSuspended - 1
    BY <1>9 DEF ResumeAll
  <2>3. uxSchedulerSuspended' = 0 /\ Readied
    BY <2>1, <2>2 DEF Suspension, Window, Readied
  <2> HIDE DEF yield
  <2>4. CASE yield(E) \/ stateList[t] = "ready"
    <3>1. CASE yield(E)
      BY <1>0, <2>1, <2>3, <3>1, SwitchToReady DEF Yield, RunnerReady
    <3>2. CASE ~yield(E)
      BY <1>5, <2>1, <2>2, <2>3, <2>4, <3>2
    <3> QED
      BY <3>1, <3>2
  <2>5. CASE ~yield(E) /\ stateList[t] # "ready"
    <3>1. outcome[t] \in {"blocked", "delayed"}
      BY <2>2, <2>5 DEF RunnerReady
    <3>2. pc'[t] = "yield" /\ pxCurrentTCB' = t
      BY <2>1, <2>2, <2>5, <3>1 DEF Yield, Typed, TasksTyped
    <3> QED
      BY <3>2 DEF RunnerReady
  <2> QED
    BY <2>4, <2>5
<1>10. ASSUME NEW t \in Tasks, YieldWithinAPI(t) PROVE RunnerReady'
  <2>1. SwitchContext /\ uxSchedulerSuspended' = 0
    BY <1>10 DEF YieldWithinAPI, schedVars, Suspension, Window
  <2> QED
    BY <1>0, <2>1, SwitchToReady DEF RunnerReady
<1>11. CASE Interrupt
  <2>1. pc' = pc /\ outcome' = outcome /\ uxSchedulerSuspended' = uxSchedulerSuspended
    BY <1>11 DEF Interrupt, Tick, PendTick, FromISR, schedVars, callVars
  <2>2. Readied
    <3>1. CASE Tick
      BY <3>1 DEF Tick, Readied
    <3>2. CASE PendTick
      BY <3>2 DEF PendTick, Readied
    <3>3. ASSUME NEW q \in Queues, NEW f \in Fns, FromISR(q, f) PROVE Readied
      <4>1. CASE cLock[<<q, f>>] = queueUNLOCKED
        BY <3>3, <4>1, OtherType, WakeOneReadies DEF FromISR
      <4>2. CASE cLock[<<q, f>>] # queueUNLOCKED
        BY <3>3, <4>2 DEF FromISR, Readied
      <4> QED
        BY <4>1, <4>2
    <3> QED
      BY <1>11, <3>1, <3>2, <3>3 DEF Interrupt
  <2>3. pxCurrentTCB' = pxCurrentTCB \/ (SwitchContext /\ uxSchedulerSuspended' = 0)
    BY <1>11 DEF Interrupt, Tick, PendTick, FromISR, Yield, SwitchContext
  <2>4. CASE pxCurrentTCB' = pxCurrentTCB
    BY <1>0, <2>1, <2>2, <2>4 DEF RunnerReady, Readied
  <2>5. CASE SwitchContext /\ uxSchedulerSuspended' = 0
    BY <1>0, <2>5, SwitchToReady DEF RunnerReady
  <2> QED
    BY <2>3, <2>4, <2>5
<1>12. CASE UNCHANGED vars
  BY <1>12 DEF vars, callVars, RunnerReady
<1>13. ASSUME NEW t \in Tasks, TaskStep(t) PROVE RunnerReady'
  BY <1>2, <1>3, <1>4, <1>6, <1>7, <1>8, <1>9, <1>10, <1>13 DEF TaskStep
<1> QED
  BY <1>11, <1>12, <1>13 DEF Next


\* A task is in the event list of its call only, and neither ready nor pending.
LEMMA InListOfCall ==
  ASSUME EventListsSound, NEW q \in Queues, NEW f \in Fns, NEW t \in Waiting(q, f), Typed
  PROVE  /\ t \in Tasks /\ call[t].queue = q /\ call[t].fn = f
         /\ stateList[t] # "ready" /\ t \notin Pending
<1>1. t \in Tasks
  <2>1. xTasksWaiting[<<q, f>>] \in Seq(Tasks)
    BY DEF Typed, ListsTyped
  <2> QED
    BY <2>1, LenProperties, ElementOfSeq DEF Waiting, ToSet
<1> QED
  BY <1>1 DEF EventListsSound, InEventList, Pending

\* A step that leaves the lists alone, and the calls of those who are in them.
LEMMA ListsFrame ==
  ASSUME EventListsSound, PendingSound,
         UNCHANGED <<xTasksWaiting, xPendingReadyList, stateList>>,
         \A q \in Queues, f \in Fns : \A t \in Waiting(q, f) : call'[t] = call[t],
         uxSchedulerSuspended' = 0 => xPendingReadyList = <<>>
  PROVE  EventListsSound' /\ PendingSound'
<1>1. \A q \in Queues, f \in Fns : Waiting(q, f)' = Waiting(q, f)
  BY DEF Waiting
<1>2. Pending' = Pending /\ \A t \in Tasks : InEventList(t)' = InEventList(t)
  BY <1>1 DEF Pending, InEventList
<1>3. EventListsSound'
  BY <1>1, <1>2 DEF EventListsSound, Pending
<1> QED
  BY <1>2, <1>3 DEF PendingSound

\* The step of one list that loses its first n tasks to the pending or the ready ones.
\* The other lists are as before.
Shortened(qf, gone) ==
  /\ xTasksWaiting' = [xTasksWaiting EXCEPT ![qf] = xTasksWaiting'[qf]]
  /\ ToSet(xTasksWaiting'[qf]) = ToSet(xTasksWaiting[qf]) \ gone
  /\ IsInjective(xTasksWaiting'[qf])
  /\ gone \subseteq ToSet(xTasksWaiting[qf])

\* Tasks that leave a list are in none.
LEMMA ShortenedLists ==
  ASSUME Typed, EventListsSound, UNCHANGED call,
         NEW q \in Queues, NEW f \in Fns, NEW gone, Shortened(<<q, f>>, gone)
  PROVE  /\ \A r \in Queues, g \in Fns :
              /\ IsInjective(xTasksWaiting'[<<r, g>>])
              /\ \A t \in Waiting(r, g)' : call'[t].queue = r /\ call'[t].fn = g
         /\ \A t \in Tasks : InEventList(t)' => InEventList(t) /\ t \notin gone
<1>1. ASSUME NEW r \in Queues, NEW g \in Fns
      PROVE  /\ Waiting(r, g)' = Waiting(r, g) \ gone
             /\ IsInjective(xTasksWaiting'[<<r, g>>])
  <2>1. CASE <<r, g>> = <<q, f>>
    BY <2>1 DEF Shortened, Waiting
  <2>2. CASE <<r, g>> # <<q, f>>
    <3>1. xTasksWaiting'[<<r, g>>] = xTasksWaiting[<<r, g>>]
      BY <2>2 DEF Shortened, Typed, ListsTyped
    <3>2. ASSUME NEW t \in Waiting(r, g) PROVE t \notin gone
      <4>1. t \in gone => t \in Waiting(q, f)
        BY DEF Shortened, Waiting
      <4>2. call[t].queue = r /\ call[t].fn = g
        BY DEF EventListsSound
      <4>3. t \in gone => call[t].queue = q /\ call[t].fn = f
        BY <4>1 DEF EventListsSound
      <4> QED
        BY <2>2, <4>2, <4>3
    <3> QED
      BY <3>1, <3>2 DEF Waiting, EventListsSound
  <2> QED
    BY <2>1, <2>2
<1>2. ASSUME NEW r \in Queues, NEW g \in Fns, NEW t \in Waiting(r, g)'
      PROVE  call'[t].queue = r /\ call'[t].fn = g
  <2>1. t \in Waiting(r, g)
    BY <1>1
  <2> QED
    BY <2>1 DEF EventListsSound
<1>3. ASSUME NEW t \in Tasks, InEventList(t)' PROVE InEventList(t) /\ t \notin gone
  <2>1. PICK r \in Queues, g \in Fns : t \in Waiting(r, g)'
    BY <1>3 DEF InEventList
  <2> QED
    BY <1>1, <2>1 DEF InEventList
<1> QED
  BY <1>1, <1>2, <1>3

\* xTaskRemoveFromEventList moves one task.
LEMMA WakeOneKeepsLists ==
  ASSUME Typed, EventListsSound, PendingSound, UNCHANGED <<call, uxSchedulerSuspended>>,
         NEW q \in Queues, NEW f \in Fns, WakeOne(q, f)
  PROVE  EventListsSound' /\ PendingSound'
<1> DEFINE list == xTasksWaiting[<<q, f>>]  woken == Head(list)
<1>1. CASE list = <<>>
  BY <1>1, ListsFrame DEF WakeOne, PendingSound
<1>2. CASE list # <<>>
  <2>1. list \in Seq(Tasks) /\ IsInjective(list) /\ xPendingReadyList \in Seq(Tasks)
    BY DEF Typed, ListsTyped, EventListsSound
  <2>2. /\ woken \in Tasks /\ Tail(list) \in Seq(Tasks)
        /\ ToSet(list) = ToSet(Tail(list)) \cup {woken}
        /\ IsInjective(Tail(list)) /\ woken \notin ToSet(Tail(list))
    BY <1>2, <2>1, HeadAndTail
  <2>3. /\ xTasksWaiting' = [xTasksWaiting EXCEPT ![<<q, f>>] = Tail(@)]
        /\ IF uxSchedulerSuspended = 0
           THEN /\ stateList' = [stateList EXCEPT ![woken] = "ready"]
                /\ UNCHANGED xPendingReadyList
           ELSE /\ xPendingReadyList' = Append(xPendingReadyList, woken)
                /\ UNCHANGED stateList
    BY <1>2 DEF WakeOne, RemoveFromEventList
  <2>4. woken \in Waiting(q, f) /\ stateList[woken] # "ready" /\ woken \notin Pending
    <3>1. woken \in Waiting(q, f)
      BY <2>2 DEF Waiting
    <3> QED
      BY <3>1, InListOfCall
  <2>5. Shortened(<<q, f>>, {woken})
    <3>1. xTasksWaiting'[<<q, f>>] = Tail(list)
      BY <2>3 DEF Typed, ListsTyped
    <3> QED
      BY <2>2, <2>3, <3>1 DEF Shortened
  <2> HIDE DEF list, woken
  <2>6. /\ \A r \in Queues, g \in Fns :
             /\ IsInjective(xTasksWaiting'[<<r, g>>])
             /\ \A t \in Waiting(r, g)' : call'[t].queue = r /\ call'[t].fn = g
        /\ \A t \in Tasks : InEventList(t)' => InEventList(t) /\ t # woken
    BY <2>5, ShortenedLists
  <2>7. CASE uxSchedulerSuspended = 0
    <3>1. xPendingReadyList = <<>> /\ xPendingReadyList' = <<>>
      BY <2>3, <2>7 DEF PendingSound
    <3>2. Pending' = {}
      BY <3>1 DEF Pending, ToSet
    <3>3. \A t \in Tasks : t # woken => stateList'[t] = stateList[t]
      BY <2>2, <2>3, <2>7 DEF Typed, ListsTyped
    <3>4. \A t \in Tasks : InEventList(t)' => stateList'[t] # "ready"
      BY <2>6, <3>3 DEF EventListsSound
    <3>5. IsInjective(xPendingReadyList')
      BY <3>1 DEF IsInjective
    <3> QED
      BY <2>6, <3>1, <3>2, <3>4, <3>5 DEF EventListsSound, PendingSound, Pending
  <2>8. CASE uxSchedulerSuspended # 0
    <3>1. xPendingReadyList' = xPendingReadyList \o <<woken>> /\ stateList' = stateList
      BY <2>1, <2>2, <2>3, <2>8, AppendIsConcat
    <3>2. <<woken>> \in Seq(Tasks) /\ ToSet(<<woken>>) = {woken} /\ IsInjective(<<woken>>)
      BY <2>2 DEF ToSet, IsInjective
    <3>3. Pending' = Pending \cup {woken} /\ IsInjective(xPendingReadyList')
      <4>1. IsInjective(xPendingReadyList) /\ Pending \cap {woken} = {}
        BY <2>4 DEF EventListsSound
      <4>2. /\ ToSet(xPendingReadyList \o <<woken>>) = ToSet(xPendingReadyList) \cup {woken}
            /\ ToSet(xPendingReadyList) \cap {woken} = {} => IsInjective(xPendingReadyList \o <<woken>>)
        BY <2>1, <3>2, <4>1, Joined
      <4> QED
        BY <3>1, <4>1, <4>2 DEF Pending
    <3>4. \A t \in Tasks : InEventList(t)' => stateList'[t] # "ready" /\ t \notin Pending'
      BY <2>6, <3>1, <3>3 DEF EventListsSound, Pending
    <3>5. \A t \in Pending' : stateList'[t] # "ready"
      BY <2>4, <3>1, <3>3 DEF PendingSound
    <3> QED
      BY <2>6, <2>8, <3>3, <3>4, <3>5 DEF EventListsSound, PendingSound, Pending
  <2> QED
    BY <2>7, <2>8
<1> QED
  BY <1>1, <1>2

\* A critical section of prvUnlockQueue moves the first tasks of a list.
LEMMA UnlockKeepsLists ==
  ASSUME Typed, EventListsSound, PendingSound, uxSchedulerSuspended # 0,
         NEW t \in Tasks, call[t].queue \in Queues, NEW f \in Fns, Unlock(t, f)
  PROVE  EventListsSound' /\ PendingSound'
<1> DEFINE q == call[t].queue
           g == Other(f)
           list == xTasksWaiting[<<q, g>>]
           n == WokenAtUnlock(q, f)
           woken == SubSeq(list, 1, n)
           rest == SubSeq(list, n + 1, Len(list))
<1>1. /\ g \in Fns /\ list \in Seq(Tasks) /\ IsInjective(list)
      /\ xPendingReadyList \in Seq(Tasks) /\ IsInjective(xPendingReadyList)
  BY OtherType DEF Typed, ListsTyped, EventListsSound
<1>2. n \in 0..Len(list)
  <2>1. Len(list) \in Nat /\ cLock[<<q, f>>] \in Nat \cup {queueUNLOCKED}
    BY <1>1, LenProperties DEF Typed, QueuesTyped
  <2> QED
    BY <2>1 DEF WokenAtUnlock, queueLOCKED_UNMODIFIED, queueUNLOCKED
<1>3. /\ woken \in Seq(Tasks) /\ rest \in Seq(Tasks)
      /\ ToSet(list) = ToSet(woken) \cup ToSet(rest) /\ ToSet(woken) \cap ToSet(rest) = {}
      /\ IsInjective(woken) /\ IsInjective(rest)
  BY <1>1, <1>2, Cut
<1>4. /\ xTasksWaiting' = [xTasksWaiting EXCEPT ![<<q, g>>] = rest]
      /\ xPendingReadyList' = xPendingReadyList \o woken
      /\ UNCHANGED <<stateList, call, uxSchedulerSuspended>>
  BY DEF Unlock, callVars
<1>5. Shortened(<<q, g>>, ToSet(woken))
  <2>1. xTasksWaiting'[<<q, g>>] = rest
    BY <1>1, <1>4 DEF Typed, ListsTyped
  <2> HIDE DEF rest, woken, list
  <2>2. ToSet(rest) = ToSet(list) \ ToSet(woken) /\ ToSet(woken) \subseteq ToSet(list)
    BY <1>3
  <2> QED
    BY <1>3, <1>4, <2>1, <2>2 DEF Shortened, list
<1>6. \A u \in ToSet(woken) : u \in Tasks /\ stateList[u] # "ready" /\ u \notin Pending
  <2>1. ToSet(woken) \subseteq Waiting(q, g)
    BY <1>3 DEF Waiting
  <2> HIDE DEF woken
  <2> QED
    BY <1>1, <2>1, InListOfCall
<1> HIDE DEF rest, woken, list, n, g, q
<1>7. /\ \A r \in Queues, h \in Fns :
           /\ IsInjective(xTasksWaiting'[<<r, h>>])
           /\ \A u \in Waiting(r, h)' : call'[u].queue = r /\ call'[u].fn = h
      /\ \A u \in Tasks : InEventList(u)' => InEventList(u) /\ u \notin ToSet(woken)
  BY <1>1, <1>4, <1>5, ShortenedLists DEF q
<1>8. Pending' = Pending \cup ToSet(woken) /\ IsInjective(xPendingReadyList')
  <2>1. ToSet(xPendingReadyList) \cap ToSet(woken) = {}
    BY <1>6 DEF Pending
  <2>2. /\ ToSet(xPendingReadyList \o woken) = ToSet(xPendingReadyList) \cup ToSet(woken)
        /\ IsInjective(xPendingReadyList \o woken)
    BY <1>1, <1>3, <2>1, Joined
  <2> QED
    BY <1>4, <2>2 DEF Pending
<1>9. \A u \in Tasks : InEventList(u)' => stateList'[u] # "ready" /\ u \notin Pending'
  BY <1>4, <1>7, <1>8 DEF EventListsSound, Pending
<1>10. \A u \in Pending' : stateList'[u] # "ready"
  BY <1>4, <1>6, <1>8 DEF PendingSound
<1> QED
  BY <1>4, <1>7, <1>8, <1>9, <1>10 DEF EventListsSound, PendingSound, Pending

\* vTaskPlaceOnEventList puts a ready task, which is in no list, into one.
LEMMA PlaceKeepsLists ==
  ASSUME Typed, EventListsSound, PendingSound, NEW t \in Tasks, PlaceOnEventList(t),
         stateList[t] = "ready"
  PROVE  EventListsSound' /\ PendingSound'
<1> DEFINE q == call[t].queue
           f == call[t].fn
           list == xTasksWaiting[<<q, f>>]
           new == InsertByPriority(list, t)
<1>1. q \in Queues /\ f \in Fns \cup {"delay"}
  BY AtLabel DEF PlaceOnEventList
<1>2. /\ UNCHANGED <<xPendingReadyList, uxSchedulerSuspended, call>>
      /\ stateList'[t] # "ready" /\ \A u \in Tasks \ {t} : stateList'[u] = stateList[u]
      /\ f = "delay" => xTasksWaiting' = xTasksWaiting
      /\ f # "delay" => xTasksWaiting' = [xTasksWaiting EXCEPT ![<<q, f>>] = new]
  BY DEF PlaceOnEventList, schedVars, Typed, ListsTyped
<1>3. t \notin Pending /\ ~InEventList(t) /\ Pending \subseteq Tasks
  <2>1. Pending \subseteq Tasks
    BY LenProperties, ElementOfSeq DEF Typed, ListsTyped, Pending, ToSet
  <2> QED
    BY <2>1 DEF EventListsSound, PendingSound
<1>4. PendingSound'
  BY <1>2, <1>3 DEF PendingSound, Pending
<1>5. CASE f = "delay"
  <2>1. \A u \in Tasks : InEventList(u)' = InEventList(u)
    BY <1>2, <1>5 DEF InEventList, Waiting
  <2> QED
    BY <1>2, <1>4, <1>5, <2>1 DEF EventListsSound, Waiting
<1>6. CASE f \in Fns
  <2>1. list \in Seq(Tasks) /\ IsInjective(list) /\ t \notin ToSet(list)
    BY <1>1, <1>3, <1>6 DEF Typed, ListsTyped, EventListsSound, InEventList, Waiting
  <2>2. ToSet(new) = ToSet(list) \cup {t} /\ IsInjective(new)
    BY <2>1, InsertByPriorityProperties
  <2>3. xTasksWaiting' = [xTasksWaiting EXCEPT ![<<q, f>>] = new]
    BY <1>2, <1>6 DEF Fns
  <2> HIDE DEF new
  <2>4. ASSUME NEW r \in Queues, NEW g \in Fns
        PROVE  /\ Waiting(r, g)' = Waiting(r, g) \cup (IF <<r, g>> = <<q, f>> THEN {t} ELSE {})
               /\ IsInjective(xTasksWaiting'[<<r, g>>])
    <3>1. CASE <<r, g>> = <<q, f>>
      <4>1. xTasksWaiting'[<<r, g>>] = new
        BY <2>3, <3>1 DEF Typed, ListsTyped
      <4> QED
        BY <2>2, <3>1, <4>1 DEF Waiting
    <3>2. CASE <<r, g>> # <<q, f>>
      <4>1. xTasksWaiting'[<<r, g>>] = xTasksWaiting[<<r, g>>]
        BY <2>3, <3>2 DEF Typed, ListsTyped
      <4> QED
        BY <3>2, <4>1 DEF Waiting, EventListsSound
    <3> QED
      BY <3>1, <3>2
  <2>5. ASSUME NEW r \in Queues, NEW g \in Fns, NEW u \in Waiting(r, g)'
        PROVE  /\ call'[u].queue = r /\ call'[u].fn = g
               /\ InEventList(u) \/ u = t
    <3>1. CASE u \in Waiting(r, g)
      <4>1. call[u].queue = r /\ call[u].fn = g
        BY <3>1 DEF EventListsSound
      <4>2. InEventList(u)
        BY <3>1 DEF InEventList
      <4> QED
        BY <1>2, <4>1, <4>2
    <3>2. CASE u \notin Waiting(r, g)
      <4>1. u = t /\ r = q /\ g = f
        BY <2>4, <3>2
      <4> QED
        BY <1>2, <4>1
    <3> QED
      BY <3>1, <3>2
  <2>6. ASSUME NEW u \in Tasks, InEventList(u)' PROVE InEventList(u) \/ u = t
    BY <2>5, <2>6 DEF InEventList
  <2>7. \A u \in Tasks : InEventList(u)' => stateList'[u] # "ready" /\ u \notin Pending'
    BY <1>2, <1>3, <2>6 DEF EventListsSound, Pending
  <2>8. IsInjective(xPendingReadyList')
    BY <1>2 DEF EventListsSound
  <2> QED
    BY <1>4, <2>4, <2>5, <2>7, <2>8 DEF EventListsSound, Pending
<1> QED
  BY <1>1, <1>5, <1>6

\* The tick, and xTaskResumeAll, make ready what is pending and what is due.
LEMMA ExpireKeepsLists ==
  ASSUME Typed, EventListsSound, NEW E, Expire(E), UNCHANGED call, xPendingReadyList' = <<>>,
         stateList' = [u \in Tasks |-> IF u \in E \cup Pending THEN "ready" ELSE stateList[u]]
  PROVE  EventListsSound' /\ PendingSound'
<1>1. ASSUME NEW q \in Queues, NEW f \in Fns
      PROVE  /\ Waiting(q, f)' = Waiting(q, f) \ E
             /\ IsInjective(xTasksWaiting'[<<q, f>>])
  <2> DEFINE list == xTasksWaiting[<<q, f>>]
  <2>1. list \in Seq(Tasks) /\ IsInjective(list)
    BY DEF Typed, ListsTyped, EventListsSound
  <2>2. xTasksWaiting'[<<q, f>>] = Without(list, E)
    BY DEF Expire, WithoutTasks
  <2> HIDE DEF list
  <2>3. ToSet(Without(list, E)) = ToSet(list) \ E /\ IsInjective(Without(list, E))
    BY <2>1, WithoutProperties
  <2> QED
    BY <2>2, <2>3 DEF Waiting, list
<1>2. Pending' = {} /\ IsInjective(xPendingReadyList')
  BY DEF Pending, ToSet, IsInjective
<1>3. ASSUME NEW q \in Queues, NEW f \in Fns, NEW t \in Waiting(q, f)'
      PROVE  call'[t].queue = q /\ call'[t].fn = f
  <2>1. t \in Waiting(q, f)
    BY <1>1
  <2> QED
    BY <2>1 DEF EventListsSound
<1>4. ASSUME NEW t \in Tasks, InEventList(t)' PROVE InEventList(t) /\ t \notin E
  <2>1. PICK q \in Queues, f \in Fns : t \in Waiting(q, f)'
    BY <1>4 DEF InEventList
  <2> QED
    BY <1>1, <2>1 DEF InEventList
<1>5. \A t \in Tasks : InEventList(t)' => stateList'[t] # "ready" /\ t \notin Pending'
  BY <1>2, <1>4 DEF EventListsSound, Pending
<1> QED
  BY <1>1, <1>2, <1>3, <1>5 DEF EventListsSound, PendingSound, Pending

\* The steps of the running task and the interrupts keep the lists.
LEMMA ListsStep ==
  ASSUME Typed, Suspension, Suspension', RunnerReady, EventListsSound, PendingSound, [Next]_vars
  PROVE  EventListsSound' /\ PendingSound'
<1> USE DEF At, Goto
<1>0. pxCurrentTCB \in Tasks
  BY DEF Typed, TasksTyped
<1>1. ASSUME UNCHANGED <<xTasksWaiting, xPendingReadyList, stateList, call>>,
             uxSchedulerSuspended' = uxSchedulerSuspended \/ uxSchedulerSuspended' # 0
      PROVE  EventListsSound' /\ PendingSound'
  BY <1>1, ListsFrame DEF PendingSound
<1>2. ASSUME NEW t \in Tasks, NEW c \in Calls, Call(t, c)
      PROVE  EventListsSound' /\ PendingSound'
  <2>1. /\ UNCHANGED <<xTasksWaiting, xPendingReadyList, stateList, uxSchedulerSuspended>>
        /\ pxCurrentTCB = t /\ pc[t] = "app" /\ call' = [call EXCEPT ![t] = c]
    BY <1>2 DEF Call, schedVars
  <2>2. stateList[t] = "ready"
    BY <2>1 DEF RunnerReady
  <2>3. ASSUME NEW q \in Queues, NEW f \in Fns, NEW u \in Waiting(q, f) PROVE call'[u] = call[u]
    <3>1. u \in Tasks /\ u # t
      BY <2>2, InListOfCall
    <3> QED
      BY <2>1, <3>1 DEF Typed, TasksTyped
  <2> QED
    BY <2>1, <2>3, ListsFrame DEF PendingSound
<1>3. ASSUME NEW t \in Tasks,
             TryFails(t) \/ SuspendAll(t) \/ LockQueue(t) \/ Retest(t) \/ YieldWithinAPI(t)
      PROVE  EventListsSound' /\ PendingSound'
  <2>1. /\ UNCHANGED <<xTasksWaiting, xPendingReadyList, stateList, call>>
        /\ \/ uxSchedulerSuspended' = uxSchedulerSuspended
           \/ uxSchedulerSuspended' = uxSchedulerSuspended + 1
    BY <1>3 DEF TryFails, SuspendAll, LockQueue, Retest, YieldWithinAPI, schedVars, callVars
  <2>2. uxSchedulerSuspended \in {0, 1}
    BY DEF Suspension
  <2> QED
    BY <1>1, <2>1, <2>2
<1>4. ASSUME NEW t \in Tasks,
             \/ TestQueue(t) \/ PriorityInherit(t) \/ PriorityDisinheritAfterTimeout(t)
             \/ \E timedOut \in BOOLEAN : CheckForTimeOut(t, timedOut)
      PROVE  EventListsSound' /\ PendingSound'
  BY <1>1, <1>4 DEF TestQueue, PriorityInherit, PriorityDisinheritAfterTimeout, CheckForTimeOut,
                    schedVars, callVars
<1>5. ASSUME NEW t \in Tasks, TrySucceeds(t) PROVE EventListsSound' /\ PendingSound'
  <2> DEFINE q == call[t].queue
             f == call[t].fn
  <2>1. q \in Queues /\ Other(f) \in Fns
    BY <1>5, AtLabel, OtherType DEF TrySucceeds, QueueLabels
  <2>2. WakeOne(q, Other(f)) /\ UNCHANGED <<call, uxSchedulerSuspended>>
    BY <1>5 DEF TrySucceeds, callVars
  <2> HIDE DEF q, f
  <2> QED
    BY <2>1, <2>2, WakeOneKeepsLists
<1>6. ASSUME NEW t \in Tasks, PlaceOnEventList(t) PROVE EventListsSound' /\ PendingSound'
  <2>1. stateList[t] = "ready"
    BY <1>6 DEF PlaceOnEventList, RunnerReady
  <2> QED
    BY <1>6, <2>1, PlaceKeepsLists
<1>7. ASSUME NEW t \in Tasks, UnlockTx(t) \/ UnlockRx(t) PROVE EventListsSound' /\ PendingSound'
  <2>1. call[t].queue \in Queues /\ uxSchedulerSuspended # 0
    BY <1>7, AtLabel DEF UnlockTx, UnlockRx, Suspension, Window
  <2>2. PICK f \in Fns : Unlock(t, f)
    BY <1>7 DEF UnlockTx, UnlockRx, Fns
  <2> QED
    BY <2>1, <2>2, UnlockKeepsLists
<1>8. ASSUME NEW t \in Tasks, ResumeAll(t) PROVE EventListsSound' /\ PendingSound'
  <2> DEFINE moved == [u \in Tasks |-> IF u \in Pending THEN "ready" ELSE stateList[u]]
  <2>1. PICK E \in SUBSET Delayed(moved) :
          /\ stateList' = [u \in Tasks |-> IF u \in E THEN "ready" ELSE moved[u]]
          /\ Expire(E)
    BY <1>8 DEF ResumeAll, Pending
  <2>2. xPendingReadyList' = <<>> /\ UNCHANGED call
    BY <1>8 DEF ResumeAll
  <2>3. stateList' = [u \in Tasks |-> IF u \in E \cup Pending THEN "ready" ELSE stateList[u]]
    BY <2>1
  <2> HIDE DEF moved
  <2> QED
    BY <2>1, <2>2, <2>3, ExpireKeepsLists
<1>9. CASE Tick
  <2>1. PICK E \in SUBSET Delayed(stateList) :
          /\ stateList' = [t \in Tasks |-> IF t \in E THEN "ready" ELSE stateList[t]]
          /\ Expire(E) /\ uxSchedulerSuspended = 0
          /\ UNCHANGED <<xPendingReadyList, call>>
    BY <1>9 DEF Tick, schedVars
  <2>2. xPendingReadyList = <<>>
    BY <2>1 DEF PendingSound
  <2>3. Pending = {}
    BY <2>2 DEF Pending, ToSet
  <2>4. stateList' = [t \in Tasks |-> IF t \in E \cup Pending THEN "ready" ELSE stateList[t]]
    BY <2>1, <2>3
  <2> QED
    BY <2>1, <2>2, <2>4, ExpireKeepsLists
<1>10. CASE PendTick \/ UNCHANGED vars
  BY <1>1, <1>10 DEF PendTick, vars, schedVars, callVars
<1>11. ASSUME NEW q \in Queues, NEW f \in Fns, FromISR(q, f)
       PROVE  EventListsSound' /\ PendingSound'
  <2>1. UNCHANGED <<call, uxSchedulerSuspended>>
    BY <1>11 DEF FromISR, callVars
  <2>2. CASE cLock[<<q, f>>] = queueUNLOCKED
    BY <1>11, <2>1, <2>2, OtherType, WakeOneKeepsLists DEF FromISR
  <2>3. CASE cLock[<<q, f>>] # queueUNLOCKED
    BY <1>1, <1>11, <2>1, <2>3 DEF FromISR
  <2> QED
    BY <2>2, <2>3
<1>12. ASSUME NEW t \in Tasks, TaskStep(t) PROVE EventListsSound' /\ PendingSound'
  BY <1>2, <1>3, <1>4, <1>5, <1>6, <1>7, <1>8, <1>12 DEF TaskStep
<1> QED
  BY <1>9, <1>10, <1>11, <1>12 DEF Next, Interrupt

\* The lists, the pending ones and the running task, always.
THEOREM AlwaysListed == Spec => [](EventListsSound /\ PendingSound /\ RunnerReady)
<1>1. Init => EventListsSound /\ PendingSound /\ RunnerReady
  <2> SUFFICES ASSUME Init PROVE EventListsSound /\ PendingSound /\ RunnerReady
    OBVIOUS
  <2>1. pxCurrentTCB \in Tasks /\ stateList[pxCurrentTCB] = "ready"
    BY DEF Init, HighestReady, Ready
  <2>2. ToSet(<<>>) = {} /\ IsInjective(<<>>)
    BY DEF ToSet, IsInjective
  <2>3. \A q \in Queues, f \in Fns : xTasksWaiting[<<q, f>>] = <<>>
    BY DEF Init
  <2>4. \A q \in Queues, f \in Fns : Waiting(q, f) = {}
    BY <2>2, <2>3 DEF Waiting
  <2>5. xPendingReadyList = <<>>
    BY DEF Init
  <2> QED
    BY <2>1, <2>2, <2>3, <2>4, <2>5
    DEF EventListsSound, InEventList, PendingSound, Pending, RunnerReady
<1>2. /\ Typed /\ Typed' /\ Suspension /\ Suspension'
      /\ EventListsSound /\ PendingSound /\ RunnerReady /\ [Next]_vars
      => EventListsSound' /\ PendingSound' /\ RunnerReady'
  BY ListsStep, RunnerReadyStep
<1> QED
  BY <1>1, <1>2, AlwaysTyped, AlwaysSuspension, PTL DEF Spec

\* EventListsSound: no task is twice in the lists of queues, or in one of them and
\* ready, however posts, time-outs and interrupts meet while the lists are locked.
THEOREM EventListsAreSound == Spec => []EventListsSound
BY AlwaysListed, PTL

-----------------------------------------------------------------------------
(* No step that leaves the priorities alone lets a task be outranked.         *)

\* A switch is to a task that nobody outranks.
LEMMA SwitchToHighest ==
  ASSUME SwitchContext, uxSchedulerSuspended' = 0
  PROVE  NobodyOutranks'
BY DEF SwitchContext, HighestReady, NobodyOutranks

\* Every step with constant priorities: whoever becomes ready and is not switched to
\* does not outrank the running task.
LEMMA NobodyOutranksStep ==
  ASSUME Typed, Typed', Suspension, Suspension', NobodyOutranks, UNCHANGED uxPriority, [Next]_vars
  PROVE  NobodyOutranks'
<1> USE DEF At, Goto
<1>0. /\ pxCurrentTCB \in Tasks /\ uxPriority \in [Tasks -> Nat]
      /\ stateList \in [Tasks -> {"ready", "delayed", "suspended"}]
  BY DEF Typed, TasksTyped, PriorityTyped, ListsTyped
<1>1. ASSUME UNCHANGED <<pxCurrentTCB, stateList>> PROVE NobodyOutranks'
  BY <1>1 DEF NobodyOutranks, Ready
<1>2. ASSUME UNCHANGED pxCurrentTCB,
             \A t \in Tasks : stateList'[t] = "ready" =>
               stateList[t] = "ready" \/ uxPriority[t] <= uxPriority[pxCurrentTCB]
      PROVE  NobodyOutranks'
  BY <1>2 DEF NobodyOutranks, Ready
<1>3. ASSUME NEW t \in Tasks,
             \/ \E c \in Calls : Call(t, c)
             \/ TryFails(t) \/ SuspendAll(t) \/ LockQueue(t) \/ Retest(t)
      PROVE  NobodyOutranks'
  BY <1>1, <1>3 DEF Call, TryFails, SuspendAll, LockQueue, Retest
<1>4. ASSUME NEW t \in Tasks,
             \/ TestQueue(t) \/ PriorityInherit(t) \/ PriorityDisinheritAfterTimeout(t)
             \/ UnlockTx(t) \/ UnlockRx(t)
             \/ \E timedOut \in BOOLEAN : CheckForTimeOut(t, timedOut)
      PROVE  NobodyOutranks'
  BY <1>1, <1>4 DEF TestQueue, PriorityInherit, PriorityDisinheritAfterTimeout, CheckForTimeOut,
                    UnlockTx, UnlockRx, Unlock
<1>5. ASSUME NEW t \in Tasks, PlaceOnEventList(t) PROVE NobodyOutranks'
  <2>1. /\ UNCHANGED pxCurrentTCB
        /\ \A u \in Tasks : stateList'[u] = "ready" => stateList[u] = "ready"
    BY <1>0, <1>5 DEF PlaceOnEventList
  <2> QED
    BY <1>2, <2>1
<1>6. ASSUME NEW q \in Queues, NEW f \in Fns, WakeOne(q, f), NEW needed \in BOOLEAN, Yield(needed),
             xTasksWaiting[<<q, f>>] # <<>> => (Outranks(q, f) <=> needed),
             UNCHANGED uxSchedulerSuspended
      PROVE  NobodyOutranks'
  <2> DEFINE list == xTasksWaiting[<<q, f>>]  woken == Head(list)
  <2>1. CASE uxSchedulerSuspended # 0
    <3>1. UNCHANGED <<pxCurrentTCB, stateList>>
      BY <1>6, <2>1 DEF WakeOne, RemoveFromEventList, Yield, SwitchContext
    <3> QED
      BY <1>1, <3>1
  <2>2. CASE needed /\ uxSchedulerSuspended = 0
    BY <1>6, <2>2, SwitchToHighest DEF Yield
  <2>3. CASE ~needed /\ list = <<>>
    BY <1>1, <1>6, <2>3 DEF Yield, WakeOne
  <2>4. CASE ~needed /\ list # <<>> /\ uxSchedulerSuspended = 0
    <3>1. list \in Seq(Tasks)
      BY DEF Typed, ListsTyped
    <3>2. woken \in Tasks
      BY <2>4, <3>1, HeadTailProperties
    <3>3. ~(uxPriority[woken] > uxPriority[pxCurrentTCB]) /\ UNCHANGED pxCurrentTCB
      BY <1>6, <2>4 DEF Outranks, Yield
    <3>4. stateList' = [stateList EXCEPT ![woken] = "ready"]
      BY <1>6, <2>4 DEF WakeOne, RemoveFromEventList
    <3> HIDE DEF woken
    <3> QED
      BY <1>0, <1>2, <3>2, <3>3, <3>4
  <2> QED
    BY <2>1, <2>2, <2>3, <2>4
<1>7. ASSUME NEW t \in Tasks, TrySucceeds(t) PROVE NobodyOutranks'
  <2> DEFINE q == call[t].queue
             f == call[t].fn
  <2>1. q \in Queues /\ Other(f) \in Fns
    BY <1>7, AtLabel, OtherType DEF TrySucceeds, QueueLabels
  <2>2. /\ WakeOne(q, Other(f)) /\ Yield(YieldAfter(t, q, f))
        /\ UNCHANGED uxSchedulerSuspended
    BY <1>7 DEF TrySucceeds
  <2>3. /\ YieldAfter(t, q, f) \in BOOLEAN
        /\ xTasksWaiting[<<q, Other(f)>>] # <<>> => (Outranks(q, Other(f)) <=> YieldAfter(t, q, f))
    BY DEF YieldAfter, Outranks
  <2> HIDE DEF q, f
  <2> QED
    BY <1>6, <2>1, <2>2, <2>3
<1>8. ASSUME NEW q \in Queues, NEW f \in Fns, FromISR(q, f) PROVE NobodyOutranks'
  <2>1. CASE cLock[<<q, f>>] = queueUNLOCKED
    <3>1. /\ WakeOne(q, Other(f)) /\ Yield(Outranks(q, Other(f)))
          /\ UNCHANGED uxSchedulerSuspended
      BY <1>8, <2>1 DEF FromISR
    <3>2. Outranks(q, Other(f)) \in BOOLEAN /\ Other(f) \in Fns
      BY OtherType DEF Outranks
    <3> QED
      BY <1>6, <3>1, <3>2
  <2>2. CASE cLock[<<q, f>>] # queueUNLOCKED
    BY <1>1, <1>8, <2>2 DEF FromISR
  <2> QED
    BY <2>1, <2>2
<1>9. ASSUME NEW E, ~SwitchAtTick(E), NEW t \in E, t \in Tasks
      PROVE  uxPriority[t] <= uxPriority[pxCurrentTCB]
  BY <1>0, <1>9 DEF SwitchAtTick
<1>10. ASSUME NEW t \in Tasks, ResumeAll(t) PROVE NobodyOutranks'
  <2> DEFINE pended == ToSet(xPendingReadyList)
             moved == [u \in Tasks |-> IF u \in pended THEN "ready" ELSE stateList[u]]
             yield(E) == \/ xYieldPending
                         \/ \E u \in pended : uxPriority[u] >= uxPriority[t]
                         \/ uxPendedTicks > 0 /\ SwitchAtTick(E)
  <2>1. PICK E \in SUBSET Delayed(moved) :
          /\ uxPendedTicks = 0 => E = {}
          /\ stateList' = [u \in Tasks |-> IF u \in E THEN "ready" ELSE moved[u]]
          /\ Yield(yield(E))
    BY <1>10 DEF ResumeAll
  <2>2. uxSchedulerSuspended' = 0 /\ pxCurrentTCB = t /\ uxPendedTicks \in Nat
    BY <1>10 DEF ResumeAll, Suspension, Window, Typed, CountersTyped
  <2>3. CASE yield(E)
    <3> HIDE DEF yield
    <3> QED
      BY <2>1, <2>2, <2>3, SwitchToHighest DEF Yield
  <2>4. CASE ~yield(E)
    <3>1. UNCHANGED pxCurrentTCB
      BY <2>1, <2>4 DEF Yield
    <3>2. ASSUME NEW u \in Tasks, u \in pended PROVE uxPriority[u] <= uxPriority[pxCurrentTCB]
      BY <1>0, <2>2, <2>4, <3>2
    <3>3. ASSUME NEW u \in Tasks, u \in E PROVE uxPriority[u] <= uxPriority[pxCurrentTCB]
      <4>1. ~SwitchAtTick(E)
        BY <2>1, <2>2, <2>4, <3>3
      <4> QED
        BY <1>9, <3>3, <4>1
    <3> HIDE DEF pended, yield
    <3> QED
      BY <1>2, <2>1, <3>1, <3>2, <3>3
  <2> QED
    BY <2>3, <2>4
<1>11. ASSUME NEW t \in Tasks, YieldWithinAPI(t) PROVE NobodyOutranks'
  <2>1. SwitchContext /\ uxSchedulerSuspended' = 0
    BY <1>11 DEF YieldWithinAPI, schedVars, Suspension, Window
  <2> QED
    BY <2>1, SwitchToHighest
<1>12. CASE Tick
  <2>1. PICK E \in SUBSET Delayed(stateList) :
          /\ stateList' = [t \in Tasks |-> IF t \in E THEN "ready" ELSE stateList[t]]
          /\ uxSchedulerSuspended' = 0
          /\ Yield(SwitchAtTick(E) \/ xYieldPending)
    BY <1>12 DEF Tick, schedVars
  <2>2. CASE SwitchAtTick(E) \/ xYieldPending
    BY <2>1, <2>2, SwitchToHighest DEF Yield
  <2>3. CASE ~(SwitchAtTick(E) \/ xYieldPending)
    <3>1. UNCHANGED pxCurrentTCB
      BY <2>1, <2>3 DEF Yield
    <3>2. ASSUME NEW u \in Tasks, u \in E PROVE uxPriority[u] <= uxPriority[pxCurrentTCB]
      BY <1>9, <2>3, <3>2
    <3> QED
      BY <1>2, <2>1, <3>1, <3>2
  <2> QED
    BY <2>2, <2>3
<1>13. CASE PendTick \/ UNCHANGED vars
  BY <1>1, <1>13 DEF PendTick, vars
<1>14. ASSUME NEW t \in Tasks, TaskStep(t) PROVE NobodyOutranks'
  BY <1>3, <1>4, <1>5, <1>7, <1>10, <1>11, <1>14 DEF TaskStep
<1> QED
  BY <1>8, <1>12, <1>13, <1>14 DEF Next, Interrupt

-----------------------------------------------------------------------------
(* No wake-up is lost.  What came while the queue was locked is owed by the   *)
(* lock count, and a task that is about to block has seen that nothing else   *)
(* is there.                                                                  *)

\* The wake-ups that prvUnlockQueue will make up for.
Owed(q, f) == IF cLock[<<q, Other(f)>>] = queueUNLOCKED THEN 0 ELSE cLock[<<q, Other(f)>>]

\* What a waiting task could have is covered by tasks that will look again, or owed.
Covered(q, f) ==
  Waiting(q, f) # {} => Available(q, f) <= Cardinality(Retrying(q, f)) + Owed(q, f)

AllCovered == \A q \in Queues, f \in Fns : Covered(q, f)

\* A task in an event list goes on to look again when it is taken out.
WaitersBlocked ==
  \A q \in Queues, f \in Fns : \A t \in Waiting(q, f) :
    pc[t] \in {"unlockTx", "unlockRx", "resume", "yield", "try"} /\ outcome[t] = "blocked"

OutcomeLabels == {"test", "inherit", "unlockTx", "unlockRx", "resume", "yield"}

\* A queue call that leaves the test of the queue does not end as a delay.
OutcomeFits ==
  \A t \in Tasks : pc[t] \in OutcomeLabels /\ call[t].fn \in Fns => outcome[t] # "delayed"

AboutToBlock(t) == pc[t] = "inherit" \/ (pc[t] = "place" /\ call[t].fn \in Fns)

\* The queue is locked on both sides from its test to the blocking on it, and what it
\* has then came since the test.
TestHolds ==
  LET t == pxCurrentTCB IN
  /\ pc[t] \in {"check", "test"} \/ AboutToBlock(t) =>
       \A f \in Fns : cLock[<<call[t].queue, f>>] # queueUNLOCKED
  /\ AboutToBlock(t) => Available(call[t].queue, call[t].fn) <= Owed(call[t].queue, call[t].fn)

\* Every step keeps what the outcome of a call can be.
LEMMA OutcomeFitsStep ==
  ASSUME Typed, OutcomeFits, [Next]_vars
  PROVE  OutcomeFits'
<1> USE DEF At, Goto
<1>1. ASSUME NEW t \in Tasks, NEW label, pc' = [pc EXCEPT ![t] = label], UNCHANGED <<call, outcome>>,
             label \in OutcomeLabels => pc[t] \in OutcomeLabels
      PROVE  OutcomeFits'
  BY <1>1 DEF OutcomeFits, Typed, TasksTyped
<1>2. ASSUME NEW t \in Tasks, NEW c \in Calls, Call(t, c) PROVE OutcomeFits'
  <2>1. /\ pc'[t] \notin OutcomeLabels /\ outcome' = outcome
        /\ \A u \in Tasks \ {t} : pc'[u] = pc[u] /\ call'[u] = call[u]
    BY <1>2 DEF Call, OutcomeLabels, Typed, TasksTyped
  <2> QED
    BY <2>1 DEF OutcomeFits
<1>3. ASSUME NEW t \in Tasks, TrySucceeds(t) \/ TryFails(t) \/ SuspendAll(t) \/ LockQueue(t)
      PROVE  OutcomeFits'
  <2>1. PICK label \in {"app", "suspend", "place", "lock", "check"} : pc' = [pc EXCEPT ![t] = label]
    BY <1>3 DEF TrySucceeds, TryFails, SuspendAll, LockQueue
  <2>2. UNCHANGED <<call, outcome>>
    BY <1>3 DEF TrySucceeds, TryFails, SuspendAll, LockQueue, callVars
  <2> QED
    BY <1>1, <2>1, <2>2 DEF OutcomeLabels
<1>4. ASSUME NEW t \in Tasks, TestQueue(t) \/ PriorityInherit(t) \/ Retest(t)
                              \/ PriorityDisinheritAfterTimeout(t)
      PROVE  OutcomeFits'
  <2>1. UNCHANGED <<call, outcome>>
    BY <1>4 DEF TestQueue, PriorityInherit, Retest, PriorityDisinheritAfterTimeout, callVars
  <2>2. CASE TestQueue(t)
    <3>1. PICK label \in {"unlockTx", "inherit", "place"} : pc' = [pc EXCEPT ![t] = label]
      BY <2>2 DEF TestQueue
    <3>2. pc[t] \in OutcomeLabels
      BY <2>2 DEF TestQueue, OutcomeLabels
    <3> QED
      BY <1>1, <2>1, <3>1, <3>2
  <2>3. CASE PriorityInherit(t) \/ Retest(t) \/ PriorityDisinheritAfterTimeout(t)
    <3>1. PICK label \in {"place", "try", "disinherit", "app"} : pc' = [pc EXCEPT ![t] = label]
      BY <2>3 DEF PriorityInherit, Retest, PriorityDisinheritAfterTimeout
    <3> QED
      BY <1>1, <2>1, <3>1 DEF OutcomeLabels
  <2> QED
    BY <1>4, <2>2, <2>3
<1>5. ASSUME NEW t \in Tasks, PlaceOnEventList(t) \/ \E timedOut \in BOOLEAN : CheckForTimeOut(t, timedOut)
      PROVE  OutcomeFits'
  <2>1. /\ call' = call
        /\ call[t].fn \in Fns => outcome'[t] # "delayed"
        /\ \A u \in Tasks \ {t} : pc'[u] = pc[u] /\ outcome'[u] = outcome[u]
    BY <1>5 DEF PlaceOnEventList, CheckForTimeOut, Typed, TasksTyped, Fns
  <2> QED
    BY <2>1 DEF OutcomeFits
<1>6. ASSUME NEW t \in Tasks, UnlockTx(t) \/ UnlockRx(t) PROVE OutcomeFits'
  <2>1. PICK label \in {"unlockRx", "resume"} : pc' = [pc EXCEPT ![t] = label]
    BY <1>6 DEF UnlockTx, UnlockRx
  <2>2. UNCHANGED <<call, outcome>> /\ pc[t] \in OutcomeLabels
    BY <1>6 DEF UnlockTx, UnlockRx, Unlock, callVars, OutcomeLabels
  <2> QED
    BY <1>1, <2>1, <2>2
<1>7. ASSUME NEW t \in Tasks, ResumeAll(t) \/ YieldWithinAPI(t) PROVE OutcomeFits'
  <2>1. pc[t] \in {"resume", "yield"} /\ UNCHANGED <<call, outcome>>
    BY <1>7 DEF ResumeAll, YieldWithinAPI, callVars
  <2>2. PICK label \in {"yield", After(t)} : pc' = [pc EXCEPT ![t] = label]
    BY <1>7 DEF ResumeAll, YieldWithinAPI
  <2> QED
    BY <1>1, <2>1, <2>2 DEF OutcomeLabels
<1>8. CASE Interrupt \/ UNCHANGED vars
  <2>1. UNCHANGED <<pc, call, outcome>>
    BY <1>8 DEF Interrupt, Tick, PendTick, FromISR, vars, callVars
  <2> QED
    BY <2>1 DEF OutcomeFits
<1>9. ASSUME NEW t \in Tasks, TaskStep(t) PROVE OutcomeFits'
  BY <1>2, <1>3, <1>4, <1>5, <1>6, <1>7, <1>9 DEF TaskStep
<1> QED
  BY <1>8, <1>9 DEF Next

\* The lengths of the two parts of a list.
LEMMA SubSeqLengths ==
  ASSUME NEW list \in Seq(Tasks), NEW n \in 0..Len(list)
  PROVE  Len(SubSeq(list, 1, n)) = n /\ Len(SubSeq(list, n + 1, Len(list))) = Len(list) - n
<1>1. Len(list) \in Nat /\ n \in Nat /\ n <= Len(list) /\ \A i \in 1..Len(list) : list[i] \in Tasks
  BY LenProperties, ElementOfSeq
<1>2. Len(SubSeq(list, 1, n)) = IF 1 <= n THEN n - 1 + 1 ELSE 0
  BY <1>1, SubSeqProperties
<1>3. Len(SubSeq(list, n + 1, Len(list))) = IF n + 1 <= Len(list) THEN Len(list) - (n + 1) + 1 ELSE 0
  <2>1. n + 1 \in Int /\ Len(list) \in Int /\ \A i \in n + 1..Len(list) : list[i] \in Tasks
    BY <1>1
  <2> QED
    BY <2>1, SubSeqProperties
<1> QED
  BY <1>1, <1>2, <1>3

\* A list without repeats has as many elements as its length.
LEMMA ListCardinality ==
  ASSUME NEW list \in Seq(Tasks), IsInjective(list)
  PROVE  IsFiniteSet(ToSet(list)) /\ Cardinality(ToSet(list)) = Len(list)
<1>1. Len(list) \in Nat /\ DOMAIN list = 1..Len(list) /\ list \in [1..Len(list) -> Tasks]
  BY LenProperties
<1>2. list \in [1..Len(list) -> ToSet(list)]
  BY <1>1 DEF ToSet
<1>3. list \in Surjection(1..Len(list), ToSet(list)) /\ list \in Injection(1..Len(list), ToSet(list))
  BY <1>1, <1>2 DEF Surjection, Injection, ToSet, IsInjective
<1>4. IsFiniteSet(1..Len(list)) /\ Cardinality(1..Len(list)) = Len(list)
  BY <1>1, FS_Interval
<1> QED
  BY <1>3, <1>4, FS_Surjection

\* A list of tasks is empty when nobody is in it.
LEMMA EmptyList ==
  ASSUME NEW list \in Seq(Tasks)
  PROVE  list = <<>> <=> ToSet(list) = {}
<1>1. Len(list) \in Nat /\ DOMAIN list = 1..Len(list) /\ (list # <<>> => Len(list) # 0)
  BY LenProperties, EmptySeq
<1>2. CASE list # <<>>
  <2>1. 1 \in DOMAIN list
    BY <1>1, <1>2
  <2> QED
    BY <1>2, <2>1 DEF ToSet
<1>3. CASE list = <<>>
  BY <1>3 DEF ToSet
<1> QED
  BY <1>2, <1>3

\* Who waits is a task of that call, and when it is taken out it will look again.
LEMMA TakenOutRetries ==
  ASSUME Typed, EventListsSound, WaitersBlocked, NEW q \in Queues, NEW f \in Fns,
         NEW t \in Waiting(q, f), t \notin Waiting(q, f)',
         pc'[t] \in {"unlockTx", "unlockRx", "resume", "yield", "try"},
         call'[t] = call[t], outcome'[t] = outcome[t]
  PROVE  t \in Retrying(q, f)' \ Retrying(q, f)
<1>1. t \in Tasks /\ call[t].queue = q /\ call[t].fn = f
  BY InListOfCall
<1>2. outcome[t] = "blocked"
  BY DEF WaitersBlocked
<1> QED
  BY <1>1, <1>2 DEF Retrying

\* What xTaskRemoveFromEventList does to the lists as sets.
LEMMA WakeOneShrinks ==
  ASSUME Typed, EventListsSound, NEW q \in Queues, NEW f \in Fns, WakeOne(q, f)
  PROVE  /\ \A r \in Queues, g \in Fns : Waiting(r, g)' \subseteq Waiting(r, g)
         /\ \A r \in Queues, g \in Fns : r # q \/ g # f => Waiting(r, g)' = Waiting(r, g)
         /\ Waiting(q, f) # {} => \E t \in Waiting(q, f) : t \notin Waiting(q, f)'
<1> DEFINE list == xTasksWaiting[<<q, f>>]
<1>1. list \in Seq(Tasks) /\ IsInjective(list)
  BY DEF Typed, ListsTyped, EventListsSound
<1>2. CASE list = <<>>
  <2>1. Waiting(q, f) = {} /\ \A r \in Queues, g \in Fns : Waiting(r, g)' = Waiting(r, g)
    BY <1>1, <1>2, EmptyList DEF WakeOne, Waiting
  <2> QED
    BY <2>1
<1>3. CASE list # <<>>
  <2>1. /\ ToSet(list) = ToSet(Tail(list)) \cup {Head(list)}
        /\ Head(list) \notin ToSet(Tail(list))
    BY <1>1, <1>3, HeadAndTail
  <2>2. xTasksWaiting' = [xTasksWaiting EXCEPT ![<<q, f>>] = Tail(list)]
    BY <1>3 DEF WakeOne, RemoveFromEventList
  <2>3. Waiting(q, f)' = ToSet(Tail(list)) /\ Waiting(q, f) = ToSet(list)
    BY <2>2 DEF Waiting, Typed, ListsTyped
  <2>4. \A r \in Queues, g \in Fns : r # q \/ g # f => Waiting(r, g)' = Waiting(r, g)
    BY <2>2 DEF Waiting, Typed, ListsTyped
  <2> HIDE DEF list
  <2>5. Waiting(q, f)' \subseteq Waiting(q, f) /\ \E t \in Waiting(q, f) : t \notin Waiting(q, f)'
    BY <2>1, <2>3
  <2>6. ASSUME NEW r \in Queues, NEW g \in Fns PROVE Waiting(r, g)' \subseteq Waiting(r, g)
    <3>1. CASE r = q /\ g = f
      BY <2>5, <3>1
    <3>2. CASE r # q \/ g # f
      BY <2>4, <3>2
    <3> QED
      BY <3>1, <3>2
  <2> QED
    BY <2>4, <2>5, <2>6
<1> QED
  BY <1>2, <1>3

\* The tick takes out whom it wakes.
LEMMA ExpireShrinks ==
  ASSUME Typed, NEW E, Expire(E)
  PROVE  \A q \in Queues, f \in Fns : Waiting(q, f)' \subseteq Waiting(q, f)
<1>1. ASSUME NEW q \in Queues, NEW f \in Fns PROVE Waiting(q, f)' \subseteq Waiting(q, f)
  <2> DEFINE list == xTasksWaiting[<<q, f>>]
  <2>1. list \in Seq(Tasks) /\ xTasksWaiting'[<<q, f>>] = Without(list, E)
    BY DEF Typed, ListsTyped, Expire, WithoutTasks
  <2> HIDE DEF list
  <2>2. ToSet(Without(list, E)) \subseteq ToSet(list)
    BY <2>1, WithoutProperties
  <2> QED
    BY <2>1, <2>2 DEF Waiting, list
<1> QED
  BY <1>1

\* What a critical section of prvUnlockQueue does to the lists as sets: when the list is
\* not empty after it, as many tasks left it as were owed.
LEMMA UnlockShrinks ==
  ASSUME Typed, EventListsSound, NEW t \in Tasks, NEW q \in Queues, q = call[t].queue,
         NEW f \in Fns, NEW g \in Fns, g = Other(f), Unlock(t, f)
  PROVE  /\ \A r \in Queues, h \in Fns : Waiting(r, h)' \subseteq Waiting(r, h)
         /\ \A r \in Queues, h \in Fns : r # q \/ h # g => Waiting(r, h)' = Waiting(r, h)
         /\ Waiting(q, g)' # {} => Cardinality(Waiting(q, g) \ Waiting(q, g)') = Owed(q, g)
<1> DEFINE list == xTasksWaiting[<<q, g>>]
           n == WokenAtUnlock(q, f)
           woken == SubSeq(list, 1, n)
           rest == SubSeq(list, n + 1, Len(list))
<1>1. list \in Seq(Tasks) /\ IsInjective(list) /\ Len(list) \in Nat
  BY LenProperties DEF Typed, ListsTyped, EventListsSound
<1>2. Other(g) = f
  BY DEF Other, Fns
<1>3. /\ cLock[<<q, f>>] \in Nat \cup {queueUNLOCKED}
      /\ Owed(q, g) \in Nat
      /\ Owed(q, g) = IF cLock[<<q, f>>] > queueLOCKED_UNMODIFIED THEN cLock[<<q, f>>] ELSE 0
  BY <1>2 DEF Owed, Typed, QueuesTyped, queueUNLOCKED, queueLOCKED_UNMODIFIED
<1>4. n \in 0..Len(list) /\ (n < Len(list) => n = Owed(q, g))
  BY <1>1, <1>3 DEF WokenAtUnlock
<1>5. /\ woken \in Seq(Tasks) /\ rest \in Seq(Tasks)
      /\ ToSet(list) = ToSet(woken) \cup ToSet(rest) /\ ToSet(woken) \cap ToSet(rest) = {}
      /\ IsInjective(woken)
  BY <1>1, <1>4, Cut
<1>6. Len(woken) = n /\ Len(rest) = Len(list) - n
  BY <1>1, <1>4, SubSeqLengths
<1>7. xTasksWaiting' = [xTasksWaiting EXCEPT ![<<q, g>>] = rest]
  BY DEF Unlock
<1> HIDE DEF list, n, woken, rest
<1>8. Waiting(q, g)' = ToSet(rest) /\ Waiting(q, g) = ToSet(list)
  BY <1>7 DEF Waiting, list, Typed, ListsTyped
<1>9. \A r \in Queues, h \in Fns : r # q \/ h # g => Waiting(r, h)' = Waiting(r, h)
  BY <1>7 DEF Waiting, Typed, ListsTyped
<1>10. ASSUME NEW r \in Queues, NEW h \in Fns PROVE Waiting(r, h)' \subseteq Waiting(r, h)
  <2>1. CASE r = q /\ h = g
    BY <1>5, <1>8, <2>1
  <2>2. CASE r # q \/ h # g
    BY <1>9, <2>2
  <2> QED
    BY <2>1, <2>2
<1>11. ASSUME Waiting(q, g)' # {} PROVE Cardinality(Waiting(q, g) \ Waiting(q, g)') = Owed(q, g)
  <2>1. rest # <<>>
    BY <1>5, <1>8, <1>11, EmptyList
  <2>2. n = Owed(q, g)
    BY <1>1, <1>4, <1>5, <1>6, <2>1, EmptySeq
  <2>3. Waiting(q, g) \ Waiting(q, g)' = ToSet(woken)
    BY <1>5, <1>8
  <2>4. Cardinality(ToSet(woken)) = n
    BY <1>5, <1>6, ListCardinality
  <2> QED
    BY <2>2, <2>3, <2>4
<1> QED
  BY <1>9, <1>10, <1>11

\* A waiter is taken out by other tasks and interrupts; the running task itself only goes
\* on to the end of its call.
LEMMA WaitersBlockedStep ==
  ASSUME Typed, Typed', Suspension, RunnerReady, EventListsSound, WaitersBlocked, [Next]_vars
  PROVE  WaitersBlocked'
<1> USE DEF At, Goto
<1> DEFINE Labelled == {"unlockTx", "unlockRx", "resume", "yield", "try"}
           Shrinks == \A q \in Queues, f \in Fns : Waiting(q, f)' \subseteq Waiting(q, f)
<1>0. \A q \in Queues, f \in Fns : \A t \in Waiting(q, f) : t \in Tasks
  BY InListOfCall
<1>1. ASSUME Shrinks, UNCHANGED <<pc, outcome>> PROVE WaitersBlocked'
  BY <1>1 DEF WaitersBlocked
<1>2. ASSUME NEW t \in Tasks, Shrinks,
             \A u \in Tasks \ {t} : pc'[u] = pc[u] /\ outcome'[u] = outcome[u],
             \A q \in Queues, f \in Fns : t \in Waiting(q, f)' =>
               pc'[t] \in Labelled /\ outcome'[t] = "blocked"
      PROVE  WaitersBlocked'
  BY <1>0, <1>2 DEF WaitersBlocked
<1>3. ASSUME NEW t \in Tasks, UNCHANGED xTasksWaiting, pxCurrentTCB = t,
             pc[t] \notin {"unlockTx", "unlockRx", "resume", "yield"},
             \A u \in Tasks \ {t} : pc'[u] = pc[u] /\ outcome'[u] = outcome[u]
      PROVE  WaitersBlocked'
  <2>1. stateList[t] = "ready"
    BY <1>3 DEF RunnerReady
  <2>2. \A q \in Queues, f \in Fns : Waiting(q, f)' = Waiting(q, f) /\ t \notin Waiting(q, f)
    BY <1>3, <2>1, InListOfCall DEF Waiting
  <2> QED
    BY <1>2, <1>3, <2>2
<1>4. ASSUME NEW t \in Tasks,
             \/ \E c \in Calls : Call(t, c)
             \/ TryFails(t) \/ SuspendAll(t) \/ LockQueue(t) \/ Retest(t)
      PROVE  WaitersBlocked'
  <2>1. /\ UNCHANGED <<xTasksWaiting, outcome>> /\ pxCurrentTCB = t
        /\ pc[t] \notin {"unlockTx", "unlockRx", "resume", "yield"}
        /\ \A u \in Tasks \ {t} : pc'[u] = pc[u]
    BY <1>4 DEF Call, TryFails, SuspendAll, LockQueue, Retest, callVars, Typed, TasksTyped
  <2> QED
    BY <1>3, <2>1
<1>5. ASSUME NEW t \in Tasks,
             \/ TestQueue(t) \/ PriorityInherit(t) \/ PriorityDisinheritAfterTimeout(t)
             \/ \E timedOut \in BOOLEAN : CheckForTimeOut(t, timedOut)
      PROVE  WaitersBlocked'
  <2>1. /\ UNCHANGED xTasksWaiting /\ pxCurrentTCB = t
        /\ pc[t] \notin {"unlockTx", "unlockRx", "resume", "yield"}
        /\ \A u \in Tasks \ {t} : pc'[u] = pc[u] /\ outcome'[u] = outcome[u]
    BY <1>5 DEF TestQueue, PriorityInherit, PriorityDisinheritAfterTimeout, CheckForTimeOut,
                callVars, Typed, TasksTyped
  <2> QED
    BY <1>3, <2>1
<1>6. ASSUME NEW t \in Tasks, TrySucceeds(t) PROVE WaitersBlocked'
  <2> DEFINE r == call[t].queue
             g == call[t].fn
  <2>1. r \in Queues /\ Other(g) \in Fns
    BY <1>6, AtLabel, OtherType DEF TrySucceeds, QueueLabels
  <2>2. /\ WakeOne(r, Other(g)) /\ pxCurrentTCB = t /\ pc[t] = "try" /\ outcome' = outcome
        /\ pc' = [pc EXCEPT ![t] = "app"]
    BY <1>6 DEF TrySucceeds, callVars
  <2> HIDE DEF r, g
  <2>3. Shrinks
    BY <2>1, <2>2, WakeOneShrinks
  <2>4. stateList[t] = "ready"
    BY <2>2 DEF RunnerReady
  <2>5. \A q \in Queues, f \in Fns : t \notin Waiting(q, f)'
    BY <2>3, <2>4, InListOfCall
  <2>6. \A u \in Tasks \ {t} : pc'[u] = pc[u] /\ outcome'[u] = outcome[u]
    BY <2>2 DEF Typed, TasksTyped
  <2> HIDE DEF Shrinks
  <2> QED
    BY <1>2, <2>3, <2>5, <2>6
<1>7. ASSUME NEW t \in Tasks, PlaceOnEventList(t) PROVE WaitersBlocked'
  <2> DEFINE r == call[t].queue
             g == call[t].fn
             list == xTasksWaiting[<<r, g>>]
  <2>1. /\ r \in Queues /\ g \in Fns \cup {"delay"} /\ pxCurrentTCB = t /\ pc[t] = "place"
        /\ \A u \in Tasks \ {t} : pc'[u] = pc[u] /\ outcome'[u] = outcome[u]
    BY <1>7, AtLabel DEF PlaceOnEventList, Typed, TasksTyped
  <2>2. CASE g = "delay"
    <3>1. UNCHANGED xTasksWaiting
      BY <1>7, <2>2 DEF PlaceOnEventList
    <3> QED
      BY <1>3, <2>1, <3>1
  <2>3. CASE g \in Fns
    <3>1. pc'[t] = "unlockTx" /\ outcome'[t] = "blocked"
      BY <1>7, <2>3 DEF PlaceOnEventList, Fns, Typed, TasksTyped
    <3>2. xTasksWaiting' = [xTasksWaiting EXCEPT ![<<r, g>>] = InsertByPriority(list, t)]
      BY <1>7, <2>3 DEF PlaceOnEventList, Fns
    <3>3. list \in Seq(Tasks)
      BY <2>1, <2>3 DEF Typed, ListsTyped
    <3>4. ToSet(InsertByPriority(list, t)) = ToSet(list) \cup {t}
      BY <3>3, InsertByPriorityProperties
    <3>5. ASSUME NEW q \in Queues, NEW f \in Fns PROVE Waiting(q, f)' \subseteq Waiting(q, f) \cup {t}
      <4>1. CASE q = r /\ f = g
        BY <2>1, <2>3, <3>2, <3>4, <4>1 DEF Waiting, Typed, ListsTyped
      <4>2. CASE q # r \/ f # g
        BY <3>2, <4>2 DEF Waiting, Typed, ListsTyped
      <4> QED
        BY <4>1, <4>2
    <3> QED
      BY <1>0, <2>1, <3>1, <3>5 DEF WaitersBlocked
  <2> QED
    BY <2>1, <2>2, <2>3
<1>8. ASSUME NEW t \in Tasks, UnlockTx(t) \/ UnlockRx(t) PROVE WaitersBlocked'
  <2>1. PICK f \in Fns : Unlock(t, f)
    BY <1>8 DEF UnlockTx, UnlockRx, Fns
  <2>2. call[t].queue \in Queues /\ Other(f) \in Fns
    BY <1>8, AtLabel, OtherType DEF UnlockTx, UnlockRx
  <2>3. Shrinks
    BY <2>1, <2>2, UnlockShrinks
  <2>4. /\ pc[t] \in {"unlockTx", "unlockRx"} /\ pc'[t] \in {"unlockRx", "resume"}
        /\ outcome' = outcome /\ \A u \in Tasks \ {t} : pc'[u] = pc[u]
    BY <1>8, <2>1 DEF UnlockTx, UnlockRx, Unlock, callVars, Typed, TasksTyped
  <2> HIDE DEF Shrinks
  <2>5. \A q \in Queues, f2 \in Fns : t \in Waiting(q, f2)' => outcome'[t] = "blocked"
    BY <2>3, <2>4 DEF Shrinks, WaitersBlocked
  <2> QED
    BY <1>2, <2>3, <2>4, <2>5
<1>9. ASSUME NEW t \in Tasks, ResumeAll(t) \/ YieldWithinAPI(t) PROVE WaitersBlocked'
  <2>1. /\ pc[t] \in {"resume", "yield"} /\ outcome' = outcome
        /\ pc'[t] \in {"yield", After(t)} /\ \A u \in Tasks \ {t} : pc'[u] = pc[u]
    BY <1>9 DEF ResumeAll, YieldWithinAPI, callVars, Typed, TasksTyped
  <2>2. Shrinks
    <3>1. CASE ResumeAll(t)
      BY <3>1, ExpireShrinks DEF ResumeAll
    <3>2. CASE YieldWithinAPI(t)
      BY <3>2 DEF YieldWithinAPI, Waiting
    <3> QED
      BY <1>9, <3>1, <3>2
  <2> HIDE DEF Shrinks
  <2>3. \A q \in Queues, f \in Fns : t \in Waiting(q, f)' => outcome[t] = "blocked"
    BY <2>2 DEF Shrinks, WaitersBlocked
  <2>4. outcome[t] = "blocked" => After(t) = "try"
    BY DEF After
  <2> QED
    BY <1>2, <2>1, <2>2, <2>3, <2>4
<1>10. CASE Interrupt \/ UNCHANGED vars
  <2>1. UNCHANGED <<pc, outcome>>
    BY <1>10 DEF Interrupt, Tick, PendTick, FromISR, vars, callVars
  <2>2. Shrinks
    <3>1. CASE Tick
      BY <3>1, ExpireShrinks DEF Tick
    <3>2. CASE PendTick \/ UNCHANGED vars
      BY <3>2 DEF PendTick, vars, Waiting
    <3>3. ASSUME NEW r \in Queues, NEW g \in Fns, FromISR(r, g) PROVE Shrinks
      <4>1. CASE cLock[<<r, g>>] = queueUNLOCKED
        BY <3>3, <4>1, OtherType, WakeOneShrinks DEF FromISR
      <4>2. CASE cLock[<<r, g>>] # queueUNLOCKED
        BY <3>3, <4>2 DEF FromISR, Waiting
      <4> QED
        BY <4>1, <4>2
    <3> QED
      BY <1>10, <3>1, <3>2, <3>3 DEF Interrupt
  <2> QED
    BY <1>1, <2>1, <2>2
<1>11. ASSUME NEW t \in Tasks, TaskStep(t) PROVE WaitersBlocked'
  BY <1>4, <1>5, <1>6, <1>7, <1>8, <1>9, <1>11 DEF TaskStep
<1> QED
  BY <1>10, <1>11 DEF Next

\* What there is and what is owed are counted by natural numbers.
LEMMA CountTypes ==
  ASSUME Typed, NEW q \in Queues, NEW f \in Fns
  PROVE  Available(q, f) \in Nat /\ Owed(q, f) \in Nat
<1>1. uxLength[q] \in Nat /\ uxMessagesWaiting[q] \in Nat /\ uxMessagesWaiting[q] <= uxLength[q]
  BY KernelAssumption DEF Typed, QueuesTyped
<1>2. cLock[<<q, Other(f)>>] \in Nat \cup {queueUNLOCKED}
  BY OtherType DEF Typed, QueuesTyped
<1> QED
  BY <1>1, <1>2 DEF Available, Owed

\* The same after a step.
LEMMA CountTypesAfter ==
  ASSUME Typed', NEW q \in Queues, NEW f \in Fns
  PROVE  Available(q, f)' \in Nat /\ Owed(q, f)' \in Nat
<1>1. uxLength[q] \in Nat /\ uxMessagesWaiting'[q] \in Nat /\ uxMessagesWaiting'[q] <= uxLength[q]
  BY KernelAssumption DEF Typed, QueuesTyped
<1>2. cLock'[<<q, Other(f)>>] \in Nat \cup {queueUNLOCKED}
  BY OtherType DEF Typed, QueuesTyped
<1> QED
  BY <1>1, <1>2 DEF Available, Owed

\* When f is done on q there is one less for it, and one more for the other side.
LEMMA TransferMoves ==
  ASSUME Typed, NEW q \in Queues, NEW f \in Fns, Transfer(q, f)
  PROVE  /\ Available(q, f)' = Available(q, f) - 1
         /\ Available(q, Other(f))' = Available(q, Other(f)) + 1
         /\ \A r \in Queues \ {q}, g \in Fns : Available(r, g)' = Available(r, g)
<1>1. uxLength[q] \in Nat /\ uxMessagesWaiting[q] \in Nat
  BY KernelAssumption DEF Typed, QueuesTyped
<1>2. uxMessagesWaiting'[q] = IF f = "send" THEN uxMessagesWaiting[q] + 1 ELSE uxMessagesWaiting[q] - 1
  BY DEF Transfer, Typed, QueuesTyped
<1>3. \A r \in Queues \ {q} : uxMessagesWaiting'[r] = uxMessagesWaiting[r]
  BY DEF Transfer, Typed, QueuesTyped
<1> QED
  BY <1>1, <1>2, <1>3 DEF Available, Other, Fns

\* An operation that is not possible finds nothing.
LEMMA NothingThere ==
  ASSUME Typed, NEW q \in Queues, NEW f \in Fns, ~Possible(q, f)
  PROVE  Available(q, f) <= 0
<1>1. uxLength[q] \in Nat /\ uxMessagesWaiting[q] \in Nat
  BY KernelAssumption DEF Typed, QueuesTyped
<1> QED
  BY <1>1 DEF Possible, Available

\* Every step keeps what the running task knows of the queue it tested: what an interrupt
\* adds to the locked queue it counts.
LEMMA TestHoldsStep ==
  ASSUME Typed, Typed', Suspension, Suspension', TestHolds, [Next]_vars
  PROVE  TestHolds'
<1> USE DEF At, Goto
<1>1. CASE pc'[pxCurrentTCB'] \notin {"check", "test", "inherit", "place"}
  BY <1>1 DEF TestHolds, AboutToBlock
<1>2. CASE uxSchedulerSuspended' = 0
  BY <1>1, <1>2 DEF Suspension, Window
<1>3. ASSUME NEW t \in Tasks,
             \/ \E c \in Calls : Call(t, c)
             \/ TrySucceeds(t) \/ TryFails(t) \/ Retest(t) \/ PriorityDisinheritAfterTimeout(t)
             \/ ResumeAll(t) \/ YieldWithinAPI(t)
      PROVE  TestHolds'
  <2>1. CASE ResumeAll(t)
    <3>1. uxSchedulerSuspended = 1 /\ uxSchedulerSuspended' = uxSchedulerSuspended - 1
      BY <2>1 DEF ResumeAll, Suspension, Window
    <3> QED
      BY <1>2, <3>1
  <2>2. CASE ~ResumeAll(t)
    <3>1. pxCurrentTCB = t /\ pc[t] \notin Window /\ uxSchedulerSuspended' = uxSchedulerSuspended
      BY <1>3, <2>2 DEF Call, TrySucceeds, TryFails, Retest, PriorityDisinheritAfterTimeout,
                        YieldWithinAPI, schedVars, Window
    <3> QED
      BY <1>2, <3>1 DEF Suspension
  <2> QED
    BY <2>1, <2>2
<1>4. ASSUME NEW t \in Tasks, UnlockTx(t) \/ UnlockRx(t) \/ PlaceOnEventList(t) PROVE TestHolds'
  <2>1. pxCurrentTCB' = t /\ pc'[t] \in {"unlockTx", "unlockRx", "resume"}
    BY <1>4 DEF UnlockTx, UnlockRx, Unlock, PlaceOnEventList, Typed, TasksTyped
  <2> QED
    BY <1>1, <2>1
<1>5. ASSUME NEW t \in Tasks, SuspendAll(t) PROVE TestHolds'
  <2>1. /\ pxCurrentTCB' = t /\ UNCHANGED call
        /\ pc'[t] = IF call[t].fn = "delay" THEN "place" ELSE "lock"
    BY <1>5 DEF SuspendAll, callVars, Typed, TasksTyped
  <2> QED
    BY <2>1 DEF TestHolds, AboutToBlock, Fns
<1>6. ASSUME NEW t \in Tasks, LockQueue(t) PROVE TestHolds'
  <2>1. /\ pxCurrentTCB' = t /\ UNCHANGED call /\ pc'[t] = "check"
        /\ call[t].queue \in Queues
    BY <1>6, AtLabel DEF LockQueue, callVars, Typed, TasksTyped
  <2>2. \A f \in Fns : cLock'[<<call[t].queue, f>>] # queueUNLOCKED
    BY <1>6, <2>1 DEF LockQueue, queueUNLOCKED, queueLOCKED_UNMODIFIED
  <2> QED
    BY <2>1, <2>2 DEF TestHolds, AboutToBlock
<1>7. ASSUME NEW t \in Tasks, NEW timedOut \in BOOLEAN, CheckForTimeOut(t, timedOut) PROVE TestHolds'
  <2>1. /\ pxCurrentTCB = t /\ pxCurrentTCB' = t /\ pc[t] = "check" /\ pc'[t] \in {"unlockTx", "test"}
        /\ UNCHANGED <<call, cLock>>
    BY <1>7 DEF CheckForTimeOut, Typed, TasksTyped
  <2> QED
    BY <2>1 DEF TestHolds, AboutToBlock
<1>8. ASSUME NEW t \in Tasks, TestQueue(t) PROVE TestHolds'
  <2>1. /\ pxCurrentTCB = t /\ pxCurrentTCB' = t /\ pc[t] = "test"
        /\ UNCHANGED <<call, cLock, uxMessagesWaiting>>
        /\ Possible(call[t].queue, call[t].fn) => pc'[t] = "unlockTx"
    BY <1>8 DEF TestQueue, callVars, Typed, TasksTyped
  <2>2. PICK q \in Queues, f \in Fns : q = call[t].queue /\ f = call[t].fn
    BY <1>8, AtLabel DEF TestQueue, QueueLabels
  <2>3. CASE Possible(q, f)
    BY <1>1, <2>1, <2>2, <2>3
  <2>4. CASE ~Possible(q, f)
    <3>1. Available(q, f) <= 0 /\ Available(q, f) \in Nat /\ Owed(q, f) \in Nat
      BY <2>4, NothingThere, CountTypes
    <3>2. Available(q, f)' <= Owed(q, f)'
      BY <2>1, <3>1 DEF Available, Owed
    <3>3. \A g \in Fns : cLock'[<<q, g>>] # queueUNLOCKED
      BY <2>1, <2>2 DEF TestHolds
    <3> QED
      BY <2>1, <2>2, <3>2, <3>3 DEF TestHolds
  <2> QED
    BY <2>3, <2>4
<1>9. ASSUME NEW t \in Tasks, PriorityInherit(t) PROVE TestHolds'
  <2>1. /\ pxCurrentTCB = t /\ pxCurrentTCB' = t /\ pc[t] = "inherit"
        /\ UNCHANGED <<call, cLock, uxMessagesWaiting>>
    BY <1>9 DEF PriorityInherit
  <2> QED
    BY <2>1 DEF TestHolds, AboutToBlock, Available, Owed
<1>10. CASE Tick
  <2>1. uxSchedulerSuspended' = 0
    BY <1>10 DEF Tick, schedVars
  <2> QED
    BY <1>2, <2>1
<1>11. CASE PendTick \/ UNCHANGED vars
  BY <1>11 DEF PendTick, vars, callVars, TestHolds, AboutToBlock, Available, Owed
<1>12. ASSUME NEW q \in Queues, NEW f \in Fns, FromISR(q, f),
              NEW r \in Queues, NEW g \in Fns, Available(r, g) <= Owed(r, g),
              \A h \in Fns : cLock[<<r, h>>] # queueUNLOCKED
       PROVE  Available(r, g)' <= Owed(r, g)'
  <2>1. Transfer(q, f) /\ Available(r, g) \in Nat /\ Owed(r, g) \in Nat
    BY <1>12, CountTypes DEF FromISR
  <2>2. CASE r # q
    <3>1. Available(r, g)' = Available(r, g)
      BY <2>1, <2>2, TransferMoves
    <3>2. Owed(r, g)' = Owed(r, g)
      BY <1>12, <2>2, OtherType DEF FromISR, Owed, Typed, QueuesTyped
    <3> QED
      BY <1>12, <2>1, <3>1, <3>2
  <2>3. CASE r = q
    <3>1. cLock' = [cLock EXCEPT ![<<q, f>>] = @ + 1]
      BY <1>12, <2>3 DEF FromISR
    <3>2. CASE g = f
      <4>1. Available(r, g)' = Available(r, g) - 1
        BY <2>1, <2>3, <3>2, TransferMoves
      <4>2. Owed(r, g)' = Owed(r, g)
        BY <2>3, <3>1, <3>2, OtherType DEF Owed, Typed, QueuesTyped, Other, Fns
      <4> QED
        BY <1>12, <2>1, <4>1, <4>2
    <3>3. CASE g = Other(f)
      <4>1. Available(r, g)' = Available(r, g) + 1
        BY <2>1, <2>3, <3>3, TransferMoves
      <4>2. Other(g) = f
        BY <3>3 DEF Other, Fns
      <4>3. cLock[<<q, f>>] \in Nat /\ cLock'[<<q, f>>] = cLock[<<q, f>>] + 1
        BY <1>12, <2>3, <3>1 DEF Typed, QueuesTyped
      <4>4. Owed(r, g)' = Owed(r, g) + 1
        BY <2>3, <4>2, <4>3 DEF Owed, queueUNLOCKED
      <4> QED
        BY <1>12, <2>1, <4>1, <4>4
    <3> QED
      BY <3>2, <3>3 DEF Other, Fns
  <2> QED
    BY <2>2, <2>3
<1>13. ASSUME NEW q \in Queues, NEW f \in Fns, FromISR(q, f) PROVE TestHolds'
  <2>1. UNCHANGED <<pc, call, uxSchedulerSuspended>>
    BY <1>13 DEF FromISR, callVars
  <2>2. PICK t \in Tasks : t = pxCurrentTCB
    BY DEF Typed, TasksTyped
  <2>3. CASE uxSchedulerSuspended = 0
    BY <1>2, <2>1, <2>3
  <2>4. CASE uxSchedulerSuspended # 0 /\ pc[t] \notin {"check", "test"} /\ ~AboutToBlock(t)
    <3>1. pxCurrentTCB' = t
      BY <1>13, <2>1, <2>2, <2>4, YieldKeeps DEF FromISR
    <3> QED
      BY <2>1, <2>4, <3>1 DEF TestHolds, AboutToBlock
  <2>5. CASE uxSchedulerSuspended # 0 /\ (pc[t] \in {"check", "test"} \/ AboutToBlock(t))
    <3>1. pxCurrentTCB' = t
      BY <1>13, <2>1, <2>2, <2>5, YieldKeeps DEF FromISR
    <3>2. PICK r \in Queues : r = call[t].queue
      <4>1. PICK label \in {"check", "test", "inherit", "place"} : pc[t] = label
        BY <2>5 DEF AboutToBlock
      <4> QED
        BY <2>2, <4>1, AtLabel
    <3>3. \A h \in Fns : cLock[<<r, h>>] # queueUNLOCKED
      BY <2>2, <2>5, <3>2 DEF TestHolds
    <3>4. \A h \in Fns : cLock'[<<r, h>>] # queueUNLOCKED
      BY <1>13, <3>3 DEF FromISR, Typed, QueuesTyped, queueUNLOCKED
    <3>5. CASE ~AboutToBlock(t)
      BY <2>1, <3>1, <3>2, <3>4, <3>5 DEF TestHolds, AboutToBlock
    <3>6. CASE AboutToBlock(t)
      <4>1. PICK g \in Fns : g = call[t].fn
        BY <2>2, <3>6, AtLabel DEF AboutToBlock, QueueLabels
      <4>2. Available(r, g) <= Owed(r, g)
        BY <2>2, <3>2, <3>6, <4>1 DEF TestHolds
      <4>3. Available(r, g)' <= Owed(r, g)'
        BY <1>12, <1>13, <3>3, <4>2
      <4> QED
        BY <2>1, <3>1, <3>2, <3>4, <4>1, <4>3 DEF TestHolds
    <3> QED
      BY <3>5, <3>6
  <2> QED
    BY <2>3, <2>4, <2>5
<1>14. ASSUME NEW t \in Tasks, TaskStep(t) PROVE TestHolds'
  BY <1>3, <1>4, <1>5, <1>6, <1>7, <1>8, <1>9, <1>14 DEF TaskStep
<1> QED
  BY <1>10, <1>11, <1>13, <1>14 DEF Next, Interrupt

\* Tasks that join those who look again, and what is owed, cover what came.
LEMMA CoveredByGain ==
  ASSUME Typed, Typed', NEW q \in Queues, NEW f \in Fns, Covered(q, f),
         NEW G \in SUBSET Tasks, G \cap Retrying(q, f) = {},
         Retrying(q, f) \cup G \subseteq Retrying(q, f)',
         Waiting(q, f)' # {} =>
           /\ Waiting(q, f) # {}
           /\ Available(q, f)' - Owed(q, f)' <= Available(q, f) - Owed(q, f) + Cardinality(G)
  PROVE  Covered(q, f)'
<1> DEFINE R == Retrying(q, f)
<1>1. R \subseteq Tasks /\ Retrying(q, f)' \subseteq Tasks /\ IsFiniteSet(Tasks)
  BY KernelAssumption DEF Retrying
<1>2. IsFiniteSet(R) /\ IsFiniteSet(G) /\ IsFiniteSet(Retrying(q, f)')
  BY <1>1, FS_Subset
<1>3. Cardinality(R \cup G) = Cardinality(R) + Cardinality(G) - Cardinality(R \cap G)
  BY <1>2, FS_Union
<1>4. R \cap G = {} /\ Cardinality({}) = 0
  BY FS_EmptySet
<1>5. Cardinality(R \cup G) <= Cardinality(Retrying(q, f)')
  BY <1>2, FS_Subset
<1> HIDE DEF R
<1>6. /\ Cardinality(R) \in Nat /\ Cardinality(G) \in Nat /\ Cardinality(Retrying(q, f)') \in Nat
      /\ Available(q, f) \in Nat /\ Owed(q, f) \in Nat
      /\ Available(q, f)' \in Nat /\ Owed(q, f)' \in Nat
  BY <1>2, FS_CardinalityType, CountTypes, CountTypesAfter
<1>7. Cardinality(R) + Cardinality(G) <= Cardinality(Retrying(q, f)')
  <2>1. Cardinality(R \cup G) = Cardinality(R) + Cardinality(G)
    <3>1. Cardinality(R \cap G) = 0
      BY <1>4
    <3> QED
      BY <1>3, <1>6, <3>1
  <2> QED
    BY <1>5, <2>1
<1>8. Covered(q, f)' <=> (Waiting(q, f)' # {} =>
                             Available(q, f)' <= Cardinality(Retrying(q, f)') + Owed(q, f)')
  BY DEF Covered
<1>9. Covered(q, f) <=> (Waiting(q, f) # {} => Available(q, f) <= Cardinality(R) + Owed(q, f))
  BY DEF Covered, R
<1> QED
  BY <1>6, <1>7, <1>8, <1>9

\* A step of task t, or of an interrupt, that neither moves messages nor locks leaves
\* those covered who were, when t goes on to look again, or saw that nothing is there.
LEMMA CoveredFrame ==
  ASSUME Typed, Typed', NEW q \in Queues, NEW f \in Fns, Covered(q, f), NEW t \in Tasks,
         \A u \in Tasks \ {t} : pc'[u] = pc[u] /\ call'[u] = call[u] /\ outcome'[u] = outcome[u],
         Waiting(q, f)' \subseteq Waiting(q, f),
         Owed(q, f)' = Owed(q, f), Available(q, f)' = Available(q, f),
         t \in Retrying(q, f) => t \in Retrying(q, f)' \/ Available(q, f) <= 0
  PROVE  Covered(q, f)'
<1>1. CASE t \in Retrying(q, f) => t \in Retrying(q, f)'
  <2>1. Retrying(q, f) \subseteq Retrying(q, f)'
    BY <1>1 DEF Retrying
  <2>2. Available(q, f) \in Nat /\ Owed(q, f) \in Nat /\ Cardinality({}) = 0
    BY CountTypes, FS_EmptySet
  <2> QED
    BY <2>1, <2>2, CoveredByGain
<1>2. CASE Available(q, f) <= 0
  <2>1. Retrying(q, f)' \subseteq Tasks /\ IsFiniteSet(Tasks)
    BY KernelAssumption DEF Retrying
  <2>2. Cardinality(Retrying(q, f)') \in Nat
    BY <2>1, FS_Subset, FS_CardinalityType
  <2>3. Available(q, f)' \in Nat /\ Owed(q, f)' \in Nat
    BY CountTypes
  <2>4. Available(q, f)' <= Cardinality(Retrying(q, f)') + Owed(q, f)'
    BY <1>2, <2>2, <2>3
  <2> QED
    BY <2>4 DEF Covered
<1> QED
  BY <1>1, <1>2

\* Waking one task for f on q covers one more message or slot.
LEMMA CoveredByWaking ==
  ASSUME Typed, Typed', EventListsSound, WaitersBlocked,
         NEW q \in Queues, NEW f \in Fns, Covered(q, f), WakeOne(q, f),
         \A u \in Waiting(q, f) \cup Retrying(q, f) :
           pc'[u] = pc[u] /\ call'[u] = call[u] /\ outcome'[u] = outcome[u],
         Owed(q, f)' = Owed(q, f), Available(q, f)' = Available(q, f) + 1
  PROVE  Covered(q, f)'
<1>1. /\ Waiting(q, f)' \subseteq Waiting(q, f)
      /\ Waiting(q, f) # {} => \E t \in Waiting(q, f) : t \notin Waiting(q, f)'
  BY WakeOneShrinks
<1>2. CASE Waiting(q, f)' = {}
  BY <1>2 DEF Covered
<1>3. CASE Waiting(q, f)' # {}
  <2>1. PICK u \in Waiting(q, f) : u \notin Waiting(q, f)'
    BY <1>1, <1>3
  <2>2. u \in Tasks
    BY InListOfCall
  <2>3. u \in Retrying(q, f)' \ Retrying(q, f)
    BY <2>1, <2>2, TakenOutRetries DEF WaitersBlocked
  <2>4. Retrying(q, f) \subseteq Retrying(q, f)'
    BY <1>1 DEF Retrying
  <2>5. Available(q, f) \in Nat /\ Owed(q, f) \in Nat /\ Cardinality({u}) = 1
    BY CountTypes, FS_Singleton
  <2> QED
    BY <1>1, <1>3, <2>2, <2>3, <2>4, <2>5, CoveredByGain
<1> QED
  BY <1>2, <1>3

\* A task that looks again is in its own call.
LEMMA RetryingFits ==
  ASSUME NEW q, NEW f, NEW t \in Retrying(q, f)
  PROVE  /\ call[t].queue = q /\ call[t].fn = f
         /\ pc[t] \in {"try", "unlockTx", "unlockRx", "resume", "yield", "retest"}
BY DEF Retrying

\* Where a task goes once the scheduler runs again: to look at the queue, unless its call
\* is a delay, or a send whose wait is over.
LEMMA AfterRetries ==
  ASSUME Typed, OutcomeFits, NEW q \in Queues, NEW f \in Fns, NEW t \in Retrying(q, f),
         pc[t] \in {"resume", "yield"}, t \notin Waiting(q, f)', UNCHANGED <<call, outcome>>,
         pc'[t] \in {"yield", After(t)}
  PROVE  t \in Retrying(q, f)'
<1>1. /\ t \in Tasks /\ call[t].queue = q /\ call[t].fn = f
      /\ f = "take" \/ outcome[t] # "timedOut"
  BY DEF Retrying
<1>2. outcome[t] \in {"again", "timedOut", "blocked"}
  BY <1>1 DEF OutcomeFits, OutcomeLabels, Typed, TasksTyped
<1>3. After(t) \in {"try", "retest"} /\ (After(t) = "retest" => f = "take")
  BY <1>1, <1>2 DEF After, Fns
<1> QED
  BY <1>1, <1>3 DEF Retrying

\* prvUnlockQueue wakes, for each wake-up owed, a task that will look again.
LEMMA UnlockCovers ==
  ASSUME Typed, Typed', EventListsSound, WaitersBlocked, AllCovered, NEW t \in Tasks,
         UnlockTx(t) \/ UnlockRx(t)
  PROVE  AllCovered'
<1> USE DEF At, Goto
<1>1. PICK f \in Fns : Unlock(t, f)
  BY DEF UnlockTx, UnlockRx, Fns
<1>2. PICK q \in Queues : q = call[t].queue
  BY AtLabel DEF UnlockTx, UnlockRx
<1>3. PICK g \in Fns : g = Other(f)
  BY OtherType
<1>4. /\ pc[t] \in {"unlockTx", "unlockRx"} /\ pc'[t] \in {"unlockRx", "resume"}
      /\ \A u \in Tasks \ {t} : pc'[u] = pc[u]
      /\ UNCHANGED <<call, outcome, uxMessagesWaiting>>
      /\ cLock' = [cLock EXCEPT ![<<q, f>>] = queueUNLOCKED]
  BY <1>1, <1>2 DEF UnlockTx, UnlockRx, Unlock, UnlockedCount, callVars, Typed, TasksTyped
<1>5. /\ \A r \in Queues, h \in Fns : Waiting(r, h)' \subseteq Waiting(r, h)
      /\ Waiting(q, g)' # {} => Cardinality(Waiting(q, g) \ Waiting(q, g)') = Owed(q, g)
  BY <1>1, <1>2, <1>3, UnlockShrinks
<1>6. ASSUME NEW r \in Queues, NEW h \in Fns
      PROVE  /\ Available(r, h)' = Available(r, h)
             /\ Retrying(r, h) \subseteq Retrying(r, h)'
             /\ Covered(r, h)
  <2>1. Available(r, h)' = Available(r, h)
    BY <1>4 DEF Available
  <2>2. Retrying(r, h) \subseteq Retrying(r, h)'
    BY <1>4, <1>5 DEF Retrying
  <2> QED
    BY <2>1, <2>2 DEF AllCovered
<1>7. ASSUME NEW r \in Queues, NEW h \in Fns, r # q \/ h # g PROVE Covered(r, h)'
  <2>1. Owed(r, h)' = Owed(r, h)
    BY <1>3, <1>4, <1>7, OtherType DEF Owed, Typed, QueuesTyped, Other, Fns
  <2>2. Available(r, h) \in Nat /\ Owed(r, h) \in Nat /\ Cardinality({}) = 0
    BY CountTypes, FS_EmptySet
  <2> QED
    BY <1>5, <1>6, <2>1, <2>2, CoveredByGain
<1>8. CASE Waiting(q, g)' = {}
  BY <1>7, <1>8 DEF Covered, AllCovered
<1>9. CASE Waiting(q, g)' # {}
  <2>1. PICK G \in SUBSET Tasks : G = Waiting(q, g) \ Waiting(q, g)'
    BY InListOfCall
  <2>2. ASSUME NEW u \in G PROVE u \in Retrying(q, g)' \ Retrying(q, g)
    <3>1. u \in Waiting(q, g) /\ u \notin Waiting(q, g)' /\ u \in Tasks
      BY <2>1
    <3>2. /\ pc'[u] \in {"unlockTx", "unlockRx", "resume", "yield", "try"}
          /\ call'[u] = call[u] /\ outcome'[u] = outcome[u]
      BY <1>4, <3>1 DEF WaitersBlocked
    <3> QED
      BY <3>1, <3>2, TakenOutRetries
  <2>3. G \cap Retrying(q, g) = {} /\ Retrying(q, g) \cup G \subseteq Retrying(q, g)'
    BY <1>6, <2>2
  <2>4. Other(g) = f
    BY <1>3 DEF Other, Fns
  <2>5. Owed(q, g)' = 0
    BY <1>4, <2>4 DEF Owed, Typed, QueuesTyped
  <2>6. Available(q, g) \in Nat /\ Owed(q, g) \in Nat
    BY CountTypes
  <2>7. Covered(q, g)'
    <3>1. Available(q, g)' - Owed(q, g)' <= Available(q, g) - Owed(q, g) + Cardinality(G)
      BY <1>5, <1>6, <1>9, <2>1, <2>5, <2>6
    <3>2. Waiting(q, g) # {}
      BY <1>5, <1>9
    <3> QED
      BY <1>6, <2>3, <3>1, <3>2, CoveredByGain
  <2> QED
    BY <1>7, <2>7 DEF AllCovered
<1> QED
  BY <1>8, <1>9

\* A task that blocks has seen that the queue has nothing that is not owed.
LEMMA PlaceCovers ==
  ASSUME Typed, Typed', TestHolds, AllCovered, NEW t \in Tasks, PlaceOnEventList(t)
  PROVE  AllCovered'
<1> USE DEF At, Goto
<1>1. /\ pxCurrentTCB = t /\ pc[t] = "place" /\ UNCHANGED <<uxMessagesWaiting, cLock, call>>
      /\ \A u \in Tasks \ {t} : pc'[u] = pc[u] /\ outcome'[u] = outcome[u]
  BY DEF PlaceOnEventList, Typed, TasksTyped
<1>2. ASSUME NEW q \in Queues, NEW f \in Fns
      PROVE  /\ Available(q, f)' = Available(q, f) /\ Owed(q, f)' = Owed(q, f)
             /\ t \notin Retrying(q, f) /\ Covered(q, f)
  <2>1. Available(q, f)' = Available(q, f) /\ Owed(q, f)' = Owed(q, f)
    BY <1>1 DEF Available, Owed
  <2>2. t \notin Retrying(q, f)
    BY <1>1, RetryingFits
  <2> QED
    BY <2>1, <2>2 DEF AllCovered
<1>3. ASSUME NEW q \in Queues, NEW f \in Fns, ~(q = call[t].queue /\ f = call[t].fn)
      PROVE  Covered(q, f)'
  <2>1. Waiting(q, f)' = Waiting(q, f)
    BY <1>3 DEF PlaceOnEventList, Waiting, Typed, ListsTyped
  <2> QED
    BY <1>1, <1>2, <2>1, CoveredFrame
<1>4. ASSUME NEW q \in Queues, NEW f \in Fns, q = call[t].queue, f = call[t].fn
      PROVE  Covered(q, f)'
  <2>1. Available(q, f) <= Owed(q, f) /\ Available(q, f) \in Nat /\ Owed(q, f) \in Nat
    BY <1>1, <1>4, CountTypes DEF TestHolds, AboutToBlock
  <2>2. Retrying(q, f)' \subseteq Tasks /\ IsFiniteSet(Tasks)
    BY KernelAssumption DEF Retrying
  <2>3. Cardinality(Retrying(q, f)') \in Nat
    BY <2>2, FS_Subset, FS_CardinalityType
  <2>4. Available(q, f)' <= Cardinality(Retrying(q, f)') + Owed(q, f)'
    BY <1>2, <2>1, <2>3
  <2> QED
    BY <2>4 DEF Covered
<1> QED
  BY <1>3, <1>4 DEF AllCovered

\* A call that succeeds takes one message or slot, and wakes a task for the other side.
LEMMA TryCovers ==
  ASSUME Typed, Typed', EventListsSound, WaitersBlocked, RunnerReady, Suspension, Locks,
         AllCovered, NEW t \in Tasks, TrySucceeds(t)
  PROVE  AllCovered'
<1> USE DEF At, Goto
<1>1. PICK q \in Queues, f \in Fns : q = call[t].queue /\ f = call[t].fn
  BY AtLabel DEF TrySucceeds, QueueLabels
<1>2. /\ pxCurrentTCB = t /\ pc[t] = "try" /\ Transfer(q, f) /\ WakeOne(q, Other(f))
      /\ UNCHANGED <<cLock, call, outcome>> /\ \A u \in Tasks \ {t} : pc'[u] = pc[u]
  BY <1>1 DEF TrySucceeds, callVars, Typed, TasksTyped
<1>3. /\ Available(q, f)' = Available(q, f) - 1
      /\ Available(q, Other(f))' = Available(q, Other(f)) + 1
      /\ \A r \in Queues \ {q}, h \in Fns : Available(r, h)' = Available(r, h)
  BY <1>2, TransferMoves
<1>4. PICK g \in Fns : g = Other(f) /\ g # f
  BY OtherType DEF Other, Fns
<1>5. /\ \A r \in Queues, h \in Fns : Waiting(r, h)' \subseteq Waiting(r, h)
      /\ \A r \in Queues, h \in Fns : r # q \/ h # g => Waiting(r, h)' = Waiting(r, h)
  BY <1>2, <1>4, WakeOneShrinks
<1>6. \A r \in Queues, h \in Fns : Covered(r, h) /\ Owed(r, h)' = Owed(r, h)
  BY <1>2 DEF Owed, AllCovered
<1>7. ASSUME NEW r \in Queues, NEW h \in Fns, r # q \/ h # f PROVE t \notin Retrying(r, h)
  BY <1>1, <1>7, RetryingFits
<1>8. ASSUME NEW r \in Queues, NEW h \in Fns, r # q PROVE Covered(r, h)'
  <2>1. Available(r, h)' = Available(r, h)
    BY <1>3, <1>8
  <2> QED
    BY <1>2, <1>5, <1>6, <1>7, <1>8, <2>1, CoveredFrame
<1>9. Covered(q, g)'
  <2>1. t \notin Waiting(q, g)
    BY <1>2, InListOfCall DEF RunnerReady
  <2>2. \A u \in Waiting(q, g) \cup Retrying(q, g) : u \in Tasks \ {t}
    BY <1>4, <1>7, <2>1, InListOfCall DEF Retrying
  <2> QED
    BY <1>2, <1>3, <1>4, <1>6, <2>2, CoveredByWaking
<1>10. Covered(q, f)'
  <2> DEFINE R == Retrying(q, f)
  <2>1. t \in R
    <3>1. t \notin Waiting(q, f)
      BY <1>2, InListOfCall DEF RunnerReady
    <3> QED
      BY <1>1, <1>2, <3>1 DEF Retrying
  <2>2. R \ {t} \subseteq Retrying(q, f)'
    BY <1>2, <1>5 DEF Retrying
  <2>3. IsFiniteSet(R) /\ IsFiniteSet(Retrying(q, f)')
    <3>1. R \subseteq Tasks /\ Retrying(q, f)' \subseteq Tasks /\ IsFiniteSet(Tasks)
      BY KernelAssumption DEF Retrying
    <3> QED
      BY <3>1, FS_Subset
  <2>4. Available(q, f) \in Nat /\ Owed(q, f) \in Nat /\ Available(q, f)' = Available(q, f) - 1
        /\ Owed(q, f)' = Owed(q, f)
    BY <1>3, <1>6, CountTypes
  <2>5. Waiting(q, f)' = Waiting(q, f)
    BY <1>4, <1>5
  <2>6. Waiting(q, f) # {} => Available(q, f) <= Cardinality(R) + Owed(q, f)
    BY <1>6 DEF Covered
  <2> HIDE DEF R
  <2>7. IsFiniteSet(R \ {t}) /\ Cardinality(R \ {t}) = Cardinality(R) - 1
    BY <2>1, <2>3, FS_RemoveElement
  <2>8. Cardinality(R \ {t}) <= Cardinality(Retrying(q, f)')
    BY <2>2, <2>3, FS_Subset
  <2>9. Cardinality(R) \in Nat /\ Cardinality(Retrying(q, f)') \in Nat
    BY <2>3, FS_CardinalityType
  <2>10. Waiting(q, f)' # {} => Available(q, f)' <= Cardinality(Retrying(q, f)') + Owed(q, f)'
    BY <2>4, <2>5, <2>6, <2>7, <2>8, <2>9
  <2> QED
    BY <2>10 DEF Covered
<1> QED
  BY <1>4, <1>8, <1>9, <1>10 DEF AllCovered, Fns

\* An interrupt wakes a task, or counts what it did on the locked queue.
LEMMA InterruptCovers ==
  ASSUME Typed, Typed', EventListsSound, WaitersBlocked, AllCovered,
         NEW q \in Queues, NEW f \in Fns, FromISR(q, f)
  PROVE  AllCovered'
<1>1. UNCHANGED <<pc, call, outcome>> /\ Transfer(q, f)
  BY DEF FromISR, callVars
<1>2. /\ Available(q, f)' = Available(q, f) - 1
      /\ Available(q, Other(f))' = Available(q, Other(f)) + 1
      /\ \A r \in Queues \ {q}, h \in Fns : Available(r, h)' = Available(r, h)
  BY <1>1, TransferMoves
<1>3. PICK g \in Fns : g = Other(f) /\ g # f /\ Other(g) = f
  BY OtherType DEF Other, Fns
<1>4. \A r \in Queues, h \in Fns :
        /\ Available(r, h) \in Nat /\ Owed(r, h) \in Nat /\ Covered(r, h)
  BY CountTypes DEF AllCovered
<1>5. \A r \in Queues, h \in Fns : Waiting(r, h)' \subseteq Waiting(r, h)
  <2>1. CASE cLock[<<q, f>>] = queueUNLOCKED
    BY <1>3, <2>1, WakeOneShrinks DEF FromISR
  <2>2. CASE cLock[<<q, f>>] # queueUNLOCKED
    BY <2>2 DEF FromISR, Waiting
  <2> QED
    BY <2>1, <2>2
<1>6. \A r \in Queues, h \in Fns : Retrying(r, h) \subseteq Retrying(r, h)'
  BY <1>1, <1>5 DEF Retrying
<1>7. ASSUME NEW r \in Queues, NEW h \in Fns, r # q \/ h # g PROVE Covered(r, h)'
  <2>1. Owed(r, h)' = Owed(r, h)
    BY <1>3, <1>7, OtherType DEF FromISR, Owed, Typed, QueuesTyped, Other, Fns
  <2>2. Available(r, h)' <= Available(r, h)
    <3>1. r = q => h = f
      BY <1>3, <1>7 DEF Fns
    <3> QED
      BY <1>2, <1>4, <3>1
  <2>3. Available(r, h)' \in Nat /\ Cardinality({}) = 0
    BY CountTypesAfter, FS_EmptySet
  <2>4. Available(r, h)' - Owed(r, h)' <= Available(r, h) - Owed(r, h) + Cardinality({})
    BY <1>4, <2>1, <2>2, <2>3
  <2> QED
    BY <1>4, <1>5, <1>6, <2>4, CoveredByGain
<1>8. Covered(q, g)'
  <2>1. CASE cLock[<<q, f>>] = queueUNLOCKED
    <3>1. WakeOne(q, g) /\ UNCHANGED cLock
      BY <1>3, <2>1 DEF FromISR
    <3>2. Owed(q, g)' = Owed(q, g)
      BY <3>1 DEF Owed
    <3> QED
      BY <1>1, <1>2, <1>3, <1>4, <3>1, <3>2, CoveredByWaking
  <2>2. CASE cLock[<<q, f>>] # queueUNLOCKED
    <3>1. cLock' = [cLock EXCEPT ![<<q, f>>] = @ + 1]
      BY <2>2 DEF FromISR
    <3>2. cLock[<<q, f>>] \in Nat /\ cLock'[<<q, f>>] = cLock[<<q, f>>] + 1
      BY <2>2, <3>1 DEF Typed, QueuesTyped
    <3>3. Owed(q, g)' = Owed(q, g) + 1
      BY <1>3, <3>2 DEF Owed, queueUNLOCKED
    <3>4. Available(q, g)' - Owed(q, g)' <= Available(q, g) - Owed(q, g) + Cardinality({})
      BY <1>2, <1>3, <1>4, <3>3, FS_EmptySet
    <3> QED
      BY <1>4, <1>5, <1>6, <3>4, CoveredByGain
  <2> QED
    BY <2>1, <2>2
<1> QED
  BY <1>7, <1>8 DEF AllCovered

\* Every step keeps the waiting tasks covered.
LEMMA CoveredStep ==
  ASSUME Typed, Typed', Suspension, Locks, EventListsSound, RunnerReady, WaitersBlocked,
         OutcomeFits, TestHolds, AllCovered, [Next]_vars
  PROVE  AllCovered'
<1> USE DEF At, Goto
<1>1. ASSUME NEW t \in Tasks, UNCHANGED uxMessagesWaiting,
             \A u \in Tasks \ {t} : pc'[u] = pc[u] /\ call'[u] = call[u] /\ outcome'[u] = outcome[u],
             \A q \in Queues, f \in Fns :
               /\ Waiting(q, f)' \subseteq Waiting(q, f) /\ Owed(q, f)' = Owed(q, f)
               /\ t \in Retrying(q, f) => t \in Retrying(q, f)' \/ Available(q, f) <= 0
      PROVE  AllCovered'
  <2>1. ASSUME NEW q \in Queues, NEW f \in Fns PROVE Covered(q, f)'
    <3>1. Available(q, f)' = Available(q, f) /\ Covered(q, f)
      BY <1>1 DEF Available, AllCovered
    <3> QED
      BY <1>1, <3>1, CoveredFrame
  <2> QED
    BY <2>1 DEF AllCovered
<1>2. ASSUME NEW t \in Tasks,
             \/ \E c \in Calls : Call(t, c)
             \/ SuspendAll(t) \/ LockQueue(t) \/ TestQueue(t) \/ PriorityInherit(t)
             \/ PriorityDisinheritAfterTimeout(t)
             \/ \E timedOut \in BOOLEAN : CheckForTimeOut(t, timedOut)
      PROVE  AllCovered'
  <2>1. /\ UNCHANGED <<uxMessagesWaiting, xTasksWaiting>>
        /\ pc[t] \in {"app", "suspend", "lock", "test", "inherit", "disinherit", "check"}
        /\ \A u \in Tasks \ {t} : pc'[u] = pc[u] /\ call'[u] = call[u] /\ outcome'[u] = outcome[u]
    BY <1>2 DEF Call, SuspendAll, LockQueue, TestQueue, PriorityInherit, CheckForTimeOut,
                PriorityDisinheritAfterTimeout, callVars, Typed, TasksTyped
  <2>2. ASSUME NEW q \in Queues, NEW f \in Fns
        PROVE  Waiting(q, f)' = Waiting(q, f) /\ t \notin Retrying(q, f)
    BY <2>1, RetryingFits DEF Waiting
  <2>3. ASSUME NEW q \in Queues, NEW f \in Fns PROVE Owed(q, f)' = Owed(q, f)
    <3>1. CASE LockQueue(t)
      BY <3>1, OtherType DEF LockQueue, Owed, queueLOCKED_UNMODIFIED, queueUNLOCKED
    <3>2. CASE ~LockQueue(t)
      <4>1. UNCHANGED cLock
        BY <1>2, <3>2 DEF Call, SuspendAll, TestQueue, PriorityInherit, CheckForTimeOut,
                          PriorityDisinheritAfterTimeout
      <4> QED
        BY <4>1 DEF Owed
    <3> QED
      BY <3>1, <3>2
  <2> QED
    BY <1>1, <2>1, <2>2, <2>3
<1>3. ASSUME NEW t \in Tasks, TryFails(t) \/ Retest(t) PROVE AllCovered'
  <2>1. /\ UNCHANGED <<uxMessagesWaiting, xTasksWaiting, cLock, call, outcome>>
        /\ pc[t] \in {"try", "retest"} /\ \A u \in Tasks \ {t} : pc'[u] = pc[u]
        /\ Possible(call[t].queue, call[t].fn) => pc'[t] = "try"
    BY <1>3 DEF TryFails, Retest, callVars, Typed, TasksTyped
  <2>2. ASSUME NEW q \in Queues, NEW f \in Fns, t \in Retrying(q, f)
        PROVE  t \in Retrying(q, f)' \/ Available(q, f) <= 0
    <3>1. call[t].queue = q /\ call[t].fn = f /\ t \notin Waiting(q, f)'
      BY <2>1, <2>2 DEF Retrying, Waiting
    <3>2. CASE Possible(q, f)
      BY <2>1, <3>1, <3>2 DEF Retrying
    <3>3. CASE ~Possible(q, f)
      BY <3>3, NothingThere
    <3> QED
      BY <3>2, <3>3
  <2>3. \A q \in Queues, f \in Fns : Waiting(q, f)' = Waiting(q, f) /\ Owed(q, f)' = Owed(q, f)
    BY <2>1 DEF Waiting, Owed
  <2> QED
    BY <1>1, <2>1, <2>2, <2>3
<1>4. ASSUME NEW t \in Tasks, ResumeAll(t) \/ YieldWithinAPI(t) PROVE AllCovered'
  <2>1. /\ UNCHANGED <<uxMessagesWaiting, cLock, call, outcome>>
        /\ pc[t] \in {"resume", "yield"} /\ pc'[t] \in {"yield", After(t)}
        /\ \A u \in Tasks \ {t} : pc'[u] = pc[u]
    BY <1>4 DEF ResumeAll, YieldWithinAPI, callVars, Typed, TasksTyped
  <2>2. \A q \in Queues, f \in Fns : Waiting(q, f)' \subseteq Waiting(q, f)
    <3>1. CASE ResumeAll(t)
      BY <3>1, ExpireShrinks DEF ResumeAll
    <3>2. CASE YieldWithinAPI(t)
      BY <3>2 DEF YieldWithinAPI, Waiting
    <3> QED
      BY <1>4, <3>1, <3>2
  <2>3. ASSUME NEW q \in Queues, NEW f \in Fns, t \in Retrying(q, f)
        PROVE  t \in Retrying(q, f)'
    <3>1. t \notin Waiting(q, f)'
      BY <2>2, <2>3 DEF Retrying
    <3> QED
      BY <2>1, <2>3, <3>1, AfterRetries
  <2>4. \A q \in Queues, f \in Fns : Owed(q, f)' = Owed(q, f)
    BY <2>1 DEF Owed
  <2> QED
    BY <1>1, <2>1, <2>2, <2>3, <2>4
<1>5. CASE Tick \/ PendTick \/ UNCHANGED vars
  <2>1. UNCHANGED <<pc, call, outcome, uxMessagesWaiting, cLock>>
    BY <1>5 DEF Tick, PendTick, vars, callVars
  <2>2. \A q \in Queues, f \in Fns : Waiting(q, f)' \subseteq Waiting(q, f)
    <3>1. CASE Tick
      BY <3>1, ExpireShrinks DEF Tick
    <3>2. CASE PendTick \/ UNCHANGED vars
      BY <3>2 DEF PendTick, vars, Waiting
    <3> QED
      BY <1>5, <3>1, <3>2
  <2>3. \A q \in Queues, f \in Fns :
          /\ Owed(q, f)' = Owed(q, f)
          /\ Retrying(q, f) \subseteq Retrying(q, f)'
    BY <2>1, <2>2 DEF Owed, Retrying
  <2>4. pxCurrentTCB \in Tasks
    BY DEF Typed, TasksTyped
  <2> QED
    BY <1>1, <2>1, <2>2, <2>3, <2>4
<1>6. ASSUME NEW t \in Tasks, TaskStep(t) PROVE AllCovered'
  BY <1>2, <1>3, <1>4, <1>6, TryCovers, PlaceCovers, UnlockCovers DEF TaskStep
<1> QED
  BY <1>5, <1>6, InterruptCovers DEF Next, Interrupt

\* The waiting tasks are covered, always.
THEOREM AlwaysCovered == Spec => [](WaitersBlocked /\ OutcomeFits /\ TestHolds /\ AllCovered)
<1>1. Init => WaitersBlocked /\ OutcomeFits /\ TestHolds /\ AllCovered
  <2> SUFFICES ASSUME Init PROVE WaitersBlocked /\ OutcomeFits /\ TestHolds /\ AllCovered
    OBVIOUS
  <2>1. \A q \in Queues, f \in Fns : xTasksWaiting[<<q, f>>] = <<>>
    BY DEF Init
  <2>2. \A q \in Queues, f \in Fns : Waiting(q, f) = {}
    <3>1. ToSet(<<>>) = {}
      BY DEF ToSet
    <3> QED
      BY <2>1, <3>1 DEF Waiting
  <2>3. pxCurrentTCB \in Tasks /\ \A t \in Tasks : pc[t] = "app"
    BY DEF Init, HighestReady, Ready
  <2> QED
    BY <2>2, <2>3 DEF WaitersBlocked, OutcomeFits, OutcomeLabels, TestHolds, AboutToBlock,
                      AllCovered, Covered
<1>2. /\ Typed /\ Typed' /\ Suspension /\ Suspension' /\ Locks
      /\ EventListsSound /\ RunnerReady
      /\ WaitersBlocked /\ OutcomeFits /\ TestHolds /\ AllCovered /\ [Next]_vars
      => WaitersBlocked' /\ OutcomeFits' /\ TestHolds' /\ AllCovered'
  BY WaitersBlockedStep, OutcomeFitsStep, TestHoldsStep, CoveredStep
<1> QED
  BY <1>1, <1>2, AlwaysTyped, AlwaysSuspension, AlwaysListed, PTL DEF Spec

\* NoLostWakeup: a post that comes between the test of a queue and the blocking on it, or
\* while the queue is locked, wakes a task that waits for it, whoever else posts and takes.
THEOREM NoWakeupIsLost == Spec => []NoLostWakeup
<1>1. Typed /\ AllCovered => NoLostWakeup
  <2> SUFFICES ASSUME Typed, AllCovered, NEW q \in Queues, NEW f \in Fns,
                      cLock[<<q, Other(f)>>] = queueUNLOCKED, xTasksWaiting[<<q, f>>] # <<>>
               PROVE  Available(q, f) <= Cardinality(Retrying(q, f))
    BY DEF NoLostWakeup
  <2>1. xTasksWaiting[<<q, f>>] \in Seq(Tasks)
    BY DEF Typed, ListsTyped
  <2>2. Waiting(q, f) # {}
    BY <2>1, EmptyList DEF Waiting
  <2>3. Owed(q, f) = 0
    BY DEF Owed
  <2>4. Retrying(q, f) \subseteq Tasks /\ IsFiniteSet(Tasks)
    BY KernelAssumption DEF Retrying
  <2>5. Cardinality(Retrying(q, f)) \in Nat
    BY <2>4, FS_Subset, FS_CardinalityType
  <2> QED
    BY <2>2, <2>3, <2>5 DEF AllCovered, Covered
<1> QED
  BY <1>1, AlwaysTyped, AlwaysCovered, PTL

-----------------------------------------------------------------------------
(* Inherited priorities.  They keep the order of those who wait, and no task  *)
(* runs in the place of one above it, up to the steps in which the code does  *)
(* not see to it.                                                             *)

\* In a call that takes a mutex.
TakesMutex(t) == pc[t] # "app" /\ call[t].fn = "take" /\ call[t].queue \in Mutexes

\* In a call that gives one back.
GivesMutex(t) == pc[t] # "app" /\ call[t].fn = "send" /\ call[t].queue \in Mutexes

\* A task makes its own calls: it takes nothing it holds, and
\* what it gives back it gives at once.
OwnCalls ==
  /\ \A t \in Tasks : pc[t] # "app" => call[t].task = t
  /\ \A t \in Tasks : TakesMutex(t) => pxMutexHolder[call[t].queue] # t
  /\ \A t \in Tasks : GivesMutex(t) => pc[t] = "try"

\* Every step keeps calls and holders together.
LEMMA OwnCallsStep ==
  ASSUME Typed, Typed', MutexInv, OwnCalls, [Next]_vars
  PROVE  OwnCalls'
<1> USE DEF At, Goto
<1>1. ASSUME NEW t \in Tasks, NEW c \in Calls, Call(t, c) PROVE OwnCalls'
  <2>1. /\ UNCHANGED pxMutexHolder /\ c.task = t
        /\ \A u \in Tasks \ {t} : pc'[u] = pc[u] /\ call'[u] = call[u]
        /\ call'[t] = c
    BY <1>1 DEF Call, Typed, TasksTyped
  <2>2. c.fn = "take" /\ c.queue \in Mutexes => pxMutexHolder[c.queue] # t
    BY <1>1 DEF Call
  <2>3. pc'[t] = "try" \/ c.fn = "delay"
    BY <1>1 DEF Call, Typed, TasksTyped
  <2> QED
    BY <2>1, <2>2, <2>3 DEF OwnCalls, TakesMutex, GivesMutex
<1>2. ASSUME NEW t \in Tasks, TrySucceeds(t) PROVE OwnCalls'
  <2> DEFINE q == call[t].queue
             f == call[t].fn
  <2>1. q \in Queues /\ f \in Fns /\ pc[t] = "try" /\ call[t] \in Calls
    BY <1>2, AtLabel DEF TrySucceeds, QueueLabels
  <2>2. /\ UpdateMutex(t, q, f) /\ call' = call /\ pc'[t] = "app"
        /\ \A u \in Tasks \ {t} : pc'[u] = pc[u]
    BY <1>2 DEF TrySucceeds, Typed, TasksTyped
  <2>3. \A m \in Mutexes : pxMutexHolder'[m] = pxMutexHolder[m] \/ pxMutexHolder'[m] = NULL
                           \/ (m = q /\ f = "take" /\ pxMutexHolder'[m] = t)
    BY <2>1, <2>2 DEF UpdateMutex, TakeMutex, GiveMutex, Fns, Typed, PriorityTyped
  <2>4. ASSUME NEW u \in Tasks, TakesMutex(u)' PROVE pxMutexHolder'[call'[u].queue] # u
    <3>1. u # t /\ TakesMutex(u) /\ call'[u] = call[u]
      BY <2>2, <2>4 DEF TakesMutex
    <3> QED
      BY <2>3, <3>1, KernelAssumption DEF OwnCalls, TakesMutex
  <2>5. \A u \in Tasks : pc'[u] # "app" => call'[u].task = u
    BY <2>2 DEF OwnCalls
  <2>6. \A u \in Tasks : GivesMutex(u)' => pc'[u] = "try"
    BY <2>2 DEF OwnCalls, GivesMutex
  <2> QED
    BY <2>4, <2>5, <2>6 DEF OwnCalls
<1>3. ASSUME NEW t \in Tasks,
             \/ TryFails(t) \/ SuspendAll(t) \/ LockQueue(t)
             \/ \E timedOut \in BOOLEAN : CheckForTimeOut(t, timedOut)
             \/ TestQueue(t) \/ PriorityInherit(t) \/ PlaceOnEventList(t)
             \/ UnlockTx(t) \/ UnlockRx(t) \/ ResumeAll(t) \/ YieldWithinAPI(t)
             \/ Retest(t) \/ PriorityDisinheritAfterTimeout(t)
      PROVE  OwnCalls'
  <2> USE DEF TryFails, SuspendAll, LockQueue, CheckForTimeOut, TestQueue, PriorityInherit,
              PlaceOnEventList, UnlockTx, UnlockRx, Unlock, ResumeAll, YieldWithinAPI,
              Retest, PriorityDisinheritAfterTimeout
  <2>1. UNCHANGED <<pxMutexHolder, call>> /\ pc[t] # "app"
    BY <1>3
  <2>2. \E label : pc' = [pc EXCEPT ![t] = label]
    BY <1>3
  <2>3. \A u \in Tasks : pc'[u] # "app" => pc[u] # "app"
    BY <2>1, <2>2 DEF Typed, TasksTyped
  <2>4. ~GivesMutex(t)
    <3> SUFFICES ASSUME GivesMutex(t) PROVE FALSE
      OBVIOUS
    <3>1. pc[t] = "try"
      BY DEF OwnCalls
    <3>2. TryFails(t)
      BY <1>3, <3>1
    <3>3. call[t].queue \in Queues /\ uxLength[call[t].queue] = 1 /\ call[t].fn = "send"
      BY KernelAssumption DEF GivesMutex
    <3>4. uxMessagesWaiting[call[t].queue] = 0
      <4>1. call[t].queue \in Mutexes /\ pxMutexHolder[call[t].queue] # NULL
        BY KernelAssumption DEF GivesMutex, MutexInv, GiversHold
      <4>2. uxMessagesWaiting[call[t].queue] # 1
        BY <4>1 DEF MutexInv, MutexHolders
      <4>3. uxMessagesWaiting[call[t].queue] \in Nat /\ uxMessagesWaiting[call[t].queue] <= 1
        BY <3>3 DEF Typed, QueuesTyped
      <4> QED
        BY <4>2, <4>3
    <3>5. Possible(call[t].queue, "send")
      BY <3>3, <3>4 DEF Possible
    <3> QED
      BY <3>2, <3>3, <3>5
  <2>5. \A u \in Tasks : GivesMutex(u)' => GivesMutex(u) /\ u # t /\ pc'[u] = pc[u]
    BY <2>1, <2>2, <2>3, <2>4 DEF GivesMutex, Typed, TasksTyped
  <2> QED
    BY <2>1, <2>3, <2>5 DEF OwnCalls, TakesMutex
<1>4. CASE Interrupt \/ UNCHANGED vars
  <2>1. UNCHANGED <<pxMutexHolder, pc, call>>
    BY <1>4 DEF Interrupt, Tick, PendTick, FromISR, vars
  <2> QED
    BY <2>1 DEF OwnCalls, TakesMutex, GivesMutex
<1> QED
  BY <1>1, <1>2, <1>3, <1>4 DEF Next, TaskStep

\* Calls and holders go together, always.
THEOREM AlwaysOwnCalls == Spec => []OwnCalls
<1>1. Init => OwnCalls
  BY KernelAssumption DEF Init, OwnCalls, TakesMutex, GivesMutex
<1>2. Typed /\ Typed' /\ MutexInv /\ OwnCalls /\ [Next]_vars => OwnCalls'
  BY OwnCallsStep
<1> QED
  BY <1>1, <1>2, AlwaysTyped, AlwaysMutexes, PTL DEF Spec

\* A list is in its own order, and so is what is left without its first n tasks.
LEMMA InOrderRest ==
  ASSUME NEW list \in Seq(Tasks), NEW n \in 0..Len(list)
  PROVE  InOrder(list, list) /\ InOrder(SubSeq(list, n + 1, Len(list)), list)
<1> DEFINE rest == SubSeq(list, n + 1, Len(list))
<1>1. Len(list) \in Nat /\ n \in Nat /\ \A i \in 1..Len(list) : list[i] \in Tasks
  BY LenProperties, ElementOfSeq
<1>2. Len(rest) = Len(list) - n /\ \A i \in 1..Len(list) - n : rest[i] = list[n + i]
  BY <1>1, SubSeqLengths, SubSeqProperties
<1>3. ToSet(rest) \subseteq ToSet(list)
  BY Cut
<1> HIDE DEF rest
<1>4. ASSUME NEW i \in 1..Len(rest), NEW j \in 1..Len(rest), i < j
      PROVE  \E a, b \in 1..Len(list) : a < b /\ list[a] = rest[i] /\ list[b] = rest[j]
  <2>1. n + i \in 1..Len(list) /\ n + j \in 1..Len(list) /\ n + i < n + j
    BY <1>1, <1>2, <1>4
  <2> QED
    BY <1>2, <2>1
<1> QED
  BY <1>3, <1>4 DEF InOrder, rest

\* In every step each event list keeps its order: tasks only leave it, but for the one
\* that vTaskPlaceOnEventList inserts by priority.
LEMMA ListsMove ==
  ASSUME Typed, [Next]_vars, NEW q \in Queues, NEW f \in Fns
  PROVE  \/ InOrder(xTasksWaiting'[<<q, f>>], xTasksWaiting[<<q, f>>])
         \/ \E t \in Tasks :
              /\ PlaceOnEventList(t) /\ call[t].queue = q /\ call[t].fn = f
              /\ xTasksWaiting'[<<q, f>>] = InsertByPriority(xTasksWaiting[<<q, f>>], t)
<1> DEFINE list == xTasksWaiting[<<q, f>>]
           Kept == InOrder(xTasksWaiting'[<<q, f>>], xTasksWaiting[<<q, f>>])
<1>0. list \in Seq(Tasks) /\ InOrder(list, list)
  <2>1. list \in Seq(Tasks)
    BY DEF Typed, ListsTyped
  <2> QED
    BY <2>1, InOrderRest, LenProperties
<1>1. ASSUME xTasksWaiting'[<<q, f>>] = list PROVE Kept
  BY <1>0, <1>1
<1>2. ASSUME NEW r \in Queues, NEW g \in Fns, WakeOne(r, g) PROVE Kept
  <2>1. CASE xTasksWaiting[<<r, g>>] = <<>> \/ <<r, g>> # <<q, f>>
    BY <1>0, <1>2, <2>1 DEF WakeOne, RemoveFromEventList, Typed, ListsTyped
  <2>2. CASE xTasksWaiting[<<r, g>>] # <<>> /\ <<r, g>> = <<q, f>>
    <3>1. xTasksWaiting'[<<q, f>>] = Tail(list) /\ list # <<>>
      BY <1>2, <2>2 DEF WakeOne, RemoveFromEventList, Typed, ListsTyped
    <3>2. 1 \in 0..Len(list) /\ Tail(list) = SubSeq(list, 1 + 1, Len(list))
      BY <1>0, <3>1, LenProperties, EmptySeq, HeadTailProperties
    <3> HIDE DEF list
    <3>3. InOrder(SubSeq(list, 1 + 1, Len(list)), list)
      BY <1>0, <3>2, InOrderRest
    <3> QED
      BY <3>1, <3>2, <3>3 DEF list
  <2> QED
    BY <2>1, <2>2
<1>3. ASSUME NEW E, Expire(E) PROVE Kept
  BY <1>0, <1>3, WithoutProperties DEF Expire, WithoutTasks
<1>4. ASSUME NEW t \in Tasks,
             \/ \E c \in Calls : Call(t, c)
             \/ TryFails(t) \/ SuspendAll(t) \/ LockQueue(t) \/ Retest(t)
             \/ \E timedOut \in BOOLEAN : CheckForTimeOut(t, timedOut)
             \/ TestQueue(t) \/ PriorityInherit(t) \/ YieldWithinAPI(t)
             \/ PriorityDisinheritAfterTimeout(t)
      PROVE  Kept
  BY <1>1, <1>4 DEF Call, TryFails, SuspendAll, LockQueue, Retest, CheckForTimeOut, TestQueue,
                    PriorityInherit, YieldWithinAPI, PriorityDisinheritAfterTimeout
<1>5. ASSUME NEW t \in Tasks, TrySucceeds(t) PROVE Kept
  <2>1. call[t].queue \in Queues /\ Other(call[t].fn) \in Fns
    BY <1>5, AtLabel, OtherType DEF TrySucceeds, QueueLabels
  <2> QED
    BY <1>2, <1>5, <2>1 DEF TrySucceeds
<1>6. ASSUME NEW t \in Tasks, PlaceOnEventList(t), ~Kept
      PROVE  /\ call[t].queue = q /\ call[t].fn = f
             /\ xTasksWaiting'[<<q, f>>] = InsertByPriority(xTasksWaiting[<<q, f>>], t)
  <2>1. call[t].queue \in Queues /\ call[t].fn \in Fns \cup {"delay"}
    BY <1>6, AtLabel DEF PlaceOnEventList
  <2>2. call[t].fn # "delay" /\ <<call[t].queue, call[t].fn>> = <<q, f>>
    BY <1>1, <1>6, <2>1 DEF PlaceOnEventList, Typed, ListsTyped
  <2> QED
    BY <1>6, <2>2 DEF PlaceOnEventList, Typed, ListsTyped
<1>7. ASSUME NEW t \in Tasks, NEW g \in Fns, call[t].queue \in Queues, Unlock(t, g) PROVE Kept
  <2> DEFINE r == call[t].queue
             h == Other(g)
             n == WokenAtUnlock(r, g)
  <2>1. CASE <<r, h>> # <<q, f>>
    BY <1>1, <1>7, <2>1 DEF Unlock, Typed, ListsTyped
  <2>2. CASE <<r, h>> = <<q, f>>
    <3>1. xTasksWaiting'[<<q, f>>] = SubSeq(list, n + 1, Len(list))
      BY <1>7, <2>2 DEF Unlock, Typed, ListsTyped
    <3>2. n \in 0..Len(list)
      <4>1. Len(list) \in Nat /\ cLock[<<r, g>>] \in Nat \cup {queueUNLOCKED}
        BY <1>0, <1>7, LenProperties DEF Typed, QueuesTyped
      <4> QED
        BY <2>2, <4>1 DEF WokenAtUnlock, queueUNLOCKED, queueLOCKED_UNMODIFIED
    <3> HIDE DEF n, list
    <3>3. InOrder(SubSeq(list, n + 1, Len(list)), list)
      BY <1>0, <3>2, InOrderRest
    <3> QED
      BY <3>1, <3>3 DEF list
  <2> QED
    BY <2>1, <2>2
<1>8. ASSUME NEW t \in Tasks, UnlockTx(t) \/ UnlockRx(t) PROVE Kept
  <2>1. call[t].queue \in Queues
    BY <1>8, AtLabel DEF UnlockTx, UnlockRx
  <2>2. \E g \in Fns : Unlock(t, g)
    BY <1>8 DEF UnlockTx, UnlockRx, Fns
  <2> QED
    BY <1>7, <2>1, <2>2
<1>9. ASSUME NEW t \in Tasks, ResumeAll(t) PROVE Kept
  BY <1>3, <1>9 DEF ResumeAll
<1>10. CASE Interrupt \/ UNCHANGED vars
  <2>1. CASE Tick
    BY <1>3, <2>1 DEF Tick
  <2>2. CASE PendTick \/ UNCHANGED vars
    BY <1>1, <2>2 DEF PendTick, vars
  <2>3. ASSUME NEW r \in Queues, NEW g \in Fns, FromISR(r, g) PROVE Kept
    <3>1. CASE cLock[<<r, g>>] = queueUNLOCKED
      BY <1>2, <2>3, <3>1, OtherType DEF FromISR
    <3>2. CASE cLock[<<r, g>>] # queueUNLOCKED
      BY <1>1, <2>3, <3>2 DEF FromISR
    <3> QED
      BY <3>1, <3>2
  <2> QED
    BY <1>10, <2>1, <2>2, <2>3 DEF Interrupt
<1>11. ASSUME NEW t \in Tasks, TaskStep(t) PROVE Kept \/ PlaceOnEventList(t)
  BY <1>4, <1>5, <1>8, <1>9, <1>11 DEF TaskStep
<1> QED
  BY <1>6, <1>10, <1>11 DEF Next

-----------------------------------------------------------------------------
(* Who waits keeps its priority. *)

\* The give of a mutex that drops what its holder inherited.
Dropped(t) ==
  /\ TrySucceeds(t) /\ GivesMutex(t) /\ Disinherits(t)
  /\ uxPriority' = [uxPriority EXCEPT ![t] = BasePriority[t]]

\* xTaskPriorityInherit, when it changes the holder's priority.
Raised(t, h) ==
  /\ PriorityInherit(t) /\ h = pxMutexHolder[call[t].queue] /\ uxPriority[h] < uxPriority[t]
  /\ uxPriority' = [uxPriority EXCEPT ![h] = uxPriority[t]]

\* vTaskPriorityDisinheritAfterTimeout, when it may.
Lowered(t, h) ==
  /\ PriorityDisinheritAfterTimeout(t) /\ h = pxMutexHolder[call[t].queue] /\ uxMutexesHeld[h] = 1
  /\ \E p \in {BasePriority[h], HighestWaiting(call[t].queue)} : uxPriority' = [uxPriority EXCEPT ![h] = p]

\* Priorities change in these steps only.
LEMMA PriorityMoves ==
  ASSUME Typed, [Next]_vars
  PROVE  \/ UNCHANGED uxPriority
         \/ \E t \in Tasks : Dropped(t)
         \/ \E t, h \in Tasks : Raised(t, h) \/ Lowered(t, h)
<1>0. uxPriority \in [Tasks -> Nat]
  BY DEF Typed, PriorityTyped
<1>1. ASSUME NEW t \in Tasks, TrySucceeds(t) PROVE UNCHANGED uxPriority \/ Dropped(t)
  <2> DEFINE q == call[t].queue
             f == call[t].fn
  <2>1. q \in Queues /\ f \in Fns /\ pc[t] = "try"
    BY <1>1, AtLabel DEF TrySucceeds, QueueLabels, At
  <2>2. UpdateMutex(t, q, f)
    BY <1>1 DEF TrySucceeds
  <2>3. CASE q \notin Mutexes \/ f = "take"
    BY <2>1, <2>2, <2>3 DEF UpdateMutex, TakeMutex
  <2>4. CASE q \in Mutexes /\ f = "send"
    <3>1. GiveMutex(t, q) /\ GivesMutex(t)
      BY <2>1, <2>2, <2>4 DEF UpdateMutex, GivesMutex
    <3>2. CASE Disinherits(t)
      BY <1>1, <3>1, <3>2 DEF GiveMutex, Dropped
    <3>3. CASE ~Disinherits(t)
      BY <1>0, <3>1, <3>3 DEF GiveMutex
    <3> QED
      BY <3>2, <3>3
  <2> QED
    BY <2>1, <2>3, <2>4 DEF Fns
<1>2. ASSUME NEW t \in Tasks, PriorityInherit(t)
      PROVE  UNCHANGED uxPriority \/ \E h \in Tasks : Raised(t, h)
  <2> DEFINE h == pxMutexHolder[call[t].queue]
  <2>1. h \in Tasks \cup {NULL}
    <3>1. call[t].queue \in Mutexes
      BY <1>2 DEF PriorityInherit, At, Typed, CallsFitLabels
    <3> QED
      BY <3>1 DEF Typed, PriorityTyped
  <2> QED
    BY <1>2, <2>1 DEF PriorityInherit, Raised
<1>3. ASSUME NEW t \in Tasks, PriorityDisinheritAfterTimeout(t)
      PROVE  UNCHANGED uxPriority \/ \E h \in Tasks : Lowered(t, h)
  <2> DEFINE h == pxMutexHolder[call[t].queue]
  <2>1. h \in Tasks \cup {NULL}
    <3>1. call[t].queue \in Mutexes
      BY <1>3 DEF PriorityDisinheritAfterTimeout, At, Typed, CallsFitLabels
    <3> QED
      BY <3>1 DEF Typed, PriorityTyped
  <2> QED
    BY <1>3, <2>1 DEF PriorityDisinheritAfterTimeout, Lowered
<1>4. ASSUME NEW t \in Tasks,
             \/ \E c \in Calls : Call(t, c)
             \/ TryFails(t) \/ SuspendAll(t) \/ LockQueue(t) \/ Retest(t)
             \/ \E timedOut \in BOOLEAN : CheckForTimeOut(t, timedOut)
             \/ TestQueue(t) \/ PlaceOnEventList(t) \/ UnlockTx(t) \/ UnlockRx(t)
             \/ ResumeAll(t) \/ YieldWithinAPI(t)
      PROVE  UNCHANGED uxPriority
  BY <1>4 DEF Call, TryFails, SuspendAll, LockQueue, Retest, CheckForTimeOut, TestQueue,
              PlaceOnEventList, UnlockTx, UnlockRx, Unlock, ResumeAll, YieldWithinAPI
<1>5. Interrupt \/ UNCHANGED vars => UNCHANGED uxPriority
  BY DEF Interrupt, Tick, PendTick, FromISR, vars
<1> QED
  BY <1>1, <1>2, <1>3, <1>4, <1>5 DEF Next, TaskStep

\* What the rest of this section needs of the invariants proved so far.
Ground == /\ Typed /\ Suspension /\ MutexInv /\ PriorityRestored /\ OwnCalls
          /\ EventListsSound /\ RunnerReady /\ WaitersBlocked /\ OutcomeFits

\* It always holds.
LEMMA AlwaysGround == Spec => []Ground
<1>1. /\ Typed /\ Suspension /\ Locks /\ MutexInv /\ PriorityRestored /\ OwnCalls
      /\ EventListsSound /\ PendingSound /\ RunnerReady
      /\ WaitersBlocked /\ OutcomeFits /\ TestHolds /\ AllCovered
      => Ground
  BY DEF Ground
<1> QED
  BY <1>1, AlwaysTyped, AlwaysSuspension, AlwaysMutexes, PrioritiesAreRestored, AlwaysOwnCalls,
     AlwaysListed, AlwaysCovered, PTL

\* The priority that changes while another task runs is that of the holder of a mutex the
\* running task waits for, or waited for.
LEMMA Borrower ==
  ASSUME Ground, NEW t \in Tasks, NEW h \in Tasks, Raised(t, h) \/ Lowered(t, h)
  PROVE  /\ pxCurrentTCB = t /\ pc[t] \in {"inherit", "disinherit"} /\ h # t
         /\ UNCHANGED <<pxCurrentTCB, stateList, xTasksWaiting, pxMutexHolder>>
         /\ call[t].queue \in Mutexes /\ pxMutexHolder[call[t].queue] = h
<1> DEFINE m == call[t].queue
<1>1. /\ pxCurrentTCB = t /\ pc[t] \in {"inherit", "disinherit"} /\ pxMutexHolder[m] = h
      /\ UNCHANGED <<pxCurrentTCB, stateList, xTasksWaiting, pxMutexHolder>>
  BY DEF Raised, Lowered, PriorityInherit, PriorityDisinheritAfterTimeout, At
<1>2. call[t] \in Calls /\ m \in Mutexes /\ call[t].fn \in Fns
  BY <1>1 DEF Ground, Typed, CallsFitLabels, QueueLabels
<1>3. call[t].fn = "take"
  BY <1>1, <1>2 DEF Ground, OwnCalls, GivesMutex, Fns
<1>4. h # t
  BY <1>1, <1>2, <1>3 DEF Ground, OwnCalls, TakesMutex
<1> QED
  BY <1>1, <1>2, <1>4

\* A task that gives a mutex back runs, and is in no event list.
LEMMA Giver ==
  ASSUME Ground, NEW t \in Tasks, Dropped(t)
  PROVE  /\ pxCurrentTCB = t /\ pc[t] = "try" /\ stateList[t] = "ready"
         /\ call[t].fn = "send" /\ call[t].queue \in Mutexes /\ uxSchedulerSuspended = 0
         /\ uxMutexesHeld[t] = 1 /\ pxMutexHolder[call[t].queue] = t
BY DEF Dropped, TrySucceeds, GivesMutex, At, Ground, RunnerReady, Disinherits, MutexInv, GiversHold,
       Suspension, Window

\* tasks.c:3822.  The priority of a task changes while it waits for an event, where its item
\* keeps its place in the list, or after it was woken for a mutex and before it takes it.
Reprices ==
  \E t \in Tasks \ {pxCurrentTCB} : (InEventList(t) \/ TakesMutex(t)) /\ uxPriority'[t] # uxPriority[t]

\* Otherwise nobody's priority changes while it waits for an event.
LEMMA WaitersKeepPriority ==
  ASSUME Ground, ~Reprices, [Next]_vars,
         NEW q \in Queues, NEW f \in Fns, NEW t \in Waiting(q, f)
  PROVE  t \in Tasks /\ uxPriority'[t] = uxPriority[t]
<1>1. t \in Tasks /\ stateList[t] # "ready" /\ InEventList(t)
  BY InListOfCall DEF Ground, InEventList
<1>2. ASSUME NEW r \in Tasks, Dropped(r) PROVE uxPriority'[t] = uxPriority[t]
  BY <1>1, <1>2, Giver DEF Dropped, Ground, Typed, PriorityTyped
<1>3. ASSUME NEW r \in Tasks, NEW h \in Tasks, Raised(r, h) \/ Lowered(r, h)
      PROVE  uxPriority'[t] = uxPriority[t]
  <2>1. CASE h = t
    <3>1. t # pxCurrentTCB
      BY <1>3, <2>1, Borrower
    <3> QED
      BY <1>1, <3>1 DEF Reprices
  <2>2. CASE h # t
    BY <1>1, <1>3, <2>2 DEF Raised, Lowered, Ground, Typed, PriorityTyped
  <2> QED
    BY <2>1, <2>2
<1> QED
  BY <1>1, <1>2, <1>3, PriorityMoves DEF Ground

\* The head of a sorted list outranks the others.
LEMMA HeadIsHighest ==
  ASSUME uxPriority \in [Tasks -> Nat], NEW list \in Seq(Tasks), Sorted(list), NEW t \in ToSet(list)
  PROVE  list # <<>> /\ Head(list) \in Tasks /\ uxPriority[t] <= uxPriority[Head(list)]
<1>1. PICK i \in 1..Len(list) : list[i] = t
  BY LenProperties DEF ToSet
<1>2. Len(list) \in Nat /\ list # <<>> /\ \A j \in 1..Len(list) : list[j] \in Tasks
  BY <1>1, LenProperties, ElementOfSeq, EmptySeq
<1>3. Head(list) = list[1] /\ 1 \in 1..Len(list)
  BY <1>1, <1>2
<1>4. CASE i = 1
  BY <1>1, <1>2, <1>3, <1>4
<1>5. CASE i # 1
  <2>1. 1 < i
    BY <1>1, <1>2, <1>5
  <2> QED
    BY <1>1, <1>2, <1>3, <2>1 DEF Sorted
<1> QED
  BY <1>4, <1>5

\* A list stays sorted while those in it keep their priorities.
LEMMA ListStaysSorted ==
  ASSUME Typed, [Next]_vars, NEW q \in Queues, NEW f \in Fns,
         Sorted(xTasksWaiting[<<q, f>>]),
         \A t \in Waiting(q, f) : uxPriority'[t] = uxPriority[t]
  PROVE  Sorted(xTasksWaiting[<<q, f>>])'
<1> DEFINE list == xTasksWaiting[<<q, f>>]  new == xTasksWaiting'[<<q, f>>]
<1>1. list \in Seq(Tasks) /\ Sorted(list) /\ uxPriority \in [Tasks -> Nat]
  BY DEF Typed, ListsTyped, PriorityTyped
<1>2. CASE InOrder(new, list)
  <2>1. \A i \in 1..Len(list) : list[i] \in Waiting(q, f)
    BY <1>1, LenProperties DEF Waiting, ToSet
  <2>2. \A i \in 1..Len(list) : uxPriority'[list[i]] = uxPriority[list[i]]
    BY <2>1
  <2>3. ASSUME NEW i \in 1..Len(new), NEW j \in 1..Len(new), i < j
        PROVE  uxPriority'[new[i]] >= uxPriority'[new[j]]
    <3>1. PICK a \in 1..Len(list), b \in 1..Len(list) : a < b /\ list[a] = new[i] /\ list[b] = new[j]
      BY <1>2, <2>3 DEF InOrder
    <3> HIDE DEF list, new
    <3> QED
      BY <1>1, <2>2, <3>1 DEF Sorted
  <2> QED
    BY <2>3 DEF Sorted
<1>3. ASSUME NEW t \in Tasks, PlaceOnEventList(t), new = InsertByPriority(list, t)
      PROVE  Sorted(list)'
  <2>1. UNCHANGED uxPriority
    BY <1>3 DEF PlaceOnEventList
  <2>2. Sorted(new)
    BY <1>1, <1>3, InsertByPriorityProperties
  <2> QED
    BY <2>1, <2>2 DEF Sorted
<1> QED
  BY <1>2, <1>3, ListsMove

\* The event lists stay sorted.
LEMMA SortedStep ==
  ASSUME Ground, ~Reprices, EventListsSorted, [Next]_vars
  PROVE  EventListsSorted'
<1>1. ASSUME NEW q \in Queues, NEW f \in Fns PROVE Sorted(xTasksWaiting[<<q, f>>])'
  <2>1. Sorted(xTasksWaiting[<<q, f>>])
    BY DEF EventListsSorted, Sorted
  <2> QED
    BY <2>1, WaitersKeepPriority, ListStaysSorted DEF Ground
<1> QED
  BY <1>1 DEF EventListsSorted, Sorted

-----------------------------------------------------------------------------
(* Waiters are respected. *)

\* A task about to block on a mutex sees it held, and by nobody it outranks.
Blockers ==
  \A t \in Tasks : TakesMutex(t) /\ pc[t] \in {"inherit", "place"} =>
    /\ pxMutexHolder[call[t].queue] \in Tasks
    /\ pc[t] = "place" => uxPriority[t] <= uxPriority[pxMutexHolder[call[t].queue]]

\* Task u was woken to take m, and goes on to try: none of those who still wait
\* outranks it, and it does not outrank the running task.
Heir(u, m) ==
  /\ stateList[u] = "ready"
  /\ pc[u] = "try" \/ (pc[u] = "yield" /\ outcome[u] = "blocked")
  /\ call[u].fn = "take" /\ call[u].queue = m
  /\ \A t \in Waiting(m, "take") : uxPriority[t] <= uxPriority[u]
  /\ uxPriority[u] <= uxPriority[pxCurrentTCB]

\* A free mutex somebody waits for has an heir.
Heirs ==
  \A m \in Mutexes : pxMutexHolder[m] = NULL /\ Waiting(m, "take") # {} => \E u \in Tasks : Heir(u, m)

\* Only the running task changes where it is in its call.
LEMMA OthersStay ==
  ASSUME Typed, [Next]_vars, NEW t \in Tasks, t # pxCurrentTCB
  PROVE  pc'[t] = pc[t] /\ call'[t] = call[t] /\ outcome'[t] = outcome[t] /\ xTicksToWait'[t] = xTicksToWait[t]
<1> USE DEF At, Goto
<1>1. ASSUME NEW r \in Tasks, r # t,
             \/ UNCHANGED pc
             \/ \E label : pc' = [pc EXCEPT ![r] = label],
             \/ UNCHANGED call
             \/ \E c : call' = [call EXCEPT ![r] = c],
             \/ UNCHANGED outcome
             \/ \E o : outcome' = [outcome EXCEPT ![r] = o],
             \/ UNCHANGED xTicksToWait
             \/ \E w : xTicksToWait' = [xTicksToWait EXCEPT ![r] = w]
      PROVE  pc'[t] = pc[t] /\ call'[t] = call[t] /\ outcome'[t] = outcome[t] /\ xTicksToWait'[t] = xTicksToWait[t]
  BY <1>1 DEF Typed, TasksTyped
<1> DEFINE Stays == pc'[t] = pc[t] /\ call'[t] = call[t] /\ outcome'[t] = outcome[t] /\ xTicksToWait'[t] = xTicksToWait[t]
<1> HIDE DEF Stays
<1>2. ASSUME NEW r \in Tasks, \E c \in Calls : Call(r, c) PROVE Stays
  BY <1>1, <1>2 DEF Call, Stays
<1>3. ASSUME NEW r \in Tasks, TrySucceeds(r) PROVE Stays
  BY <1>1, <1>3 DEF TrySucceeds, Stays
<1>4. ASSUME NEW r \in Tasks, TryFails(r) \/ SuspendAll(r) \/ LockQueue(r) \/ Retest(r) \/ TestQueue(r)
      PROVE  Stays
  BY <1>1, <1>4 DEF TryFails, SuspendAll, LockQueue, Retest, TestQueue, Stays
<1>5. ASSUME NEW r \in Tasks, \E timedOut \in BOOLEAN : CheckForTimeOut(r, timedOut) PROVE Stays
  BY <1>1, <1>5 DEF CheckForTimeOut, Stays
<1>6. ASSUME NEW r \in Tasks, PriorityInherit(r) \/ PriorityDisinheritAfterTimeout(r) PROVE Stays
  BY <1>1, <1>6 DEF PriorityInherit, PriorityDisinheritAfterTimeout, Stays
<1>7. ASSUME NEW r \in Tasks, PlaceOnEventList(r) PROVE Stays
  BY <1>1, <1>7 DEF PlaceOnEventList, Stays
<1>8. ASSUME NEW r \in Tasks, UnlockTx(r) \/ UnlockRx(r) PROVE Stays
  BY <1>1, <1>8 DEF UnlockTx, UnlockRx, Unlock, Stays
<1>9. ASSUME NEW r \in Tasks, ResumeAll(r) PROVE Stays
  BY <1>1, <1>9 DEF ResumeAll, Stays
<1>10. ASSUME NEW r \in Tasks, YieldWithinAPI(r) PROVE Stays
  BY <1>1, <1>10 DEF YieldWithinAPI, Stays
<1>11. Interrupt \/ UNCHANGED vars => Stays
  BY DEF Interrupt, Tick, PendTick, FromISR, vars, Stays
<1>12. Stays
  BY <1>2, <1>3, <1>4, <1>5, <1>6, <1>7, <1>8, <1>9, <1>10, <1>11 DEF Next, TaskStep
<1> QED
  BY <1>12 DEF Stays

\* A switch is to a ready task that none outranks.
LEMMA RunnerMoves ==
  ASSUME [Next]_vars
  PROVE  pxCurrentTCB' = pxCurrentTCB \/ pxCurrentTCB' \in HighestReady(stateList', uxPriority')
<1>1. ASSUME NEW needed, Yield(needed)
      PROVE  pxCurrentTCB' = pxCurrentTCB \/ pxCurrentTCB' \in HighestReady(stateList', uxPriority')
  BY <1>1 DEF Yield, SwitchContext
<1> DEFINE Moves == pxCurrentTCB' = pxCurrentTCB \/ pxCurrentTCB' \in HighestReady(stateList', uxPriority')
<1> HIDE DEF Moves
<1>2. ASSUME NEW t \in Tasks,
             \/ \E c \in Calls : Call(t, c)
             \/ TryFails(t) \/ SuspendAll(t) \/ LockQueue(t) \/ Retest(t)
             \/ \E timedOut \in BOOLEAN : CheckForTimeOut(t, timedOut)
             \/ TestQueue(t) \/ PriorityInherit(t) \/ PlaceOnEventList(t)
             \/ PriorityDisinheritAfterTimeout(t) \/ UnlockTx(t) \/ UnlockRx(t)
      PROVE  Moves
  BY <1>2 DEF Call, TryFails, SuspendAll, LockQueue, Retest, CheckForTimeOut, TestQueue,
              PriorityInherit, PlaceOnEventList, PriorityDisinheritAfterTimeout,
              UnlockTx, UnlockRx, Unlock, Moves
<1>3. ASSUME NEW t \in Tasks, TrySucceeds(t) PROVE Moves
  BY <1>1, <1>3 DEF TrySucceeds, Moves
<1>4. ASSUME NEW t \in Tasks, ResumeAll(t) PROVE Moves
  BY <1>1, <1>4 DEF ResumeAll, Moves
<1>5. ASSUME NEW t \in Tasks, YieldWithinAPI(t) PROVE Moves
  BY <1>5 DEF YieldWithinAPI, SwitchContext, Moves
<1>6. Interrupt \/ UNCHANGED vars => Moves
  BY <1>1 DEF Interrupt, Tick, PendTick, FromISR, vars, Moves
<1>7. Moves
  BY <1>2, <1>3, <1>4, <1>5, <1>6 DEF Next, TaskStep
<1> QED
  BY <1>7 DEF Moves

\* What a successful call does to the holders of mutexes; no other step changes them.
LEMMA HoldersMove ==
  ASSUME Typed, [Next]_vars, NEW m \in Mutexes, pxMutexHolder'[m] # pxMutexHolder[m]
  PROVE  \E t \in Tasks :
           /\ TrySucceeds(t) /\ pxCurrentTCB = t /\ pc[t] = "try" /\ call[t].queue = m
           /\ \A n \in Mutexes \ {m} : pxMutexHolder'[n] = pxMutexHolder[n]
           /\ \/ call[t].fn = "take" /\ pxMutexHolder'[m] = t /\ UNCHANGED uxPriority
              \/ call[t].fn = "send" /\ pxMutexHolder'[m] = NULL
<1>1. ASSUME NEW t \in Tasks, TrySucceeds(t)
      PROVE  /\ pxCurrentTCB = t /\ pc[t] = "try" /\ call[t].queue = m
             /\ \A n \in Mutexes \ {m} : pxMutexHolder'[n] = pxMutexHolder[n]
             /\ \/ call[t].fn = "take" /\ pxMutexHolder'[m] = t /\ UNCHANGED uxPriority
                \/ call[t].fn = "send" /\ pxMutexHolder'[m] = NULL
  <2> DEFINE q == call[t].queue
             f == call[t].fn
  <2>1. q \in Queues /\ f \in Fns /\ pc[t] = "try" /\ pxCurrentTCB = t
    BY <1>1, AtLabel DEF TrySucceeds, QueueLabels, At
  <2>2. UpdateMutex(t, q, f)
    BY <1>1 DEF TrySucceeds
  <2> HIDE DEF q, f
  <2>3. CASE q \notin Mutexes
    BY <2>2, <2>3 DEF UpdateMutex
  <2>4. CASE q \in Mutexes /\ f = "take"
    BY <2>1, <2>2, <2>4 DEF UpdateMutex, TakeMutex, Typed, PriorityTyped, q, f
  <2>5. CASE q \in Mutexes /\ f = "send"
    <3>1. GiveMutex(t, q)
      BY <2>2, <2>5 DEF UpdateMutex
    <3>2. pxMutexHolder' = [pxMutexHolder EXCEPT ![q] = NULL] /\ DOMAIN pxMutexHolder = Mutexes
      BY <3>1 DEF GiveMutex, Typed, PriorityTyped
    <3> QED
      BY <2>1, <2>5, <3>2 DEF q, f
  <2> QED
    BY <2>1, <2>3, <2>4, <2>5 DEF Fns, q, f
<1>3. ASSUME NEW t \in Tasks,
             \/ \E c \in Calls : Call(t, c)
             \/ TryFails(t) \/ SuspendAll(t) \/ LockQueue(t) \/ Retest(t)
             \/ \E timedOut \in BOOLEAN : CheckForTimeOut(t, timedOut)
             \/ TestQueue(t) \/ PriorityInherit(t) \/ PlaceOnEventList(t)
             \/ PriorityDisinheritAfterTimeout(t) \/ UnlockTx(t) \/ UnlockRx(t)
             \/ ResumeAll(t) \/ YieldWithinAPI(t)
      PROVE  FALSE
  BY <1>3 DEF Call, TryFails, SuspendAll, LockQueue, Retest, CheckForTimeOut, TestQueue,
              PriorityInherit, PlaceOnEventList, PriorityDisinheritAfterTimeout,
              UnlockTx, UnlockRx, Unlock, ResumeAll, YieldWithinAPI
<1>4. ~(Interrupt \/ UNCHANGED vars)
  BY DEF Interrupt, Tick, PendTick, FromISR, vars
<1>5. \E t \in Tasks : TrySucceeds(t)
  BY <1>3, <1>4 DEF Next, TaskStep
<1> QED
  BY <1>1, <1>5


\* A mutex is held when a task finds nothing to take.
LEMMA NothingMeansHeld ==
  ASSUME Typed, MutexInv, NEW m \in Mutexes, ~Possible(m, "take")
  PROVE  pxMutexHolder[m] \in Tasks
<1>1. uxMessagesWaiting[m] # 1
  BY DEF Possible
<1> QED
  BY <1>1 DEF MutexInv, MutexHolders, Typed, PriorityTyped

\* Every step keeps what a task about to block sees.
LEMMA BlockersStep ==
  ASSUME Ground, Ground', Blockers, [Next]_vars
  PROVE  Blockers'
<1> SUFFICES ASSUME NEW t \in Tasks, TakesMutex(t)', pc'[t] \in {"inherit", "place"}
             PROVE  /\ pxMutexHolder'[call'[t].queue] \in Tasks
                    /\ pc'[t] = "place" => uxPriority'[t] <= uxPriority'[pxMutexHolder'[call'[t].queue]]
  BY DEF Blockers
<1> USE DEF At, Goto
<1>0. pc'[t] \in Window
  BY DEF Window
<1>1. CASE UNCHANGED <<pc, call, prioVars>>
  BY <1>1 DEF Blockers, TakesMutex
<1>2. CASE ~UNCHANGED <<pc, call, prioVars>>
  <2>1. PICK r \in Tasks : TaskStep(r)
    <3>1. ~Interrupt /\ ~UNCHANGED vars
      BY <1>2 DEF Interrupt, Tick, PendTick, FromISR, vars
    <3> QED
      BY <3>1 DEF Next
  <2>2. r = pxCurrentTCB
    BY <2>1 DEF TaskStep, Call, TrySucceeds, TryFails, SuspendAll, LockQueue, CheckForTimeOut, TestQueue,
                PriorityInherit, PlaceOnEventList, UnlockTx, UnlockRx, ResumeAll, YieldWithinAPI, Retest,
                PriorityDisinheritAfterTimeout
  <2>3. t = r
    BY <1>0, <2>2, OthersStay DEF Ground, Suspension
  <2>4. TestQueue(t) \/ PriorityInherit(t) \/ SuspendAll(t)
    <3>1. ASSUME NEW label, label \notin {"inherit", "place"}, pc' = [pc EXCEPT ![t] = label] PROVE FALSE
      BY <3>1 DEF Ground, Typed, TasksTyped
    <3>2. After(t) \notin {"inherit", "place"}
      BY DEF After, Ground, Typed, TasksTyped
    <3>3. ~ResumeAll(t)
      BY <3>1, <3>2 DEF ResumeAll
    <3>4. ~YieldWithinAPI(t)
      BY <3>1, <3>2 DEF YieldWithinAPI
    <3>5. ~(\E c \in Calls : Call(t, c)) /\ ~TrySucceeds(t) /\ ~TryFails(t) /\ ~LockQueue(t) /\ ~Retest(t)
      BY <3>1 DEF Call, TrySucceeds, TryFails, LockQueue, Retest
    <3>6. ~(\E timedOut \in BOOLEAN : CheckForTimeOut(t, timedOut)) /\ ~PlaceOnEventList(t)
      BY <3>1 DEF CheckForTimeOut, PlaceOnEventList
    <3>7. ~UnlockTx(t) /\ ~UnlockRx(t) /\ ~PriorityDisinheritAfterTimeout(t)
      BY <3>1 DEF UnlockTx, UnlockRx, PriorityDisinheritAfterTimeout
    <3> QED
      BY <2>1, <2>3, <3>3, <3>4, <3>5, <3>6, <3>7 DEF TaskStep
  <2>5. CASE SuspendAll(t)
    BY <2>5 DEF SuspendAll, TakesMutex, Ground, Typed, TasksTyped
  <2>6. CASE TestQueue(t)
    <3>1. /\ UNCHANGED <<call, prioVars>> /\ call[t].queue \in Mutexes /\ call[t].fn = "take"
          /\ pc'[t] = "inherit" /\ ~Possible(call[t].queue, "take")
      BY <2>6 DEF TestQueue, TakesMutex, Ground, Typed, TasksTyped
    <3> QED
      BY <3>1, NothingMeansHeld DEF Ground
  <2>7. CASE PriorityInherit(t)
    <3> DEFINE h == pxMutexHolder[call[t].queue]
    <3>1. UNCHANGED <<call, pxMutexHolder>> /\ pc[t] = "inherit" /\ TakesMutex(t)
      BY <2>7 DEF PriorityInherit, TakesMutex
    <3>2. h \in Tasks /\ h # t /\ h # NULL
      BY <3>1, KernelAssumption DEF Blockers, Ground, OwnCalls
    <3>3. uxPriority \in [Tasks -> Nat]
      BY DEF Ground, Typed, PriorityTyped
    <3>4. uxPriority'[t] <= uxPriority'[h]
      BY <2>7, <3>2, <3>3 DEF PriorityInherit
    <3> QED
      BY <3>1, <3>2, <3>4
  <2> QED
    BY <2>4, <2>5, <2>6, <2>7
<1> QED
  BY <1>1, <1>2

\* A task holds one mutex only when it holds two and the count is one.
LEMMA OnlyOne ==
  ASSUME Typed, MutexInv, NEW t \in Tasks, uxMutexesHeld[t] = 1,
         NEW m \in Mutexes, NEW n \in Mutexes, pxMutexHolder[m] = t, pxMutexHolder[n] = t
  PROVE  m = n
<1>1. m \in Held(t) /\ n \in Held(t) /\ Cardinality(Held(t)) = 1 /\ IsFiniteSet(Held(t))
  BY HeldFinite DEF Held, MutexInv, MutexHolders
<1>2. \E x : Held(t) = {x}
  BY <1>1, FS_Singleton
<1> QED
  BY <1>1, <1>2

\* Who waits after a step waited before it, unless it just blocked.
LEMMA StillWaiting ==
  ASSUME Ground, [Next]_vars, NEW q \in Queues, NEW f \in Fns, NEW t \in Waiting(q, f)'
  PROVE  t \in Waiting(q, f) \/ (PlaceOnEventList(t) /\ t \in Tasks /\ call[t].queue = q /\ call[t].fn = f)
<1>1. CASE InOrder(xTasksWaiting'[<<q, f>>], xTasksWaiting[<<q, f>>])
  BY <1>1 DEF InOrder, Waiting
<1>2. ASSUME NEW r \in Tasks, PlaceOnEventList(r), call[r].queue = q, call[r].fn = f,
             xTasksWaiting'[<<q, f>>] = InsertByPriority(xTasksWaiting[<<q, f>>], r)
      PROVE  t \in Waiting(q, f) \/ t = r
  <2>1. xTasksWaiting[<<q, f>>] \in Seq(Tasks)
    BY DEF Ground, Typed, ListsTyped
  <2> QED
    BY <1>2, <2>1, InsertByPriorityProperties DEF Waiting
<1> QED
  BY <1>1, <1>2, ListsMove DEF Ground

\* The holders of mutexes go on outranking those who wait for them.
LEMMA HolderOutranksStep ==
  ASSUME Ground, Ground', ~Reprices, EventListsSorted, HolderOutranksWaiters, Blockers, Heirs, [Next]_vars
  PROVE  HolderOutranksWaiters'
<1> SUFFICES ASSUME NEW m \in Mutexes, NEW t \in Waiting(m, "take")', pxMutexHolder'[m] # NULL
             PROVE  uxPriority'[t] <= uxPriority'[pxMutexHolder'[m]]
  BY DEF HolderOutranksWaiters
<1> DEFINE h == pxMutexHolder[m]
<1>0. /\ m \in Queues /\ "take" \in Fns /\ uxPriority \in [Tasks -> Nat] /\ uxPriority' \in [Tasks -> Nat]
      /\ h \in Tasks \cup {NULL} /\ pxMutexHolder'[m] \in Tasks /\ pxCurrentTCB \in Tasks
  BY KernelAssumption DEF Fns, Ground, Typed, PriorityTyped, TasksTyped
<1>1. CASE t \notin Waiting(m, "take")
  <2>1. PlaceOnEventList(t) /\ t \in Tasks /\ call[t].queue = m /\ call[t].fn = "take"
    BY <1>0, <1>1, StillWaiting
  <2>2. UNCHANGED prioVars /\ pc[t] = "place" /\ TakesMutex(t)
    BY <2>1 DEF PlaceOnEventList, At, TakesMutex
  <2> QED
    BY <2>1, <2>2 DEF Blockers
<1>2. CASE t \in Waiting(m, "take") /\ pxMutexHolder'[m] # h
  <2>1. PICK r \in Tasks : /\ pxCurrentTCB = r /\ pxMutexHolder'[m] = r /\ UNCHANGED uxPriority
                           /\ call[r].fn = "take" /\ call[r].queue = m /\ pc[r] = "try" /\ TrySucceeds(r)
    BY <1>2, HoldersMove DEF Ground
  <2>2. h = NULL
    <3>1. Possible(m, "take") /\ uxMessagesWaiting[m] \in Nat /\ uxMessagesWaiting[m] <= 1
      BY <1>0, <2>1, KernelAssumption DEF TrySucceeds, Ground, Typed, QueuesTyped
    <3>2. uxMessagesWaiting[m] = 1
      BY <3>1 DEF Possible
    <3> QED
      BY <3>2 DEF Ground, MutexInv, MutexHolders
  <2>3. PICK u \in Tasks : Heir(u, m)
    BY <1>2, <2>2 DEF Heirs
  <2>4. t \in Tasks /\ uxPriority[t] <= uxPriority[u] /\ uxPriority[u] <= uxPriority[r]
    BY <1>0, <1>2, <2>1, <2>3, WaitersKeepPriority DEF Heir
  <2> QED
    BY <1>0, <2>1, <2>4
<1>3. CASE t \in Waiting(m, "take") /\ pxMutexHolder'[m] = h
  <2>1. t \in Tasks /\ uxPriority'[t] = uxPriority[t] /\ h \in Tasks /\ uxPriority[t] <= uxPriority[h]
    BY <1>0, <1>3, WaitersKeepPriority DEF HolderOutranksWaiters
  <2>2. CASE uxPriority'[h] = uxPriority[h]
    BY <1>0, <1>3, <2>1, <2>2
  <2>3. ASSUME NEW r \in Tasks, Dropped(r) PROVE uxPriority'[h] = uxPriority[h]
    <3>1. call[r].queue \in Mutexes /\ pxMutexHolder[call[r].queue] = r /\ uxMutexesHeld[r] = 1
      BY <2>3, Giver
    <3>2. pxMutexHolder'[call[r].queue] = NULL
      BY <2>3, <3>1, KernelAssumption
      DEF Dropped, GivesMutex, TrySucceeds, UpdateMutex, GiveMutex, Ground, Typed, PriorityTyped
    <3>3. call[r].queue # m
      BY <1>3, <2>1, <3>2, KernelAssumption
    <3>4. h # r
      BY <3>1, <3>3, OnlyOne DEF Ground
    <3> QED
      BY <1>0, <2>1, <2>3, <3>4 DEF Dropped
  <2>4. ASSUME NEW r \in Tasks, NEW g \in Tasks, Raised(r, g) PROVE uxPriority'[h] >= uxPriority[h]
    BY <1>0, <2>1, <2>4 DEF Raised
  <2>5. ASSUME NEW r \in Tasks, NEW g \in Tasks, Lowered(r, g)
        PROVE  uxPriority'[h] = uxPriority[h] \/ uxPriority'[h] >= uxPriority[t]
    <3>1. CASE g # h
      BY <1>0, <2>1, <2>5, <3>1 DEF Lowered
    <3>2. CASE g = h
      <4>1. call[r].queue = m
        <5>1. call[r].queue \in Mutexes /\ pxMutexHolder[call[r].queue] = h /\ uxMutexesHeld[h] = 1
          BY <2>1, <2>5, <3>2, Borrower DEF Lowered
        <5> QED
          BY <2>1, <5>1, OnlyOne DEF Ground
      <4>2. xTasksWaiting[<<m, "take">>] \in Seq(Tasks) /\ Sorted(xTasksWaiting[<<m, "take">>])
        BY <1>0 DEF Ground, Typed, ListsTyped, EventListsSorted, Sorted
      <4>3. uxPriority[t] <= HighestWaiting(m)
        BY <1>0, <1>3, <4>2, HeadIsHighest DEF Waiting, HighestWaiting
      <4>4. /\ HighestWaiting(m) \in Nat /\ BasePriority[h] \in Nat
            /\ uxPriority'[h] = IF BasePriority[h] < HighestWaiting(m) THEN HighestWaiting(m) ELSE BasePriority[h]
        <5>1. HighestWaiting(m) \in Nat /\ BasePriority[h] \in Nat
          BY <1>0, <1>3, <2>1, <4>2, HeadIsHighest, KernelAssumption DEF Waiting, HighestWaiting
        <5> QED
          BY <1>0, <2>1, <2>5, <3>2, <4>1, <5>1, KernelAssumption DEF Lowered, PriorityDisinheritAfterTimeout
      <4> QED
        BY <1>0, <2>1, <4>3, <4>4
    <3> QED
      BY <3>1, <3>2
  <2>6. uxPriority'[h] >= uxPriority[t]
    BY <1>0, <2>1, <2>2, <2>3, <2>4, <2>5, PriorityMoves DEF Ground
  <2> QED
    BY <1>0, <1>3, <2>1, <2>6
<1> QED
  BY <1>1, <1>2, <1>3

\* A task in the list of a mutex takes it.
LEMMA WaiterTakes ==
  ASSUME Ground, NEW m \in Mutexes, NEW w \in Waiting(m, "take")
  PROVE  /\ w \in Tasks /\ stateList[w] # "ready" /\ pc[w] # "app"
         /\ call[w].fn = "take" /\ call[w].queue = m
<1>1. m \in Queues /\ "take" \in Fns
  BY KernelAssumption DEF Fns
<1>2. w \in Tasks /\ call[w].queue = m /\ call[w].fn = "take" /\ stateList[w] # "ready" /\ pc[w] # "app"
  BY <1>1, InListOfCall DEF Ground, WaitersBlocked
<1> QED
  BY <1>2

\* A give that drops an inherited priority switches, if it does not wake a task below.
LEMMA DropSwitches ==
  ASSUME Ground, NEW r \in Tasks, Dropped(r),
         LET list == xTasksWaiting[<<call[r].queue, "take">>] IN
           list # <<>> => uxPriority[Head(list)] > BasePriority[r]
  PROVE  SwitchContext /\ uxSchedulerSuspended' = 0
<1> DEFINE q == call[r].queue
           list == xTasksWaiting[<<q, "take">>]
<1>1. /\ pxCurrentTCB = r /\ stateList[r] = "ready" /\ call[r].fn = "send" /\ q \in Mutexes
      /\ uxSchedulerSuspended = 0
  BY Giver
<1>2. Yield(YieldAfter(r, q, "send")) /\ uxSchedulerSuspended' = 0
  BY <1>1 DEF Dropped, TrySucceeds
<1>3. Other("send") = "take" /\ q \in Queues /\ "take" \in Fns /\ Disinherits(r)
  BY <1>1, KernelAssumption DEF Other, Fns, Dropped
<1>4. YieldAfter(r, q, "send")
  <2>1. CASE list = <<>>
    BY <1>1, <1>3, <2>1 DEF YieldAfter
  <2>2. CASE list # <<>>
    <3>1. list \in Seq(Tasks)
      BY <1>3 DEF Ground, Typed, ListsTyped
    <3>2. Head(list) \in Waiting(q, "take")
      BY <2>2, <3>1, HeadAndTail DEF Waiting
    <3>3. Head(list) \in Tasks /\ Head(list) # r
      BY <1>1, <3>2, WaiterTakes
    <3>4. uxPriority'[Head(list)] = uxPriority[Head(list)] /\ uxPriority'[r] = BasePriority[r]
      BY <3>3 DEF Dropped, Ground, Typed, PriorityTyped
    <3>5. uxPriority[Head(list)] > BasePriority[r]
      BY <2>2
    <3> HIDE DEF list
    <3> QED
      BY <1>1, <1>3, <2>2, <3>4, <3>5 DEF YieldAfter, Outranks, list
  <2> QED
    BY <2>1, <2>2
<1> QED
  BY <1>2, <1>4 DEF Yield

\* Which is so unless it swallows the switch.
LEMMA FreeToSwitch ==
  ASSUME Ground, NEW t \in Tasks, Dropped(t), ~SwallowsSwitch
  PROVE  LET list == xTasksWaiting[<<call[t].queue, "take">>] IN
           list # <<>> => uxPriority[Head(list)] > BasePriority[t]
<1> SUFFICES ASSUME xTasksWaiting[<<call[t].queue, "take">>] # <<>>
             PROVE  uxPriority[Head(xTasksWaiting[<<call[t].queue, "take">>])] > BasePriority[t]
  OBVIOUS
<1> DEFINE list == xTasksWaiting[<<call[t].queue, "take">>]
<1>1. call[t].queue \in Queues /\ "take" \in Fns
  BY Giver, KernelAssumption DEF Fns
<1>2. list \in Seq(Tasks) /\ uxPriority \in [Tasks -> Nat] /\ BasePriority \in [Tasks -> Nat]
  BY <1>1, KernelAssumption DEF Ground, Typed, ListsTyped, PriorityTyped
<1>3. Head(list) \in Tasks
  BY <1>2, HeadAndTail
<1>4. ~(uxPriority[Head(list)] <= BasePriority[t])
  BY Giver DEF SwallowsSwitch, Dropped
<1> HIDE DEF list
<1> QED
  BY <1>2, <1>3, <1>4 DEF list

\* A ready task stays so until it blocks itself.
LEMMA ReadyStays ==
  ASSUME Typed, [Next]_vars, NEW u \in Tasks, stateList[u] = "ready"
  PROVE  stateList'[u] = "ready" \/ PlaceOnEventList(u)
<1> DEFINE Stays == stateList'[u] = "ready"
<1>0. stateList \in [Tasks -> {"ready", "delayed", "suspended"}]
  BY DEF Typed, ListsTyped
<1>1. ASSUME NEW t \in Tasks,
             \/ \E c \in Calls : Call(t, c)
             \/ TryFails(t) \/ SuspendAll(t) \/ LockQueue(t) \/ Retest(t)
             \/ \E timedOut \in BOOLEAN : CheckForTimeOut(t, timedOut)
             \/ TestQueue(t) \/ PriorityInherit(t) \/ YieldWithinAPI(t)
             \/ PriorityDisinheritAfterTimeout(t) \/ UnlockTx(t) \/ UnlockRx(t)
      PROVE  Stays
  BY <1>1 DEF Call, TryFails, SuspendAll, LockQueue, Retest, CheckForTimeOut, TestQueue,
              PriorityInherit, YieldWithinAPI, PriorityDisinheritAfterTimeout,
              UnlockTx, UnlockRx, Unlock
<1>2. ASSUME NEW t \in Tasks, TrySucceeds(t) PROVE Stays
  <2>1. call[t].queue \in Queues /\ Other(call[t].fn) \in Fns /\ WakeOne(call[t].queue, Other(call[t].fn))
    BY <1>2, AtLabel, OtherType DEF TrySucceeds, QueueLabels
  <2> QED
    BY <2>1, WakeOneReadies DEF Readied
<1>3. ASSUME NEW t \in Tasks, t # u, PlaceOnEventList(t) PROVE Stays
  BY <1>0, <1>3 DEF PlaceOnEventList
<1>4. ASSUME NEW t \in Tasks, ResumeAll(t) PROVE Stays
  BY <1>4 DEF ResumeAll
<1>5. Tick \/ PendTick \/ UNCHANGED vars => Stays
  BY DEF Tick, PendTick, vars
<1>6. ASSUME NEW q \in Queues, NEW f \in Fns, FromISR(q, f) PROVE Stays
  BY <1>6, OtherType, WakeOneReadies DEF FromISR, Readied
<1> QED
  BY <1>1, <1>2, <1>3, <1>4, <1>5, <1>6 DEF Next, TaskStep, Interrupt

\* The heir of a mutex goes on to try, unless it takes it.
LEMMA HeirGoesOn ==
  ASSUME Ground, [Next]_vars, NEW m \in Mutexes, NEW u \in Tasks,
         pxMutexHolder[m] = NULL, pxMutexHolder'[m] = NULL,
         pc[u] = "try" \/ (pc[u] = "yield" /\ outcome[u] = "blocked"),
         call[u].fn = "take", call[u].queue = m
  PROVE  /\ pc'[u] = "try" \/ (pc'[u] = "yield" /\ outcome'[u] = "blocked")
         /\ call'[u].fn = "take" /\ call'[u].queue = m /\ ~PlaceOnEventList(u)
<1> USE DEF At, Goto
<1>0. ~PlaceOnEventList(u)
  BY DEF PlaceOnEventList
<1>1. CASE u # pxCurrentTCB
  BY <1>0, <1>1, OthersStay DEF Ground
<1>2. CASE UNCHANGED <<pc, call, outcome>>
  BY <1>0, <1>2
<1>3. CASE u = pxCurrentTCB /\ ~UNCHANGED <<pc, call, outcome>>
  <2>1. TaskStep(u)
    <3>1. ~Interrupt /\ ~UNCHANGED vars
      BY <1>3 DEF Interrupt, Tick, PendTick, FromISR, vars
    <3>2. PICK r \in Tasks : TaskStep(r)
      BY <3>1 DEF Next
    <3>3. r = pxCurrentTCB
      BY <3>2 DEF TaskStep, Call, TrySucceeds, TryFails, SuspendAll, LockQueue, CheckForTimeOut, TestQueue,
                  PriorityInherit, PlaceOnEventList, UnlockTx, UnlockRx, ResumeAll, YieldWithinAPI, Retest,
                  PriorityDisinheritAfterTimeout
    <3> QED
      BY <1>3, <3>2, <3>3
  <2>2. TrySucceeds(u) \/ TryFails(u) \/ YieldWithinAPI(u)
    BY <2>1 DEF TaskStep, Call, SuspendAll, LockQueue, CheckForTimeOut, TestQueue,
                PriorityInherit, PlaceOnEventList, UnlockTx, UnlockRx, ResumeAll, Retest,
                PriorityDisinheritAfterTimeout
  <2>3. CASE TrySucceeds(u)
    <3>1. TakeMutex(u, m)
      BY <2>3 DEF TrySucceeds, UpdateMutex
    <3>2. pxMutexHolder'[m] = u
      BY <3>1 DEF TakeMutex, Ground, Typed, PriorityTyped
    <3> QED
      BY <3>2, KernelAssumption
  <2>4. CASE TryFails(u)
    <3>1. pxMutexHolder[m] \in Tasks
      BY <2>4, NothingMeansHeld DEF TryFails, Ground
    <3> QED
      BY <3>1, KernelAssumption
  <2>5. CASE YieldWithinAPI(u)
    <3>1. pc[u] = "yield" /\ outcome[u] = "blocked" /\ pc' = [pc EXCEPT ![u] = After(u)] /\ UNCHANGED call
      BY <2>5 DEF YieldWithinAPI
    <3>2. pc'[u] = "try"
      BY <3>1 DEF After, Ground, Typed, TasksTyped
    <3> QED
      BY <1>0, <3>1, <3>2
  <2> QED
    BY <2>2, <2>3, <2>4, <2>5
<1> QED
  BY <1>1, <1>2, <1>3

\* The give of a mutex others wait for makes the first of them its heir.
LEMMA GiveMakesHeir ==
  ASSUME Ground, Ground', ~Reprices, EventListsSorted, [Next]_vars,
         NEW m \in Mutexes, pxMutexHolder[m] # NULL, pxMutexHolder'[m] = NULL,
         Waiting(m, "take") # {},
         \A t \in Waiting(m, "take")' : t \in Waiting(m, "take")
  PROVE  \E u \in Tasks : Heir(u, m)'
<1> DEFINE list == xTasksWaiting[<<m, "take">>]
<1>0. /\ m \in Queues /\ "take" \in Fns /\ uxPriority \in [Tasks -> Nat] /\ uxPriority' \in [Tasks -> Nat]
      /\ list \in Seq(Tasks) /\ Sorted(list) /\ pxCurrentTCB \in Tasks /\ pxCurrentTCB' \in Tasks
      /\ stateList \in [Tasks -> {"ready", "delayed", "suspended"}]
  BY KernelAssumption DEF Fns, Ground, Typed, PriorityTyped, TasksTyped, ListsTyped, EventListsSorted, Sorted
<1>1. PICK r \in Tasks : /\ TrySucceeds(r) /\ pxCurrentTCB = r /\ pc[r] = "try" /\ call[r].queue = m
                         /\ call[r].fn = "send"
                         /\ \A n \in Mutexes \ {m} : pxMutexHolder'[n] = pxMutexHolder[n]
  BY HoldersMove, KernelAssumption DEF Ground
<1>2. PICK u \in Tasks : list # <<>> /\ u = Head(list) /\ u \in Waiting(m, "take")
  <2>1. list # <<>>
    BY <1>0, HeadIsHighest DEF Waiting
  <2> QED
    BY <1>0, <2>1, HeadAndTail DEF Waiting
<1>3. /\ stateList[u] # "ready" /\ call[u].fn = "take" /\ call[u].queue = m
      /\ pc[u] \in {"unlockTx", "unlockRx", "resume", "yield", "try"} /\ outcome[u] = "blocked"
  <2>1. stateList[u] # "ready" /\ call[u].fn = "take" /\ call[u].queue = m
    BY <1>2, WaiterTakes
  <2>2. pc[u] \in {"unlockTx", "unlockRx", "resume", "yield", "try"} /\ outcome[u] = "blocked"
    BY <1>0, <1>2 DEF Ground, WaitersBlocked
  <2> QED
    BY <2>1, <2>2
<1>4. r # u /\ pc[u] \notin Window /\ uxSchedulerSuspended = 0
  BY <1>1, <1>2, <1>3 DEF Ground, Suspension, Window, RunnerReady
<1>5. pc'[u] \in {"yield", "try"} /\ outcome'[u] = "blocked" /\ call'[u] = call[u]
  BY <1>1, <1>2, <1>3, <1>4, OthersStay DEF Window, Ground
<1>6. /\ WakeOne(m, "take") /\ uxSchedulerSuspended' = 0 /\ Yield(YieldAfter(r, m, "send"))
  BY <1>1, <1>4 DEF TrySucceeds, Other
<1>7. stateList'[u] = "ready"
  <2>1. stateList' = [stateList EXCEPT ![u] = "ready"]
    BY <1>2, <1>4, <1>6 DEF WakeOne, RemoveFromEventList
  <2> QED
    BY <1>0, <1>2, <2>1
<1>8. \A t \in Waiting(m, "take")' : uxPriority'[t] <= uxPriority'[u]
  <2>1. \A t \in Waiting(m, "take") : uxPriority[t] <= uxPriority[u]
    BY <1>0, <1>2, HeadIsHighest DEF Waiting
  <2>2. \A t \in Waiting(m, "take") : uxPriority'[t] = uxPriority[t]
    BY <1>0, WaitersKeepPriority
  <2> QED
    BY <1>2, <2>1, <2>2
<1>9. uxPriority'[u] <= uxPriority'[pxCurrentTCB']
  <2>1. CASE YieldAfter(r, m, "send")
    <3>1. pxCurrentTCB' \in HighestReady(stateList', uxPriority')
      BY <1>6, <2>1 DEF Yield, SwitchContext
    <3> QED
      BY <1>2, <1>7, <3>1 DEF HighestReady, Ready
  <2>2. CASE ~YieldAfter(r, m, "send")
    <3>1. pxCurrentTCB' = pxCurrentTCB /\ ~Outranks(m, "take")
      BY <1>2, <1>6, <2>2 DEF Yield, YieldAfter, Other
    <3>2. ~(uxPriority'[u] > uxPriority'[pxCurrentTCB])
      BY <1>2, <3>1 DEF Outranks
    <3> QED
      BY <1>0, <1>2, <3>1, <3>2
  <2> QED
    BY <2>1, <2>2
<1>10. Heir(u, m)'
  BY <1>3, <1>5, <1>7, <1>8, <1>9 DEF Heir
<1> QED
  BY <1>2, <1>10

\* Free mutexes keep having heirs.
LEMMA HeirsStep ==
  ASSUME Ground, Ground', ~Reprices, ~SwallowsSwitch,
         EventListsSorted, Blockers, Heirs, [Next]_vars
  PROVE  Heirs'
<1> SUFFICES ASSUME NEW m \in Mutexes, pxMutexHolder'[m] = NULL, NEW w \in Waiting(m, "take")'
             PROVE  \E u \in Tasks : Heir(u, m)'
  BY DEF Heirs
<1>0. /\ m \in Queues /\ "take" \in Fns /\ uxPriority \in [Tasks -> Nat] /\ uxPriority' \in [Tasks -> Nat]
      /\ pxCurrentTCB \in Tasks /\ pxCurrentTCB' \in Tasks
  BY KernelAssumption DEF Fns, Ground, Typed, PriorityTyped, TasksTyped
<1>1. ASSUME NEW t \in Waiting(m, "take")' PROVE t \in Waiting(m, "take")
  <2>1. ASSUME t \in Tasks, PlaceOnEventList(t), call[t].queue = m, call[t].fn = "take" PROVE FALSE
    <3>1. UNCHANGED prioVars /\ TakesMutex(t) /\ pc[t] = "place"
      BY <2>1 DEF PlaceOnEventList, At, TakesMutex
    <3> QED
      BY <2>1, <3>1, KernelAssumption DEF Blockers
  <2> QED
    BY <1>0, <2>1, StillWaiting
<1>2. CASE pxMutexHolder[m] # NULL
  BY <1>1, <1>2, GiveMakesHeir
<1>3. CASE pxMutexHolder[m] = NULL
  <2>1. PICK u \in Tasks : Heir(u, m)
    BY <1>1, <1>3 DEF Heirs
  <2>2. /\ stateList[u] = "ready" /\ call[u].fn = "take" /\ call[u].queue = m
        /\ pc[u] = "try" \/ (pc[u] = "yield" /\ outcome[u] = "blocked")
        /\ \A t \in Waiting(m, "take") : uxPriority[t] <= uxPriority[u]
        /\ uxPriority[u] <= uxPriority[pxCurrentTCB]
    BY <2>1 DEF Heir
  <2>3. /\ pc'[u] = "try" \/ (pc'[u] = "yield" /\ outcome'[u] = "blocked")
        /\ call'[u].fn = "take" /\ call'[u].queue = m /\ stateList'[u] = "ready"
    BY <1>3, <2>2, HeirGoesOn, ReadyStays DEF Ground
  <2>4. uxPriority'[u] = uxPriority[u]
    <3>1. ASSUME NEW r \in Tasks, Dropped(r) PROVE uxPriority'[u] = uxPriority[u]
      <4>1. r # u
        BY <2>2, <3>1, Giver
      <4> QED
        BY <3>1, <4>1 DEF Dropped, Ground, Typed, PriorityTyped
    <3>2. ASSUME NEW r \in Tasks, NEW h \in Tasks, Raised(r, h) \/ Lowered(r, h)
          PROVE  uxPriority'[u] = uxPriority[u]
      <4>1. CASE h = u
        <5>1. u # pxCurrentTCB /\ TakesMutex(u)
          BY <2>2, <3>2, <4>1, Borrower DEF TakesMutex
        <5> QED
          BY <5>1 DEF Reprices
      <4>2. CASE h # u
        BY <3>2, <4>2 DEF Raised, Lowered, Ground, Typed, PriorityTyped
      <4> QED
        BY <4>1, <4>2
    <3> QED
      BY <3>1, <3>2, PriorityMoves DEF Ground
  <2>5. \A t \in Waiting(m, "take")' : uxPriority'[t] <= uxPriority'[u]
    BY <1>0, <1>1, <2>2, <2>4, WaitersKeepPriority
  <2>6. pxCurrentTCB' \in HighestReady(stateList', uxPriority') => uxPriority'[u] <= uxPriority'[pxCurrentTCB']
    BY <2>3 DEF HighestReady, Ready
  <2>7. ASSUME NEW r \in Tasks, Dropped(r) PROVE pxCurrentTCB' \in HighestReady(stateList', uxPriority')
    <3> DEFINE q == call[r].queue
               list == xTasksWaiting[<<q, "take">>]
    <3>1. /\ pxCurrentTCB = r /\ pc[r] = "try" /\ call[r].fn = "send" /\ q \in Mutexes
          /\ pxMutexHolder[q] = r /\ stateList[r] = "ready"
      BY <2>7, Giver
    <3>2. list # <<>> => uxPriority[Head(list)] > BasePriority[r]
      BY <2>7, <3>1, FreeToSwitch
    <3> QED
      BY <2>7, <3>2, DropSwitches DEF SwitchContext
  <2>8. pxCurrentTCB' = pxCurrentTCB => uxPriority'[u] <= uxPriority'[pxCurrentTCB']
    <3>1. ASSUME NEW r \in Tasks, NEW h \in Tasks, Raised(r, h) \/ Lowered(r, h)
          PROVE  uxPriority'[pxCurrentTCB] = uxPriority[pxCurrentTCB]
      <4>1. h # pxCurrentTCB
        BY <3>1, Borrower
      <4> QED
        BY <1>0, <3>1, <4>1 DEF Raised, Lowered
    <3> QED
      BY <1>0, <2>2, <2>4, <2>6, <2>7, <3>1, PriorityMoves DEF Ground
  <2>9. uxPriority'[u] <= uxPriority'[pxCurrentTCB']
    BY <2>6, <2>8, RunnerMoves
  <2> QED
    BY <2>3, <2>5, <2>9 DEF Heir
<1> QED
  BY <1>2, <1>3

\* What keeps waiters respected, step by step.
Respect == EventListsSorted /\ HolderOutranksWaiters /\ Blockers /\ Heirs

\* Nobody waits at first.
LEMMA RespectInit == Init => Respect
<1>1. ASSUME NEW q \in Queues, NEW f \in Fns, Init PROVE Len(xTasksWaiting[<<q, f>>]) = 0 /\ Waiting(q, f) = {}
  BY <1>1 DEF Init, Waiting, ToSet
<1>2. Init => EventListsSorted
  BY <1>1 DEF EventListsSorted
<1>3. Init => HolderOutranksWaiters /\ Heirs
  BY <1>1, KernelAssumption DEF HolderOutranksWaiters, Heirs, Fns
<1>4. Init => Blockers
  BY DEF Init, Blockers, TakesMutex
<1> QED
  BY <1>2, <1>3, <1>4 DEF Respect

\* Every step but those two keeps waiters respected.
LEMMA RespectStep ==
  ASSUME Ground, Ground', ~Reprices, ~SwallowsSwitch, Respect, [Next]_vars
  PROVE  Respect'
BY SortedStep, HolderOutranksStep, BlockersStep, HeirsStep DEF Respect

\* Of all steps only two can end the respect of waiters, whatever is nested and times out: one
\* that changes the priority of another task that waits, as xTaskPriorityInherit does to a
\* holder that itself waits for a mutex, and a give that swallows the switch it makes due.
THEOREM OnlyTwoStepsDisregard ==
  Spec => [][Respect => Respect' \/ Reprices \/ SwallowsSwitch]_vars
<1>1. Ground /\ Ground' /\ [Next]_vars => [Respect => Respect' \/ Reprices \/ SwallowsSwitch]_vars
  BY RespectStep
<1> QED
  BY <1>1, AlwaysGround, PTL DEF Spec

\* Up to the first such step the holder of a mutex is outranked by nobody who waits for
\* it, and the event lists are sorted.
THEOREM WaitersAreRespectedOtherwise ==
  Spec /\ [][~Reprices /\ ~SwallowsSwitch]_vars => []WaitersRespected
<1>1. Ground /\ Ground' /\ Respect /\ [Next]_vars /\ [~Reprices /\ ~SwallowsSwitch]_vars => Respect'
  <2>1. UNCHANGED vars /\ Respect => Respect'
    BY DEF vars, schedVars, prioVars, callVars, Respect, EventListsSorted, HolderOutranksWaiters, Blockers, Heirs,
           Heir, TakesMutex, Waiting
  <2> QED
    BY <2>1, RespectStep
<1>2. Respect => WaitersRespected
  BY DEF Respect, WaitersRespected
<1> QED
  BY <1>1, <1>2, RespectInit, AlwaysGround, PTL DEF Spec

-----------------------------------------------------------------------------
(* The highest priority runs while priorities change. *)

\* A step that changes a priority leaves nobody above the running task, but for two.
LEMMA PriorityStepKeepsRunner ==
  ASSUME Ground, Ground', NobodyOutranks, ~UNCHANGED uxPriority, [Next]_vars,
         ~SwallowsSwitch, ~RaisesAtTimeOut
  PROVE  NobodyOutranks'
<1>0. uxPriority \in [Tasks -> Nat] /\ uxPriority' \in [Tasks -> Nat] /\ pxCurrentTCB \in Tasks
  BY DEF Ground, Typed, PriorityTyped, TasksTyped
<1>1. ASSUME NEW t \in Tasks, Dropped(t) PROVE NobodyOutranks'
  <2> DEFINE list == xTasksWaiting[<<call[t].queue, "take">>]
  <2>1. list # <<>> => uxPriority[Head(list)] > BasePriority[t]
    BY <1>1, FreeToSwitch
  <2> QED
    BY <1>1, <2>1, DropSwitches, SwitchToHighest
<1>2. ASSUME NEW t \in Tasks, NEW h \in Tasks, Raised(t, h) PROVE NobodyOutranks'
  <2>1. pxCurrentTCB = t /\ h # t /\ UNCHANGED <<pxCurrentTCB, stateList>>
    BY <1>2, Borrower
  <2> QED
    BY <1>0, <1>2, <2>1 DEF Raised, NobodyOutranks, Ready
<1>3. ASSUME NEW t \in Tasks, NEW h \in Tasks, Lowered(t, h) PROVE NobodyOutranks'
  <2>1. pxCurrentTCB = t /\ h # t /\ UNCHANGED <<pxCurrentTCB, stateList>>
    BY <1>3, Borrower
  <2>2. uxPriority'[h] <= uxPriority[h] /\ \A u \in Tasks \ {h} : uxPriority'[u] = uxPriority[u]
    BY <1>0, <1>3, <2>1 DEF Lowered, RaisesAtTimeOut
  <2> QED
    BY <1>0, <2>1, <2>2 DEF NobodyOutranks, Ready
<1> QED
  BY <1>1, <1>2, <1>3, PriorityMoves DEF Ground

\* NothingElseOutranks: for any tasks, calls, nests of mutexes and time-outs, and any
\* interrupts, a ready task comes to outrank the running one in two kinds of step only.
THEOREM OnlyTwoStepsOutrank == Spec => NothingElseOutranks
<1>1. Ground /\ Ground' /\ [Next]_vars
      => [NobodyOutranks => NobodyOutranks' \/ SwallowsSwitch \/ RaisesAtTimeOut]_vars
  <2> SUFFICES ASSUME Ground, Ground', [Next]_vars, NobodyOutranks, ~SwallowsSwitch, ~RaisesAtTimeOut
               PROVE  NobodyOutranks'
    OBVIOUS
  <2>1. CASE UNCHANGED uxPriority
    BY <2>1, NobodyOutranksStep DEF Ground
  <2>2. CASE ~UNCHANGED uxPriority
    BY <2>2, PriorityStepKeepsRunner
  <2> QED
    BY <2>1, <2>2
<1> QED
  BY <1>1, AlwaysGround, PTL DEF Spec, NothingElseOutranks

-----------------------------------------------------------------------------
(* Calls are atomic. *)

\* What a call has found out about its wait, from its first try to its end: it waits
\* for ever from the beginning to the end or not at all, blocks only if it may wait, and
\* ends for the time only when its wait is over.
WaitsAsAsked ==
  \A t \in Tasks : pc[t] # "app" =>
    /\ xTicksToWait[t] = "portMAX_DELAY" <=> call[t].wait = "portMAX_DELAY"
    /\ call[t].fn \in Fns =>
         /\ pc[t] # "try" \/ xTicksToWait[t] # "none" => call[t].wait # "none"
         /\ pc[t] \in {"test", "inherit", "place"} => outcome[t] # "timedOut"
         /\ pc[t] \in {"unlockTx", "unlockRx", "resume", "yield"} /\ outcome[t] = "timedOut" =>
              xTicksToWait[t] # "portMAX_DELAY"
         /\ pc[t] \in {"retest", "disinherit"} => xTicksToWait[t] # "portMAX_DELAY" /\ call[t].fn = "take"

\* Where a call goes once the scheduler runs again.
LEMMA WhereNext ==
  ASSUME Typed, OutcomeFits, NEW t \in Tasks, pc[t] \in {"resume", "yield"}
  PROVE  /\ call[t].fn \in Fns => After(t) = IF outcome[t] = "timedOut"
                                             THEN IF call[t].fn = "send" THEN "app" ELSE "retest"
                                             ELSE "try"
         /\ call[t].fn \notin Fns => After(t) = "app"
<1>1. outcome[t] \in {"again", "timedOut", "blocked", "delayed"}
  BY DEF Typed, TasksTyped
<1>2. call[t].fn \in Fns => outcome[t] # "delayed"
  BY DEF OutcomeFits, OutcomeLabels
<1>3. call[t].fn \notin Fns => outcome[t] = "delayed"
  BY DEF Typed, CallsFitLabels
<1> QED
  BY <1>1, <1>2, <1>3 DEF After

\* Every step keeps waits as they were asked for.
LEMMA WaitsAsAskedStep ==
  ASSUME Ground, WaitsAsAsked, [Next]_vars
  PROVE  WaitsAsAsked'
<1> USE DEF At, Goto
<1> DEFINE Asked(t) == pc[t] # "app" =>
      /\ xTicksToWait[t] = "portMAX_DELAY" <=> call[t].wait = "portMAX_DELAY"
      /\ call[t].fn \in Fns =>
           /\ pc[t] # "try" \/ xTicksToWait[t] # "none" => call[t].wait # "none"
           /\ pc[t] \in {"test", "inherit", "place"} => outcome[t] # "timedOut"
           /\ pc[t] \in {"unlockTx", "unlockRx", "resume", "yield"} /\ outcome[t] = "timedOut" =>
                xTicksToWait[t] # "portMAX_DELAY"
           /\ pc[t] \in {"retest", "disinherit"} => xTicksToWait[t] # "portMAX_DELAY" /\ call[t].fn = "take"
<1> SUFFICES ASSUME NEW t \in Tasks PROVE Asked(t)'
  BY DEF WaitsAsAsked
<1>0. Typed /\ OutcomeFits /\ Asked(t)
  BY DEF WaitsAsAsked, Ground
<1>1. CASE t # pxCurrentTCB
  BY <1>0, <1>1, OthersStay
<1>2. ASSUME NEW c \in Calls, Call(t, c) PROVE Asked(t)'
  BY <1>0, <1>2 DEF Call, Fns, Typed, TasksTyped
<1>3. CASE TrySucceeds(t)
  BY <1>0, <1>3 DEF TrySucceeds, Typed, TasksTyped
<1>4. CASE TryFails(t) \/ SuspendAll(t) \/ LockQueue(t)
  BY <1>0, <1>4 DEF TryFails, SuspendAll, LockQueue, Fns, Typed, TasksTyped
<1>5. ASSUME NEW timedOut \in BOOLEAN, CheckForTimeOut(t, timedOut) PROVE Asked(t)'
  BY <1>0, <1>5 DEF CheckForTimeOut, MayTimeOut, Typed, TasksTyped
<1>6. CASE TestQueue(t) \/ PriorityInherit(t) \/ PlaceOnEventList(t)
  BY <1>0, <1>6 DEF TestQueue, PriorityInherit, PlaceOnEventList, Typed, TasksTyped
<1>7. CASE Retest(t) \/ PriorityDisinheritAfterTimeout(t)
  BY <1>0, <1>7 DEF Retest, PriorityDisinheritAfterTimeout, Typed, TasksTyped
<1>8. CASE UnlockTx(t) \/ UnlockRx(t)
  BY <1>0, <1>8 DEF UnlockTx, UnlockRx, Unlock, Typed, TasksTyped
<1>9. CASE ResumeAll(t) \/ YieldWithinAPI(t)
  <2>1. UNCHANGED <<call, xTicksToWait, outcome>> /\ pc[t] \in {"resume", "yield"}
        /\ (pc'[t] = After(t) \/ pc'[t] = "yield")
    BY <1>0, <1>9 DEF ResumeAll, YieldWithinAPI, Typed, TasksTyped
  <2>2. call[t].fn \in Fns => call[t].fn = "send" \/ call[t].fn = "take"
    BY DEF Fns
  <2> QED
    BY <1>0, <2>1, <2>2, WhereNext
<1>10. CASE Interrupt \/ UNCHANGED vars
  <2>1. UNCHANGED <<pc, call, xTicksToWait, outcome>>
    BY <1>10 DEF Interrupt, Tick, PendTick, FromISR, vars
  <2> QED
    BY <1>0, <2>1
<1>11. ASSUME NEW r \in Tasks, TaskStep(r) PROVE r = pxCurrentTCB
  BY <1>11 DEF TaskStep, Call, TrySucceeds, TryFails, SuspendAll, LockQueue, CheckForTimeOut, TestQueue,
               PriorityInherit, PlaceOnEventList, UnlockTx, UnlockRx, ResumeAll, YieldWithinAPI, Retest,
               PriorityDisinheritAfterTimeout
<1> HIDE DEF Asked
<1>12. CASE TaskStep(t)
  BY <1>2, <1>3, <1>4, <1>5, <1>6, <1>7, <1>8, <1>9, <1>12 DEF TaskStep
<1> QED
  BY <1>1, <1>10, <1>11, <1>12 DEF Next

\* Where a call has nothing left to do but return.
Over == {"app", "disinherit"}

\* A step of task t moves it on in its call, or ends the call.
LEMMA UnfinishedMoves ==
  ASSUME Typed, NEW t \in Tasks, NEW label, pc' = [pc EXCEPT ![t] = label], UNCHANGED call
  PROVE  /\ pc[t] \notin Over /\ label \notin Over => UNCHANGED Unfinished
         /\ pc[t] \in Over /\ label \in Over => UNCHANGED Unfinished
         /\ label \in Over => Unfinished' = [Unfinished EXCEPT ![t] = NULL]
<1>1. pc \in [Tasks -> Labels]
  BY DEF Typed, TasksTyped
<1>2. \A u \in Tasks : pc'[u] = IF u = t THEN label ELSE pc[u]
  BY <1>1
<1> QED
  BY <1>2 DEF Unfinished, Over

\* A call under way is unfinished.
LEMMA UnfinishedIsCall ==
  ASSUME NEW t \in Tasks, pc[t] \notin Over
  PROVE  Unfinished[t] = call[t]
BY DEF Unfinished, Over

\* Every step of the kernel is one of an atomic call, or none.
LEMMA AtomicStep ==
  ASSUME Ground, Ground', WaitsAsAsked, [Next]_vars
  PROVE  [Atomic!Next]_<<uxMessagesWaiting, pxMutexHolder, Unfinished>>
<1> USE DEF At, Goto
<1> DEFINE Same == UNCHANGED <<uxMessagesWaiting, pxMutexHolder, Unfinished>>
<1>0. Typed /\ MutexInv /\ OwnCalls /\ OutcomeFits
  BY DEF Ground
<1>1. ASSUME NEW t \in Tasks, NEW c \in Calls, Call(t, c) PROVE Atomic!Next
  <2>1. Unfinished[t] = NULL /\ UNCHANGED <<uxMessagesWaiting, pxMutexHolder>> /\ c.task = t
    BY <1>1 DEF Call, Unfinished
  <2>2. \A u \in Tasks : /\ pc'[u] = IF u = t THEN (IF c.fn = "delay" THEN "suspend" ELSE "try") ELSE pc[u]
                         /\ call'[u] = IF u = t THEN c ELSE call[u]
    BY <1>0, <1>1 DEF Call, Typed, TasksTyped
  <2>3. Unfinished' = [Unfinished EXCEPT ![t] = c]
    BY <2>2 DEF Unfinished
  <2> QED
    BY <2>1, <2>3 DEF Atomic!Next, Atomic!Begin
<1>2. ASSUME NEW t \in Tasks, TrySucceeds(t) PROVE Atomic!Next
  <2> DEFINE q == call[t].queue  f == call[t].fn
  <2>1. /\ pc[t] = "try" /\ call[t] \in Calls /\ q \in Queues /\ f \in Fns
        /\ Possible(q, f) /\ Transfer(q, f) /\ UpdateMutex(t, q, f)
        /\ pc' = [pc EXCEPT ![t] = "app"] /\ UNCHANGED call
    BY <1>0, <1>2, AtLabel DEF TrySucceeds, QueueLabels
  <2>2. Unfinished[t] = call[t] /\ Unfinished' = [Unfinished EXCEPT ![t] = NULL]
    BY <1>0, <2>1, UnfinishedIsCall, UnfinishedMoves DEF Over
  <2>3. Atomic!Effect(q, f) /\ f # "delay"
    BY <2>1 DEF Atomic!Effect, Atomic!Possible, Possible, Transfer, Fns
  <2>4. CASE q \notin Mutexes
    <3>1. UNCHANGED pxMutexHolder
      BY <2>1, <2>4 DEF UpdateMutex
    <3> QED
      BY <2>1, <2>2, <2>3, <2>4, <3>1 DEF Atomic!Next, Atomic!Succeed, Atomic!Ends
  <2>5. CASE q \in Mutexes /\ f = "take"
    <3>1. pxMutexHolder' = [pxMutexHolder EXCEPT ![q] = t]
      BY <2>1, <2>5 DEF UpdateMutex, TakeMutex
    <3>2. uxMessagesWaiting[q] = 1
      BY <1>0, <2>1, <2>5, KernelAssumption DEF Possible, Typed, QueuesTyped
    <3>3. pxMutexHolder[q] = NULL
      BY <1>0, <2>5, <3>2 DEF MutexInv, MutexHolders
    <3> QED
      BY <2>1, <2>2, <2>3, <2>5, <3>1, <3>3 DEF Atomic!Next, Atomic!Succeed, Atomic!Ends, Atomic!PassesOn
  <2>6. CASE q \in Mutexes /\ f = "send"
    <3>1. pxMutexHolder' = [pxMutexHolder EXCEPT ![q] = NULL]
      BY <2>1, <2>6 DEF UpdateMutex, GiveMutex
    <3>2. pxMutexHolder[q] = t
      BY <1>0, <2>1, <2>6 DEF MutexInv, GiversHold
    <3> QED
      BY <2>1, <2>2, <2>3, <2>6, <3>1, <3>2 DEF Atomic!Next, Atomic!Succeed, Atomic!Ends, Atomic!PassesOn
  <2> QED
    BY <2>1, <2>4, <2>5, <2>6 DEF Fns
<1>3. ASSUME NEW t \in Tasks, pc[t] \notin Over, UNCHANGED <<uxMessagesWaiting, pxMutexHolder, call>>,
             pc' = [pc EXCEPT ![t] = "app"] \/ pc' = [pc EXCEPT ![t] = "disinherit"],
             call[t] \in Calls, call[t].fn \in Fns, call[t].wait # "portMAX_DELAY",
             call[t].fn = "take" \/ call[t].wait = "none" => ~Possible(call[t].queue, call[t].fn)
      PROVE  Atomic!Next
  <2>1. Unfinished[t] = call[t] /\ Unfinished' = [Unfinished EXCEPT ![t] = NULL]
    BY <1>0, <1>3, UnfinishedIsCall, UnfinishedMoves DEF Over
  <2>2. call[t].fn # "delay"
    BY <1>3 DEF Fns
  <2> QED
    BY <1>3, <2>1, <2>2 DEF Atomic!Next, Atomic!Fail, Atomic!Ends, Atomic!Possible, Possible
<1>4. ASSUME NEW t \in Tasks, TryFails(t) PROVE Atomic!Next \/ Same
  <2>1. /\ pc[t] = "try" /\ call[t] \in Calls /\ call[t].fn \in Fns
        /\ ~Possible(call[t].queue, call[t].fn)
        /\ UNCHANGED <<uxMessagesWaiting, pxMutexHolder, call>>
        /\ pc' = [pc EXCEPT ![t] = IF xTicksToWait[t] = "none" THEN "app" ELSE "suspend"]
    BY <1>0, <1>4, AtLabel DEF TryFails, QueueLabels
  <2>2. CASE xTicksToWait[t] = "none"
    BY <1>3, <2>1, <2>2 DEF WaitsAsAsked, Over
  <2>3. CASE xTicksToWait[t] # "none"
    <3>1. pc' = [pc EXCEPT ![t] = "suspend"]
      BY <2>1, <2>3
    <3>2. UNCHANGED Unfinished
      BY <1>0, <2>1, <3>1, UnfinishedMoves DEF Over
    <3> QED
      BY <2>1, <3>2
  <2> QED
    BY <2>2, <2>3
<1>5. ASSUME NEW t \in Tasks, ResumeAll(t) \/ YieldWithinAPI(t) PROVE Atomic!Next \/ Same
  <2>1. /\ pc[t] \in {"resume", "yield"} /\ UNCHANGED <<uxMessagesWaiting, pxMutexHolder, call>>
        /\ pc' = [pc EXCEPT ![t] = "yield"] \/ pc' = [pc EXCEPT ![t] = After(t)]
    BY <1>5 DEF ResumeAll, YieldWithinAPI
  <2>2. call[t] \in Calls
    BY <1>0, <2>1 DEF Typed, CallsFitLabels
  <2>3. CASE pc' = [pc EXCEPT ![t] = "yield"]
    BY <1>0, <2>1, <2>3, UnfinishedMoves DEF Over
  <2>4. CASE pc' = [pc EXCEPT ![t] = After(t)] /\ call[t].fn \notin Fns
    <3>1. call[t].fn = "delay" /\ After(t) = "app"
      BY <1>0, <2>1, <2>2, <2>4, CallFields, WhereNext
    <3>2. Unfinished[t] = call[t] /\ Unfinished' = [Unfinished EXCEPT ![t] = NULL]
      BY <1>0, <2>1, <2>4, <3>1, UnfinishedIsCall, UnfinishedMoves DEF Over
    <3> QED
      BY <2>1, <2>2, <3>1, <3>2 DEF Atomic!Next, Atomic!EndDelay, Atomic!Ends
  <2>5. CASE pc' = [pc EXCEPT ![t] = After(t)] /\ call[t].fn \in Fns
    <3>1. CASE outcome[t] = "timedOut" /\ call[t].fn = "send"
      <4>1. After(t) = "app"
        BY <1>0, <2>1, <2>5, <3>1, WhereNext
      <4>2. xTicksToWait[t] # "portMAX_DELAY" /\ call[t].wait \notin {"portMAX_DELAY", "none"}
        BY <2>1, <2>5, <3>1 DEF WaitsAsAsked
      <4> QED
        BY <1>3, <2>1, <2>2, <2>5, <3>1, <4>1, <4>2 DEF Over
    <3>2. CASE ~(outcome[t] = "timedOut" /\ call[t].fn = "send")
      <4>1. After(t) \in {"retest", "try"}
        BY <1>0, <2>1, <2>5, <3>2, WhereNext
      <4> QED
        BY <1>0, <2>1, <2>5, <4>1, UnfinishedMoves DEF Over
    <3> QED
      BY <3>1, <3>2
  <2> QED
    BY <2>1, <2>3, <2>4, <2>5
<1>6. ASSUME NEW t \in Tasks, Retest(t) PROVE Atomic!Next \/ Same
  <2>1. /\ pc[t] = "retest" /\ call[t] \in Calls /\ call[t].fn \in Fns
        /\ UNCHANGED <<uxMessagesWaiting, pxMutexHolder, call>>
    BY <1>0, <1>6, AtLabel DEF Retest, QueueLabels
  <2>2. CASE Possible(call[t].queue, call[t].fn)
    <3>1. pc' = [pc EXCEPT ![t] = "try"]
      BY <1>6, <2>2 DEF Retest
    <3>2. pc[t] \notin Over /\ "try" \notin Over
      BY <2>1 DEF Over
    <3>3. UNCHANGED Unfinished
      BY <1>0, <2>1, <3>1, <3>2, UnfinishedMoves
    <3> QED
      BY <2>1, <3>3
  <2>3. CASE ~Possible(call[t].queue, call[t].fn)
    <3>1. pc' = [pc EXCEPT ![t] = "app"] \/ pc' = [pc EXCEPT ![t] = "disinherit"]
      BY <1>6, <2>3 DEF Retest
    <3>2. call[t].wait # "portMAX_DELAY"
      BY <2>1 DEF WaitsAsAsked
    <3>3. pc[t] \notin Over
      BY <2>1 DEF Over
    <3> QED
      BY <1>3, <2>1, <2>3, <3>1, <3>2, <3>3
  <2> QED
    BY <2>2, <2>3
<1>7. ASSUME NEW t \in Tasks, PriorityDisinheritAfterTimeout(t) PROVE Same
  <2>1. pc[t] = "disinherit" /\ pc' = [pc EXCEPT ![t] = "app"]
        /\ UNCHANGED <<uxMessagesWaiting, pxMutexHolder, call>>
    BY <1>7 DEF PriorityDisinheritAfterTimeout
  <2> QED
    BY <1>0, <2>1, UnfinishedMoves DEF Over
<1>8. ASSUME NEW t \in Tasks, NEW timedOut \in BOOLEAN,
             \/ SuspendAll(t) \/ LockQueue(t) \/ CheckForTimeOut(t, timedOut) \/ TestQueue(t)
             \/ PriorityInherit(t) \/ PlaceOnEventList(t) \/ UnlockTx(t) \/ UnlockRx(t)
      PROVE  Same
  <2>1. /\ UNCHANGED <<uxMessagesWaiting, pxMutexHolder, call>>
        /\ pc[t] \notin Over
        /\ \E label \in Labels \ Over : pc' = [pc EXCEPT ![t] = label]
    BY <1>8 DEF SuspendAll, LockQueue, CheckForTimeOut, TestQueue, PriorityInherit, PlaceOnEventList,
                UnlockTx, UnlockRx, Unlock, Over, Labels
  <2> QED
    BY <1>0, <2>1, UnfinishedMoves
<1>9. ASSUME NEW q \in Queues, NEW f \in Fns, FromISR(q, f) PROVE Atomic!Next
  <2>1. /\ <<q, f>> \in IsrCalls /\ Possible(q, f) /\ Transfer(q, f)
        /\ UNCHANGED <<pc, call, pxMutexHolder>>
    BY <1>9 DEF FromISR
  <2>2. UNCHANGED Unfinished
    BY <2>1 DEF Unfinished
  <2> QED
    BY <2>1, <2>2 DEF Atomic!Next, Atomic!FromISR, Atomic!Effect, Atomic!Possible, Possible, Transfer, Fns
<1>10. ASSUME Tick \/ PendTick \/ UNCHANGED vars PROVE Same
  <2>1. UNCHANGED <<uxMessagesWaiting, pxMutexHolder, pc, call>>
    BY <1>10 DEF Tick, PendTick, vars
  <2> QED
    BY <2>1 DEF Unfinished
<1> HIDE DEF Same
<1>11. ASSUME NEW t \in Tasks, TaskStep(t) PROVE Atomic!Next \/ Same
  BY <1>1, <1>2, <1>4, <1>5, <1>6, <1>7, <1>8, <1>11 DEF TaskStep
<1>12. Atomic!Next \/ Same
  BY <1>9, <1>10, <1>11 DEF Next, Interrupt
<1> QED
  BY <1>12 DEF Same

\* The calls of the kernel implement AtomicCalls, for any tasks, queues, semaphores and
\* mutexes, whatever interrupts and time-outs come between their steps: a call takes effect
\* once, at one moment, or fails only when it may.
THEOREM CallsAreAtomic == Spec => ImplementsAtomicCalls
<1>1. Init => WaitsAsAsked
  BY DEF Init, WaitsAsAsked
<1>2. Init => Atomic!Init
  BY DEF Init, Atomic!Init, Unfinished
<1>3. Ground /\ Ground' /\ WaitsAsAsked /\ [Next]_vars => WaitsAsAsked'
  BY WaitsAsAskedStep
<1>4. Ground /\ Ground' /\ WaitsAsAsked /\ [Next]_vars
      => [Atomic!Next]_<<uxMessagesWaiting, pxMutexHolder, Unfinished>>
  BY AtomicStep
<1> QED
  BY <1>1, <1>2, <1>3, <1>4, AlwaysGround, PTL DEF Spec, ImplementsAtomicCalls, Atomic!Spec

=============================================================================
