----------------------------- MODULE TicksProofs -----------------------------
(***************************************************************************)
(* Proofs about Ticks, for a tick count of any width, any number of tasks  *)
(* and any calls.                                                          *)
(*                                                                         *)
(* IInv is the inductive invariant of the lists, the pended ticks and the  *)
(* periods.  Given it, TimesSound is inductive: what a blocking call knows *)
(* of its time is right until the count has turned once since it began.    *)
(***************************************************************************)
EXTENDS Ticks, FiniteSetTheorems, SequenceTheorems, WellFoundedInduction, TLAPS

(* The lists. *)

ListOK(list) == list \in Seq(ListItem_t) /\ Sorted(list) /\ NoRepeat(list)

\* A list is indexed by 1..Len(list) and holds list items.
LEMMA ListIndex ==
  ASSUME NEW list \in Seq(ListItem_t)
  PROVE  /\ Len(list) \in Nat
         /\ \A i \in 1..Len(list) : list[i] \in ListItem_t /\ list[i].value \in TickType_t
                                    /\ list[i].value \in Int /\ list[i].owner \in Tasks
<1>1. Len(list) \in Nat /\ \A i \in 1..Len(list) : list[i] \in ListItem_t
  BY LenProperties, ElementOfSeq
<1>2. TickType_t \subseteq Int
  BY TicksAssumption DEF TickType_t
<1> QED
  BY <1>1, <1>2 DEF ListItem_t

\* The place where the loops over a list stop exists.
LEMMA LeadingType ==
  ASSUME NEW list \in Seq(ListItem_t), NEW time \in Int
  PROVE  /\ Leading(list, time) \in 0..Len(list)
         /\ \A i \in 1..Leading(list, time) : list[i].value <= time
         /\ Leading(list, time) < Len(list) => list[Leading(list, time) + 1].value > time
<1> DEFINE P(k) == /\ \A i \in 1..k : list[i].value <= time
                   /\ k < Len(list) => list[k + 1].value > time
           B == {k \in 1..Len(list) : ~(list[k].value <= time)}
<1>1. Len(list) \in Nat /\ \A i \in 1..Len(list) : list[i].value \in Int
  BY ListIndex
<1>2. B \subseteq Nat
  BY <1>1
<1>3. \E k \in 0..Len(list) : P(k)
  <2>1. CASE B = {}
    <3>1. Len(list) \in 0..Len(list) /\ P(Len(list))
      BY <1>1, <2>1
    <3> QED
      BY <3>1
  <2>2. CASE B # {}
    <3>1. \E k \in B : \A i \in B : <<i, k>> \notin OpToRel(<, Nat)
      <4> HIDE DEF B
      <4> QED
        BY <1>2, <2>2, NatLessThanWellFounded, WFMin
    <3>2. PICK k \in B : \A i \in B : ~(i < k)
      BY <1>2, <3>1 DEF OpToRel
    <3>3. k - 1 \in 0..Len(list) /\ P(k - 1)
      BY <1>1, <3>2
    <3> QED
      BY <3>3
  <2> QED
    BY <2>1, <2>2
<1>4. Leading(list, time) = CHOOSE k \in 0..Len(list) : P(k)
  BY DEF Leading
<1> HIDE DEF P
<1>5. Leading(list, time) \in 0..Len(list) /\ P(Leading(list, time))
  BY <1>3, <1>4
<1> QED
  BY <1>5 DEF P

\* In a sorted list the leading items are exactly those that are due, and what
\* is behind them is the list of the others.
LEMMA LeadingSplits ==
  ASSUME NEW list, ListOK(list), NEW time \in Int
  PROVE  LET k == Leading(list, time)
             rest == SubSeq(list, k + 1, Len(list))
         IN /\ ListOK(rest)
            /\ Items(rest) = {item \in Items(list) : item.value > time}
            /\ {list[i].owner : i \in 1..k} =
                 {item.owner : item \in {x \in Items(list) : x.value <= time}}
<1> DEFINE k == Leading(list, time)
           rest == SubSeq(list, k + 1, Len(list))
<1>1. list \in Seq(ListItem_t) /\ Sorted(list) /\ NoRepeat(list)
  BY DEF ListOK
<1>2. Len(list) \in Nat /\ \A i \in 1..Len(list) : list[i] \in ListItem_t /\ list[i].value \in Int
  BY <1>1, ListIndex
<1>3. /\ k \in 0..Len(list)
      /\ \A i \in 1..k : list[i].value <= time
      /\ k < Len(list) => list[k + 1].value > time
  BY <1>1, LeadingType
<1> HIDE DEF k
<1>4. \A i \in k + 1..Len(list) : list[i].value > time
  <2> SUFFICES ASSUME NEW i \in k + 1..Len(list) PROVE list[i].value > time
    OBVIOUS
  <2>1. k + 1 \in 1..Len(list) /\ i \in 1..Len(list) /\ k < Len(list)
    BY <1>2, <1>3
  <2>2. list[k + 1].value <= list[i].value
    BY <1>1, <1>2, <2>1 DEF Sorted
  <2> QED
    BY <1>2, <1>3, <2>1, <2>2
<1>5. /\ rest \in Seq(ListItem_t) /\ Len(rest) = Len(list) - k
      /\ \A i \in 1..Len(list) - k : rest[i] = list[k + i]
  <2>1. SubSeq(list, k + 1, Len(list)) \in Seq(ListItem_t)
    BY <1>1, <1>2, <1>3, SubSeqProperties
  <2>2. Len(rest) = Len(list) - k
    BY <1>1, <1>2, <1>3, SubSeqProperties
  <2>3. \A i \in 1..Len(list) - k : rest[i] = list[k + i]
    BY <1>1, <1>2, <1>3, SubSeqProperties
  <2> QED
    BY <2>1, <2>2, <2>3
<1> HIDE DEF rest
<1>6. ListOK(rest)
  <2>1. \A i \in 1..Len(rest) : k + i \in 1..Len(list) /\ rest[i] = list[k + i]
    BY <1>2, <1>3, <1>5
  <2>2. Sorted(rest)
    <3> SUFFICES ASSUME NEW i \in 1..Len(rest), NEW j \in 1..Len(rest), i < j
                 PROVE  rest[i].value <= rest[j].value
      BY DEF Sorted
    <3>1. k + i < k + j
      BY <1>2, <1>3, <1>5
    <3> QED
      BY <1>1, <2>1, <3>1 DEF Sorted
  <2>3. NoRepeat(rest)
    <3> SUFFICES ASSUME NEW i \in 1..Len(rest), NEW j \in 1..Len(rest),
                        rest[i].owner = rest[j].owner
                 PROVE  i = j
      BY DEF NoRepeat
    <3>1. k + i = k + j
      BY <1>1, <2>1 DEF NoRepeat
    <3> QED
      BY <1>2, <1>3, <1>5, <3>1
  <2> QED
    BY <1>5, <2>2, <2>3 DEF ListOK
<1>7. Items(rest) = {item \in Items(list) : item.value > time}
  <2>1. ASSUME NEW item \in Items(rest) PROVE item \in Items(list) /\ item.value > time
    <3>1. PICK i \in 1..Len(rest) : item = rest[i]
      BY DEF Items
    <3>2. k + i \in k + 1..Len(list) /\ k + i \in 1..Len(list) /\ item = list[k + i]
      BY <1>2, <1>3, <1>5, <3>1
    <3> QED
      BY <1>4, <3>2 DEF Items
  <2>2. ASSUME NEW item \in Items(list), item.value > time PROVE item \in Items(rest)
    <3>1. PICK i \in 1..Len(list) : item = list[i]
      BY DEF Items
    <3>2. i \notin 1..k
      BY <1>2, <1>3, <2>2, <3>1
    <3>3. i - k \in 1..Len(rest) /\ rest[i - k] = list[i]
      BY <1>2, <1>3, <1>5, <3>2
    <3> QED
      BY <3>1, <3>3 DEF Items
  <2> QED
    BY <2>1, <2>2
<1>8. {list[i].owner : i \in 1..k} =
        {item.owner : item \in {x \in Items(list) : x.value <= time}}
  <2>1. ASSUME NEW i \in 1..k
        PROVE  list[i] \in {x \in Items(list) : x.value <= time}
    BY <1>2, <1>3 DEF Items
  <2>2. ASSUME NEW x \in Items(list), x.value <= time PROVE \E i \in 1..k : x = list[i]
    <3>1. PICK i \in 1..Len(list) : x = list[i]
      BY DEF Items
    <3>2. i \notin k + 1..Len(list)
      BY <1>2, <1>4, <2>2, <3>1
    <3> QED
      BY <1>2, <1>3, <3>1, <3>2
  <2> QED
    BY <2>1, <2>2
<1> QED
  BY <1>6, <1>7, <1>8 DEF k, rest

\* Inserting the item of a task that is not in the list keeps it sorted.
LEMMA InsertSound ==
  ASSUME NEW list, ListOK(list), NEW item \in ListItem_t, item.owner \notin Owners(list)
  PROVE  ListOK(Insert(list, item)) /\ Items(Insert(list, item)) = Items(list) \cup {item}
<1> DEFINE k == Leading(list, item.value)
           new == Insert(list, item)
           n == Len(list)
<1>1. list \in Seq(ListItem_t) /\ Sorted(list) /\ NoRepeat(list)
  BY DEF ListOK
<1>2. n \in Nat /\ \A i \in 1..n : list[i] \in ListItem_t /\ list[i].value \in Int
  BY <1>1, ListIndex
<1>3. item.value \in Int
  BY TicksAssumption DEF ListItem_t, TickType_t
<1>4. /\ k \in 0..n
      /\ \A i \in 1..k : list[i].value <= item.value
      /\ k < n => list[k + 1].value > item.value
  BY <1>1, <1>3, LeadingType
<1>5. new = SubSeq(list, 1, k) \o <<item>> \o SubSeq(list, k + 1, Len(list))
  BY DEF Insert
<1> HIDE DEF k
<1>6. /\ SubSeq(list, 1, k) \in Seq(ListItem_t) /\ Len(SubSeq(list, 1, k)) = k
      /\ \A i \in 1..k : SubSeq(list, 1, k)[i] = list[i]
  BY <1>1, <1>2, <1>4, SubSeqProperties
<1>7. /\ SubSeq(list, k + 1, n) \in Seq(ListItem_t) /\ Len(SubSeq(list, k + 1, n)) = n - k
      /\ \A i \in 1..n - k : SubSeq(list, k + 1, n)[i] = list[k + i]
  BY <1>1, <1>2, <1>4, SubSeqProperties
<1>8. <<item>> \in Seq(ListItem_t) /\ Len(<<item>>) = 1 /\ <<item>>[1] = item
  OBVIOUS
<1>9. LET a == SubSeq(list, 1, k) \o <<item>>
      IN /\ a \in Seq(ListItem_t) /\ Len(a) = k + 1
         /\ \A i \in 1..k + 1 : a[i] = IF i <= k THEN list[i] ELSE item
  <2>1. SubSeq(list, 1, k) \o <<item>> \in Seq(ListItem_t)
    BY <1>6, <1>8, ConcatProperties
  <2>2. Len(SubSeq(list, 1, k) \o <<item>>) = k + 1
    BY <1>6, <1>8, ConcatProperties
  <2>3. \A i \in 1..k + 1 : (SubSeq(list, 1, k) \o <<item>>)[i] =
          IF i <= k THEN SubSeq(list, 1, k)[i] ELSE <<item>>[i - k]
    BY <1>4, <1>6, <1>8, ConcatProperties
  <2>4. \A i \in 1..k + 1 : i <= k => i \in 1..k
    BY <1>4
  <2>5. \A i \in 1..k + 1 : ~(i <= k) => i - k = 1
    BY <1>4
  <2> QED
    BY <1>6, <1>8, <2>1, <2>2, <2>3, <2>4, <2>5
<1>10. /\ new \in Seq(ListItem_t) /\ Len(new) = n + 1
       /\ \A i \in 1..n + 1 : new[i] = IF i <= k THEN list[i]
                                       ELSE IF i = k + 1 THEN item ELSE list[i - 1]
  <2> DEFINE a == SubSeq(list, 1, k) \o <<item>>
             b == SubSeq(list, k + 1, n)
  <2>1. a \in Seq(ListItem_t) /\ Len(a) = k + 1
        /\ \A i \in 1..k + 1 : a[i] = IF i <= k THEN list[i] ELSE item
    BY <1>9
  <2>2. new = a \o b
    BY <1>5
  <2>3. b \in Seq(ListItem_t) /\ Len(b) = n - k /\ \A i \in 1..n - k : b[i] = list[k + i]
    BY <1>7
  <2> HIDE DEF a, b, new
  <2>4. a \o b \in Seq(ListItem_t) /\ Len(a \o b) = n + 1
    <3>1. a \o b \in Seq(ListItem_t) /\ Len(a \o b) = Len(a) + Len(b)
      BY <2>1, <2>3, ConcatProperties
    <3>2. Len(a) + Len(b) = n + 1
      BY <1>2, <1>4, <2>1, <2>3
    <3> QED
      BY <3>1, <3>2
  <2>5. \A i \in 1..Len(a) + Len(b) : (a \o b)[i] = IF i <= Len(a) THEN a[i] ELSE b[i - Len(a)]
    BY <2>1, <2>3, ConcatProperties
  <2>6. \A i \in 1..n + 1 : (a \o b)[i] = IF i <= k + 1 THEN a[i] ELSE b[i - (k + 1)]
    BY <1>2, <1>4, <2>1, <2>3, <2>5
  <2>7. \A i \in 1..n + 1 : ~(i <= k + 1) => b[i - (k + 1)] = list[i - 1]
    <3>1. \A i \in 1..n + 1 : ~(i <= k + 1) =>
            i - (k + 1) \in 1..n - k /\ k + (i - (k + 1)) = i - 1
      BY <1>2, <1>4
    <3> QED
      BY <2>3, <3>1
  <2>8. \A i \in 1..n + 1 : i <= k + 1 => a[i] = IF i <= k THEN list[i] ELSE item
    BY <1>4, <2>1
  <2>9. \A i \in 1..n + 1 : i <= k + 1 /\ ~(i <= k) <=> i = k + 1
    BY <1>4
  <2>10. \A i \in 1..n + 1 : (a \o b)[i] = IF i <= k THEN list[i]
                                    ELSE IF i = k + 1 THEN item ELSE list[i - 1]
    <3> SUFFICES ASSUME NEW i \in 1..n + 1
                 PROVE  (a \o b)[i] = IF i <= k THEN list[i]
                                       ELSE IF i = k + 1 THEN item ELSE list[i - 1]
      OBVIOUS
    <3>1. CASE i <= k + 1
      BY <2>6, <2>8, <2>9, <3>1
    <3>2. CASE ~(i <= k + 1)
      <4>1. ~(i <= k) /\ i # k + 1
        BY <1>4, <3>2
      <4> QED
        BY <2>6, <2>7, <3>2, <4>1
    <3> QED
      BY <3>1, <3>2
  <2> QED
    BY <2>2, <2>4, <2>10
<1> HIDE DEF new, n
<1> DEFINE at(i) == IF i <= k THEN i ELSE i - 1
<1>11. \A i \in 1..n + 1 : i # k + 1 => at(i) \in 1..n /\ new[i] = list[at(i)]
  BY <1>2, <1>4, <1>10
<1>12. k + 1 \in 1..n + 1 /\ new[k + 1] = item
  BY <1>2, <1>4, <1>10
<1>13. \A i \in 1..n : list[i].owner # item.owner
  BY DEF Owners, Items, n
<1>14. \A i \in k + 1..n : list[i].value > item.value
  <2> SUFFICES ASSUME NEW i \in k + 1..n PROVE list[i].value > item.value
    OBVIOUS
  <2>1. k + 1 \in 1..n /\ i \in 1..n /\ k < n /\ (k + 1 = i \/ k + 1 < i)
    BY <1>2, <1>4
  <2>2. list[k + 1].value <= list[i].value
    BY <1>1, <1>2, <2>1 DEF Sorted, n
  <2> QED
    BY <1>2, <1>3, <1>4, <2>1, <2>2
<1>15. Sorted(new)
  <2> SUFFICES ASSUME NEW i \in 1..n + 1, NEW j \in 1..n + 1, i < j
               PROVE  new[i].value <= new[j].value
    BY <1>10 DEF Sorted
  <2>1. CASE i = k + 1
    <3>1. j # k + 1 /\ at(j) \in k + 1..n
      BY <1>2, <1>4, <2>1
    <3> QED
      BY <1>2, <1>3, <1>11, <1>12, <1>14, <2>1, <3>1
  <2>2. CASE j = k + 1
    <3>1. i # k + 1 /\ at(i) = i /\ i \in 1..k
      BY <1>2, <1>4, <2>2
    <3> QED
      BY <1>4, <1>11, <1>12, <2>2, <3>1
  <2>3. CASE i # k + 1 /\ j # k + 1
    <3>1. at(i) < at(j)
      BY <1>2, <1>4, <2>3
    <3> QED
      BY <1>1, <1>11, <2>3, <3>1 DEF Sorted, n
  <2> QED
    BY <2>1, <2>2, <2>3
<1>16. NoRepeat(new)
  <2> SUFFICES ASSUME NEW i \in 1..n + 1, NEW j \in 1..n + 1, new[i].owner = new[j].owner
               PROVE  i = j
    BY <1>10 DEF NoRepeat
  <2>1. CASE i # k + 1 /\ j # k + 1
    <3>1. at(i) = at(j)
      BY <1>1, <1>11, <2>1 DEF NoRepeat, n
    <3> QED
      BY <1>2, <1>4, <2>1, <3>1
  <2> QED
    BY <1>11, <1>12, <1>13, <2>1
<1>17. Items(new) = Items(list) \cup {item}
  <2>1. ASSUME NEW x \in Items(new) PROVE x \in Items(list) \cup {item}
    <3>1. PICK i \in 1..n + 1 : x = new[i]
      BY <1>10 DEF Items
    <3> QED
      BY <1>11, <1>12, <3>1 DEF Items, n
  <2>2. ASSUME NEW i \in 1..n PROVE list[i] \in Items(new)
    <3>1. CASE i <= k
      <4>1. i \in 1..n + 1 /\ new[i] = list[i]
        BY <1>2, <1>10, <3>1
      <4> QED
        BY <1>10, <4>1 DEF Items
    <3>2. CASE ~(i <= k)
      <4>1. i + 1 \in 1..n + 1 /\ new[i + 1] = list[i]
        BY <1>2, <1>4, <1>10, <3>2
      <4> QED
        BY <1>10, <4>1 DEF Items
    <3> QED
      BY <3>1, <3>2
  <2>3. item \in Items(new)
    BY <1>10, <1>12 DEF Items
  <2> QED
    BY <2>1, <2>2, <2>3 DEF Items, n
<1> QED
  BY <1>10, <1>15, <1>16, <1>17 DEF ListOK, new

\* Removing tasks keeps the others, in the order they have.
LEMMA WithoutSound ==
  ASSUME NEW list, ListOK(list), NEW T
  PROVE  /\ ListOK(Without(list, T))
         /\ Items(Without(list, T)) = {item \in Items(list) : item.owner \notin T}
<1> DEFINE Kept(n) == {i \in 1..n : list[i].owner \notin T}
           all == Kept(Len(list))
           N == Cardinality(all)
           rank == [i \in all |-> Cardinality(Kept(i))]
           pos(k) == CHOOSE i \in all : Cardinality(Kept(i)) = k
           new == Without(list, T)
<1>0. list \in Seq(ListItem_t) /\ Sorted(list) /\ NoRepeat(list)
  BY DEF ListOK
<1>1. Len(list) \in Nat /\ \A i \in 1..Len(list) : list[i] \in ListItem_t
  BY <1>0, ListIndex
<1>2. ASSUME NEW n \in Nat PROVE IsFiniteSet(Kept(n)) /\ Cardinality(Kept(n)) \in Nat
  <2>1. IsFiniteSet(1..n)
    BY FS_Interval
  <2>2. Kept(n) \in SUBSET (1..n)
    OBVIOUS
  <2> HIDE DEF Kept
  <2>3. IsFiniteSet(Kept(n))
    BY <2>1, <2>2, FS_Subset
  <2> QED
    BY <2>3, FS_CardinalityType
<1>3. all \subseteq 1..Len(list) /\ N \in Nat /\ IsFiniteSet(all)
  BY <1>1, <1>2
<1>4. ASSUME NEW i \in all PROVE Cardinality(Kept(i)) \in 1..N
  <2>1. i \in Nat /\ i \in Kept(i) /\ Kept(i) \in SUBSET all
    BY <1>1
  <2>2. IsFiniteSet(Kept(i)) /\ Cardinality(Kept(i)) \in Nat
    BY <1>2, <2>1
  <2>3. Kept(i) # {}
    BY <2>1
  <2> HIDE DEF all, Kept
  <2>4. Cardinality(Kept(i)) <= N
    BY <1>3, <2>1, FS_Subset
  <2>5. Cardinality(Kept(i)) # 0
    BY <2>2, <2>3, FS_EmptySet
  <2> QED
    BY <1>3, <2>2, <2>4, <2>5
<1>5. ASSUME NEW i \in all, NEW j \in all, i < j
      PROVE  Cardinality(Kept(i)) < Cardinality(Kept(j))
  <2>1. i \in Nat /\ j \in Nat
    BY <1>1
  <2>2. Kept(i) \in SUBSET Kept(j) /\ j \in Kept(j) /\ j \notin Kept(i)
    BY <1>5, <2>1
  <2>3. IsFiniteSet(Kept(j)) /\ Cardinality(Kept(j)) \in Nat /\ Cardinality(Kept(i)) \in Nat
    BY <1>2, <2>1
  <2> HIDE DEF all, Kept
  <2>4. Cardinality(Kept(i)) # Cardinality(Kept(j)) /\ Cardinality(Kept(i)) <= Cardinality(Kept(j))
    BY <2>2, <2>3, FS_Subset
  <2> QED
    BY <2>3, <2>4
<1>6. rank \in Surjection(all, 1..N)
  <2>1. rank \in [all -> 1..N]
    BY <1>4
  <2>2. \A i, j \in all : i < j \/ j < i \/ i = j
    BY <1>3
  <2>3. \A i, j \in all : rank[i] = rank[j] => i = j
    <3> SUFFICES ASSUME NEW i \in all, NEW j \in all, rank[i] = rank[j] PROVE i = j
      OBVIOUS
    <3>1. Cardinality(Kept(i)) = Cardinality(Kept(j))
      OBVIOUS
    <3>2. Cardinality(Kept(i)) \in Int
      <4>1. N \in Nat /\ Cardinality(Kept(i)) \in 1..N
        BY <1>3, <1>4
      <4> HIDE DEF N, Kept
      <4> QED
        BY <4>1
    <3> HIDE DEF all, Kept
    <3> QED
      BY <1>5, <2>2, <3>1, <3>2
  <2>4. rank \in Injection(all, 1..N)
    <3> HIDE DEF rank, all
    <3> QED
      BY <2>1, <2>3 DEF Injection, IsInjective
  <2>5. IsFiniteSet(1..N) /\ Cardinality(1..N) = N
    BY <1>3, FS_Interval
  <2> HIDE DEF rank, all
  <2> QED
    BY <2>4, <2>5, FS_Injection
<1>7. ASSUME NEW k \in 1..N PROVE pos(k) \in all /\ Cardinality(Kept(pos(k))) = k
  <2>1. \E i \in all : Cardinality(Kept(i)) = k
    BY <1>6 DEF Surjection
  <2> HIDE DEF all, Kept
  <2> QED
    BY <2>1
<1>8. new = [k \in 1..N |-> list[pos(k)]]
  BY DEF Without
<1>9. \A i \in all : i \in 1..Len(list) /\ list[i].owner \notin T
  BY <1>1
<1>10. \A i \in 1..Len(list) : list[i].owner \notin T => i \in all
  OBVIOUS
<1> HIDE DEF all, Kept, pos, N, new
<1>11. \A k \in 1..N : pos(k) \in 1..Len(list) /\ new[k] = list[pos(k)]
  BY <1>7, <1>8, <1>9
<1>12. new \in Seq(ListItem_t) /\ Len(new) = N
  <2>1. new \in [1..N -> ListItem_t]
    BY <1>1, <1>8, <1>11
  <2> QED
    BY <1>3, <2>1, SeqDef, LenProperties
<1>13. \A k, l \in 1..N : k < l => pos(k) < pos(l)
  <2> SUFFICES ASSUME NEW k \in 1..N, NEW l \in 1..N, k < l PROVE pos(k) < pos(l)
    OBVIOUS
  <2>1. pos(k) \in Int /\ pos(l) \in Int /\ k \in Int /\ l \in Int
    BY <1>1, <1>3, <1>11
  <2>2. ~(pos(l) < pos(k))
    BY <1>5, <1>7, <2>1
  <2>3. pos(k) # pos(l)
    BY <1>7, <2>1
  <2> QED
    BY <2>1, <2>2, <2>3
<1>14. Sorted(new)
  BY <1>0, <1>11, <1>12, <1>13 DEF Sorted
<1>15. NoRepeat(new)
  <2> SUFFICES ASSUME NEW k \in 1..N, NEW l \in 1..N, new[k].owner = new[l].owner
               PROVE  k = l
    BY <1>12 DEF NoRepeat
  <2>1. pos(k) = pos(l)
    BY <1>0, <1>11 DEF NoRepeat
  <2> QED
    BY <1>7, <2>1
<1>16. Items(new) = {item \in Items(list) : item.owner \notin T}
  <2>1. ASSUME NEW item \in Items(new) PROVE item \in Items(list) /\ item.owner \notin T
    <3>1. PICK k \in 1..N : item = new[k]
      BY <1>12 DEF Items
    <3> QED
      BY <1>7, <1>9, <1>11, <3>1 DEF Items
  <2>2. ASSUME NEW i \in 1..Len(list), list[i].owner \notin T PROVE list[i] \in Items(new)
    <3>1. i \in all
      BY <1>10, <2>2
    <3>2. PICK k \in 1..N : k = Cardinality(Kept(i))
      BY <1>4, <3>1
    <3>3. pos(k) = i
      <4>1. pos(k) \in all /\ Cardinality(Kept(pos(k))) = Cardinality(Kept(i))
        BY <1>7, <3>2
      <4>2. pos(k) \in Int /\ i \in Int /\ Cardinality(Kept(i)) \in Int
        BY <1>1, <1>3, <1>11, <3>2
      <4> QED
        BY <1>5, <3>1, <4>1, <4>2
    <3> QED
      BY <1>11, <1>12, <3>3 DEF Items
  <2> QED
    BY <2>1, <2>2 DEF Items
<1> QED
  BY <1>12, <1>14, <1>15, <1>16 DEF ListOK, new

\* The next unblock time of a list is the smallest wake time in it.
LEMMA NextUnblockTimeType ==
  ASSUME NEW list, ListOK(list)
  PROVE  /\ NextUnblockTime(list) \in TickType_t
         /\ \A item \in Items(list) : NextUnblockTime(list) <= item.value
<1>1. list \in Seq(ListItem_t) /\ Sorted(list)
  BY DEF ListOK
<1>2. Len(list) \in Nat /\ \A i \in 1..Len(list) : list[i].value \in TickType_t /\ list[i].value \in Int
  BY <1>1, ListIndex
<1>3. CASE list = <<>>
  BY <1>1, <1>3, TicksAssumption DEF NextUnblockTime, TickType_t, Items
<1>4. CASE list # <<>>
  <2>1. 1 \in 1..Len(list)
    BY <1>1, <1>2, <1>4, EmptySeq
  <2>2. \A i \in 1..Len(list) : list[1].value <= list[i].value
    <3> SUFFICES ASSUME NEW i \in 1..Len(list) PROVE list[1].value <= list[i].value
      OBVIOUS
    <3>1. i = 1 \/ 1 < i
      BY <1>2
    <3> QED
      BY <1>1, <1>2, <2>1, <3>1 DEF Sorted
  <2> QED
    BY <1>2, <1>4, <2>1, <2>2 DEF NextUnblockTime, Items
<1> QED
  BY <1>3, <1>4

-----------------------------------------------------------------------------
(* The inductive invariant. *)

AllItems == Items(pxDelayedTaskList) \cup Items(pxOverflowDelayedTaskList)

\* The variables no list is involved in.
Typed ==
  /\ xTickCount \in TickType_t /\ interrupts \in TickType_t
  /\ xNumOfOverflows \in 0..OverflowModulus - 1
  /\ xEventList \subseteq Tasks /\ xPendingReadyList \subseteq Tasks
  /\ xSuspendedTaskList \subseteq Tasks
  /\ suspender \in Tasks \cup {NULL}
  /\ uxPendedTicks \in 0..MaxPended /\ uxPendedCounts \in 0..MaxPended
  /\ pc \in [Tasks -> {"app", "delay", "until", "retry", "blocked", "again", "expired"}]
  /\ xTicksToWait \in [Tasks -> TickType_t] /\ wait0 \in [Tasks -> TickType_t]
  /\ xTimeOut \in [Tasks -> (0..OverflowModulus - 1) \X TickType_t]
  /\ pxPreviousWakeTime \in [Tasks -> TickType_t]
  /\ lag \in [Tasks -> (-portMAX_DELAY..portMAX_DELAY) \cup {NULL}]
  /\ age \in [Tasks -> 0..Period + 1]

\* The delayed lists, as sets of items: no task twice, nothing overdue.
Lists ==
  /\ ListOK(pxDelayedTaskList) /\ ListOK(pxOverflowDelayedTaskList)
  /\ xNextTaskUnblockTime \in TickType_t
  /\ \A x, y \in AllItems : x.owner = y.owner => x = y
  /\ \A x \in Items(pxDelayedTaskList) :
       x.value > xTickCount /\ xNextTaskUnblockTime <= x.value
  /\ \A x \in Items(pxOverflowDelayedTaskList) : x.value < xTickCount
  /\ Delayed \cap xSuspendedTaskList = {}

\* Ticks are pended only while the scheduler is suspended, and then processed.
Pending ==
  /\ uxPendedCounts > 0 => suspender = NULL
  /\ uxPendedCounts <= uxPendedTicks
  /\ suspender = NULL /\ uxPendedCounts = 0 => uxPendedTicks = 0

\* Only the task that has suspended the scheduler is in a suspended section.
Sections ==
  \A t \in Tasks : pc[t] \in {"delay", "until", "blocked", "again", "expired"} => suspender = t

\* Who waits for the event is in the blocking call, and who is delayed until its
\* next period is not.
Waiters ==
  /\ \A t \in xEventList \cup xPendingReadyList : pc[t] \in {"blocked", "retry"}
  /\ \A t \in Tasks : lag[t] # NULL /\ lag[t] < 0 => pc[t] \in {"until", "app"}

IInv == /\ Typed /\ Lists /\ Pending /\ Sections /\ Waiters
        /\ EventListSound /\ TicksAccounted /\ PeriodKept

\* Numbers.
LEMMA TickNumbers ==
  /\ portMAX_DELAY \in Nat /\ portMAX_DELAY > 1 /\ Period = portMAX_DELAY + 1
  /\ TickType_t = 0..portMAX_DELAY
  /\ MaxPended \in 0..portMAX_DELAY
BY TicksAssumption DEF Period, TickType_t

\* Adding and subtracting ticks stay in TickType_t and undo each other.
LEMMA TickArithmetic ==
  ASSUME NEW a \in TickType_t, NEW b \in TickType_t
  PROVE  /\ Plus(a, b) \in TickType_t /\ Minus(a, b) \in TickType_t
         /\ Minus(Plus(a, b), a) = b
         /\ Plus(a, Minus(b, a)) = b
         /\ Minus(a, b) = 0 => a = b
BY TickNumbers DEF Plus, Minus

\* One tick brings every other value of the count one tick nearer.
LEMMA TickAdvances ==
  ASSUME NEW now \in TickType_t, NEW v \in TickType_t, v # now
  PROVE  /\ v = Plus(now, 1) => Minus(v, now) = 1
         /\ v # Plus(now, 1) => Minus(v, Plus(now, 1)) = Minus(v, now) - 1
<1>1. now \in 0..portMAX_DELAY /\ v \in 0..portMAX_DELAY /\ portMAX_DELAY \in Nat
      /\ portMAX_DELAY > 1 /\ Period = portMAX_DELAY + 1
  BY TickNumbers
<1>2. CASE now = portMAX_DELAY
  <2>1. Plus(now, 1) = 0
    BY <1>1, <1>2 DEF Plus
  <2> QED
    BY <1>1, <1>2, <2>1 DEF Minus
<1>3. CASE now # portMAX_DELAY
  <2>1. Plus(now, 1) = now + 1
    BY <1>1, <1>3 DEF Plus
  <2> QED
    BY <1>1, <1>3, <2>1 DEF Minus
<1> QED
  BY <1>2, <1>3

\* Items have an owner and a wake time.
LEMMA ItemTypes ==
  ASSUME Lists
  PROVE  /\ \A x \in AllItems : x \in ListItem_t /\ x.owner \in Tasks
                                /\ x.value \in TickType_t
         /\ Delayed = {x.owner : x \in AllItems}
<1>1. \A x \in Items(pxDelayedTaskList) : x \in ListItem_t
  BY ListIndex DEF Lists, ListOK, Items
<1>2. \A x \in Items(pxOverflowDelayedTaskList) : x \in ListItem_t
  BY ListIndex DEF Lists, ListOK, Items
<1>3. \A x \in AllItems : x \in ListItem_t /\ x.owner \in Tasks /\ x.value \in TickType_t
  BY <1>1, <1>2 DEF AllItems, ListItem_t
<1> QED
  BY <1>3 DEF AllItems, Delayed, Owners

\* What is left of the delay of the owner of an item.
LEMMA RemainingOf ==
  ASSUME Lists, NEW x \in AllItems
  PROVE  Remaining(x.owner) = Minus(x.value, xTickCount)
<1>1. \A y \in AllItems : y.owner = x.owner => y = x
  BY DEF Lists
<1>2. (CHOOSE y \in AllItems : y.owner = x.owner) = x
  BY <1>1
<1> QED
  BY <1>2 DEF Remaining, AllItems

\* The state after a tick: exactly the items that are due are gone, and the
\* tasks that own them wait for no event.
LEMMA TickLists ==
  ASSUME IInv, IncrementTick
  PROVE  /\ xTickCount' = Plus(xTickCount, 1)
         /\ Lists'
         /\ AllItems' = {x \in AllItems : x.value # xTickCount'}
         /\ xEventList' = xEventList \ {x.owner : x \in {y \in AllItems : y.value = xTickCount'}}
<1> DEFINE now == Plus(xTickCount, 1)
           wrapped == now = 0
           list == IF wrapped THEN pxOverflowDelayedTaskList ELSE pxDelayedTaskList
           next == IF wrapped THEN NextUnblockTime(list) ELSE xNextTaskUnblockTime
           due == IF now >= next THEN Leading(list, now) ELSE 0
           rest == SubSeq(list, due + 1, Len(list))
<1>1. Lists /\ Typed
  BY DEF IInv
<1>2. /\ xTickCount' = now
      /\ pxDelayedTaskList' = rest
      /\ pxOverflowDelayedTaskList' = IF wrapped THEN pxDelayedTaskList
                                                 ELSE pxOverflowDelayedTaskList
      /\ xNextTaskUnblockTime' = IF now >= next THEN NextUnblockTime(rest) ELSE next
      /\ xEventList' = xEventList \ {list[i].owner : i \in 1..due}
      /\ xSuspendedTaskList' = xSuspendedTaskList
  BY DEF IncrementTick
<1>3. /\ xTickCount \in 0..portMAX_DELAY /\ now \in 0..portMAX_DELAY /\ now \in Int
      /\ wrapped => xTickCount = portMAX_DELAY
      /\ ~wrapped => now = xTickCount + 1
  BY <1>1, TickNumbers DEF Typed, Plus
<1>4. \A x \in AllItems : x.value \in 0..portMAX_DELAY
  BY <1>1, ItemTypes, TickNumbers
<1>5. wrapped => Items(pxDelayedTaskList) = {}
  BY <1>1, <1>3, <1>4 DEF Lists, AllItems
<1>6. ListOK(list) /\ next \in TickType_t /\ \A x \in Items(list) : next <= x.value
  BY <1>1, NextUnblockTimeType DEF Lists
<1>7. AllItems = Items(list) \cup Items(pxOverflowDelayedTaskList')
  BY <1>2, <1>5 DEF AllItems
<1>8. \A x \in Items(list) : x.value >= now
  BY <1>1, <1>3, <1>4, <1>7 DEF Lists
<1> HIDE DEF next, list, now
<1>9. /\ ListOK(rest) /\ Items(rest) = {x \in Items(list) : x.value > now}
      /\ {list[i].owner : i \in 1..due} = {x.owner : x \in {y \in Items(list) : y.value <= now}}
  <2>1. CASE now >= next
    <3>1. due = Leading(list, now)
      BY <2>1
    <3> HIDE DEF due
    <3> QED
      BY <1>3, <1>6, <3>1, LeadingSplits
  <2>2. CASE ~(now >= next)
    <3>1. due = 0 /\ list \in Seq(ListItem_t) /\ Len(list) \in Nat
      BY <1>6, <2>2, LenProperties DEF ListOK
    <3>2. SubSeq(list, 1, Len(list)) = list
      <4>1. /\ SubSeq(list, 1, Len(list)) \in Seq(ListItem_t)
            /\ Len(SubSeq(list, 1, Len(list))) = Len(list)
            /\ \A i \in 1..Len(list) : SubSeq(list, 1, Len(list))[i] = list[i]
        BY <3>1, SubSeqProperties
      <4> QED
        BY <3>1, <4>1, SeqEqual
    <3>3. rest = list
      BY <3>1, <3>2
    <3>4. \A x \in Items(list) : x.value > now
      BY <1>3, <1>4, <1>6, <1>7, <2>2, TickNumbers
    <3>5. {y \in Items(list) : y.value <= now} = {}
      BY <1>3, <1>4, <1>7, <3>4
    <3>6. {list[i].owner : i \in 1..due} = {}
      BY <3>1
    <3> QED
      BY <1>6, <3>3, <3>4, <3>5, <3>6
  <2> QED
    BY <2>1, <2>2
<1> HIDE DEF rest, due
<1>10. Items(rest) = {x \in Items(list) : x.value # now}
  BY <1>3, <1>4, <1>7, <1>8, <1>9
<1>11. \A x \in Items(pxOverflowDelayedTaskList') : x.value < now
  BY <1>1, <1>2, <1>3, <1>4, <1>5 DEF Lists, AllItems
<1>12. AllItems' = {x \in AllItems : x.value # now}
  <2>1. AllItems' = Items(rest) \cup Items(pxOverflowDelayedTaskList')
    BY <1>2 DEF AllItems
  <2> QED
    BY <1>3, <1>4, <1>7, <1>10, <1>11, <2>1
<1>13. xEventList' = xEventList \ {x.owner : x \in {y \in AllItems : y.value = now}}
  <2>1. {y \in Items(list) : y.value <= now} = {y \in AllItems : y.value = now}
    BY <1>3, <1>4, <1>7, <1>8, <1>11
  <2> QED
    BY <1>2, <1>9, <2>1
<1>14. Lists'
  <2>1. ListOK(pxDelayedTaskList') /\ ListOK(pxOverflowDelayedTaskList')
    BY <1>1, <1>2, <1>9 DEF Lists
  <2>2. xNextTaskUnblockTime' \in TickType_t
    BY <1>2, <1>6, <1>9, NextUnblockTimeType
  <2>3. \A x, y \in AllItems' : x.owner = y.owner => x = y
    BY <1>1, <1>12 DEF Lists
  <2>4. \A x \in Items(pxDelayedTaskList') : x.value > now /\ xNextTaskUnblockTime' <= x.value
    BY <1>2, <1>6, <1>9, NextUnblockTimeType
  <2>5. Delayed' \cap xSuspendedTaskList' = {}
    <3>1. Delayed' = {x.owner : x \in AllItems'}
      BY DEF Delayed, Owners, AllItems
    <3> QED
      BY <1>1, <1>2, <1>12, <3>1, ItemTypes DEF Lists
  <2> QED
    BY <1>2, <1>11, <2>1, <2>2, <2>3, <2>4, <2>5 DEF Lists, ListOK, Sorted, NoRepeat
<1> QED
  BY <1>2, <1>12, <1>13, <1>14 DEF now

-----------------------------------------------------------------------------
(* What the actions do to the lists. *)

\* The lists after a running task was put in one of them: in the suspended list,
\* or in a delayed list with the wake time it asked for.
LEMMA AddToDelayedListSound ==
  ASSUME IInv, NEW t \in Tasks, t \notin Blocked, NEW ticks \in 1..portMAX_DELAY,
         NEW indefinitely \in BOOLEAN, AddToDelayedList(t, ticks, indefinitely),
         UNCHANGED xTickCount
  PROVE  /\ Lists'
         /\ \/ /\ ticks = portMAX_DELAY /\ indefinitely
               /\ AllItems' = AllItems
               /\ xSuspendedTaskList' = xSuspendedTaskList \cup {t}
            \/ /\ AllItems' = AllItems \cup {[owner |-> t, value |-> Plus(xTickCount, ticks)]}
               /\ xSuspendedTaskList' = xSuspendedTaskList
<1>1. Lists /\ Typed
  BY DEF IInv
<1>2. CASE ticks = portMAX_DELAY /\ indefinitely
  <2>1. /\ xSuspendedTaskList' = xSuspendedTaskList \cup {t}
        /\ UNCHANGED <<pxDelayedTaskList, pxOverflowDelayedTaskList, xNextTaskUnblockTime>>
    BY <1>2 DEF AddToDelayedList
  <2>2. AllItems' = AllItems /\ Delayed' = Delayed /\ t \notin Delayed
    BY <2>1 DEF AllItems, Items, Delayed, Owners, Blocked
  <2>3. Lists'
    BY <1>1, <2>1, <2>2 DEF Lists, ListOK, Sorted, NoRepeat, Items
  <2> QED
    BY <1>2, <2>1, <2>2, <2>3
<1>3. CASE ~(ticks = portMAX_DELAY /\ indefinitely)
  <2> DEFINE wake == Plus(xTickCount, ticks)
             item == [owner |-> t, value |-> wake]
  <2>1. /\ IF wake < xTickCount
           THEN /\ pxOverflowDelayedTaskList' = Insert(pxOverflowDelayedTaskList, item)
                /\ UNCHANGED <<pxDelayedTaskList, xNextTaskUnblockTime>>
           ELSE /\ pxDelayedTaskList' = Insert(pxDelayedTaskList, item)
                /\ xNextTaskUnblockTime' = IF wake < xNextTaskUnblockTime THEN wake
                                                                         ELSE xNextTaskUnblockTime
                /\ UNCHANGED pxOverflowDelayedTaskList
        /\ xSuspendedTaskList' = xSuspendedTaskList
    BY <1>3 DEF AddToDelayedList
  <2>2. /\ wake \in TickType_t /\ wake \in Int /\ wake # xTickCount
        /\ xTickCount \in Int /\ xNextTaskUnblockTime \in Int
    BY <1>1, TickNumbers DEF Typed, Plus, Lists
  <2>3. item \in ListItem_t /\ item.owner = t /\ item.value = wake
    BY <2>2 DEF ListItem_t
  <2>4. /\ t \notin Owners(pxDelayedTaskList) /\ t \notin Owners(pxOverflowDelayedTaskList)
        /\ \A x \in AllItems : x.owner # t
        /\ t \notin xSuspendedTaskList
    BY DEF Blocked, Delayed, Owners, AllItems
  <2>5. \A x \in AllItems : x.value \in Int
    BY <1>1, ItemTypes, TickNumbers
  <2> HIDE DEF item, wake
  <2>6. CASE wake < xTickCount
    <3>1. ListOK(pxOverflowDelayedTaskList') /\
          Items(pxOverflowDelayedTaskList') = Items(pxOverflowDelayedTaskList) \cup {item}
      BY <1>1, <2>1, <2>3, <2>4, <2>6, InsertSound DEF Lists
    <3>2. AllItems' = AllItems \cup {item} /\ pxDelayedTaskList' = pxDelayedTaskList
          /\ xNextTaskUnblockTime' = xNextTaskUnblockTime
      BY <2>1, <2>6, <3>1 DEF AllItems
    <3>3. \A x \in Items(pxOverflowDelayedTaskList') : x.value < xTickCount
      BY <1>1, <2>3, <2>6, <3>1 DEF Lists
    <3>4. Delayed' = Delayed \cup {t}
      BY <2>3, <3>1, <3>2 DEF Delayed, Owners
    <3>5. \A x, y \in AllItems' : x.owner = y.owner => x = y
      BY <1>1, <2>3, <2>4, <3>2 DEF Lists
    <3>6. Lists'
      BY <1>1, <2>1, <2>4, <3>1, <3>2, <3>3, <3>4, <3>5 DEF Lists
    <3> QED
      BY <2>1, <3>2, <3>6 DEF item, wake
  <2>7. CASE ~(wake < xTickCount)
    <3>1. ListOK(pxDelayedTaskList') /\
          Items(pxDelayedTaskList') = Items(pxDelayedTaskList) \cup {item}
      BY <1>1, <2>1, <2>3, <2>4, <2>7, InsertSound DEF Lists
    <3>2. AllItems' = AllItems \cup {item} /\ pxOverflowDelayedTaskList' = pxOverflowDelayedTaskList
      BY <2>1, <2>7, <3>1 DEF AllItems
    <3>3. xNextTaskUnblockTime' \in TickType_t /\ xNextTaskUnblockTime' <= wake
          /\ xNextTaskUnblockTime' <= xNextTaskUnblockTime
      BY <1>1, <2>1, <2>2, <2>7 DEF Lists
    <3>4. \A x \in Items(pxDelayedTaskList') : x.value > xTickCount /\ xNextTaskUnblockTime' <= x.value
      <4>1. \A x \in Items(pxDelayedTaskList) : x.value \in Int
        BY <2>5 DEF AllItems
      <4>2. xNextTaskUnblockTime' \in Int
        BY <3>3, TickNumbers
      <4> QED
        BY <1>1, <2>2, <2>3, <2>7, <3>1, <3>3, <4>1, <4>2 DEF Lists
    <3>5. Delayed' = Delayed \cup {t}
      BY <2>3, <3>1, <3>2 DEF Delayed, Owners
    <3>6. \A x, y \in AllItems' : x.owner = y.owner => x = y
      BY <1>1, <2>3, <2>4, <3>2 DEF Lists
    <3>7. Lists'
      BY <1>1, <2>1, <2>4, <3>1, <3>2, <3>3, <3>4, <3>5, <3>6 DEF Lists
    <3> QED
      BY <2>1, <3>2, <3>7 DEF item, wake
  <2> QED
    BY <2>6, <2>7
<1> QED
  BY <1>2, <1>3

\* Releasing tasks removes their items and nothing else.
LEMMA RemoveFromStateListsSound ==
  ASSUME IInv, NEW T, RemoveFromStateLists(T), UNCHANGED xTickCount,
         xNextTaskUnblockTime' \in {xNextTaskUnblockTime, NextUnblockTime(pxDelayedTaskList')}
  PROVE  /\ Lists'
         /\ AllItems' = {x \in AllItems : x.owner \notin T}
         /\ Delayed' = Delayed \ T
         /\ xSuspendedTaskList' = xSuspendedTaskList \ T
<1>1. Lists
  BY DEF IInv
<1>2. /\ ListOK(pxDelayedTaskList')
      /\ Items(pxDelayedTaskList') = {x \in Items(pxDelayedTaskList) : x.owner \notin T}
  BY <1>1, WithoutSound DEF RemoveFromStateLists, Lists
<1>3. /\ ListOK(pxOverflowDelayedTaskList')
      /\ Items(pxOverflowDelayedTaskList') = {x \in Items(pxOverflowDelayedTaskList) : x.owner \notin T}
  BY <1>1, WithoutSound DEF RemoveFromStateLists, Lists
<1>4. AllItems' = {x \in AllItems : x.owner \notin T}
  BY <1>2, <1>3 DEF AllItems
<1>5. xSuspendedTaskList' = xSuspendedTaskList \ T
  BY DEF RemoveFromStateLists
<1>6. Delayed' = Delayed \ T
  BY <1>2, <1>3 DEF Delayed, Owners
<1>7. /\ xNextTaskUnblockTime' \in TickType_t
      /\ \A x \in Items(pxDelayedTaskList') : xNextTaskUnblockTime' <= x.value
  BY <1>1, <1>2, NextUnblockTimeType DEF Lists
<1>8. \A x, y \in AllItems' : x.owner = y.owner => x = y
  BY <1>1, <1>4 DEF Lists
<1>9. Lists'
  BY <1>1, <1>2, <1>3, <1>5, <1>6, <1>7, <1>8 DEF Lists
<1> QED
  BY <1>4, <1>5, <1>6, <1>9

\* A step that leaves the lists and the tick count alone.
LEMMA ListsUnchanged ==
  ASSUME Lists, UNCHANGED listVars, UNCHANGED xTickCount
  PROVE  Lists' /\ AllItems' = AllItems /\ Delayed' = Delayed /\ Blocked' = Blocked
         /\ \A t : Remaining(t)' = Remaining(t)
<1>1. AllItems' = AllItems /\ Delayed' = Delayed /\ Blocked' = Blocked
  BY DEF listVars, AllItems, Items, Delayed, Owners, Blocked
<1>2. Lists'
  BY <1>1 DEF listVars, Lists, ListOK, Sorted, NoRepeat, Items
<1>3. \A t : Remaining(t)' = Remaining(t)
  BY DEF listVars, Remaining, Items, Minus
<1> QED
  BY <1>1, <1>2, <1>3

-----------------------------------------------------------------------------
(* The abstract delays. *)

\* Left in terms of the items.
LEMMA LeftOf ==
  Lists /\ Typed =>
    /\ Left \in [Tasks -> TickType_t]
    /\ \A x \in AllItems : x.owner \notin xPendingReadyList =>
         Left[x.owner] = Minus(x.value, xTickCount) /\ Left[x.owner] \in 1..portMAX_DELAY
    /\ \A t \in Tasks : (\A x \in AllItems : x.owner # t) \/ t \in xPendingReadyList =>
         Left[t] = 0
<1> SUFFICES ASSUME Lists, Typed
             PROVE  /\ Left \in [Tasks -> TickType_t]
                    /\ \A x \in AllItems : x.owner \notin xPendingReadyList =>
                         Left[x.owner] = Minus(x.value, xTickCount) /\ Left[x.owner] \in 1..portMAX_DELAY
                    /\ \A t \in Tasks : (\A x \in AllItems : x.owner # t) \/ t \in xPendingReadyList =>
                         Left[t] = 0
  OBVIOUS
<1>1. /\ \A x \in AllItems : x.owner \in Tasks /\ x.value \in TickType_t
      /\ Delayed = {x.owner : x \in AllItems}
  BY ItemTypes
<1>2. \A x \in AllItems : x.value # xTickCount
  <2>1. \A x \in AllItems : x.value \in Int
    BY <1>1, TickNumbers
  <2> QED
    BY <2>1, TickNumbers DEF Lists, AllItems, Typed
<1>3. \A x \in AllItems : Minus(x.value, xTickCount) \in 1..portMAX_DELAY
  BY <1>1, <1>2, TickNumbers DEF Minus, Typed
<1>4. \A x \in AllItems : Remaining(x.owner) = Minus(x.value, xTickCount)
  BY RemainingOf
<1>5. \A t \in Tasks : Left[t] = IF t \in Delayed \ xPendingReadyList THEN Remaining(t) ELSE 0
  BY DEF Left
<1>6. \A x \in AllItems : x.owner \notin xPendingReadyList =>
         Left[x.owner] = Minus(x.value, xTickCount) /\ Left[x.owner] \in 1..portMAX_DELAY
  BY <1>1, <1>3, <1>4, <1>5
<1>7. \A t \in Tasks : (\A x \in AllItems : x.owner # t) \/ t \in xPendingReadyList => Left[t] = 0
  BY <1>1, <1>5
<1>8. \A t \in Tasks : Left[t] \in TickType_t
  <2> SUFFICES ASSUME NEW t \in Tasks PROVE Left[t] \in TickType_t
    OBVIOUS
  <2>1. CASE \E x \in AllItems : x.owner = t /\ t \notin xPendingReadyList
    BY <1>6, <2>1, TickNumbers
  <2>2. CASE ~\E x \in AllItems : x.owner = t /\ t \notin xPendingReadyList
    BY <1>7, <2>2, TickNumbers
  <2> QED
    BY <2>1, <2>2
<1>9. Left = [t \in Tasks |-> Left[t]]
  BY DEF Left
<1> QED
  BY <1>6, <1>7, <1>8, <1>9

\* The same of the next state.
LEMMA LeftOfNext ==
  Lists' /\ Typed' =>
    /\ Left' \in [Tasks -> TickType_t]
    /\ \A x \in AllItems' : x.owner \notin xPendingReadyList' =>
         Left'[x.owner] = Minus(x.value, xTickCount') /\ Left'[x.owner] \in 1..portMAX_DELAY
    /\ \A t \in Tasks : (\A x \in AllItems' : x.owner # t) \/ t \in xPendingReadyList' =>
         Left'[t] = 0
<1>1. TickType_t' = TickType_t /\ \A a, b : Minus(a, b)' = Minus(a, b)
  BY DEF TickType_t, Minus
<1>2. (Lists /\ Typed =>
        /\ Left \in [Tasks -> TickType_t]
        /\ \A x \in AllItems : x.owner \notin xPendingReadyList =>
             Left[x.owner] = Minus(x.value, xTickCount) /\ Left[x.owner] \in 1..portMAX_DELAY
        /\ \A t \in Tasks : (\A x \in AllItems : x.owner # t) \/ t \in xPendingReadyList =>
             Left[t] = 0)'
  BY LeftOf, PTL
<1> QED
  BY <1>1, <1>2

\* A task that begins a delay sets its alarm, unless it waits without a time-out.
LEMMA LeftAfterAdd ==
  ASSUME IInv, NEW t \in Tasks, t \notin Blocked, NEW ticks \in 1..portMAX_DELAY,
         NEW indefinitely \in BOOLEAN, AddToDelayedList(t, ticks, indefinitely),
         UNCHANGED <<xTickCount, xPendingReadyList>>, Typed'
  PROVE  Left' = Left \/ A!Set(t, ticks)
<1>1. Lists /\ Typed /\ Lists'
  BY AddToDelayedListSound DEF IInv
<1>2. t \notin xPendingReadyList /\ \A x \in AllItems : x.owner # t
  BY DEF Blocked, Delayed, Owners, AllItems, IInv, EventListSound
<1>3. Left[t] = 0 /\ Left \in [Tasks -> TickType_t] /\ Left' \in [Tasks -> TickType_t]
  BY <1>1, <1>2, LeftOf, LeftOfNext
<1>4. CASE AllItems' = AllItems
  <2>1. \A u \in Tasks : Left'[u] = Left[u]
    BY <1>1, <1>4, LeftOf, LeftOfNext
  <2> QED
    BY <1>3, <2>1
<1>5. CASE AllItems' = AllItems \cup {[owner |-> t, value |-> Plus(xTickCount, ticks)]}
  <2> DEFINE item == [owner |-> t, value |-> Plus(xTickCount, ticks)]
  <2>1. item \in AllItems' /\ item.owner = t /\ item.value = Plus(xTickCount, ticks)
    BY <1>5
  <2>2. Minus(Plus(xTickCount, ticks), xTickCount) = ticks
    BY <1>1, TickArithmetic, TickNumbers DEF Typed
  <2> HIDE DEF item
  <2>3. Left'[t] = ticks
    BY <1>1, <1>2, <2>1, <2>2, LeftOfNext
  <2>4. \A u \in Tasks : u # t => Left'[u] = Left[u]
    <3> SUFFICES ASSUME NEW u \in Tasks, u # t PROVE Left'[u] = Left[u]
      OBVIOUS
    <3>1. \A x : x.owner = u => (x \in AllItems' <=> x \in AllItems)
      BY <1>5, <2>1 DEF item
    <3>2. CASE \E x \in AllItems : x.owner = u /\ u \notin xPendingReadyList
      BY <1>1, <3>1, <3>2, LeftOf, LeftOfNext
    <3>3. CASE ~\E x \in AllItems : x.owner = u /\ u \notin xPendingReadyList
      BY <1>1, <3>1, <3>3, LeftOf, LeftOfNext
    <3> QED
      BY <3>2, <3>3
  <2>5. Left' = [Left EXCEPT ![t] = ticks]
    BY <1>3, <2>3, <2>4
  <2> QED
    BY <1>3, <2>5 DEF A!Set
<1> QED
  BY <1>4, <1>5, AddToDelayedListSound

\* Releasing tasks leaves the alarms of the others alone.
LEMMA LeftAfterRemove ==
  ASSUME Lists, Typed, Lists', Typed', NEW T,
         AllItems' = {x \in AllItems : x.owner \notin T}, UNCHANGED xTickCount,
         NEW u \in Tasks, u \notin T,
         u \in xPendingReadyList' <=> u \in xPendingReadyList
  PROVE  Left'[u] = Left[u]
<1>1. CASE \E x \in AllItems : x.owner = u /\ u \notin xPendingReadyList
  BY <1>1, LeftOf, LeftOfNext
<1>2. CASE ~\E x \in AllItems : x.owner = u /\ u \notin xPendingReadyList
  BY <1>2, LeftOf, LeftOfNext
<1> QED
  BY <1>1, <1>2

\* A tick moves every alarm one tick nearer.
LEMMA LeftAfterTick ==
  ASSUME IInv, IncrementTick, xPendingReadyList = {}, UNCHANGED xPendingReadyList, Typed'
  PROVE  A!Tick
<1>1. Lists /\ Typed /\ Lists' /\ xTickCount' = Plus(xTickCount, 1)
      /\ AllItems' = {x \in AllItems : x.value # xTickCount'}
  BY TickLists DEF IInv
<1>2. Left \in [Tasks -> TickType_t] /\ Left' \in [Tasks -> TickType_t]
  BY <1>1, LeftOf, LeftOfNext
<1>3. ASSUME NEW u \in Tasks PROVE Left'[u] = IF Left[u] = 0 THEN 0 ELSE Left[u] - 1
  <2>1. CASE \E x \in AllItems : x.owner = u
    <3>1. PICK x \in AllItems : x.owner = u
      BY <2>1
    <3>2. Left[u] = Minus(x.value, xTickCount) /\ Left[u] \in 1..portMAX_DELAY
      BY <1>1, <3>1, LeftOf
    <3>3. \A y \in AllItems : y.owner = u => y = x
      BY <1>1, <3>1 DEF Lists
    <3>4. x.value \in TickType_t
      BY <1>1, ItemTypes
    <3>7. x.value # xTickCount /\ xTickCount \in TickType_t
      <4>0. TickType_t \subseteq Int
        BY TickNumbers
      <4>2. xTickCount \in TickType_t
        BY <1>1 DEF Typed
      <4>1. x.value \in Int /\ xTickCount \in Int
        BY <3>4, <4>0, <4>2
      <4> QED
        BY <1>1, <4>1 DEF Lists, AllItems, Typed
    <3>5. CASE x.value = xTickCount'
      <4>1. Left[u] = 1
        BY <1>1, <3>2, <3>4, <3>5, <3>7, TickAdvances
      <4>2. Left'[u] = 0
        BY <1>1, <3>3, <3>5, LeftOfNext
      <4> QED
        BY <4>1, <4>2
    <3>6. CASE x.value # xTickCount'
      <4>1. Minus(x.value, xTickCount') = Minus(x.value, xTickCount) - 1
        BY <1>1, <3>4, <3>6, <3>7, TickAdvances
      <4>2. Left'[u] = Minus(x.value, xTickCount')
        BY <1>1, <3>1, <3>6, LeftOfNext
      <4> QED
        BY <3>2, <4>1, <4>2
    <3> QED
      BY <3>5, <3>6
  <2>2. CASE \A x \in AllItems : x.owner # u
    BY <1>1, <2>2, LeftOf, LeftOfNext
  <2> QED
    BY <2>1, <2>2
<1> QED
  BY <1>2, <1>3 DEF A!Tick

-----------------------------------------------------------------------------
(* Every step keeps the invariant. *)

\* What xTaskCheckForTimeOut leaves behind.
LEMMA CheckForTimeOutType ==
  ASSUME Typed, NEW t \in Tasks, xTicksToWait[t] > 0
  PROVE  /\ CheckForTimeOut(t).ticks \in TickType_t
         /\ CheckForTimeOut(t).timeOut \in (0..OverflowModulus - 1) \X TickType_t
         /\ ~CheckForTimeOut(t).expired => CheckForTimeOut(t).ticks \in 1..portMAX_DELAY
<1>1. /\ xTicksToWait[t] \in TickType_t /\ xTimeOut[t] \in (0..OverflowModulus - 1) \X TickType_t
      /\ <<xNumOfOverflows, xTickCount>> \in (0..OverflowModulus - 1) \X TickType_t
      /\ xTimeOut[t][2] \in TickType_t
  BY DEF Typed
<1>2. Minus(xTickCount, xTimeOut[t][2]) \in TickType_t
  BY <1>1, TickArithmetic DEF Typed
<1> DEFINE elapsed == Minus(xTickCount, xTimeOut[t][2])
<1>3. elapsed < xTicksToWait[t] => xTicksToWait[t] - elapsed \in 1..portMAX_DELAY
  BY <1>1, <1>2, TickNumbers
<1>4. xTicksToWait[t] \in 1..portMAX_DELAY /\ 0 \in TickType_t /\ 1..portMAX_DELAY \subseteq TickType_t
  BY <1>1, TickNumbers
<1> HIDE DEF elapsed
<1>5. \/ CheckForTimeOut(t) \in
            {[expired |-> FALSE, ticks |-> xTicksToWait[t], timeOut |-> xTimeOut[t]],
             [expired |-> TRUE, ticks |-> xTicksToWait[t], timeOut |-> xTimeOut[t]],
             [expired |-> TRUE, ticks |-> 0, timeOut |-> xTimeOut[t]]}
      \/ /\ elapsed < xTicksToWait[t]
         /\ CheckForTimeOut(t) =
              [expired |-> FALSE, ticks |-> xTicksToWait[t] - elapsed,
               timeOut |-> <<xNumOfOverflows, xTickCount>>]
  BY DEF CheckForTimeOut, elapsed
<1> QED
  BY <1>1, <1>3, <1>4, <1>5

\* A task that may run is in no list, and a periodic one is not early.
LEMMA RunnerFree ==
  ASSUME IInv, NEW t \in Tasks, MayRun(t)
  PROVE  /\ t \notin Blocked /\ t \notin xEventList /\ t \notin xPendingReadyList
         /\ suspender = NULL /\ uxPendedCounts = 0 /\ uxPendedTicks = 0
         /\ xPendingReadyList = {}
         /\ lag[t] # NULL => lag[t] \in 0..portMAX_DELAY
<1>1. t \notin Blocked /\ suspender = NULL /\ uxPendedCounts = 0
  BY DEF MayRun
<1>2. t \notin xEventList /\ t \notin xPendingReadyList /\ uxPendedTicks = 0 /\ xPendingReadyList = {}
  BY <1>1 DEF IInv, EventListSound, Pending
<1>3. lag[t] # NULL => lag[t] \in 0..portMAX_DELAY
  <2>1. lag[t] \in (-portMAX_DELAY..portMAX_DELAY) \cup {NULL}
    BY DEF IInv, Typed
  <2>2. lag[t] # NULL /\ lag[t] < 0 => t \in Delayed
    BY DEF IInv, PeriodKept
  <2> QED
    BY <1>1, <2>1, <2>2, TickNumbers DEF Blocked
<1> QED
  BY <1>1, <1>2, <1>3

\* The tick keeps the types of what it changes.
LEMMA IncrementTickTyped ==
  ASSUME IInv, IncrementTick
  PROVE  /\ xTickCount' \in TickType_t
         /\ xNumOfOverflows' \in 0..OverflowModulus - 1
         /\ xEventList' \subseteq Tasks
         /\ xSuspendedTaskList' = xSuspendedTaskList
         /\ lag' \in [Tasks -> (-portMAX_DELAY..portMAX_DELAY) \cup {NULL}]
         /\ age' \in [Tasks -> 0..Period + 1]
<1>1. Typed
  BY DEF IInv
<1>2. xTickCount' \in TickType_t
  <2>1. 1 \in TickType_t
    BY TickNumbers
  <2> QED
    BY <1>1, <2>1, TickArithmetic DEF IncrementTick, Typed
<1>3. xNumOfOverflows' \in 0..OverflowModulus - 1
  <2>1. xNumOfOverflows' \in {xNumOfOverflows, (xNumOfOverflows + 1) % OverflowModulus}
    BY DEF IncrementTick
  <2>2. xNumOfOverflows \in 0..OverflowModulus - 1 /\ OverflowModulus \in Nat /\ OverflowModulus > 2
    BY <1>1, TicksAssumption DEF Typed
  <2> QED
    BY <2>1, <2>2
<1>4. xEventList' \subseteq Tasks /\ xSuspendedTaskList' = xSuspendedTaskList
  BY <1>1 DEF IncrementTick, Typed
<1>5. lag' \in [Tasks -> (-portMAX_DELAY..portMAX_DELAY) \cup {NULL}]
  <2>1. lag' = [t \in Tasks |-> IF lag[t] = NULL \/ lag[t] = portMAX_DELAY THEN NULL ELSE lag[t] + 1]
    BY DEF IncrementTick, Age
  <2>2. ASSUME NEW t \in Tasks, lag[t] # NULL, lag[t] # portMAX_DELAY
        PROVE  lag[t] + 1 \in -portMAX_DELAY..portMAX_DELAY
    <3>1. lag[t] \in -portMAX_DELAY..portMAX_DELAY
      BY <1>1, <2>2 DEF Typed
    <3> QED
      BY <2>2, <3>1, TickNumbers
  <2> QED
    BY <2>1, <2>2
<1>6. age' \in [Tasks -> 0..Period + 1]
  <2>1. \A t \in Tasks : age'[t] \in {age[t], age[t] + 1} /\ (age'[t] # age[t] => age[t] <= Period)
        /\ age[t] \in 0..Period + 1
    BY <1>1 DEF IncrementTick, Age, Typed
  <2>2. \A t \in Tasks : age'[t] \in 0..Period + 1
    BY <2>1, TickNumbers
  <2>3. age' = [t \in Tasks |-> age'[t]]
    BY DEF IncrementTick, Age
  <2> QED
    BY <2>2, <2>3
<1> QED
  BY <1>2, <1>3, <1>4, <1>5, <1>6

\* Types are kept.
LEMMA TypedStep == ASSUME IInv, [Next]_vars PROVE Typed'
<1> USE DEF listVars, clockVars, pendVars, waitVars
<1>0. /\ Typed /\ TickType_t' = TickType_t /\ Period' = Period
      /\ 0 \in TickType_t /\ 1 \in TickType_t /\ 1..portMAX_DELAY \subseteq TickType_t
      /\ 0 \in 0..Period + 1 /\ 0 \in -portMAX_DELAY..portMAX_DELAY
  BY TickNumbers DEF IInv, TickType_t, Period
<1>1. CASE Tick
  <2>1. interrupts' \in TickType_t
    BY <1>0, <1>1, TickArithmetic DEF Tick, Typed
  <2>2. CASE suspender = NULL
    BY <1>0, <1>1, <2>1, <2>2, IncrementTickTyped DEF Tick, Typed
  <2>3. CASE suspender # NULL
    <3>1. uxPendedTicks' \in 0..MaxPended
      BY <1>0, <1>1, <2>3, TickNumbers DEF Tick, Typed
    <3> QED
      BY <1>0, <1>1, <2>1, <2>3, <3>1 DEF Tick, Typed
  <2> QED
    BY <2>2, <2>3
<1>2. CASE ProcessPendedTick
  <2>1. uxPendedCounts' \in 0..MaxPended /\ uxPendedTicks' \in 0..MaxPended
    BY <1>0, <1>2, TickNumbers DEF ProcessPendedTick, Typed
  <2> QED
    BY <1>0, <1>2, <2>1, IncrementTickTyped DEF ProcessPendedTick, Typed
<1>3. ASSUME NEW t \in Tasks, NEW ticks \in 1..portMAX_DELAY, vTaskDelay(t, ticks)
      PROVE  Typed'
  <2>1. xSuspendedTaskList' = xSuspendedTaskList
    BY <1>3 DEF vTaskDelay, AddToDelayedList
  <2> QED
    BY <1>0, <1>3, <2>1 DEF vTaskDelay, Suspend, Typed
<1>4. ASSUME NEW t \in Tasks, NEW ticks \in 1..portMAX_DELAY, vTaskDelayUntil(t, ticks)
      PROVE  Typed'
  <2>1. xSuspendedTaskList' = xSuspendedTaskList
    BY <1>4 DEF vTaskDelayUntil, AddToDelayedList
  <2>2. lag[t] - ticks \in -portMAX_DELAY..portMAX_DELAY
    <3>1. lag[t] \in 0..portMAX_DELAY
      BY <1>4, RunnerFree DEF vTaskDelayUntil, Suspend
    <3> QED
      BY <3>1, TickNumbers
  <2>3. lag' \in [Tasks -> (-portMAX_DELAY..portMAX_DELAY) \cup {NULL}]
    BY <1>0, <1>4, <2>2 DEF vTaskDelayUntil, Typed
  <2>4. pxPreviousWakeTime' \in [Tasks -> TickType_t]
    <3>1. Plus(pxPreviousWakeTime[t], ticks) \in TickType_t
      BY <1>0, TickArithmetic DEF Typed
    <3> QED
      BY <1>0, <1>4, <3>1 DEF vTaskDelayUntil, Typed
  <2> QED
    BY <1>0, <1>4, <2>1, <2>3, <2>4 DEF vTaskDelayUntil, Suspend, Typed
<1>5. ASSUME NEW t \in Tasks, NEW ticks \in 1..portMAX_DELAY, EnterWait(t, ticks)
      PROVE  Typed'
  BY <1>0, <1>5 DEF EnterWait, Typed
<1>6. ASSUME NEW t \in Tasks, WaitForEvent(t) PROVE Typed'
  <2>1. xTicksToWait' \in [Tasks -> TickType_t]
        /\ xTimeOut' \in [Tasks -> (0..OverflowModulus - 1) \X TickType_t]
    BY <1>0, <1>6, CheckForTimeOutType DEF WaitForEvent, Typed
  <2>2. xSuspendedTaskList' \subseteq Tasks /\ xEventList' \subseteq Tasks
    BY <1>0, <1>6 DEF WaitForEvent, AddToDelayedList, Typed
  <2>3. PICK label \in {"expired", "blocked", "again"} : Suspend(t, label)
    BY <1>6 DEF WaitForEvent
  <2>4. UNCHANGED <<pxPreviousWakeTime, lag>>
    BY <1>6 DEF WaitForEvent
  <2> QED
    BY <1>0, <2>1, <2>2, <2>3, <2>4 DEF Suspend, Typed
<1>7. ASSUME NEW t \in Tasks, xTaskResumeAll(t) PROVE Typed'
  <2>1. xSuspendedTaskList' \subseteq Tasks
    BY <1>0, <1>7 DEF xTaskResumeAll, RemoveFromStateLists, Typed
  <2>2. /\ pc' \in [Tasks -> {"app", "delay", "until", "retry", "blocked", "again", "expired"}]
        /\ xTicksToWait' \in [Tasks -> TickType_t] /\ wait0' \in [Tasks -> TickType_t]
        /\ xTimeOut' \in [Tasks -> (0..OverflowModulus - 1) \X TickType_t]
        /\ age' \in [Tasks -> 0..Period + 1]
    <3>1. CASE Return(t)
      <4>1. <<0, 0>> \in (0..OverflowModulus - 1) \X TickType_t
        BY <1>0, TicksAssumption
      <4>2. /\ pc' \in [Tasks -> {"app", "delay", "until", "retry", "blocked", "again", "expired"}]
            /\ xTicksToWait' \in [Tasks -> TickType_t] /\ wait0' \in [Tasks -> TickType_t]
        BY <1>0, <3>1 DEF Return, Typed
      <4>3. xTimeOut' \in [Tasks -> (0..OverflowModulus - 1) \X TickType_t]
        BY <1>0, <3>1, <4>1 DEF Return, Typed
      <4>4. age' \in [Tasks -> 0..Period + 1]
        BY <1>0, <3>1 DEF Return, Typed
      <4> QED
        BY <4>2, <4>3, <4>4
    <3>2. CASE /\ pc' = [pc EXCEPT ![t] = "retry"]
               /\ UNCHANGED <<waitVars, age>>
      BY <1>0, <3>2 DEF Typed
    <3> QED
      BY <1>7, <3>1, <3>2 DEF xTaskResumeAll
  <2> QED
    BY <1>0, <1>7, <2>1, <2>2 DEF xTaskResumeAll, Typed
<1>8. ASSUME NEW t \in Tasks, TryAgain(t) PROVE Typed'
  <2>1. <<0, 0>> \in (0..OverflowModulus - 1) \X TickType_t
    BY <1>0, TicksAssumption
  <2> QED
    BY <1>0, <1>8, <2>1 DEF TryAgain, Return, Typed
<1>9. ASSUME NEW t \in Tasks, xTaskRemoveFromEventList(t) PROVE Typed'
  <2>1. xSuspendedTaskList' \subseteq Tasks
    BY <1>0, <1>9 DEF xTaskRemoveFromEventList, RemoveFromStateLists, Typed
  <2> QED
    BY <1>0, <1>9, <2>1 DEF xTaskRemoveFromEventList, Typed
<1>10. ASSUME NEW t \in Tasks, StartPeriod(t) PROVE Typed'
  BY <1>0, <1>10 DEF StartPeriod, Typed
<1>11. CASE UNCHANGED vars
  BY <1>0, <1>11 DEF vars, Typed
<1> QED
  BY <1>1, <1>2, <1>3, <1>4, <1>5, <1>6, <1>7, <1>8, <1>9, <1>10, <1>11 DEF Next

\* A late task is not delayed and an early one is delayed by what is missing;
\* pxPreviousWakeTime advances by exactly one increment.
LEMMA DelayUntilArithmetic ==
  ASSUME NEW l \in 0..portMAX_DELAY, NEW inc \in 1..portMAX_DELAY, xTickCount \in TickType_t
  PROVE  LET previous == Minus(xTickCount, l)
             wake == Plus(previous, inc)
         IN /\ ShouldDelay(previous, wake) <=> inc > l
            /\ inc > l => Minus(wake, xTickCount) = inc - l
            /\ wake = Minus(xTickCount, IF l - inc < 0 THEN l - inc + Period ELSE l - inc)
<1> DEFINE now == xTickCount
           previous == Minus(now, l)
           wake == Plus(previous, inc)
<1>1. now \in 0..portMAX_DELAY /\ portMAX_DELAY \in Nat /\ Period = portMAX_DELAY + 1
  BY TickNumbers
<1> HIDE DEF now
<1>2. CASE now >= l
  <2>1. previous = now - l
    BY <1>2 DEF Minus
  <2>2. CASE now - l + inc > portMAX_DELAY
    <3>1. wake = now - l + inc - Period
      BY <2>1, <2>2 DEF Plus
    <3> HIDE DEF previous, wake
    <3> QED
      BY <1>1, <1>2, <2>1, <2>2, <3>1 DEF ShouldDelay, Minus, now, previous, wake
  <2>3. CASE ~(now - l + inc > portMAX_DELAY)
    <3>1. wake = now - l + inc
      BY <2>1, <2>3 DEF Plus
    <3> HIDE DEF previous, wake
    <3> QED
      BY <1>1, <1>2, <2>1, <2>3, <3>1 DEF ShouldDelay, Minus, now, previous, wake
  <2> QED
    BY <2>2, <2>3
<1>3. CASE ~(now >= l)
  <2>1. previous = now - l + Period
    BY <1>3 DEF Minus
  <2>2. CASE now - l + Period + inc > portMAX_DELAY
    <3>1. wake = now - l + inc
      BY <1>1, <2>1, <2>2 DEF Plus
    <3> HIDE DEF previous, wake
    <3> QED
      BY <1>1, <1>3, <2>1, <2>2, <3>1 DEF ShouldDelay, Minus, now, previous, wake
  <2>3. CASE ~(now - l + Period + inc > portMAX_DELAY)
    <3>1. wake = now - l + Period + inc
      BY <2>1, <2>3 DEF Plus
    <3> HIDE DEF previous, wake
    <3> QED
      BY <1>1, <1>3, <2>1, <2>3, <3>1 DEF ShouldDelay, Minus, now, previous, wake
  <2> QED
    BY <2>2, <2>3
<1> QED
  BY <1>2, <1>3 DEF now

\* What vTaskDelayUntil does with the lists and the times of its caller.
LEMMA DelayUntilEffect ==
  ASSUME IInv, NEW t \in Tasks, NEW inc \in 1..portMAX_DELAY, vTaskDelayUntil(t, inc)
  PROVE  /\ lag[t] \in 0..portMAX_DELAY
         /\ pxPreviousWakeTime'[t] =
              Minus(xTickCount, IF lag[t] - inc < 0 THEN lag[t] - inc + Period ELSE lag[t] - inc)
         /\ IF inc > lag[t]
            THEN inc - lag[t] \in 1..portMAX_DELAY
                 /\ AddToDelayedList(t, inc - lag[t], FALSE)
            ELSE UNCHANGED listVars
<1>1. lag[t] \in 0..portMAX_DELAY /\ lag[t] \in Int
  BY RunnerFree, TickNumbers DEF vTaskDelayUntil, Suspend
<1>2. pxPreviousWakeTime[t] = Minus(xTickCount, lag[t])
  <2>1. pxPreviousWakeTime[t] = Minus(xTickCount, IF lag[t] < 0 THEN lag[t] + Period ELSE lag[t])
    BY DEF vTaskDelayUntil, IInv, PeriodKept
  <2>2. ~(lag[t] < 0)
    BY <1>1, TickNumbers
  <2> QED
    BY <2>1, <2>2
<1>3. xTickCount \in TickType_t /\ pxPreviousWakeTime \in [Tasks -> TickType_t]
  BY DEF IInv, Typed
<1> DEFINE wake == Plus(pxPreviousWakeTime[t], inc)
<1>4. /\ pxPreviousWakeTime' = [pxPreviousWakeTime EXCEPT ![t] = wake]
      /\ IF ShouldDelay(pxPreviousWakeTime[t], wake)
         THEN AddToDelayedList(t, Minus(wake, xTickCount), FALSE)
         ELSE UNCHANGED listVars
  BY DEF vTaskDelayUntil
<1>5. /\ ShouldDelay(pxPreviousWakeTime[t], wake) <=> inc > lag[t]
      /\ inc > lag[t] => Minus(wake, xTickCount) = inc - lag[t]
      /\ wake = Minus(xTickCount, IF lag[t] - inc < 0 THEN lag[t] - inc + Period ELSE lag[t] - inc)
  BY <1>1, <1>2, <1>3, DelayUntilArithmetic
<1> HIDE DEF wake
<1>6. inc > lag[t] => inc - lag[t] \in 1..portMAX_DELAY
  BY <1>1, TickNumbers
<1> QED
  BY <1>1, <1>3, <1>4, <1>5, <1>6

\* Every step keeps the delayed lists sound.
LEMMA ListsStep == ASSUME IInv, [Next]_vars PROVE Lists'
<1> USE DEF clockVars
<1>0. Lists /\ Typed
  BY DEF IInv
<1>1. CASE Tick
  BY <1>0, <1>1, TickLists, ListsUnchanged DEF Tick
<1>2. CASE ProcessPendedTick
  BY <1>2, TickLists DEF ProcessPendedTick
<1>3. ASSUME NEW t \in Tasks, NEW ticks \in 1..portMAX_DELAY, vTaskDelay(t, ticks)
      PROVE  Lists'
  <2>1. t \notin Blocked
    BY <1>3, RunnerFree DEF vTaskDelay, Suspend
  <2>2. AddToDelayedList(t, ticks, FALSE) /\ UNCHANGED xTickCount
    BY <1>3 DEF vTaskDelay, Suspend
  <2> QED
    BY <2>1, <2>2, AddToDelayedListSound
<1>4. ASSUME NEW t \in Tasks, NEW ticks \in 1..portMAX_DELAY, vTaskDelayUntil(t, ticks)
      PROVE  Lists'
  <2>1. t \notin Blocked /\ UNCHANGED xTickCount
    BY <1>4, RunnerFree DEF vTaskDelayUntil, Suspend
  <2> QED
    BY <1>0, <1>4, <2>1, AddToDelayedListSound, ListsUnchanged, DelayUntilEffect
<1>5. ASSUME NEW t \in Tasks, WaitForEvent(t) PROVE Lists'
  <2>1. t \notin Blocked /\ UNCHANGED xTickCount /\ xTicksToWait[t] > 0
    BY <1>5, RunnerFree DEF WaitForEvent, Suspend
  <2>2. UNCHANGED listVars \/ (~CheckForTimeOut(t).expired
                               /\ AddToDelayedList(t, CheckForTimeOut(t).ticks, TRUE))
    BY <1>5 DEF WaitForEvent
  <2> QED
    BY <1>0, <2>1, <2>2, AddToDelayedListSound, ListsUnchanged, CheckForTimeOutType
<1>6. ASSUME NEW t \in Tasks, xTaskResumeAll(t) PROVE Lists'
  <2>1. /\ RemoveFromStateLists(xPendingReadyList) /\ UNCHANGED xTickCount
        /\ xNextTaskUnblockTime' \in {xNextTaskUnblockTime, NextUnblockTime(pxDelayedTaskList')}
    BY <1>6 DEF xTaskResumeAll
  <2> QED
    BY <2>1, RemoveFromStateListsSound
<1>7. ASSUME NEW t \in Tasks, xTaskRemoveFromEventList(t) PROVE Lists'
  <2>1. UNCHANGED xTickCount /\ UNCHANGED xNextTaskUnblockTime
    BY <1>7 DEF xTaskRemoveFromEventList
  <2>2. CASE RemoveFromStateLists({t})
    BY <2>1, <2>2, RemoveFromStateListsSound
  <2>3. CASE UNCHANGED <<pxDelayedTaskList, pxOverflowDelayedTaskList, xSuspendedTaskList>>
    BY <1>0, <2>1, <2>3, ListsUnchanged DEF listVars
  <2> QED
    BY <1>7, <2>2, <2>3 DEF xTaskRemoveFromEventList
<1>8. ASSUME NEW t \in Tasks, NEW ticks \in 1..portMAX_DELAY,
             EnterWait(t, ticks) \/ TryAgain(t) \/ StartPeriod(t)
      PROVE  Lists'
  <2>1. UNCHANGED listVars /\ UNCHANGED xTickCount
    BY <1>8 DEF EnterWait, TryAgain, StartPeriod
  <2> QED
    BY <1>0, <2>1, ListsUnchanged
<1>9. CASE UNCHANGED vars
  BY <1>0, <1>9, ListsUnchanged DEF vars
<1>10. 1 \in 1..portMAX_DELAY
  BY TickNumbers
<1> QED
  BY <1>1, <1>2, <1>3, <1>4, <1>5, <1>6, <1>7, <1>8, <1>9, <1>10 DEF Next

\* The tick interrupt and the loop over the pended ticks run outside the
\* sections that suspend the scheduler, when nothing awaits the resumption.
LEMMA TickSituation ==
  ASSUME IInv
  PROVE  /\ Tick /\ suspender = NULL =>
              IncrementTick /\ uxPendedTicks = 0 /\ xPendingReadyList = {}
         /\ ProcessPendedTick => IncrementTick /\ suspender = NULL /\ xPendingReadyList = {}
BY DEF IInv, Pending, EventListSound, Tick, ProcessPendedTick

\* Every step keeps the account of the ticks and of who has suspended the
\* scheduler.
LEMMA PendingStep == ASSUME IInv, [Next]_vars PROVE Pending' /\ Sections' /\ TicksAccounted'
<1> USE DEF pendVars, clockVars
<1>0. /\ Typed /\ Pending /\ Sections /\ TicksAccounted
      /\ uxPendedTicks \in 0..MaxPended /\ uxPendedCounts \in 0..MaxPended
      /\ xTickCount \in TickType_t /\ interrupts \in TickType_t /\ MaxPended \in Nat
      /\ pc \in [Tasks -> {"app", "delay", "until", "retry", "blocked", "again", "expired"}]
      /\ NULL \notin Tasks
      /\ (\A a, b : Plus(a, b)' = Plus(a, b))
  BY TickNumbers, TicksAssumption DEF IInv, Typed, Plus
<1>1. ASSUME NEW n \in 0..portMAX_DELAY - 1, NEW now \in TickType_t
      PROVE  Plus(now, n + 1) = Plus(Plus(now, n), 1) /\ Plus(now, n + 1) = Plus(Plus(now, 1), n)
             /\ Plus(now, 0) = now
  BY TickNumbers DEF Plus
<1>2. CASE Tick
  <2>1. UNCHANGED <<uxPendedCounts, suspender, pc>> /\ uxPendedCounts = 0
        /\ interrupts' = Plus(interrupts, 1)
    BY <1>2 DEF Tick
  <2>2. CASE suspender = NULL
    <3>1. uxPendedTicks' = uxPendedTicks /\ uxPendedTicks = 0 /\ xTickCount' = Plus(xTickCount, 1)
      BY <1>2, <2>2, TickSituation, TickLists DEF Tick
    <3>2. Plus(xTickCount, 0) = xTickCount /\ Plus(Plus(xTickCount, 1), 0) = Plus(xTickCount, 1)
      <4>1. 1 \in TickType_t /\ 0 \in 0..portMAX_DELAY - 1
        BY TickNumbers
      <4>2. Plus(xTickCount, 1) \in TickType_t
        BY <1>0, <4>1, TickArithmetic
      <4> QED
        BY <1>0, <1>1, <4>1, <4>2
    <3>3. interrupts = xTickCount
      BY <1>0, <2>1, <3>1, <3>2 DEF TicksAccounted
    <3>4. TicksAccounted'
      BY <1>0, <2>1, <3>1, <3>2, <3>3 DEF TicksAccounted
    <3> QED
      BY <1>0, <2>1, <3>1, <3>4 DEF Pending, Sections
  <2>3. CASE suspender # NULL
    <3>1. uxPendedTicks' = uxPendedTicks + 1 /\ xTickCount' = xTickCount
          /\ uxPendedTicks \in 0..portMAX_DELAY - 1
      BY <1>0, <1>2, <2>3, TickNumbers DEF Tick
    <3>2. interrupts = Plus(xTickCount, uxPendedTicks)
      BY <1>0, <2>1 DEF TicksAccounted
    <3>3. interrupts' = Plus(xTickCount, uxPendedTicks + 1)
      BY <1>0, <1>1, <2>1, <3>1, <3>2
    <3>4. TicksAccounted'
      BY <1>0, <2>1, <3>1, <3>3 DEF TicksAccounted
    <3> QED
      BY <1>0, <2>1, <2>3, <3>1, <3>4 DEF Pending, Sections
  <2> QED
    BY <2>2, <2>3
<1>3. CASE ProcessPendedTick
  <2>1. /\ uxPendedCounts > 0 /\ uxPendedCounts' = uxPendedCounts - 1
        /\ uxPendedTicks' = IF uxPendedCounts = 1 THEN 0 ELSE uxPendedTicks
        /\ UNCHANGED <<suspender, pc, interrupts>> /\ suspender = NULL
        /\ xTickCount' = Plus(xTickCount, 1)
    BY <1>3, TickSituation, TickLists DEF ProcessPendedTick
  <2>2. uxPendedCounts - 1 \in 0..portMAX_DELAY - 1
    BY <1>0, <2>1, TickNumbers
  <2>3. interrupts = Plus(xTickCount', uxPendedCounts - 1)
    <3>1. interrupts = Plus(xTickCount, uxPendedCounts)
      BY <1>0, <2>1 DEF TicksAccounted
    <3>2. uxPendedCounts = (uxPendedCounts - 1) + 1
      BY <1>0
    <3> QED
      BY <1>0, <1>1, <2>1, <2>2, <3>1, <3>2
  <2>4. (IF uxPendedCounts' > 0 THEN uxPendedCounts' ELSE uxPendedTicks') = uxPendedCounts - 1
    BY <1>0, <2>1
  <2>5. TicksAccounted'
    BY <1>0, <2>1, <2>3, <2>4 DEF TicksAccounted
  <2>6. Pending'
    BY <1>0, <2>1 DEF Pending
  <2> QED
    BY <1>0, <2>1, <2>5, <2>6 DEF Sections
<1>4. ASSUME NEW t \in Tasks, NEW label \in {"delay", "until", "blocked", "again", "expired"},
             Suspend(t, label)
      PROVE  Pending' /\ Sections' /\ TicksAccounted'
  <2>1. UNCHANGED <<xTickCount, uxPendedTicks, uxPendedCounts, interrupts>>
        /\ suspender' = t /\ pc' = [pc EXCEPT ![t] = label]
        /\ uxPendedCounts = 0 /\ suspender = NULL
    BY <1>4 DEF Suspend, MayRun
  <2>2. TicksAccounted'
    BY <1>0, <2>1 DEF TicksAccounted
  <2> QED
    BY <1>0, <2>1, <2>2 DEF Pending, Sections
<1>5. ASSUME NEW t \in Tasks, NEW ticks \in 1..portMAX_DELAY,
             vTaskDelay(t, ticks) \/ vTaskDelayUntil(t, ticks) \/ WaitForEvent(t)
      PROVE  Pending' /\ Sections' /\ TicksAccounted'
  BY <1>4, <1>5 DEF vTaskDelay, vTaskDelayUntil, WaitForEvent
<1>6. ASSUME NEW t \in Tasks, xTaskResumeAll(t)
      PROVE  Pending' /\ Sections' /\ TicksAccounted'
  <2>1. /\ UNCHANGED <<xTickCount, uxPendedTicks, interrupts>>
        /\ suspender = t /\ suspender' = NULL /\ uxPendedCounts' = uxPendedTicks
        /\ uxPendedCounts = 0
    BY <1>0, <1>6 DEF xTaskResumeAll, Pending
  <2>2. pc' \in {[pc EXCEPT ![t] = "app"], [pc EXCEPT ![t] = "retry"]}
    BY <1>6 DEF xTaskResumeAll, Return
  <2>3. TicksAccounted'
    BY <1>0, <2>1 DEF TicksAccounted
  <2>4. Sections'
    BY <1>0, <2>1, <2>2 DEF Sections
  <2> QED
    BY <1>0, <2>1, <2>3, <2>4 DEF Pending
<1>7. ASSUME NEW t \in Tasks, NEW ticks \in 1..portMAX_DELAY,
             EnterWait(t, ticks) \/ TryAgain(t) \/ StartPeriod(t) \/ xTaskRemoveFromEventList(t)
      PROVE  Pending' /\ Sections' /\ TicksAccounted'
  <2>1. UNCHANGED <<xTickCount, uxPendedTicks, uxPendedCounts, interrupts, suspender>>
        /\ pc' \in {pc, [pc EXCEPT ![t] = "app"], [pc EXCEPT ![t] = "retry"]}
    BY <1>7 DEF EnterWait, TryAgain, Return, StartPeriod, xTaskRemoveFromEventList
  <2>2. TicksAccounted'
    BY <1>0, <2>1 DEF TicksAccounted
  <2> QED
    BY <1>0, <2>1, <2>2 DEF Pending, Sections
<1>8. CASE UNCHANGED vars
  <2>1. UNCHANGED <<xTickCount, uxPendedTicks, uxPendedCounts, interrupts, suspender, pc>>
    BY <1>8 DEF vars
  <2>2. TicksAccounted'
    BY <1>0, <2>1 DEF TicksAccounted
  <2> QED
    BY <1>0, <2>1, <2>2 DEF Pending, Sections
<1>9. 1 \in 1..portMAX_DELAY
  BY TickNumbers
<1> QED
  BY <1>2, <1>3, <1>5, <1>6, <1>7, <1>8, <1>9 DEF Next

\* Every step keeps the event lists and the delayed lists consistent.
LEMMA WaitingStep == ASSUME IInv, [Next]_vars PROVE EventListSound' /\ Waiters'
<1> USE DEF clockVars
<1>0. /\ Typed /\ Lists /\ Waiters /\ EventListSound
      /\ pc \in [Tasks -> {"app", "delay", "until", "retry", "blocked", "again", "expired"}]
      /\ lag \in [Tasks -> (-portMAX_DELAY..portMAX_DELAY) \cup {NULL}]
      /\ Delayed = {x.owner : x \in AllItems}
  BY ItemTypes DEF IInv, Typed
<1>1. Lists' => Delayed' = {x.owner : x \in AllItems'}
  BY DEF Delayed, AllItems, Owners
<1>2. Lists'
  BY ListsStep
<1>3. ASSUME IncrementTick, suspender = NULL, xPendingReadyList = {},
             UNCHANGED <<suspender, xPendingReadyList, pc>>
      PROVE  EventListSound' /\ Waiters'
  <2>1. /\ AllItems' = {x \in AllItems : x.value # xTickCount'}
        /\ xEventList' = xEventList \ {x.owner : x \in {y \in AllItems : y.value = xTickCount'}}
        /\ xSuspendedTaskList' = xSuspendedTaskList
    BY <1>3, TickLists DEF IncrementTick
  <2>2. xEventList' \subseteq Blocked'
    BY <1>0, <1>1, <1>2, <2>1 DEF EventListSound, Blocked
  <2>3. xSuspendedTaskList' \subseteq xEventList'
    BY <1>0, <1>3, <2>1 DEF EventListSound, Lists
  <2>4. \A t \in Tasks : lag'[t] # NULL /\ lag'[t] < 0 => lag[t] # NULL /\ lag[t] < 0
    <3>1. lag' = [t \in Tasks |-> IF lag[t] = NULL \/ lag[t] = portMAX_DELAY THEN NULL ELSE lag[t] + 1]
      BY <1>3 DEF IncrementTick, Age
    <3> QED
      BY <1>0, <3>1, TickNumbers
  <2>5. Waiters'
    BY <1>0, <1>3, <2>1, <2>4 DEF Waiters
  <2> QED
    BY <1>3, <2>2, <2>3, <2>5 DEF EventListSound
<1>4. CASE Tick
  <2>1. CASE suspender = NULL
    BY <1>3, <1>4, <2>1, TickSituation DEF Tick
  <2>2. CASE suspender # NULL
    <3>1. UNCHANGED <<listVars, xTickCount, xEventList, xPendingReadyList, suspender, pc, lag>>
      BY <1>4, <2>2 DEF Tick
    <3>2. Blocked' = Blocked /\ xSuspendedTaskList' = xSuspendedTaskList
      BY <1>0, <3>1, ListsUnchanged DEF listVars
    <3> QED
      BY <1>0, <3>1, <3>2 DEF EventListSound, Waiters
  <2> QED
    BY <2>1, <2>2
<1>5. CASE ProcessPendedTick
  BY <1>3, <1>5, TickSituation DEF ProcessPendedTick
<1>6. ASSUME NEW t \in Tasks, NEW label \in {"delay", "until", "blocked", "again", "expired"},
             Suspend(t, label), t \notin Blocked,
             \/ UNCHANGED listVars
             \/ \E n \in 1..portMAX_DELAY, b \in BOOLEAN :
                  AddToDelayedList(t, n, b) /\ (b => label = "blocked"),
             xEventList' = IF label = "blocked" THEN xEventList \cup {t} ELSE xEventList,
             label = "blocked" => t \in Blocked',
             \A u \in Tasks \ {t} : lag'[u] = lag[u],
             lag'[t] # NULL /\ lag'[t] < 0 => label = "until"
      PROVE  EventListSound' /\ Waiters'
  <2>1. UNCHANGED <<xTickCount, xPendingReadyList>> /\ suspender' = t
        /\ pc' = [pc EXCEPT ![t] = label]
        /\ t \notin xEventList \cup xPendingReadyList
    BY <1>0, <1>6 DEF Suspend, EventListSound
  <2>2. Blocked \subseteq Blocked'
        /\ xSuspendedTaskList' \subseteq xSuspendedTaskList \cup (IF label = "blocked" THEN {t} ELSE {})
    <3>1. CASE UNCHANGED listVars
      BY <1>0, <2>1, <3>1, ListsUnchanged DEF listVars
    <3>2. CASE ~UNCHANGED listVars
      <4>1. PICK n \in 1..portMAX_DELAY, b \in BOOLEAN :
                AddToDelayedList(t, n, b) /\ (b => label = "blocked")
        BY <1>6, <3>2
      <4>2. /\ AllItems \subseteq AllItems'
            /\ \/ b /\ xSuspendedTaskList' = xSuspendedTaskList \cup {t}
               \/ xSuspendedTaskList' = xSuspendedTaskList
        BY <1>6, <2>1, <4>1, AddToDelayedListSound
      <4> QED
        BY <1>0, <1>1, <1>2, <4>1, <4>2 DEF Blocked
    <3> QED
      BY <3>1, <3>2
  <2>3. NULL \notin Tasks
    BY TicksAssumption
  <2>4. EventListSound'
    BY <1>0, <1>6, <2>1, <2>2, <2>3 DEF EventListSound
  <2>5. Waiters'
    BY <1>0, <1>6, <2>1 DEF Waiters
  <2> QED
    BY <2>4, <2>5
<1>7. ASSUME NEW t \in Tasks, NEW ticks \in 1..portMAX_DELAY, vTaskDelay(t, ticks)
      PROVE  EventListSound' /\ Waiters'
  <2>1. /\ Suspend(t, "delay") /\ AddToDelayedList(t, ticks, FALSE)
        /\ xEventList' = xEventList /\ lag' = lag
    BY <1>7 DEF vTaskDelay
  <2>2. t \notin Blocked /\ (lag[t] # NULL => lag[t] \in 0..portMAX_DELAY)
    BY <2>1, RunnerFree DEF Suspend
  <2>3. ~(lag[t] # NULL /\ lag[t] < 0)
    BY <2>2, TickNumbers
  <2> QED
    BY <1>6, <2>1, <2>2, <2>3
<1>8. ASSUME NEW t \in Tasks, NEW ticks \in 1..portMAX_DELAY, vTaskDelayUntil(t, ticks)
      PROVE  EventListSound' /\ Waiters'
  <2>1. /\ Suspend(t, "until") /\ xEventList' = xEventList
        /\ lag' = [lag EXCEPT ![t] = @ - ticks]
        /\ t \notin Blocked
    BY <1>8, RunnerFree DEF vTaskDelayUntil, Suspend
  <2>2. \/ UNCHANGED listVars
        \/ \E n \in 1..portMAX_DELAY : AddToDelayedList(t, n, FALSE)
    BY <1>8, DelayUntilEffect
  <2>3. \A u \in Tasks \ {t} : lag'[u] = lag[u]
    BY <1>0, <2>1
  <2> QED
    BY <1>6, <2>1, <2>2, <2>3
<1>9. ASSUME NEW t \in Tasks, WaitForEvent(t) PROVE EventListSound' /\ Waiters'
  <2>1. MayRun(t) /\ lag' = lag /\ xTicksToWait[t] > 0
    BY <1>9 DEF WaitForEvent, Suspend
  <2>2. t \notin Blocked /\ (lag[t] # NULL => lag[t] \in 0..portMAX_DELAY)
    BY <2>1, RunnerFree
  <2>3. ~(lag[t] # NULL /\ lag[t] < 0)
    BY <2>2, TickNumbers
  <2>4. CASE /\ Suspend(t, "blocked") /\ ~CheckForTimeOut(t).expired
             /\ xEventList' = xEventList \cup {t}
             /\ AddToDelayedList(t, CheckForTimeOut(t).ticks, TRUE)
    <3>1. CheckForTimeOut(t).ticks \in 1..portMAX_DELAY
      BY <1>0, <2>1, <2>4, CheckForTimeOutType
    <3>2. t \in Blocked'
      <4>1. \/ \E v : AllItems' = AllItems \cup {[owner |-> t, value |-> v]}
            \/ xSuspendedTaskList' = xSuspendedTaskList \cup {t}
        BY <2>2, <2>4, <3>1, AddToDelayedListSound DEF Suspend
      <4>2. \A v : [owner |-> t, value |-> v].owner = t
        OBVIOUS
      <4>3. t \in Delayed' \/ t \in xSuspendedTaskList'
        BY <1>1, <1>2, <4>1, <4>2
      <4> QED
        BY <4>3 DEF Blocked
    <3> QED
      BY <1>6, <2>1, <2>2, <2>3, <2>4, <3>1, <3>2
  <2>5. ASSUME NEW label \in {"again", "expired"}, Suspend(t, label),
               UNCHANGED <<listVars, xEventList>>
        PROVE  EventListSound' /\ Waiters'
    BY <1>6, <2>1, <2>2, <2>3, <2>5
  <2> QED
    BY <1>9, <2>4, <2>5 DEF WaitForEvent
<1>10. ASSUME NEW t \in Tasks, xTaskResumeAll(t) PROVE EventListSound' /\ Waiters'
  <2>1. /\ RemoveFromStateLists(xPendingReadyList) /\ UNCHANGED <<xTickCount, xEventList, lag>>
        /\ xNextTaskUnblockTime' \in {xNextTaskUnblockTime, NextUnblockTime(pxDelayedTaskList')}
        /\ xPendingReadyList' = {}
    BY <1>10 DEF xTaskResumeAll
  <2>2. Blocked' = Blocked \ xPendingReadyList
        /\ xSuspendedTaskList' = xSuspendedTaskList \ xPendingReadyList
    BY <2>1, RemoveFromStateListsSound DEF Blocked
  <2>3. \/ pc[t] \in {"delay", "until", "expired"} /\ pc' = [pc EXCEPT ![t] = "app"]
        \/ pc[t] \in {"blocked", "again", "expired"} /\ pc' = [pc EXCEPT ![t] = "retry"]
    BY <1>10 DEF xTaskResumeAll, Return
  <2>4. EventListSound'
    BY <1>0, <2>1, <2>2 DEF EventListSound
  <2>5. \A u \in xEventList : pc'[u] \in {"blocked", "retry"}
    <3>1. xEventList \subseteq Tasks /\ \A u \in xEventList : pc[u] \in {"blocked", "retry"}
      BY <1>0 DEF Typed, Waiters
    <3> QED
      BY <1>0, <2>3, <3>1
  <2>6. ASSUME NEW u \in Tasks, lag[u] # NULL, lag[u] < 0 PROVE pc'[u] \in {"until", "app"}
    <3>1. pc[u] \in {"until", "app"}
      BY <1>0, <2>6 DEF Waiters
    <3> QED
      BY <1>0, <2>3, <3>1
  <2>7. Waiters'
    BY <2>1, <2>5, <2>6 DEF Waiters
  <2> QED
    BY <2>4, <2>7
<1>11. ASSUME NEW t \in Tasks, xTaskRemoveFromEventList(t) PROVE EventListSound' /\ Waiters'
  <2>1. /\ t \in xEventList /\ xEventList' = xEventList \ {t}
        /\ UNCHANGED <<xTickCount, xNextTaskUnblockTime, suspender, pc, lag>>
    BY <1>11 DEF xTaskRemoveFromEventList
  <2>2. CASE suspender = NULL /\ RemoveFromStateLists({t}) /\ UNCHANGED xPendingReadyList
    <3>1. Blocked' = Blocked \ {t} /\ xSuspendedTaskList' = xSuspendedTaskList \ {t}
      BY <2>1, <2>2, RemoveFromStateListsSound DEF Blocked
    <3> QED
      BY <1>0, <2>1, <2>2, <3>1 DEF EventListSound, Waiters
  <2>3. CASE /\ suspender # NULL /\ xPendingReadyList' = xPendingReadyList \cup {t}
             /\ UNCHANGED <<pxDelayedTaskList, pxOverflowDelayedTaskList, xSuspendedTaskList>>
    <3>1. Blocked' = Blocked /\ xSuspendedTaskList' = xSuspendedTaskList
      BY <1>0, <2>1, <2>3, ListsUnchanged DEF listVars
    <3> QED
      BY <1>0, <2>1, <2>3, <3>1 DEF EventListSound, Waiters
  <2> QED
    BY <1>11, <2>2, <2>3 DEF xTaskRemoveFromEventList
<1>12. ASSUME NEW t \in Tasks, NEW ticks \in 1..portMAX_DELAY,
              EnterWait(t, ticks) \/ TryAgain(t) \/ StartPeriod(t)
       PROVE  EventListSound' /\ Waiters'
  <2>1. /\ UNCHANGED <<listVars, xTickCount, xEventList, xPendingReadyList, suspender>>
        /\ MayRun(t)
        /\ \/ pc' = [pc EXCEPT ![t] = "retry"] /\ lag' = lag
           \/ pc' = [pc EXCEPT ![t] = "app"] /\ lag' = lag
           \/ pc' = pc /\ lag' = [lag EXCEPT ![t] = 0]
    BY <1>12 DEF EnterWait, TryAgain, Return, StartPeriod
  <2>2. t \notin xEventList \cup xPendingReadyList /\ (lag[t] # NULL => lag[t] \in 0..portMAX_DELAY)
    BY <2>1, RunnerFree
  <2>3. Blocked' = Blocked /\ xSuspendedTaskList' = xSuspendedTaskList
    BY <1>0, <2>1, ListsUnchanged DEF listVars
  <2>4. ~(lag[t] # NULL /\ lag[t] < 0)
    BY <2>2, TickNumbers
  <2>5. \A u \in xEventList \cup xPendingReadyList : pc'[u] \in {"blocked", "retry"}
    <3>1. /\ xEventList \cup xPendingReadyList \subseteq Tasks
          /\ \A u \in xEventList \cup xPendingReadyList : pc[u] \in {"blocked", "retry"}
      BY <1>0 DEF Typed, Waiters
    <3> QED
      BY <1>0, <2>1, <2>2, <3>1
  <2>6. ASSUME NEW u \in Tasks, lag'[u] # NULL, lag'[u] < 0 PROVE pc'[u] \in {"until", "app"}
    <3>1. u # t /\ lag'[u] = lag[u] /\ pc'[u] = pc[u]
      BY <1>0, <2>1, <2>4, <2>6
    <3> QED
      BY <1>0, <2>6, <3>1 DEF Waiters
  <2>7. Waiters'
    BY <2>1, <2>5, <2>6 DEF Waiters
  <2> QED
    BY <1>0, <2>1, <2>3, <2>7 DEF EventListSound
<1>13. CASE UNCHANGED vars
  <2>1. UNCHANGED <<listVars, xTickCount, xEventList, xPendingReadyList, suspender, pc, lag>>
    BY <1>13 DEF vars
  <2>2. Blocked' = Blocked /\ xSuspendedTaskList' = xSuspendedTaskList
    BY <1>0, <2>1, ListsUnchanged DEF listVars
  <2> QED
    BY <1>0, <2>1, <2>2 DEF EventListSound, Waiters
<1>14. 1 \in 1..portMAX_DELAY
  BY TickNumbers
<1> QED
  BY <1>4, <1>5, <1>7, <1>8, <1>9, <1>10, <1>11, <1>12, <1>13, <1>14 DEF Next

\* PeriodKept in terms of the items.
DueItems ==
  \A t \in Tasks : lag[t] # NULL =>
    /\ pxPreviousWakeTime[t] =
         Minus(xTickCount, IF lag[t] < 0 THEN lag[t] + Period ELSE lag[t])
    /\ lag[t] < 0 => \E x \in AllItems : x.owner = t /\ Minus(x.value, xTickCount) = -lag[t]
    /\ pc[t] = "until" /\ (\E x \in AllItems : x.owner = t) => lag[t] < 0

\* The two say the same when the lists are sound.
LEMMA DueItemsMeaning == Lists => (PeriodKept <=> DueItems)
<1> SUFFICES ASSUME Lists PROVE PeriodKept <=> DueItems
  OBVIOUS
<1>1. \A x \in AllItems : Remaining(x.owner) = Minus(x.value, xTickCount)
  BY RemainingOf
<1>2. Delayed = {x.owner : x \in AllItems}
  BY ItemTypes
<1>3. \A t \in Tasks : \A n :
        (t \in Delayed /\ Remaining(t) = n) <=>
        \E x \in AllItems : x.owner = t /\ Minus(x.value, xTickCount) = n
  BY <1>1, <1>2
<1>4. \A t \in Tasks : t \in Delayed <=> \E x \in AllItems : x.owner = t
  BY <1>2
<1> QED
  BY <1>3, <1>4 DEF PeriodKept, DueItems

\* One tick later the previous wake time is one tick further back.
LEMMA LagAdvances ==
  ASSUME NEW now \in TickType_t, NEW l \in -portMAX_DELAY..portMAX_DELAY - 1
  PROVE  Minus(now, IF l < 0 THEN l + Period ELSE l) =
           Minus(Plus(now, 1), IF l + 1 < 0 THEN l + 1 + Period ELSE l + 1)
<1>1. now \in 0..portMAX_DELAY /\ portMAX_DELAY \in Nat /\ Period = portMAX_DELAY + 1
      /\ portMAX_DELAY > 1
  BY TickNumbers
<1>2. CASE now = portMAX_DELAY
  <2>1. Plus(now, 1) = 0
    BY <1>1, <1>2 DEF Plus
  <2> QED
    BY <1>1, <1>2, <2>1 DEF Minus
<1>3. CASE now # portMAX_DELAY
  <2>1. Plus(now, 1) = now + 1
    BY <1>1, <1>3 DEF Plus
  <2> QED
    BY <1>1, <1>3, <2>1 DEF Minus
<1> QED
  BY <1>2, <1>3

\* A tick keeps the periods.
LEMMA PeriodAfterTick == ASSUME IInv, IncrementTick, UNCHANGED <<pc, pxPreviousWakeTime>>
                         PROVE  DueItems'
<1>0. /\ Lists /\ DueItems /\ xTickCount \in TickType_t
      /\ lag \in [Tasks -> (-portMAX_DELAY..portMAX_DELAY) \cup {NULL}]
  BY DueItemsMeaning DEF IInv, Typed
<1>1. /\ xTickCount' = Plus(xTickCount, 1)
      /\ AllItems' = {x \in AllItems : x.value # xTickCount'}
  BY TickLists
<1>2. /\ \A x \in AllItems : x.value \in TickType_t /\ x.value # xTickCount
  <2>1. \A x \in AllItems : x.value \in TickType_t
    BY <1>0, ItemTypes
  <2>2. TickType_t \subseteq Int
    BY TickNumbers
  <2> QED
    BY <1>0, <2>1, <2>2 DEF Lists, AllItems
<1>3. lag' = [t \in Tasks |-> IF lag[t] = NULL \/ lag[t] = portMAX_DELAY THEN NULL ELSE lag[t] + 1]
  BY DEF IncrementTick, Age
<1>4. \A a, b : Minus(a, b)' = Minus(a, b)
  BY DEF Minus
<1> SUFFICES ASSUME NEW t \in Tasks, lag'[t] # NULL
             PROVE
    /\ pxPreviousWakeTime'[t] =
         Minus(xTickCount', IF lag'[t] < 0 THEN lag'[t] + Period ELSE lag'[t])
    /\ lag'[t] < 0 => \E x \in AllItems' : x.owner = t /\ Minus(x.value, xTickCount') = -lag'[t]
    /\ pc'[t] = "until" /\ (\E x \in AllItems' : x.owner = t) => lag'[t] < 0
  BY <1>4 DEF DueItems, Period
<1>5. /\ lag[t] # NULL /\ lag[t] # portMAX_DELAY /\ lag'[t] = lag[t] + 1
      /\ lag[t] \in -portMAX_DELAY..portMAX_DELAY
  BY <1>0, <1>3
<1>6. lag[t] \in -portMAX_DELAY..portMAX_DELAY - 1 /\ lag[t] \in Int
  BY <1>5, TickNumbers
<1>7. pxPreviousWakeTime'[t] =
        Minus(xTickCount', IF lag'[t] < 0 THEN lag'[t] + Period ELSE lag'[t])
  <2>1. pxPreviousWakeTime[t] = Minus(xTickCount, IF lag[t] < 0 THEN lag[t] + Period ELSE lag[t])
    BY <1>0, <1>5 DEF DueItems
  <2> QED
    BY <1>0, <1>1, <1>5, <1>6, <2>1, LagAdvances
<1>8. ASSUME lag'[t] < 0
      PROVE  \E x \in AllItems' : x.owner = t /\ Minus(x.value, xTickCount') = -lag'[t]
  <2>1. lag[t] < 0 /\ -lag[t] # 1
    BY <1>5, <1>6, <1>8
  <2>2. PICK x \in AllItems : x.owner = t /\ Minus(x.value, xTickCount) = -lag[t]
    BY <1>0, <1>5, <2>1 DEF DueItems
  <2>3. x.value # xTickCount' /\ Minus(x.value, xTickCount') = -lag[t] - 1
    BY <1>0, <1>1, <1>2, <2>1, <2>2, TickAdvances
  <2>4. -lag[t] - 1 = -lag'[t]
    BY <1>5, <1>6
  <2> QED
    BY <1>1, <2>2, <2>3, <2>4
<1>9. ASSUME pc'[t] = "until", NEW x \in AllItems', x.owner = t PROVE lag'[t] < 0
  <2>1. x \in AllItems /\ x.value # xTickCount' /\ x.value \in TickType_t
    BY <1>1, <1>2
  <2>2. lag[t] < 0
    BY <1>0, <1>5, <1>9, <2>1 DEF DueItems
  <2>3. Minus(x.value, xTickCount) = -lag[t]
    BY <1>0, <1>5, <1>9, <2>1, <2>2 DEF DueItems, Lists
  <2>4. Minus(x.value, xTickCount') = -lag[t] - 1
    BY <1>0, <1>1, <1>2, <2>1, <2>3, TickAdvances
  <2>5. xTickCount' \in TickType_t /\ Minus(x.value, xTickCount') # 0
    <3>1. 1 \in TickType_t
      BY TickNumbers
    <3>2. xTickCount' \in TickType_t
      BY <1>0, <1>1, <3>1, TickArithmetic
    <3> QED
      BY <2>1, <3>2, TickArithmetic
  <2>6. Minus(x.value, xTickCount') \in Nat
    <3>1. Minus(x.value, xTickCount') \in TickType_t
      BY <2>1, <2>5, TickArithmetic
    <3> QED
      BY <3>1, TickNumbers
  <2> QED
    BY <1>5, <1>6, <2>4, <2>5, <2>6
<1> QED
  BY <1>7, <1>8, <1>9

\* A step that keeps the count, and the items and times of the periodic tasks
\* that are delayed, keeps the periods.
LEMMA PeriodUndisturbed ==
  ASSUME DueItems, UNCHANGED <<xTickCount, pxPreviousWakeTime, lag>>,
         \A t \in Tasks : lag[t] # NULL /\ lag[t] < 0 =>
           \A x \in AllItems : x.owner = t => x \in AllItems',
         \A t \in Tasks : pc'[t] = "until" =>
           pc[t] = "until" /\ \A x \in AllItems' : x.owner = t => x \in AllItems
  PROVE  DueItems'
<1>1. (\A a, b : Minus(a, b)' = Minus(a, b)) /\ Period' = Period
  BY DEF Minus, Period
<1> SUFFICES ASSUME NEW t \in Tasks, lag[t] # NULL
             PROVE
    /\ pxPreviousWakeTime[t] =
         Minus(xTickCount, IF lag[t] < 0 THEN lag[t] + Period ELSE lag[t])
    /\ lag[t] < 0 => \E x \in AllItems' : x.owner = t /\ Minus(x.value, xTickCount) = -lag[t]
    /\ pc'[t] = "until" /\ (\E x \in AllItems' : x.owner = t) => lag[t] < 0
  BY <1>1 DEF DueItems
<1> QED
  BY DEF DueItems

\* Every step keeps the periods.
LEMMA PeriodStep == ASSUME IInv, [Next]_vars PROVE PeriodKept'
<1> USE DEF clockVars
<1>0. /\ Typed /\ Lists /\ DueItems /\ Waiters /\ Lists'
      /\ pc \in [Tasks -> {"app", "delay", "until", "retry", "blocked", "again", "expired"}]
      /\ lag \in [Tasks -> (-portMAX_DELAY..portMAX_DELAY) \cup {NULL}]
      /\ pxPreviousWakeTime \in [Tasks -> TickType_t] /\ xTickCount \in TickType_t
  BY ListsStep, DueItemsMeaning DEF IInv, Typed
<1>1. SUFFICES DueItems'
  <2>1. (Lists => (PeriodKept <=> DueItems))'
    BY DueItemsMeaning, PTL
  <2> QED
    BY <1>0, <2>1
<1>2. CASE Tick
  <2>1. CASE suspender = NULL
    BY <1>2, <2>1, PeriodAfterTick DEF Tick
  <2>2. CASE suspender # NULL
    <3>1. UNCHANGED <<listVars, xTickCount, pxPreviousWakeTime, lag, pc>>
      BY <1>2, <2>2 DEF Tick
    <3>2. AllItems' = AllItems
      BY <1>0, <3>1, ListsUnchanged
    <3> QED
      BY <1>0, <3>1, <3>2, PeriodUndisturbed
  <2> QED
    BY <2>1, <2>2
<1>3. CASE ProcessPendedTick
  BY <1>3, PeriodAfterTick DEF ProcessPendedTick
<1>4. ASSUME NEW t \in Tasks, NEW label \in {"delay", "blocked", "again", "expired"},
             Suspend(t, label), UNCHANGED <<pxPreviousWakeTime, lag>>,
             \/ UNCHANGED listVars
             \/ \E n \in 1..portMAX_DELAY, b \in BOOLEAN : AddToDelayedList(t, n, b)
      PROVE  DueItems'
  <2>1. /\ UNCHANGED xTickCount /\ t \notin Blocked /\ pc' = [pc EXCEPT ![t] = label]
    BY <1>4, RunnerFree DEF Suspend
  <2>2. /\ AllItems \subseteq AllItems'
        /\ \A x \in AllItems' : x.owner # t => x \in AllItems
    <3>1. CASE UNCHANGED listVars
      BY <1>0, <2>1, <3>1, ListsUnchanged
    <3>2. CASE ~UNCHANGED listVars
      <4>1. PICK n \in 1..portMAX_DELAY, b \in BOOLEAN : AddToDelayedList(t, n, b)
        BY <1>4, <3>2
      <4>2. \/ AllItems' = AllItems
            \/ AllItems' = AllItems \cup {[owner |-> t, value |-> Plus(xTickCount, n)]}
        BY <2>1, <4>1, AddToDelayedListSound
      <4> QED
        BY <4>2
    <3> QED
      BY <3>1, <3>2
  <2>3. \A u \in Tasks : pc'[u] = "until" => u # t /\ pc[u] = "until"
    BY <1>0, <2>1
  <2> QED
    BY <1>0, <1>4, <2>1, <2>2, <2>3, PeriodUndisturbed
<1>5. ASSUME NEW t \in Tasks, NEW ticks \in 1..portMAX_DELAY, vTaskDelay(t, ticks)
      PROVE  DueItems'
  BY <1>4, <1>5 DEF vTaskDelay
<1>6. ASSUME NEW t \in Tasks, WaitForEvent(t) PROVE DueItems'
  <2>1. xTicksToWait[t] > 0 /\ UNCHANGED <<pxPreviousWakeTime, lag>>
    BY <1>6 DEF WaitForEvent
  <2>2. CASE /\ Suspend(t, "blocked") /\ ~CheckForTimeOut(t).expired
             /\ AddToDelayedList(t, CheckForTimeOut(t).ticks, TRUE)
    <3>1. CheckForTimeOut(t).ticks \in 1..portMAX_DELAY
      BY <1>0, <2>1, <2>2, CheckForTimeOutType
    <3> QED
      BY <1>4, <2>1, <2>2, <3>1
  <2>3. ASSUME NEW label \in {"again", "expired"}, Suspend(t, label), UNCHANGED listVars
        PROVE  DueItems'
    BY <1>4, <2>1, <2>3
  <2> QED
    BY <1>6, <2>2, <2>3 DEF WaitForEvent
<1>7. ASSUME NEW t \in Tasks, NEW inc \in 1..portMAX_DELAY, vTaskDelayUntil(t, inc)
      PROVE  DueItems'
  <2>1. /\ UNCHANGED xTickCount /\ t \notin Blocked /\ pc' = [pc EXCEPT ![t] = "until"]
        /\ lag' = [lag EXCEPT ![t] = @ - inc] /\ lag[t] # NULL
        /\ \A u \in Tasks \ {t} : pxPreviousWakeTime'[u] = pxPreviousWakeTime[u]
    BY <1>0, <1>7, RunnerFree DEF vTaskDelayUntil, Suspend
  <2>2. /\ lag[t] \in 0..portMAX_DELAY
        /\ pxPreviousWakeTime'[t] =
             Minus(xTickCount, IF lag[t] - inc < 0 THEN lag[t] - inc + Period ELSE lag[t] - inc)
        /\ IF inc > lag[t]
           THEN inc - lag[t] \in 1..portMAX_DELAY /\ AddToDelayedList(t, inc - lag[t], FALSE)
           ELSE UNCHANGED listVars
    BY <1>7, DelayUntilEffect
  <2>3. /\ lag'[t] = lag[t] - inc /\ lag[t] - inc \in Int /\ -(lag[t] - inc) = inc - lag[t]
        /\ lag[t] - inc < 0 <=> inc > lag[t]
    BY <1>0, <2>1, <2>2, TickNumbers
  <2>4. /\ (\A a, b : Minus(a, b)' = Minus(a, b)) /\ Period' = Period
        /\ \A x \in AllItems : x.owner # t
    BY <2>1 DEF Minus, Period, Blocked, Delayed, AllItems, Owners
  <2>5. IF inc > lag[t]
        THEN AllItems' = AllItems \cup {[owner |-> t, value |-> Plus(xTickCount, inc - lag[t])]}
        ELSE AllItems' = AllItems
    <3>1. CASE inc > lag[t]
      BY <2>1, <2>2, <3>1, AddToDelayedListSound
    <3>2. CASE ~(inc > lag[t])
      BY <1>0, <2>1, <2>2, <3>2, ListsUnchanged
    <3> QED
      BY <3>1, <3>2
  <2>6. inc > lag[t] => Minus(Plus(xTickCount, inc - lag[t]), xTickCount) = inc - lag[t]
    BY <1>0, <2>2, TickArithmetic, TickNumbers
  <2>7. inc > lag[t] => \E x \in AllItems' : x.owner = t /\ Minus(x.value, xTickCount) = inc - lag[t]
    <3> SUFFICES ASSUME inc > lag[t]
                 PROVE \E x \in AllItems' : x.owner = t /\ Minus(x.value, xTickCount) = inc - lag[t]
      OBVIOUS
    <3> DEFINE item == [owner |-> t, value |-> Plus(xTickCount, inc - lag[t])]
    <3>1. item \in AllItems' /\ item.owner = t /\ item.value = Plus(xTickCount, inc - lag[t])
      BY <2>5
    <3> QED
      BY <2>6, <3>1
  <2>8. (\E x \in AllItems' : x.owner = t) => inc > lag[t]
    BY <2>4, <2>5
  <2>9. ASSUME NEW u \in Tasks, u # t, lag'[u] # NULL
        PROVE
    /\ pxPreviousWakeTime'[u] =
         Minus(xTickCount', IF lag'[u] < 0 THEN lag'[u] + Period ELSE lag'[u])
    /\ lag'[u] < 0 => \E x \in AllItems' : x.owner = u /\ Minus(x.value, xTickCount') = -lag'[u]
    /\ pc'[u] = "until" /\ (\E x \in AllItems' : x.owner = u) => lag'[u] < 0
    <3>1. lag'[u] = lag[u] /\ pc'[u] = pc[u] /\ xTickCount' = xTickCount
          /\ pxPreviousWakeTime'[u] = pxPreviousWakeTime[u]
      BY <1>0, <2>1, <2>9
    <3>2. \A x : x.owner = u => (x \in AllItems' <=> x \in AllItems)
      BY <2>5, <2>9
    <3>3. pxPreviousWakeTime[u] = Minus(xTickCount, IF lag[u] < 0 THEN lag[u] + Period ELSE lag[u])
          /\ (lag[u] < 0 => \E x \in AllItems : x.owner = u /\ Minus(x.value, xTickCount) = -lag[u])
          /\ (pc[u] = "until" /\ (\E x \in AllItems : x.owner = u) => lag[u] < 0)
      BY <1>0, <2>9, <3>1 DEF DueItems
    <3> QED
      BY <3>1, <3>2, <3>3
  <2> QED
    BY <1>0, <2>1, <2>2, <2>3, <2>4, <2>7, <2>8, <2>9 DEF DueItems
<1>8. ASSUME NEW t \in Tasks, xTaskResumeAll(t) PROVE DueItems'
  <2>1. /\ RemoveFromStateLists(xPendingReadyList)
        /\ UNCHANGED <<xTickCount, pxPreviousWakeTime, lag>>
        /\ xNextTaskUnblockTime' \in {xNextTaskUnblockTime, NextUnblockTime(pxDelayedTaskList')}
        /\ pc' \in {[pc EXCEPT ![t] = "app"], [pc EXCEPT ![t] = "retry"]}
    BY <1>8 DEF xTaskResumeAll, Return
  <2>2. AllItems' = {x \in AllItems : x.owner \notin xPendingReadyList}
    BY <2>1, RemoveFromStateListsSound
  <2>3. \A u \in Tasks : pc'[u] = "until" => pc[u] = "until"
    BY <1>0, <2>1
  <2>4. \A u \in Tasks : lag[u] # NULL /\ lag[u] < 0 => u \notin xPendingReadyList
    BY <1>0 DEF Waiters
  <2> QED
    BY <1>0, <2>1, <2>2, <2>3, <2>4, PeriodUndisturbed
<1>9. ASSUME NEW t \in Tasks, xTaskRemoveFromEventList(t) PROVE DueItems'
  <2>1. /\ t \in xEventList
        /\ UNCHANGED <<xTickCount, xNextTaskUnblockTime, pc, pxPreviousWakeTime, lag>>
    BY <1>9 DEF xTaskRemoveFromEventList
  <2>2. AllItems' = {x \in AllItems : x.owner # t} \/ AllItems' = AllItems
    <3>1. CASE RemoveFromStateLists({t})
      BY <2>1, <3>1, RemoveFromStateListsSound
    <3>2. CASE UNCHANGED <<pxDelayedTaskList, pxOverflowDelayedTaskList, xSuspendedTaskList>>
      BY <1>0, <2>1, <3>2, ListsUnchanged DEF listVars
    <3> QED
      BY <1>9, <3>1, <3>2 DEF xTaskRemoveFromEventList
  <2>3. ~(lag[t] # NULL /\ lag[t] < 0)
    BY <1>0, <2>1 DEF Waiters
  <2> QED
    BY <1>0, <2>1, <2>2, <2>3, PeriodUndisturbed
<1>10. ASSUME NEW t \in Tasks, NEW ticks \in 1..portMAX_DELAY, EnterWait(t, ticks) \/ TryAgain(t)
       PROVE  DueItems'
  <2>1. /\ UNCHANGED <<listVars, xTickCount, pxPreviousWakeTime, lag>>
        /\ pc' \in {[pc EXCEPT ![t] = "app"], [pc EXCEPT ![t] = "retry"]}
    BY <1>10 DEF EnterWait, TryAgain, Return
  <2>2. AllItems' = AllItems
    BY <1>0, <2>1, ListsUnchanged
  <2>3. \A u \in Tasks : pc'[u] = "until" => pc[u] = "until"
    BY <1>0, <2>1
  <2> QED
    BY <1>0, <2>1, <2>2, <2>3, PeriodUndisturbed
<1>11. ASSUME NEW t \in Tasks, StartPeriod(t) PROVE DueItems'
  <2>1. /\ UNCHANGED <<listVars, xTickCount, pc>> /\ pc[t] = "app"
        /\ pxPreviousWakeTime' = [pxPreviousWakeTime EXCEPT ![t] = xTickCount]
        /\ lag' = [lag EXCEPT ![t] = 0]
    BY <1>11 DEF StartPeriod
  <2>2. AllItems' = AllItems /\ (\A a, b : Minus(a, b)' = Minus(a, b)) /\ Period' = Period
    BY <1>0, <2>1, ListsUnchanged DEF Minus, Period
  <2>3. Minus(xTickCount, 0) = xTickCount
    BY <1>0, TickNumbers DEF Minus
  <2>4. lag'[t] = 0 /\ pxPreviousWakeTime'[t] = xTickCount /\ pc'[t] # "until"
    BY <1>0, <2>1
  <2>5. \A u \in Tasks : u # t => lag'[u] = lag[u] /\ pxPreviousWakeTime'[u] = pxPreviousWakeTime[u]
    BY <1>0, <2>1
  <2>6. ~(lag'[t] < 0)
    BY <2>4
  <2> QED
    BY <1>0, <2>1, <2>2, <2>3, <2>4, <2>5, <2>6 DEF DueItems
<1>12. CASE UNCHANGED vars
  <2>1. UNCHANGED <<listVars, xTickCount, pxPreviousWakeTime, lag, pc>>
    BY <1>12 DEF vars
  <2>2. AllItems' = AllItems
    BY <1>0, <2>1, ListsUnchanged
  <2> QED
    BY <1>0, <2>1, <2>2, PeriodUndisturbed
<1>13. 1 \in 1..portMAX_DELAY
  BY TickNumbers
<1> QED
  BY <1>2, <1>3, <1>5, <1>6, <1>7, <1>8, <1>9, <1>10, <1>11, <1>12, <1>13 DEF Next

\* The invariant holds initially.
LEMMA InitInvariant == ASSUME Init PROVE IInv
<1>1. /\ TickType_t = 0..portMAX_DELAY /\ 0 \in TickType_t /\ portMAX_DELAY \in TickType_t
      /\ 0 \in 0..OverflowModulus - 1 /\ 0 \in 0..MaxPended /\ 0 \in 0..Period + 1
      /\ NULL \notin Tasks
  BY TickNumbers, TicksAssumption
<1>2. <<>> \in Seq(ListItem_t) /\ Len(<<>>) = 0
  OBVIOUS
<1>3. Items(<<>>) = {} /\ ListOK(<<>>)
  BY <1>2 DEF Items, ListOK, Sorted, NoRepeat
<1>4. AllItems = {} /\ Delayed = {} /\ Blocked = {}
  BY <1>3 DEF Init, AllItems, Delayed, Blocked, Owners
<1>5. Typed
  BY <1>1 DEF Init, Typed
<1>6. Lists
  BY <1>1, <1>3, <1>4 DEF Init, Lists
<1>7. Pending /\ Sections /\ Waiters
  BY <1>1 DEF Init, Pending, Sections, Waiters
<1>8. EventListSound
  BY <1>4 DEF Init, EventListSound
<1>9. TicksAccounted
  <2>1. Plus(0, 0) = 0
    BY TickNumbers DEF Plus
  <2> QED
    BY <2>1 DEF Init, TicksAccounted
<1>10. PeriodKept
  BY DEF Init, PeriodKept
<1> QED
  BY <1>5, <1>6, <1>7, <1>8, <1>9, <1>10 DEF IInv

\* The invariant is inductive.
LEMMA Invariance == Spec => []IInv
<1>1. ASSUME IInv, [Next]_vars PROVE IInv'
  BY <1>1, TypedStep, ListsStep, PendingStep, WaitingStep, PeriodStep DEF IInv
<1> QED
  BY InitInvariant, <1>1, PTL DEF Spec

\* Releasing a task that waits for the event is cancelling its alarm, or a
\* stutter if it waits without a time-out.
LEMMA LeftAfterRelease ==
  ASSUME IInv, NEW t \in Tasks, xTaskRemoveFromEventList(t), Typed'
  PROVE  Left' = Left \/ A!Cancel(t)
<1>0. Lists /\ Typed /\ Lists' /\ xTickCount' = xTickCount
  BY ListsStep DEF IInv, Next, clockVars, xTaskRemoveFromEventList
<1>1. Left \in [Tasks -> TickType_t] /\ Left' \in [Tasks -> TickType_t]
  BY <1>0, LeftOf, LeftOfNext
<1>2. t \notin xPendingReadyList
  BY DEF IInv, EventListSound, xTaskRemoveFromEventList
<1>3. \/ AllItems' = {x \in AllItems : x.owner # t} /\ xPendingReadyList' = xPendingReadyList
      \/ AllItems' = AllItems /\ xPendingReadyList' = xPendingReadyList \cup {t}
  <2>1. UNCHANGED <<xTickCount, xNextTaskUnblockTime>>
    BY DEF xTaskRemoveFromEventList, clockVars
  <2>2. CASE RemoveFromStateLists({t}) /\ UNCHANGED xPendingReadyList
    BY <2>1, <2>2, RemoveFromStateListsSound
  <2>3. CASE /\ xPendingReadyList' = xPendingReadyList \cup {t}
             /\ UNCHANGED <<pxDelayedTaskList, pxOverflowDelayedTaskList, xSuspendedTaskList>>
    BY <1>0, <2>1, <2>3, ListsUnchanged DEF listVars
  <2> QED
    BY <2>2, <2>3 DEF xTaskRemoveFromEventList
<1>4. Left'[t] = 0
  BY <1>0, <1>3, LeftOfNext
<1>5. ASSUME NEW u \in Tasks, u # t PROVE Left'[u] = Left[u]
  <2>1. \A x : x.owner = u => (x \in AllItems' <=> x \in AllItems)
    BY <1>3, <1>5
  <2>2. u \in xPendingReadyList' <=> u \in xPendingReadyList
    BY <1>3, <1>5
  <2>3. CASE \E x \in AllItems : x.owner = u /\ u \notin xPendingReadyList
    BY <1>0, <2>1, <2>2, <2>3, LeftOf, LeftOfNext
  <2>4. CASE ~\E x \in AllItems : x.owner = u /\ u \notin xPendingReadyList
    BY <1>0, <2>1, <2>2, <2>4, LeftOf, LeftOfNext
  <2> QED
    BY <2>3, <2>4
<1>6. CASE Left[t] = 0
  BY <1>1, <1>4, <1>5, <1>6
<1>7. CASE Left[t] # 0
  <2>1. Left[t] > 0
    BY <1>1, <1>7, TickNumbers
  <2>2. Left' = [Left EXCEPT ![t] = 0]
    BY <1>1, <1>4, <1>5
  <2> QED
    BY <2>1, <2>2 DEF A!Cancel
<1> QED
  BY <1>6, <1>7

\* When the scheduler resumes, the alarms of the tasks it makes ready have been
\* cancelled already.
LEMMA LeftAfterResume ==
  ASSUME IInv, NEW t \in Tasks, xTaskResumeAll(t), Typed'
  PROVE  Left' = Left
<1>0. Lists /\ Typed /\ Lists' /\ xTickCount' = xTickCount
  BY ListsStep DEF IInv, Next, clockVars, xTaskResumeAll
<1>1. Left \in [Tasks -> TickType_t] /\ Left' \in [Tasks -> TickType_t]
  BY <1>0, LeftOf, LeftOfNext
<1>2. AllItems' = {x \in AllItems : x.owner \notin xPendingReadyList} /\ xPendingReadyList' = {}
  <2>1. /\ RemoveFromStateLists(xPendingReadyList)
        /\ xNextTaskUnblockTime' \in {xNextTaskUnblockTime, NextUnblockTime(pxDelayedTaskList')}
        /\ xPendingReadyList' = {}
    BY DEF xTaskResumeAll
  <2> QED
    BY <1>0, <2>1, RemoveFromStateListsSound
<1>3. ASSUME NEW u \in Tasks PROVE Left'[u] = Left[u]
  <2>1. CASE \E x \in AllItems : x.owner = u /\ u \notin xPendingReadyList
    BY <1>0, <1>2, <2>1, LeftOf, LeftOfNext
  <2>2. CASE ~\E x \in AllItems : x.owner = u /\ u \notin xPendingReadyList
    BY <1>0, <1>2, <2>2, LeftOf, LeftOfNext
  <2> QED
    BY <2>1, <2>2
<1> QED
  BY <1>1, <1>3

\* A step that leaves the lists and the count alone leaves the alarms alone.
LEMMA LeftUnchanged ==
  ASSUME Lists, UNCHANGED <<listVars, xTickCount, xPendingReadyList>>
  PROVE  Left' = Left
BY ListsUnchanged DEF Left

\* Every step is a step of the abstract delays or leaves them alone.
LEMMA StepSimulation == ASSUME IInv, [Next]_vars PROVE [A!Next]_Left
<1> USE DEF clockVars
<1>0. Lists /\ Typed /\ Typed' /\ Lists'
  BY TypedStep, ListsStep DEF IInv
<1>1. CASE Tick
  <2>1. CASE suspender = NULL
    <3>1. IncrementTick /\ xPendingReadyList = {} /\ UNCHANGED xPendingReadyList
      BY <1>1, <2>1, TickSituation DEF Tick
    <3> QED
      BY <1>0, <3>1, LeftAfterTick DEF A!Next
  <2>2. CASE suspender # NULL
    BY <1>0, <1>1, <2>2, LeftUnchanged DEF Tick
  <2> QED
    BY <2>1, <2>2
<1>2. CASE ProcessPendedTick
  <2>1. IncrementTick /\ xPendingReadyList = {} /\ UNCHANGED xPendingReadyList
    BY <1>2, TickSituation DEF ProcessPendedTick
  <2> QED
    BY <1>0, <2>1, LeftAfterTick DEF A!Next
<1>3. ASSUME NEW t \in Tasks, NEW label, Suspend(t, label), NEW n \in 1..portMAX_DELAY,
             NEW b \in BOOLEAN, AddToDelayedList(t, n, b)
      PROVE  [A!Next]_Left
  <2>1. t \notin Blocked /\ UNCHANGED <<xTickCount, xPendingReadyList>>
    BY <1>3, RunnerFree DEF Suspend
  <2>2. Left' = Left \/ A!Set(t, n)
    BY <1>0, <1>3, <2>1, LeftAfterAdd
  <2> QED
    BY <2>2 DEF A!Next
<1>4. ASSUME NEW t \in Tasks, NEW label, Suspend(t, label), UNCHANGED listVars
      PROVE  [A!Next]_Left
  BY <1>0, <1>4, LeftUnchanged DEF Suspend
<1>5. ASSUME NEW t \in Tasks, NEW ticks \in 1..portMAX_DELAY, vTaskDelay(t, ticks)
      PROVE  [A!Next]_Left
  BY <1>3, <1>5 DEF vTaskDelay
<1>6. ASSUME NEW t \in Tasks, NEW ticks \in 1..portMAX_DELAY, vTaskDelayUntil(t, ticks)
      PROVE  [A!Next]_Left
  <2>1. Suspend(t, "until")
    BY <1>6 DEF vTaskDelayUntil
  <2>2. \/ UNCHANGED listVars
        \/ ticks - lag[t] \in 1..portMAX_DELAY /\ AddToDelayedList(t, ticks - lag[t], FALSE)
    BY <1>6, DelayUntilEffect
  <2> QED
    BY <1>3, <1>4, <2>1, <2>2
<1>7. ASSUME NEW t \in Tasks, WaitForEvent(t) PROVE [A!Next]_Left
  <2>1. xTicksToWait[t] > 0
    BY <1>7 DEF WaitForEvent
  <2>2. CASE /\ Suspend(t, "blocked") /\ ~CheckForTimeOut(t).expired
             /\ AddToDelayedList(t, CheckForTimeOut(t).ticks, TRUE)
    BY <1>0, <1>3, <2>1, <2>2, CheckForTimeOutType
  <2>3. ASSUME NEW label \in {"again", "expired"}, Suspend(t, label), UNCHANGED listVars
        PROVE  [A!Next]_Left
    BY <1>4, <2>3
  <2> QED
    BY <1>7, <2>2, <2>3 DEF WaitForEvent
<1>8. ASSUME NEW t \in Tasks, xTaskResumeAll(t) PROVE [A!Next]_Left
  BY <1>0, <1>8, LeftAfterResume
<1>9. ASSUME NEW t \in Tasks, xTaskRemoveFromEventList(t) PROVE [A!Next]_Left
  <2>1. Left' = Left \/ A!Cancel(t)
    BY <1>0, <1>9, LeftAfterRelease
  <2> QED
    BY <2>1 DEF A!Next
<1>10. ASSUME NEW t \in Tasks, NEW ticks \in 1..portMAX_DELAY,
              EnterWait(t, ticks) \/ TryAgain(t) \/ StartPeriod(t)
       PROVE  [A!Next]_Left
  <2>1. UNCHANGED <<listVars, xTickCount, xPendingReadyList>>
    BY <1>10 DEF EnterWait, TryAgain, StartPeriod
  <2> QED
    BY <1>0, <2>1, LeftUnchanged
<1>11. CASE UNCHANGED vars
  <2>1. UNCHANGED <<listVars, xTickCount, xPendingReadyList>>
    BY <1>11 DEF vars
  <2> QED
    BY <1>0, <2>1, LeftUnchanged
<1>12. 1 \in 1..portMAX_DELAY
  BY TickNumbers
<1> QED
  BY <1>1, <1>2, <1>5, <1>6, <1>7, <1>8, <1>9, <1>10, <1>11, <1>12 DEF Next

-----------------------------------------------------------------------------
(* Theorems. *)

\* Every variable keeps its type whatever the delays and the wraps.
THEOREM TypeInvariant == Spec => []TypeOK
<1>1. IInv => TypeOK
  BY DEF IInv, Typed, Lists, ListOK, TypeOK
<1> QED
  BY <1>1, Invariance, PTL

\* The delayed lists are sorted and disjoint, nobody is overdue, the next
\* unblock time is not late, and the lists are exchanged only when the current
\* one is empty.
THEOREM DelayedListsAreSound == Spec => []DelayedListsSound
<1>1. IInv => DelayedListsSound
  <2> SUFFICES ASSUME IInv PROVE DelayedListsSound
    OBVIOUS
  <2>1. Lists
    BY DEF IInv
  <2>2. Owners(pxDelayedTaskList) \cap Owners(pxOverflowDelayedTaskList) = {}
    <3> SUFFICES ASSUME NEW x \in Items(pxDelayedTaskList),
                        NEW y \in Items(pxOverflowDelayedTaskList), x.owner = y.owner
                 PROVE  FALSE
      BY DEF Owners
    <3>1. x = y /\ x.value > xTickCount /\ x.value < xTickCount
      BY <2>1 DEF Lists, AllItems
    <3>2. x.value \in Int /\ xTickCount \in Int
      BY <2>1, ItemTypes, TickNumbers DEF AllItems, IInv, Typed
    <3> QED
      BY <3>1, <3>2
  <2> QED
    BY <2>1, <2>2 DEF Lists, ListOK, DelayedListsSound
<1> QED
  BY <1>1, Invariance, PTL

\* A task leaves the event lists and the delayed lists together.
THEOREM EventListsAreSound == Spec => []EventListSound
<1>1. IInv => EventListSound
  BY DEF IInv
<1> QED
  BY <1>1, Invariance, PTL

\* Both together: all lists of the scheduler are sound.
THEOREM ListsAreSound == Spec => []ListsSound
BY DelayedListsAreSound, EventListsAreSound, PTL DEF ListsSound

\* Suspending the scheduler loses no tick.
THEOREM NoTickIsLost == Spec => []TicksAccounted
<1>1. IInv => TicksAccounted
  BY DEF IInv
<1> QED
  BY <1>1, Invariance, PTL

\* vTaskDelayUntil does not drift, however often the count wraps.
THEOREM PeriodsAreKept == Spec => []PeriodKept
<1>1. IInv => PeriodKept
  BY DEF IInv
<1> QED
  BY <1>1, Invariance, PTL

\* Delays end exactly on time: the lists, the wrap of the count and the pended
\* ticks implement the abstract delays.
THEOREM DelaysAreExact == Spec => DelaysExact
<1>1. Init => A!Init
  <2> SUFFICES ASSUME Init PROVE A!Init
    OBVIOUS
  <2>1. IInv
    BY InitInvariant
  <2>2. AllItems = {}
    <3>1. <<>> \in Seq(ListItem_t) /\ Len(<<>>) = 0
      OBVIOUS
    <3> QED
      BY <3>1 DEF Init, AllItems, Items
  <2>3. Left \in [Tasks -> TickType_t] /\ \A t \in Tasks : Left[t] = 0
    BY <2>1, <2>2, LeftOf DEF IInv
  <2>4. Left = [t \in Tasks |-> 0]
    BY <2>3
  <2> QED
    BY <2>4 DEF A!Init
<1>2. IInv /\ [Next]_vars => [A!Next]_Left
  BY StepSimulation
<1> QED
  BY <1>1, <1>2, Invariance, PTL DEF Spec, DelaysExact, A!Spec

-----------------------------------------------------------------------------
(* The time-outs of the blocking calls. *)

InWait == {"retry", "blocked", "again", "expired"}

\* It is e ticks since the count was entering, in its overflow number o.
Elapsed(o, entering, e) ==
  /\ e \in 0..Period
  /\ IF entering + e < Period
     THEN xTickCount = entering + e /\ xNumOfOverflows = o
     ELSE /\ xTickCount = entering + e - Period
          /\ xNumOfOverflows = (o + 1) % OverflowModulus

\* What a blocking call of task t knows of its time: until the count has turned once since
\* the call began, the ticks it has still to wait are those it had when it looked last.
FiniteWait(t) ==
  /\ xTicksToWait[t] <= wait0[t]
  /\ age[t] <= Period /\ xTicksToWait[t] > 0 =>
       Elapsed(xTimeOut[t][1], xTimeOut[t][2], age[t] - (wait0[t] - xTicksToWait[t]))
  /\ age[t] <= Period /\ pc[t] = "expired" => age[t] >= wait0[t]
  /\ age[t] <= Period /\ pc[t] \in {"blocked", "again"} => xTicksToWait[t] = wait0[t] - age[t]

\* The same for every call under way; one without a time-out never gives up.
TimeSound(t) ==
  pc[t] \in InWait =>
    /\ wait0[t] > 0
    /\ wait0[t] = portMAX_DELAY => xTicksToWait[t] = portMAX_DELAY /\ pc[t] # "expired"
    /\ wait0[t] # portMAX_DELAY => FiniteWait(t)

TimesSound == \A t \in Tasks : TimeSound(t)

\* The types of what belongs to one task.
LEMMA WaitTypes ==
  ASSUME Typed, NEW t \in Tasks
  PROVE  /\ xTicksToWait[t] \in 0..portMAX_DELAY /\ wait0[t] \in 0..portMAX_DELAY
         /\ age[t] \in 0..Period + 1 /\ xTickCount \in 0..portMAX_DELAY
         /\ xTimeOut[t][1] \in 0..OverflowModulus - 1 /\ xTimeOut[t][2] \in 0..portMAX_DELAY
         /\ xNumOfOverflows \in 0..OverflowModulus - 1
         /\ portMAX_DELAY \in Nat /\ portMAX_DELAY > 1 /\ Period = portMAX_DELAY + 1
         /\ OverflowModulus \in Nat /\ OverflowModulus > 2
<1>1. xTimeOut[t] \in (0..OverflowModulus - 1) \X TickType_t
  BY DEF Typed
<1> QED
  BY <1>1, TickNumbers, TicksAssumption DEF Typed

\* The number of overflows tells one turn of the count from none.
LEMMA OverflowsDiffer ==
  ASSUME NEW o \in 0..OverflowModulus - 1
  PROVE  (o + 1) % OverflowModulus # o
<1>1. OverflowModulus \in Nat /\ OverflowModulus > 2
  BY TicksAssumption
<1>2. CASE o + 1 = OverflowModulus
  <2>1. OverflowModulus % OverflowModulus = 0
    BY <1>1
  <2> QED
    BY <1>1, <1>2, <2>1
<1>3. CASE o + 1 < OverflowModulus
  <2>1. (o + 1) % OverflowModulus = o + 1
    BY <1>1, <1>3
  <2> QED
    BY <1>1, <2>1
<1> QED
  BY <1>1, <1>2, <1>3

\* xTaskCheckForTimeOut measures the ticks since the call looked last, and gives up only
\* if they are as many as it has still to wait.
LEMMA CheckMeasures ==
  ASSUME Typed, NEW t \in Tasks, xTicksToWait[t] > 0, xTicksToWait[t] # portMAX_DELAY,
         NEW e \in 0..Period, Elapsed(xTimeOut[t][1], xTimeOut[t][2], e)
  PROVE  LET check == CheckForTimeOut(t)
         IN IF check.expired
            THEN /\ e >= xTicksToWait[t] /\ check.timeOut = xTimeOut[t]
                 /\ check.ticks \in {0, xTicksToWait[t]}
            ELSE /\ check.ticks = xTicksToWait[t] - e /\ check.ticks > 0
                 /\ check.timeOut = <<xNumOfOverflows, xTickCount>>
<1> DEFINE o == xTimeOut[t][1]
           entering == xTimeOut[t][2]
           elapsed == Minus(xTickCount, entering)
           late == xNumOfOverflows # o /\ xTickCount >= entering
<1>0. /\ xTicksToWait[t] \in 0..portMAX_DELAY /\ o \in 0..OverflowModulus - 1
      /\ entering \in 0..portMAX_DELAY /\ xTickCount \in 0..portMAX_DELAY
      /\ portMAX_DELAY \in Nat /\ Period = portMAX_DELAY + 1
  BY WaitTypes
<1>1. /\ late => e = Period
      /\ ~late => elapsed = e
  <2>1. (o + 1) % OverflowModulus # o
    BY <1>0, OverflowsDiffer
  <2> HIDE DEF o, entering
  <2>2. CASE entering + e < Period
    <3>1. xTickCount = entering + e /\ xNumOfOverflows = o
      BY <2>2 DEF Elapsed, o, entering
    <3> QED
      BY <1>0, <3>1 DEF Minus
  <2>3. CASE ~(entering + e < Period)
    <3>1. xTickCount = entering + e - Period /\ xNumOfOverflows # o
      BY <2>1, <2>3 DEF Elapsed, o, entering
    <3> QED
      BY <1>0, <2>3, <3>1 DEF Minus
  <2> QED
    BY <2>2, <2>3
<1> HIDE DEF o, elapsed
<1>2. CASE late
  <2>1. CheckForTimeOut(t) = [expired |-> TRUE, ticks |-> xTicksToWait[t], timeOut |-> xTimeOut[t]]
    BY <1>2 DEF CheckForTimeOut, o
  <2> QED
    BY <1>0, <1>1, <1>2, <2>1
<1>3. CASE ~late /\ elapsed < xTicksToWait[t]
  <2>1. CheckForTimeOut(t) = [expired |-> FALSE, ticks |-> xTicksToWait[t] - elapsed,
                              timeOut |-> <<xNumOfOverflows, xTickCount>>]
    BY <1>3 DEF CheckForTimeOut, o, elapsed
  <2> QED
    BY <1>0, <1>1, <1>3, <2>1
<1>4. CASE ~late /\ ~(elapsed < xTicksToWait[t])
  <2>1. CheckForTimeOut(t) = [expired |-> TRUE, ticks |-> 0, timeOut |-> xTimeOut[t]]
    BY <1>4 DEF CheckForTimeOut, o, elapsed
  <2> QED
    BY <1>0, <1>1, <1>4, <2>1
<1> QED
  BY <1>2, <1>3, <1>4

\* A call whose time is not touched keeps it; it may go on to try again.
LEMMA TimeUndisturbed ==
  ASSUME NEW t \in Tasks, TimeSound(t), UNCHANGED clockVars,
         \/ pc'[t] = pc[t]
         \/ pc'[t] = "retry" /\ pc[t] \in InWait
         \/ pc'[t] \notin InWait,
         pc'[t] \in InWait =>
           /\ xTicksToWait'[t] = xTicksToWait[t] /\ xTimeOut'[t] = xTimeOut[t]
           /\ age'[t] = age[t] /\ wait0'[t] = wait0[t]
  PROVE  TimeSound(t)'
<1>1. CASE pc'[t] \notin InWait
  BY <1>1 DEF TimeSound, InWait
<1>2. CASE pc'[t] \in InWait
  <2>1. /\ xTicksToWait'[t] = xTicksToWait[t] /\ xTimeOut'[t] = xTimeOut[t]
        /\ age'[t] = age[t] /\ wait0'[t] = wait0[t]
        /\ xTickCount' = xTickCount /\ xNumOfOverflows' = xNumOfOverflows
        /\ pc[t] \in InWait /\ (pc'[t] = pc[t] \/ pc'[t] = "retry")
    BY <1>2 DEF clockVars
  <2> QED
    BY <2>1 DEF TimeSound, FiniteWait, Elapsed, InWait
<1> QED
  BY <1>1, <1>2

\* A tick, for a call that is not in a section of the suspended scheduler.
LEMMA TimeAfterTick ==
  ASSUME IInv, IncrementTick, suspender = NULL, UNCHANGED <<waitVars, pc>>,
         NEW t \in Tasks, TimeSound(t)
  PROVE  TimeSound(t)'
<1> SUFFICES ASSUME pc[t] \in InWait PROVE TimeSound(t)'
  BY DEF TimeSound
<1>1. pc[t] = "retry" /\ pc'[t] = "retry"
  BY TicksAssumption DEF IInv, Sections, InWait
<1>2. /\ wait0'[t] = wait0[t] /\ xTicksToWait'[t] = xTicksToWait[t] /\ xTimeOut'[t] = xTimeOut[t]
  BY DEF waitVars
<1>3. /\ xTickCount' = Plus(xTickCount, 1)
      /\ xNumOfOverflows' = IF Plus(xTickCount, 1) = 0
                            THEN (xNumOfOverflows + 1) % OverflowModulus ELSE xNumOfOverflows
      /\ age'[t] = IF wait0[t] \in 1..portMAX_DELAY - 1 /\ age[t] <= Period
                   THEN age[t] + 1 ELSE age[t]
  BY DEF IncrementTick, Age
<1>4. Typed
  BY DEF IInv
<1>5. ASSUME wait0[t] # portMAX_DELAY PROVE FiniteWait(t)'
  <2>1. FiniteWait(t) /\ wait0[t] \in 1..portMAX_DELAY - 1
    BY <1>4, <1>5, WaitTypes DEF TimeSound
  <2>2. ASSUME age'[t] <= Period, xTicksToWait[t] > 0
        PROVE  Elapsed(xTimeOut[t][1], xTimeOut[t][2], age[t] - (wait0[t] - xTicksToWait[t]))'
    <3> DEFINE o == xTimeOut[t][1]
               entering == xTimeOut[t][2]
               e == age[t] - (wait0[t] - xTicksToWait[t])
    <3>1. age[t] < Period /\ age'[t] = age[t] + 1
      BY <1>3, <1>4, <2>1, <2>2, WaitTypes
    <3>2. Elapsed(o, entering, e) /\ e + 1 \in 0..Period
      <4>1. Elapsed(o, entering, e)
        BY <1>4, <2>1, <2>2, <3>1, WaitTypes DEF FiniteWait
      <4>2. e \in 0..Period /\ e <= age[t]
        BY <1>4, <2>1, <4>1, WaitTypes DEF Elapsed, FiniteWait
      <4> QED
        BY <1>4, <3>1, <4>1, <4>2, WaitTypes
    <3>3. /\ entering \in 0..portMAX_DELAY /\ xTickCount \in 0..portMAX_DELAY
          /\ o \in 0..OverflowModulus - 1
          /\ portMAX_DELAY \in Nat /\ portMAX_DELAY > 1 /\ Period = portMAX_DELAY + 1
          /\ e \in 0..Period
      BY <1>4, <3>2, WaitTypes DEF Elapsed
    <3>4. /\ IF entering + e < Period
             THEN xTickCount = entering + e /\ xNumOfOverflows = o
             ELSE /\ xTickCount = entering + e - Period
                  /\ xNumOfOverflows = (o + 1) % OverflowModulus
      BY <3>2 DEF Elapsed
    <3> HIDE DEF o, entering, e
    <3>5. IF entering + (e + 1) < Period
          THEN xTickCount' = entering + (e + 1) /\ xNumOfOverflows' = o
          ELSE /\ xTickCount' = entering + (e + 1) - Period
               /\ xNumOfOverflows' = (o + 1) % OverflowModulus
      <4>1. CASE entering + (e + 1) < Period
        <5>1. Plus(xTickCount, 1) = entering + (e + 1) /\ Plus(xTickCount, 1) # 0
          BY <3>3, <3>4, <4>1 DEF Plus
        <5> QED
          BY <1>3, <3>3, <3>4, <4>1, <5>1
      <4>2. CASE entering + (e + 1) = Period
        <5>1. Plus(xTickCount, 1) = 0 /\ xNumOfOverflows = o
          BY <3>3, <3>4, <4>2 DEF Plus
        <5> QED
          BY <1>3, <3>3, <4>2, <5>1
      <4>3. CASE entering + (e + 1) > Period
        <5>1. /\ xTickCount = entering + e - Period
              /\ xNumOfOverflows = (o + 1) % OverflowModulus
          BY <3>3, <3>4, <4>3
        <5>2. Plus(xTickCount, 1) = entering + e - Period + 1 /\ Plus(xTickCount, 1) # 0
          BY <3>2, <3>3, <4>3, <5>1 DEF Plus
        <5> QED
          BY <1>3, <3>3, <4>3, <5>1, <5>2
      <4> QED
        BY <3>3, <4>1, <4>2, <4>3
    <3>6. age'[t] - (wait0'[t] - xTicksToWait'[t]) = e + 1
      BY <1>2, <1>4, <3>1, WaitTypes DEF e
    <3>7. xTimeOut'[t][1] = o /\ xTimeOut'[t][2] = entering
      BY <1>2 DEF o, entering
    <3> QED
      BY <3>2, <3>5, <3>6, <3>7 DEF Elapsed
  <2>3. xTicksToWait[t] <= wait0[t]
    BY <2>1 DEF FiniteWait
  <2> QED
    BY <1>1, <1>2, <2>2, <2>3 DEF FiniteWait
<1> QED
  BY <1>1, <1>2, <1>5 DEF TimeSound, InWait

\* A call that begins.
LEMMA TimeOnEntry ==
  ASSUME Typed, NEW t \in Tasks, NEW ticks \in 1..portMAX_DELAY, EnterWait(t, ticks)
  PROVE  TimeSound(t)'
<1>1. /\ pc'[t] = "retry" /\ xTicksToWait'[t] = ticks /\ age'[t] = 0 /\ wait0'[t] = ticks
      /\ xTimeOut'[t] = <<xNumOfOverflows, xTickCount>>
      /\ xTickCount' = xTickCount /\ xNumOfOverflows' = xNumOfOverflows
  BY DEF EnterWait, Typed, clockVars
<1>2. /\ portMAX_DELAY \in Nat /\ Period = portMAX_DELAY + 1 /\ xTickCount \in 0..portMAX_DELAY
  BY WaitTypes
<1>3. Elapsed(xTimeOut[t][1], xTimeOut[t][2], age[t] - (wait0[t] - xTicksToWait[t]))'
  BY <1>1, <1>2 DEF Elapsed
<1> QED
  BY <1>1, <1>2, <1>3 DEF TimeSound, FiniteWait, InWait

\* A call that looks at its time.
LEMMA TimeWhenChecked ==
  ASSUME Typed, NEW t \in Tasks, TimeSound(t), WaitForEvent(t)
  PROVE  TimeSound(t)'
<1> DEFINE check == CheckForTimeOut(t)
<1>1. /\ pc[t] = "retry" /\ xTicksToWait[t] > 0
      /\ xTicksToWait'[t] = check.ticks /\ xTimeOut'[t] = check.timeOut
      /\ pc'[t] \in InWait /\ pc'[t] # "retry"
      /\ pc'[t] = "expired" <=> check.expired
      /\ age' = age /\ wait0' = wait0
      /\ xTickCount' = xTickCount /\ xNumOfOverflows' = xNumOfOverflows
  BY DEF WaitForEvent, Suspend, clockVars, Typed, InWait
<1>2. /\ xTicksToWait[t] \in 0..portMAX_DELAY /\ wait0[t] \in 0..portMAX_DELAY
      /\ age[t] \in 0..Period + 1 /\ xTickCount \in 0..portMAX_DELAY
      /\ portMAX_DELAY \in Nat /\ Period = portMAX_DELAY + 1
  BY WaitTypes
<1>3. /\ wait0[t] > 0
      /\ wait0[t] = portMAX_DELAY => xTicksToWait[t] = portMAX_DELAY
      /\ wait0[t] # portMAX_DELAY => FiniteWait(t)
  BY <1>1 DEF TimeSound, InWait
<1>4. CASE wait0[t] = portMAX_DELAY
  <2>1. check = [expired |-> FALSE, ticks |-> xTicksToWait[t], timeOut |-> xTimeOut[t]]
    BY <1>3, <1>4 DEF CheckForTimeOut
  <2> QED
    BY <1>1, <1>3, <1>4, <2>1 DEF TimeSound
<1>5. CASE wait0[t] # portMAX_DELAY
  <2>1. xTicksToWait[t] <= wait0[t] /\ xTicksToWait[t] # portMAX_DELAY
    BY <1>2, <1>3, <1>5 DEF FiniteWait
  <2>2. check.ticks <= wait0[t]
    <3>1. check.ticks \in {xTicksToWait[t], 0}
          \/ check.ticks = xTicksToWait[t] - Minus(xTickCount, xTimeOut[t][2])
      BY DEF CheckForTimeOut
    <3>2. Minus(xTickCount, xTimeOut[t][2]) \in 0..portMAX_DELAY
      BY WaitTypes, TickArithmetic, TickNumbers
    <3> HIDE DEF check
    <3> QED
      BY <1>2, <2>1, <3>1, <3>2
  <2>3. ASSUME age[t] <= Period
        PROVE  /\ check.ticks > 0 =>
                    Elapsed(check.timeOut[1], check.timeOut[2], age[t] - (wait0[t] - check.ticks))
               /\ check.expired => age[t] >= wait0[t]
               /\ ~check.expired => check.ticks = wait0[t] - age[t]
    <3> DEFINE e == age[t] - (wait0[t] - xTicksToWait[t])
    <3>1. Elapsed(xTimeOut[t][1], xTimeOut[t][2], e) /\ e \in 0..Period
      BY <1>1, <1>3, <1>5, <2>3 DEF FiniteWait, Elapsed
    <3>2. IF check.expired
          THEN /\ e >= xTicksToWait[t] /\ check.timeOut = xTimeOut[t]
               /\ check.ticks \in {0, xTicksToWait[t]}
          ELSE /\ check.ticks = xTicksToWait[t] - e /\ check.ticks > 0
               /\ check.timeOut = <<xNumOfOverflows, xTickCount>>
      <4> HIDE DEF e
      <4> QED
        BY <1>1, <2>1, <3>1, CheckMeasures
    <3> HIDE DEF check
    <3>3. CASE check.expired
      BY <1>2, <3>1, <3>2, <3>3
    <3>4. CASE ~check.expired
      <4>1. check.ticks = wait0[t] - age[t] /\ age[t] - (wait0[t] - check.ticks) = 0
        BY <1>2, <3>2, <3>4
      <4>2. Elapsed(xNumOfOverflows, xTickCount, 0)
        BY <1>2 DEF Elapsed
      <4> QED
        BY <3>2, <3>4, <4>1, <4>2
    <3> QED
      BY <3>3, <3>4
  <2>4. \A o, n, e : Elapsed(o, n, e)' <=> Elapsed(o, n, e)'
    OBVIOUS
  <2> HIDE DEF check
  <2>5. FiniteWait(t)'
    <3>1. age'[t] = age[t] /\ wait0'[t] = wait0[t]
      BY <1>1
    <3>2. age[t] <= Period /\ check.ticks > 0 =>
            Elapsed(xTimeOut[t][1], xTimeOut[t][2], age[t] - (wait0[t] - xTicksToWait[t]))'
      BY <1>1, <2>3, <3>1 DEF Elapsed
    <3> QED
      BY <1>1, <2>2, <2>3, <3>1, <3>2 DEF FiniteWait, InWait
  <2> QED
    BY <1>1, <1>3, <1>5, <2>5 DEF TimeSound
<1> QED
  BY <1>4, <1>5

\* Every step keeps the times of the calls.
LEMMA TimeStep == ASSUME IInv, TimesSound, [Next]_vars PROVE TimesSound'
<1> SUFFICES ASSUME NEW u \in Tasks PROVE TimeSound(u)'
  BY DEF TimesSound
<1> USE DEF waitVars
<1>0. TimeSound(u) /\ Typed
  BY DEF TimesSound, IInv
<1>1. CASE Tick
  <2>1. CASE suspender = NULL
    BY <1>0, <1>1, <2>1, TickSituation, TimeAfterTick DEF Tick
  <2>2. CASE suspender # NULL
    BY <1>0, <1>1, <2>2, TimeUndisturbed DEF Tick
  <2> QED
    BY <2>1, <2>2
<1>2. CASE ProcessPendedTick
  BY <1>0, <1>2, TickSituation, TimeAfterTick DEF ProcessPendedTick
<1>3. ASSUME NEW t \in Tasks, NEW ticks \in 1..portMAX_DELAY,
             vTaskDelay(t, ticks) \/ vTaskDelayUntil(t, ticks)
      PROVE  TimeSound(u)'
  <2>1. /\ UNCHANGED <<clockVars, waitVars, age>>
        /\ pc' = [pc EXCEPT ![t] = "delay"] \/ pc' = [pc EXCEPT ![t] = "until"]
    BY <1>3 DEF vTaskDelay, vTaskDelayUntil, Suspend
  <2>2. pc'[u] = pc[u] \/ pc'[u] \in {"delay", "until"}
    BY <1>0, <2>1 DEF Typed
  <2> QED
    BY <1>0, <2>1, <2>2, TimeUndisturbed DEF InWait
<1>4. ASSUME NEW t \in Tasks, NEW ticks \in 1..portMAX_DELAY, EnterWait(t, ticks)
      PROVE  TimeSound(u)'
  <2>1. CASE u = t
    BY <1>0, <1>4, <2>1, TimeOnEntry
  <2>2. CASE u # t
    BY <1>0, <1>4, <2>2, TimeUndisturbed DEF EnterWait
  <2> QED
    BY <2>1, <2>2
<1>5. ASSUME NEW t \in Tasks, WaitForEvent(t) PROVE TimeSound(u)'
  <2>1. CASE u = t
    BY <1>0, <1>5, <2>1, TimeWhenChecked
  <2>2. CASE u # t
    <3>1. /\ UNCHANGED <<clockVars, age, wait0>> /\ pc'[u] = pc[u]
          /\ xTicksToWait'[u] = xTicksToWait[u] /\ xTimeOut'[u] = xTimeOut[u]
      BY <1>0, <1>5, <2>2 DEF WaitForEvent, Suspend, Typed
    <3> QED
      BY <1>0, <3>1, TimeUndisturbed
  <2> QED
    BY <2>1, <2>2
<1>6. ASSUME NEW t \in Tasks, xTaskResumeAll(t) \/ TryAgain(t) PROVE TimeSound(u)'
  <2>1. /\ UNCHANGED clockVars
        /\ \/ Return(t)
           \/ /\ pc[t] \in {"blocked", "again", "expired"}
              /\ pc' = [pc EXCEPT ![t] = "retry"] /\ UNCHANGED <<waitVars, age>>
    BY <1>6 DEF xTaskResumeAll, TryAgain
  <2>2. CASE u = t
    <3>1. \/ pc'[u] = "app"
          \/ /\ pc'[u] = "retry" /\ pc[u] \in InWait
             /\ xTicksToWait'[u] = xTicksToWait[u] /\ xTimeOut'[u] = xTimeOut[u]
             /\ age'[u] = age[u] /\ wait0'[u] = wait0[u]
      BY <1>0, <2>1, <2>2 DEF Return, Typed, InWait
    <3> QED
      BY <1>0, <2>1, <3>1, TimeUndisturbed DEF InWait
  <2>3. CASE u # t
    <3>1. /\ pc'[u] = pc[u]
          /\ xTicksToWait'[u] = xTicksToWait[u] /\ xTimeOut'[u] = xTimeOut[u]
          /\ age'[u] = age[u] /\ wait0'[u] = wait0[u]
      BY <1>0, <2>1, <2>3 DEF Return, Typed
    <3> QED
      BY <1>0, <2>1, <3>1, TimeUndisturbed
  <2> QED
    BY <2>2, <2>3
<1>7. ASSUME NEW t \in Tasks, xTaskRemoveFromEventList(t) \/ StartPeriod(t) PROVE TimeSound(u)'
  <2>1. UNCHANGED <<clockVars, waitVars, pc, age>>
    BY <1>7 DEF xTaskRemoveFromEventList, StartPeriod
  <2> QED
    BY <1>0, <2>1, TimeUndisturbed
<1>8. CASE UNCHANGED vars
  <2>1. UNCHANGED <<clockVars, waitVars, pc, age>>
    BY <1>8 DEF vars
  <2> QED
    BY <1>0, <2>1, TimeUndisturbed
<1> QED
  BY <1>1, <1>2, <1>3, <1>4, <1>5, <1>6, <1>7, <1>8 DEF Next

\* A blocking call gives up only when its whole wait has passed, and blocks again for exactly
\* what is left of it, however often the count wraps meanwhile and the call looks at it.
THEOREM TimeOutsAreExact == Spec => []TimeOutExact
<1>1. Init => TimesSound
  BY DEF Init, TimesSound, TimeSound, InWait
<1>2. Spec => []TimesSound
  BY <1>1, TimeStep, Invariance, PTL DEF Spec
<1>3. TimesSound => TimeOutExact
  BY DEF TimesSound, TimeSound, FiniteWait, TimeOutExact, InWait
<1> QED
  BY <1>2, <1>3, PTL
=============================================================================
