---------------------------- MODULE RingPositions ----------------------------
(***************************************************************************)
(* Positions in a ring of descriptors: where one comes to from descriptor  *)
(* d with i steps of IfxEth_shuffleRxDescriptor or                         *)
(* IfxEth_shuffleTxDescriptor (IfxEth.c), in a ring of any size.           *)
(***************************************************************************)
EXTENDS Integers, TLAPS

Position(N, d, i) == (d + i) % N

\* A position is a descriptor.
LEMMA PositionType ==
  ASSUME NEW N \in Nat \ {0}, NEW d \in 0..N - 1, NEW i \in Nat
  PROVE  Position(N, d, i) \in 0..N - 1
BY DEF Position

\* Inside a ring the sum of a descriptor and an offset wraps at most once.
LEMMA PositionValue ==
  ASSUME NEW N \in Nat \ {0}, NEW d \in 0..N - 1, NEW i \in 0..N
  PROVE  Position(N, d, i) = IF d + i < N THEN d + i ELSE d + i - N
<1>1. CASE d + i < N
  BY <1>1 DEF Position
<1>2. CASE d + i >= N
  BY <1>2 DEF Position
<1> QED
  BY <1>1, <1>2

\* Different offsets are different descriptors.
LEMMA PositionInjective ==
  ASSUME NEW N \in Nat \ {0}, NEW d \in 0..N - 1, NEW i \in 0..N - 1, NEW j \in 0..N - 1,
         Position(N, d, i) = Position(N, d, j)
  PROVE  i = j
<1>1. i \in 0..N /\ j \in 0..N
  OBVIOUS
<1>2. (IF d + i < N THEN d + i ELSE d + i - N) = (IF d + j < N THEN d + j ELSE d + j - N)
  BY <1>1, PositionValue
<1>3. CASE d + i < N /\ d + j < N
  BY <1>2, <1>3
<1>4. CASE d + i < N /\ ~(d + j < N)
  BY <1>2, <1>4
<1>5. CASE ~(d + i < N) /\ d + j < N
  BY <1>2, <1>5
<1>6. CASE ~(d + i < N) /\ ~(d + j < N)
  BY <1>2, <1>6
<1> QED
  BY <1>3, <1>4, <1>5, <1>6

\* The offset from the next descriptor is one less.
LEMMA PositionShift ==
  ASSUME NEW N \in Nat \ {0}, NEW d \in 0..N - 1, NEW i \in 0..N - 1
  PROVE  /\ Position(N, Position(N, d, 1), i) = Position(N, d, i + 1)
         /\ Position(N, Position(N, d, i), 1) = Position(N, d, i + 1)
<1>1. i \in 0..N /\ i + 1 \in 0..N /\ 1 \in 0..N
  OBVIOUS
<1>2. Position(N, d, 1) \in 0..N - 1 /\ Position(N, d, i) \in 0..N - 1
  <2>1. 1 \in Nat /\ i \in Nat
    OBVIOUS
  <2> QED
    BY <2>1, PositionType
<1>3. /\ Position(N, d, 1) = (IF d + 1 < N THEN d + 1 ELSE d + 1 - N)
      /\ Position(N, d, i) = (IF d + i < N THEN d + i ELSE d + i - N)
      /\ Position(N, d, i + 1) = (IF d + (i + 1) < N THEN d + (i + 1) ELSE d + (i + 1) - N)
  BY <1>1, PositionValue
<1> DEFINE a == Position(N, d, 1)
           b == Position(N, d, i)
<1>4. /\ Position(N, a, i) = (IF a + i < N THEN a + i ELSE a + i - N)
      /\ Position(N, b, 1) = (IF b + 1 < N THEN b + 1 ELSE b + 1 - N)
  BY <1>1, <1>2, PositionValue
<1> QED
  BY <1>1, <1>2, <1>3, <1>4

\* A whole turn of the ring ends where it began.
LEMMA PositionTurn ==
  ASSUME NEW N \in Nat \ {0}, NEW d \in 0..N - 1
  PROVE  Position(N, d, N) = d /\ Position(N, d, 0) = d
<1>1. N \in 0..N /\ 0 \in 0..N
  OBVIOUS
<1> QED
  BY <1>1, PositionValue

\* Every descriptor is at some offset from d.
LEMMA PositionSurjective ==
  ASSUME NEW N \in Nat \ {0}, NEW d \in 0..N - 1, NEW i \in 0..N - 1
  PROVE  \E k \in 0..N - 1 : Position(N, d, k) = i
<1>1. CASE i >= d
  <2>1. i - d \in 0..N - 1 /\ i - d \in 0..N /\ d + (i - d) < N /\ d + (i - d) = i
    BY <1>1
  <2>2. Position(N, d, i - d) = i
    BY <2>1, PositionValue
  <2> QED
    BY <2>1, <2>2
<1>2. CASE i < d
  <2>1. /\ i - d + N \in 0..N - 1 /\ i - d + N \in 0..N
        /\ ~(d + (i - d + N) < N) /\ d + (i - d + N) - N = i
    BY <1>2
  <2>2. Position(N, d, i - d + N) = i
    BY <2>1, PositionValue
  <2> QED
    BY <2>1, <2>2
<1> QED
  BY <1>1, <1>2
=============================================================================
