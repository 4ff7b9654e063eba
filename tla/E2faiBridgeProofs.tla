-------------------------- MODULE E2faiBridgeProofs --------------------------
(***************************************************************************)
(* Theorems about module E2faiBridge, for every value of its constants:    *)
(* its limits, the number of batches and of generations of the worker, and *)
(* whether the worker keeps its packets in order.                          *)
(***************************************************************************)
EXTENDS E2faiBridge, FiniteSetTheorems, WellFoundedInduction, SequenceTheorems, TLAPS

-----------------------------------------------------------------------------
(* Induction over the natural numbers for a set of them, rather than for a *)
(* predicate: proofs about recursive functions cite it.                    *)

\* A set of natural numbers that is not empty has a least element.
LEMMA LeastNatural ==
  ASSUME NEW T \in SUBSET Nat, T # {}
  PROVE  \E x \in T : \A y \in T : x <= y
<1> DEFINE Less == OpToRel(<, Nat)
<1>1. PICK x \in T : \A y \in T : ~ (<<y, x>> \in Less)
  BY NatLessThanWellFounded, WFMin, Zenon
<1>2. Less = {p \in Nat \X Nat : p[1] < p[2]}
  BY Zenon DEF OpToRel
<1> HIDE DEF Less
<1>3. ASSUME NEW y \in T, y < x PROVE FALSE
  <2>1. <<y, x>> \in Nat \X Nat /\ <<y, x>>[1] = y /\ <<y, x>>[2] = x
    OBVIOUS
  <2> QED
    BY <1>1, <1>2, <1>3, <2>1
<1> QED
  BY <1>3

\* A set of natural numbers that holds 0 and the successor of each of its
\* elements is all of Nat.
LEMMA SetInduction ==
  ASSUME NEW S \in SUBSET Nat, 0 \in S, \A n \in S : n + 1 \in S
  PROVE  S = Nat
<1> SUFFICES ASSUME Nat \ S # {} PROVE FALSE
  OBVIOUS
<1>1. PICK x \in Nat \ S : \A y \in Nat \ S : x <= y
  BY LeastNatural
<1>2. x - 1 \in S /\ x - 1 \in Nat
  BY <1>1
<1> QED
  BY <1>1, <1>2

-----------------------------------------------------------------------------
(* Bytes(q), the recursive function that totals the sizes of a queue       *)

\* f solves the recursive definition inside Bytes(q) on 0..n.
Sums(f, q, n) == f = [i \in 0..n |-> IF i = 0 THEN 0 ELSE f[i - 1] + q[i].size]

\* Every bound has a solution: the one for n is extended to n + 1.
LEMMA SumsExist ==
  ASSUME NEW q
  PROVE  \A n \in Nat : \E f : Sums(f, q, n)
<1> DEFINE Step(f, i) == IF i = 0 THEN 0 ELSE f[i - 1] + q[i].size
           S == {n \in Nat : \E f : f = [i \in 0..n |-> Step(f, i)]}
<1>1. 0 \in S
  <2> DEFINE f == [i \in 0..0 |-> 0]
  <2>1. f = [i \in 0..0 |-> Step(f, i)]
    OBVIOUS
  <2> QED
    BY <2>1
<1>2. ASSUME NEW n \in S PROVE n + 1 \in S
  <2>1. PICK f : f = [i \in 0..n |-> Step(f, i)]
    OBVIOUS
  <2> DEFINE h == [i \in 0..n + 1 |-> Step(f, i)]
  <2>2. ASSUME NEW i \in 0..n + 1 PROVE h[i] = Step(h, i)
    <3>1. CASE i = 0
      BY <3>1
    <3>2. CASE i # 0
      <4>1. i - 1 \in 0..n /\ i - 1 \in 0..n + 1
        BY <3>2
      <4>2. f[i - 1] = Step(f, i - 1)
        BY <2>1, <4>1
      <4>3. h[i - 1] = Step(f, i - 1)
        BY <4>1
      <4>4. h[i - 1] = f[i - 1]
        BY <4>2, <4>3
      <4> QED
        BY <3>2, <4>4
    <3> QED
      BY <3>1, <3>2
  <2>3. h = [i \in 0..n + 1 |-> Step(h, i)]
    BY <2>2
  <2>4. \E k : k = [i \in 0..n + 1 |-> Step(k, i)]
    <3> HIDE DEF h, Step
    <3> QED
      BY <2>3, Zenon
  <2>5. n + 1 \in Nat
    OBVIOUS
  <2> HIDE DEF Step
  <2> QED
    BY <2>4, <2>5
<1>3. S = Nat
  <2> HIDE DEF Step
  <2> QED
    BY <1>1, <1>2, SetInduction
<1> QED
  BY <1>3 DEF Sums

\* Bytes(q) is the last value of such a solution.
LEMMA BytesIs ==
  ASSUME NEW q, Len(q) \in Nat
  PROVE  \E f : Sums(f, q, Len(q)) /\ Bytes(q) = f[Len(q)]
<1> DEFINE K == CHOOSE f : Sums(f, q, Len(q))
<1>1. \E f : Sums(f, q, Len(q))
  BY SumsExist
<1>2. Sums(K, q, Len(q))
  BY <1>1, Zenon
<1>3. Bytes(q) = K[Len(q)]
  BY Zenon DEF Bytes, Sums
<1> QED
  BY <1>2, <1>3

LEMMA SizeNatural ==
  ASSUME NEW b \in Batch
  PROVE  b.size \in Nat
<1>1. Sizes \cup {0} \subseteq Nat
  BY SizesAssumption
<1>2. b.size \in Sizes \cup {0}
  BY DEF Batch
<1> QED
  BY <1>1, <1>2

LEMMA BytesEmpty == Bytes(<<>>) = 0
<1>1. Len(<<>>) = 0
  OBVIOUS
<1>2. PICK f : Sums(f, <<>>, 0) /\ Bytes(<<>>) = f[0]
  BY <1>1, BytesIs
<1> QED
  BY <1>2 DEF Sums

LEMMA BytesNatural ==
  ASSUME NEW q \in Seq(Batch)
  PROVE  Bytes(q) \in Nat
<1>1. PICK f : Sums(f, q, Len(q)) /\ Bytes(q) = f[Len(q)]
  BY BytesIs
<1> DEFINE S == {i \in Nat : i <= Len(q) => f[i] \in Nat}
<1>2. \A i \in 0..Len(q) : f[i] = IF i = 0 THEN 0 ELSE f[i - 1] + q[i].size
  BY <1>1 DEF Sums
<1>3. 0 \in S
  BY <1>2
<1>4. ASSUME NEW i \in S PROVE i + 1 \in S
  <2> SUFFICES ASSUME i + 1 <= Len(q) PROVE f[i + 1] \in Nat
    OBVIOUS
  <2>1. f[i + 1] = f[i] + q[i + 1].size
    BY <1>2
  <2>2. q[i + 1].size \in Nat
    BY SizeNatural
  <2>3. f[i] \in Nat
    OBVIOUS
  <2> QED
    BY <2>1, <2>2, <2>3
<1>5. S = Nat
  <2> HIDE DEF S
  <2> QED
    BY <1>3, <1>4, SetInduction DEF S
<1> QED
  BY <1>1, <1>5

\* A queue without its k oldest batches has no more bytes, whatever the tags.
LEMMA BytesSuffix ==
  ASSUME NEW q \in Seq(Batch), NEW r \in Seq(Batch), NEW k \in Nat,
         Len(q) = Len(r) + k,
         \A i \in 1..Len(r) : r[i].size = q[i + k].size
  PROVE  Bytes(r) <= Bytes(q) /\ (k = 0 => Bytes(r) = Bytes(q))
<1> DEFINE N == Len(r)
<1>0. Len(r) \in Nat /\ Len(q) \in Nat
  OBVIOUS
<1>1. PICK f : Sums(f, r, N) /\ Bytes(r) = f[N]
  BY ONLY <1>0, BytesIs
<1>2. PICK h : Sums(h, q, Len(q)) /\ Bytes(q) = h[Len(q)]
  BY ONLY <1>0, BytesIs
<1>3. \A i \in 0..N : f[i] = IF i = 0 THEN 0 ELSE f[i - 1] + r[i].size
  BY <1>1 DEF Sums
<1>4. \A i \in 0..Len(q) : h[i] = IF i = 0 THEN 0 ELSE h[i - 1] + q[i].size
  BY <1>2 DEF Sums
<1> DEFINE Z == {i \in Nat : i <= Len(q) => h[i] \in Nat}
           S == {i \in Nat : i <= N => /\ f[i] \in Nat /\ h[i + k] \in Nat
                                       /\ f[i] <= h[i + k]
                                       /\ k = 0 => f[i] = h[i]}
<1>5. Z = Nat
  <2>1. 0 \in Z
    BY <1>4
  <2>2. ASSUME NEW i \in Z PROVE i + 1 \in Z
    <3> SUFFICES ASSUME i + 1 <= Len(q) PROVE h[i + 1] \in Nat
      OBVIOUS
    <3>1. h[i + 1] = h[i] + q[i + 1].size
      BY <1>4
    <3>2. q[i + 1].size \in Nat /\ h[i] \in Nat
      BY SizeNatural
    <3> QED
      BY <3>1, <3>2
  <2> HIDE DEF Z
  <2> QED
    BY <2>1, <2>2, SetInduction DEF Z
<1>6. 0 \in S
  <2>1. f[0] = 0 /\ h[0] = 0
    BY <1>3, <1>4
  <2>2. h[k] \in Nat
    BY <1>5
  <2> QED
    BY <2>1, <2>2
<1>7. ASSUME NEW i \in S PROVE i + 1 \in S
  <2> SUFFICES ASSUME i + 1 <= N
               PROVE  /\ f[i + 1] \in Nat /\ h[(i + 1) + k] \in Nat
                      /\ f[i + 1] <= h[(i + 1) + k]
                      /\ k = 0 => f[i + 1] = h[i + 1]
    OBVIOUS
  <2>1. f[i + 1] = f[i] + r[i + 1].size
    BY <1>3
  <2>2. h[(i + 1) + k] = h[i + k] + q[(i + 1) + k].size
    <3>1. (i + 1) + k \in 0..Len(q) /\ (i + 1) + k # 0 /\ ((i + 1) + k) - 1 = i + k
      OBVIOUS
    <3> QED
      BY <1>4, <3>1
  <2>3. r[i + 1].size = q[(i + 1) + k].size /\ r[i + 1].size \in Nat
    BY SizeNatural
  <2>4. /\ f[i] \in Nat /\ h[i + k] \in Nat /\ f[i] <= h[i + k]
        /\ k = 0 => f[i] = h[i]
    OBVIOUS
  <2>5. k = 0 => (i + 1) + k = i + 1 /\ i + k = i
    OBVIOUS
  <2> QED
    <3>1. f[i + 1] <= h[(i + 1) + k] /\ f[i + 1] \in Nat /\ h[(i + 1) + k] \in Nat
      <4>1. \A a, b, c \in Nat : a <= b => a + c <= b + c /\ a + c \in Nat /\ b + c \in Nat
        OBVIOUS
      <4>2. q[(i + 1) + k].size \in Nat /\ f[i] \in Nat /\ h[i + k] \in Nat /\ f[i] <= h[i + k]
        BY <2>3, <2>4
      <4>3. f[i + 1] = f[i] + q[(i + 1) + k].size
        BY <2>1, <2>3
      <4> QED
        BY ONLY <2>2, <4>1, <4>2, <4>3
    <3>2. ASSUME k = 0 PROVE f[i + 1] = h[i + 1]
      BY ONLY <2>1, <2>2, <2>3, <2>4, <2>5, <3>2
    <3> QED
      BY ONLY <3>1, <3>2
<1>8. S = Nat
  <2> HIDE DEF S
  <2> QED
    BY <1>6, <1>7, SetInduction DEF S
<1> QED
  BY <1>1, <1>2, <1>8

LEMMA BytesAppend ==
  ASSUME NEW q \in Seq(Batch), NEW b \in Batch
  PROVE  Bytes(Append(q, b)) = Bytes(q) + b.size
<1> DEFINE N == Len(q)
           r == Append(q, b)
<1>0. /\ r \in Seq(Batch) /\ Len(r) = N + 1 /\ r[N + 1] = b
      /\ \A i \in 1..N : r[i] = q[i]
  OBVIOUS
<1>1. PICK f : Sums(f, q, N) /\ Bytes(q) = f[N]
  BY BytesIs
<1>2. PICK h : Sums(h, r, N + 1) /\ Bytes(r) = h[N + 1]
  <2>1. N + 1 \in Nat
    OBVIOUS
  <2> HIDE DEF r
  <2> QED
    BY ONLY <1>0, <2>1, BytesIs
<1>3. \A i \in 0..N : f[i] = IF i = 0 THEN 0 ELSE f[i - 1] + q[i].size
  BY <1>1 DEF Sums
<1>4. \A i \in 0..N + 1 : h[i] = IF i = 0 THEN 0 ELSE h[i - 1] + r[i].size
  BY <1>2 DEF Sums
<1> DEFINE S == {i \in Nat : i <= N => h[i] = f[i]}
<1>5. 0 \in S
  BY <1>3, <1>4
<1>6. ASSUME NEW i \in S PROVE i + 1 \in S
  <2> SUFFICES ASSUME i + 1 <= N PROVE h[i + 1] = f[i + 1]
    OBVIOUS
  <2>1. f[i + 1] = f[i] + q[i + 1].size
    BY <1>3
  <2>2. h[i + 1] = h[i] + r[i + 1].size
    BY <1>4
  <2> QED
    BY <1>0, <2>1, <2>2
<1>7. S = Nat
  <2> HIDE DEF S
  <2> QED
    BY <1>5, <1>6, SetInduction DEF S
<1>8. h[N] = f[N]
  BY <1>7
<1>9. h[N + 1] = h[N] + b.size
  <2> HIDE DEF r
  <2> QED
    BY <1>0, <1>4
<1> QED
  BY <1>1, <1>2, <1>8, <1>9

-----------------------------------------------------------------------------
(* What Push does to the queue                                             *)

\* The queue without its k oldest batches
LEMMA NewestIs ==
  ASSUME queue \in Seq(Batch), NEW k \in 0..Len(queue)
  PROVE  /\ Newest(k) \in Seq(Batch) /\ Len(Newest(k)) = Len(queue) - k
         /\ \A i \in 1..Len(queue) - k : Newest(k)[i] = queue[i + k]
<1> DEFINE N == Len(queue)
           m == k + 1
<1>1. N \in Nat /\ m \in Int /\ N \in Int /\ \A i \in m..N : queue[i] \in Batch
  OBVIOUS
<1>2. N - m + 1 = N - k /\ (m <= N => N - k > 0) /\ (~(m <= N) => N - k = 0)
  BY <1>1
<1>3. \A i \in 1..(N - k) : m + i - 1 = i + k
  BY <1>1
<1>4. /\ SubSeq(queue, m, N) \in Seq(Batch)
      /\ Len(SubSeq(queue, m, N)) = IF m <= N THEN N - m + 1 ELSE 0
      /\ \A i \in 1..(N - m + 1) : SubSeq(queue, m, N)[i] = queue[m + i - 1]
  <2> HIDE DEF N, m
  <2> QED
    BY <1>1, SubSeqProperties
<1>5. Newest(k) = SubSeq(queue, m, N)
  BY DEF Newest
<1>6. Len(SubSeq(queue, m, N)) = N - k
  <2> HIDE DEF N, m
  <2> QED
    BY <1>2, <1>4
<1>7. \A i \in 1..(N - k) : SubSeq(queue, m, N)[i] = queue[i + k]
  <2> HIDE DEF N, m
  <2> QED
    BY <1>2, <1>3, <1>4
<1> QED
  BY <1>4, <1>5, <1>6, <1>7

\* The loop that drops the oldest batches ends at the first queue that fits.
LEMMA DroppedIs ==
  ASSUME queue \in Seq(Batch), NEW size
  PROVE  /\ Dropped(size) \in 0..Len(queue)
         /\ FitsHalf(Newest(Dropped(size)), size)
<1> DEFINE P(k) == FitsHalf(Newest(k), size)
                   /\ \A j \in 0..(k - 1) : ~FitsHalf(Newest(j), size)
           T == {k \in 0..Len(queue) : FitsHalf(Newest(k), size)}
<1>1. Len(queue) \in T
  <2>1. Len(queue) \in 0..Len(queue)
    OBVIOUS
  <2>2. Newest(Len(queue)) \in Seq(Batch) /\ Len(Newest(Len(queue))) = 0
    BY <2>1, NewestIs
  <2>3. Newest(Len(queue)) = <<>>
    BY <2>2
  <2> QED
    BY <2>1, <2>3 DEF FitsHalf
<1>2. PICK x \in T : \A y \in T : x <= y
  <2>1. T \in SUBSET Nat /\ T # {}
    BY <1>1
  <2> HIDE DEF T
  <2> QED
    BY <2>1, LeastNatural
<1>3. x \in 0..Len(queue) /\ FitsHalf(Newest(x), size)
  OBVIOUS
<1>4. ASSUME NEW j \in 0..(x - 1) PROVE ~FitsHalf(Newest(j), size)
  <2>1. j \in 0..Len(queue) /\ ~(x <= j)
    BY <1>3
  <2> QED
    BY <1>2, <2>1
<1>5. \E k \in 0..Len(queue) : P(k)
  BY <1>3, <1>4
<1>6. Dropped(size) \in 0..Len(queue) /\ P(Dropped(size))
  <2>1. Dropped(size) = CHOOSE k \in 0..Len(queue) : P(k)
    BY Zenon DEF Dropped
  <2> HIDE DEF P
  <2> QED
    BY <1>5, <2>1, Zenon
<1> QED
  BY <1>6

\* A full queue loses at least one batch.
LEMMA OverflowDrops ==
  ASSUME queue \in Seq(Batch), NEW size \in Nat, size <= MaxPayload, Overflows(size)
  PROVE  Dropped(size) # 0
<1> SUFFICES ASSUME FitsHalf(Newest(0), size) PROVE FALSE
  BY DroppedIs
<1>0. MaxBatches \in Nat \ {0} /\ MaxPayload \in Nat \ {0}
  BY LimitsAssumption
<1>1. MaxBatches \div 2 <= MaxBatches /\ MaxPayload \div 2 <= MaxPayload
  BY <1>0
<1>2. Len(queue) \in Nat /\ Bytes(queue) \in Nat
  BY BytesNatural
<1>3. queue # <<>>
  <2> SUFFICES ASSUME queue = <<>> PROVE FALSE
    OBVIOUS
  <2>1. Len(queue) = 0 /\ Bytes(queue) = 0
    BY BytesEmpty
  <2> QED
    BY <1>0, <2>1 DEF Overflows
<1>4. Newest(0) = queue
  <2>1. 0 \in 0..Len(queue)
    BY <1>2
  <2>2. /\ Newest(0) \in Seq(Batch) /\ Len(Newest(0)) = Len(queue)
        /\ \A i \in 1..Len(queue) : Newest(0)[i] = queue[i]
    BY <2>1, NewestIs
  <2> QED
    BY <2>2
<1>5. /\ Len(queue) + 1 <= MaxBatches \div 2
      /\ Bytes(queue) + size <= MaxPayload \div 2
  BY <1>3, <1>4 DEF FitsHalf
<1> QED
  BY <1>0, <1>1, <1>2, <1>5 DEF Overflows

\* Retagging changes nothing but the tags.
LEMMA RetagIs ==
  ASSUME NEW q \in Seq(Batch), NEW g \in 0..MaxSeq
  PROVE  /\ Retag(q, g) \in Seq(Batch) /\ Len(Retag(q, g)) = Len(q)
         /\ \A i \in 1..Len(q) : /\ Retag(q, g)[i].gen = g
                                 /\ Retag(q, g)[i].seq = q[i].seq
                                 /\ Retag(q, g)[i].size = q[i].size
         /\ Bytes(Retag(q, g)) = Bytes(q)
<1> DEFINE r == Retag(q, g)
<1>1. r = [i \in 1..Len(q) |-> [q[i] EXCEPT !.gen = g]]
  BY DEF Retag
<1>2. ASSUME NEW i \in 1..Len(q)
      PROVE  /\ r[i] \in Batch /\ r[i].gen = g
             /\ r[i].seq = q[i].seq /\ r[i].size = q[i].size
  <2>1. q[i] \in Batch /\ r[i] = [q[i] EXCEPT !.gen = g]
    BY <1>1
  <2> QED
    BY ONLY <2>1, g \in 0..MaxSeq DEF Batch
<1>3. r \in Seq(Batch) /\ Len(r) = Len(q)
  <2> HIDE DEF r
  <2>1. Len(q) \in Nat
    OBVIOUS
  <2>2. r \in [1..Len(q) -> Batch]
    BY <1>1, <1>2
  <2> QED
    BY <2>1, <2>2
<1>4. Bytes(r) = Bytes(q)
  <2> HIDE DEF r
  <2>1. \A i \in 1..Len(r) : r[i].size = q[i + 0].size
    BY <1>2, <1>3
  <2>2. 0 \in Nat /\ Len(q) = Len(r) + 0
    BY <1>3
  <2> QED
    BY <1>3, <2>1, <2>2, BytesSuffix
<1> QED
  BY <1>2, <1>3, <1>4

\* What is left of the queue, if anything, is retagged with the batch behind it.
LEMMA PushEffect ==
  ASSUME TypeOK, HeldInv, bridgeGen + 1 <= MaxSeq, Push, ~stopped
  PROVE  \E k \in 0..Len(queue) :
           /\ queue' \in Seq(Batch) /\ Len(queue') = Len(queue) - k + 1
           /\ \A i \in 1..Len(queue) - k : queue'[i].seq = queue[i + k].seq
           /\ queue'[Len(queue')].seq = batch.seq
           /\ \A i \in 1..Len(queue') : queue'[i].gen = bridgeGen'
           /\ bridgeGen' = IF k = 0 THEN bridgeGen ELSE bridgeGen + 1
           /\ catchup' = catchup + k
           /\ Len(queue') <= MaxBatches /\ Bytes(queue') <= MaxPayload
           /\ mpc' \in {"mark", "notify"}
<1> DEFINE size == batch.size
           k == IF Overflows(size) THEN Dropped(size) ELSE 0
           r == Retag(Newest(k), bridgeGen')
           b == [batch EXCEPT !.gen = bridgeGen']
<1>0. /\ queue \in Seq(Batch) /\ Len(queue) \in Nat /\ batch \in Batch
      /\ bridgeGen \in 0..MaxSeq /\ size \in Nat /\ size <= MaxPayload
      /\ Len(queue) <= MaxBatches /\ Bytes(queue) <= MaxPayload
  <2>1. queue \in Seq(Batch) /\ batch \in Batch /\ bridgeGen \in 0..MaxSeq
    BY DEF TypeOK
  <2>2. Len(queue) <= MaxBatches /\ Bytes(queue) <= MaxPayload
    BY DEF TypeOK
  <2>3. size <= MaxPayload
    BY DEF Push, HeldInv
  <2> QED
    BY <2>1, <2>2, <2>3, SizeNatural
<1>1. /\ bridgeGen' = IF Overflows(size) THEN bridgeGen + 1 ELSE bridgeGen
      /\ catchup' = catchup + k
      /\ queue' = Append(r, b)
      /\ mpc' \in {"mark", "notify"}
  BY DEF Push, EnqueueUnlessStopped, Enqueue
<1>2. k \in 0..Len(queue) /\ (k = 0 <=> ~Overflows(size))
  <2>1. CASE Overflows(size)
    BY <1>0, <2>1, DroppedIs, OverflowDrops
  <2>2. CASE ~Overflows(size)
    BY <1>0, <2>2
  <2> QED
    BY <2>1, <2>2
<1>3. bridgeGen' \in 0..MaxSeq /\ bridgeGen' = IF k = 0 THEN bridgeGen ELSE bridgeGen + 1
  BY <1>0, <1>1, <1>2, BoundsAssumption
<1>4. /\ Newest(k) \in Seq(Batch) /\ Len(Newest(k)) = Len(queue) - k
      /\ \A i \in 1..Len(queue) - k : Newest(k)[i] = queue[i + k]
  <2> HIDE DEF k
  <2> QED
    BY <1>0, <1>2, NewestIs
<1>5. /\ r \in Seq(Batch) /\ Len(r) = Len(queue) - k /\ Bytes(r) = Bytes(Newest(k))
      /\ \A i \in 1..Len(queue) - k : r[i].gen = bridgeGen' /\ r[i].seq = queue[i + k].seq
  <2> HIDE DEF k
  <2> QED
    BY <1>3, <1>4, RetagIs
<1>6. b \in Batch /\ b.gen = bridgeGen' /\ b.seq = batch.seq /\ b.size = size
  BY <1>0, <1>3 DEF Batch
<1>7. /\ queue' \in Seq(Batch) /\ Len(queue') = Len(queue) - k + 1
      /\ queue'[Len(queue')] = b
      /\ \A i \in 1..Len(queue) - k : queue'[i] = r[i]
      /\ Bytes(queue') = Bytes(Newest(k)) + size
  <2> HIDE DEF k, r, b, size
  <2>1. Len(Append(r, b)) = Len(r) + 1 /\ Append(r, b) \in Seq(Batch)
    BY <1>5, <1>6
  <2>2. /\ Append(r, b)[Len(r) + 1] = b
        /\ \A i \in 1..Len(r) : Append(r, b)[i] = r[i]
    BY <1>5, <1>6
  <2>3. Bytes(Append(r, b)) = Bytes(r) + b.size
    BY <1>5, <1>6, BytesAppend
  <2> QED
    BY <1>1, <1>5, <1>6, <2>1, <2>2, <2>3
<1>8. \A i \in 1..Len(queue') : queue'[i].gen = bridgeGen'
  <2> SUFFICES ASSUME NEW i \in 1..Len(queue') PROVE queue'[i].gen = bridgeGen'
    OBVIOUS
  <2> HIDE DEF k, r, b, size
  <2>1. i \in 1..Len(queue) - k \/ i = Len(queue')
    BY <1>0, <1>2, <1>7
  <2> QED
    BY <1>5, <1>6, <1>7, <2>1
<1>9. Len(queue') <= MaxBatches /\ Bytes(queue') <= MaxPayload
  <2>0. MaxBatches \in Nat \ {0} /\ MaxPayload \in Nat \ {0}
    BY LimitsAssumption
  <2>1. MaxBatches \div 2 <= MaxBatches /\ MaxPayload \div 2 <= MaxPayload
    BY <2>0
  <2>2. CASE ~Overflows(size)
    <3>1. Bytes(Newest(0)) = Bytes(queue)
      <4>1. /\ Newest(0) \in Seq(Batch) /\ Len(queue) = Len(Newest(0)) + 0
            /\ \A i \in 1..Len(Newest(0)) : Newest(0)[i].size = queue[i + 0].size
        BY <1>2, <1>4, <2>2
      <4> QED
        BY <1>0, <4>1, BytesSuffix
    <3>2. Len(queue) < MaxBatches /\ Bytes(queue) + size <= MaxPayload
      BY <1>0, <2>0, <2>2, BytesNatural DEF Overflows
    <3> QED
      BY <1>0, <1>2, <1>7, <2>0, <2>2, <3>1, <3>2
  <2>3. CASE Overflows(size)
    <3>1. FitsHalf(Newest(k), size)
      BY <1>0, <2>3, DroppedIs
    <3>2. Bytes(Newest(k)) \in Nat
      BY <1>4, BytesNatural
    <3> HIDE DEF k, size
    <3>3. CASE Newest(k) = <<>>
      <4>1. Bytes(Newest(k)) = 0 /\ Len(queue) - k = 0
        BY <1>4, <3>3, BytesEmpty
      <4> QED
        BY <1>0, <1>7, <2>0, <4>1
    <3>4. CASE Newest(k) # <<>>
      <4>1. /\ (Len(queue) - k) + 1 <= MaxBatches \div 2
            /\ Bytes(Newest(k)) + size <= MaxPayload \div 2
        BY <1>4, <3>1, <3>4 DEF FitsHalf
      <4> QED
        BY <1>0, <1>2, <1>7, <2>0, <2>1, <3>2, <4>1
    <3> QED
      BY <3>3, <3>4
  <2> QED
    BY <2>2, <2>3
<1>10. \A i \in 1..Len(queue) - k : queue'[i].seq = queue[i + k].seq
  <2> HIDE DEF k, r
  <2> QED
    BY <1>5, <1>7
<1>11. queue'[Len(queue')].seq = batch.seq
  BY <1>6, <1>7
<1> HIDE DEF k, size
<1> QED
  BY <1>1, <1>2, <1>3, <1>7, <1>8, <1>9, <1>10, <1>11

-----------------------------------------------------------------------------
(* The queue, its tags and the count of batches                            *)

\* The numbers are numbers.
LEMMA Numbers ==
  ASSUME TypeOK
  PROVE  /\ batches \in Nat /\ sent \in Nat /\ catchup \in Nat /\ discarded \in Nat
         /\ bridgeGen \in Nat /\ Len(queue) \in Nat /\ queue \in Seq(Batch)
         /\ sending \in Batch /\ lastSent \in Batch /\ Tip \in Batch
         /\ \A b \in Batch : b.seq \in Int /\ b.gen \in Int
         /\ \A i \in 1..Len(queue) : queue[i] \in Batch
         /\ Settled \in Int
<1>1. \A b \in Batch : b.seq \in Int /\ b.gen \in Int
  BY BoundsAssumption DEF Batch
<1>2. queue \in Seq(Batch) /\ sending \in Batch /\ lastSent \in Batch
  BY DEF TypeOK
<1>3. Tip \in Batch
  BY <1>2 DEF Tip
<1>4. /\ batches \in Nat /\ sent \in Nat /\ catchup \in Nat /\ discarded \in Nat
      /\ bridgeGen \in Nat
  BY BoundsAssumption DEF TypeOK
<1>5. Settled \in Int
  BY <1>4 DEF Settled
<1> QED
  BY <1>1, <1>2, <1>3, <1>4, <1>5

\* The conjuncts of QueueIsTaggedSuffix that are about the queue alone
Tagged ==
  /\ \A i \in 1..Len(queue) : queue[i].gen = bridgeGen
  /\ \A i \in 2..Len(queue) : queue[i].seq = queue[i - 1].seq + 1

LEMMA TaggedParts ==
  ASSUME TypeOK, QueueInv
  PROVE  QueueIsTaggedSuffix <=> Tagged
<1>1. DOMAIN queue = 1..Len(queue)
  BY DEF TypeOK
<1>2. queue # <<>> /\ mpc # "push" /\ ~stopped => Last(queue).seq = batches - 1
  BY DEF QueueInv, Settled
<1> QED
  BY <1>1, <1>2 DEF QueueIsTaggedSuffix, Tagged

\* The batches of the queue are numbered in a row.
LEMMA Run ==
  ASSUME TypeOK, Tagged
  PROVE  \A i \in 1..Len(queue) : queue[i].seq = queue[1].seq + (i - 1)
<1> DEFINE S == {i \in Nat : i + 1 <= Len(queue) => queue[i + 1].seq = queue[1].seq + i}
<1>0. Len(queue) \in Nat /\ \A i \in 1..Len(queue) : queue[i].seq \in Int
  BY Numbers
<1>1. 0 \in S
  BY <1>0
<1>2. ASSUME NEW i \in S PROVE i + 1 \in S
  <2> SUFFICES ASSUME (i + 1) + 1 <= Len(queue)
               PROVE  queue[(i + 1) + 1].seq = queue[1].seq + (i + 1)
    OBVIOUS
  <2>1. (i + 1) + 1 \in 2..Len(queue) /\ ((i + 1) + 1) - 1 = i + 1
    BY <1>0
  <2>2. queue[(i + 1) + 1].seq = queue[i + 1].seq + 1
    BY <2>1 DEF Tagged
  <2>3. queue[i + 1].seq = queue[1].seq + i
    BY <1>0
  <2>4. queue[1].seq \in Int
    BY <1>0
  <2> QED
    BY <2>2, <2>3, <2>4
<1>3. S = Nat
  <2> HIDE DEF S
  <2> QED
    BY <1>1, <1>2, SetInduction DEF S
<1>4. ASSUME NEW i \in 1..Len(queue) PROVE queue[i].seq = queue[1].seq + (i - 1)
  <2>1. i - 1 \in Nat /\ (i - 1) + 1 = i
    BY <1>0
  <2>2. i - 1 \in S
    <3> HIDE DEF S
    <3> QED
      BY <1>3, <2>1
  <2> QED
    BY <2>1, <2>2
<1> QED
  BY <1>4

\* A step that touches neither the queue, nor a batch, nor a count
QueueStays ==
  /\ UNCHANGED <<queue, bridgeGen, batches, catchup, discarded, sent, lastSent, sending>>
  /\ mpc' = "push" <=> mpc = "push"
  /\ spc' = "send" <=> spc = "send"
  /\ spc = "ended" => spc' = "ended"
  /\ stopped => stopped'

LEMMA QueueKept ==
  ASSUME TypeOK, Tagged, QueueInv, LostInv, QueueStays
  PROVE  Tagged' /\ QueueInv' /\ LostInv'
<1>1. Tagged'
  BY DEF Tagged, QueueStays
<1>2. Settled' = Settled /\ Tip' = Tip
  BY DEF Settled, Tip, QueueStays
<1>3. QueueInv'
  BY <1>2 DEF QueueInv, QueueStays
<1>4. /\ batches \in Nat /\ sent \in Nat /\ catchup \in Nat /\ discarded \in Nat
      /\ Len(queue) \in Nat
  BY Numbers
<1>5. Lost' = Lost /\ Lost \in Int
  BY <1>4 DEF Lost, QueueStays
<1>6. LostInv'
  BY <1>5 DEF LostInv, QueueStays
<1> QED
  BY <1>1, <1>3, <1>6

\* Nothing follows on a batch that was given up, other than by a new tag.
LEMMA TipSettled ==
  ASSUME TypeOK, Tagged, QueueInv, ~stopped, spc # "ended"
  PROVE  Tip.seq <= Settled
<1>1. CASE queue = <<>>
  BY <1>1 DEF QueueInv
<1>2. CASE queue # <<>>
  <2>1. 1 \in 1..Len(queue) /\ 1 \in DOMAIN queue
    BY <1>2, Numbers
  <2>2. queue[1].seq \in 0..Settled /\ Follows(Tip, queue[1])
    BY <1>2, <2>1 DEF QueueInv
  <2>3. Tip.seq \in Int /\ Settled \in Int
    BY Numbers
  <2> QED
    BY <2>2, <2>3 DEF Follows
<1> QED
  BY <1>1, <1>2

LEMMA OversizedQueue ==
  ASSUME TypeOK, Tagged, QueueInv, LostInv, Oversized
  PROVE  Tagged' /\ QueueInv' /\ LostInv'
<1>0. /\ batches \in Nat /\ sent \in Nat /\ catchup \in Nat /\ discarded \in Nat
      /\ Len(queue) \in Nat /\ bridgeGen \in Nat /\ Tip.seq \in Int /\ Tip.gen \in Int
      /\ Settled \in Int /\ lastSent.gen \in Int /\ sending.seq \in Int
  BY Numbers
<1>1. /\ mpc = "idle" /\ mpc' = "mark_only" /\ queue' = <<>> /\ ~stopped
      /\ stopped' = stopped /\ bridgeGen' = bridgeGen + 1 /\ batches' = batches + 1
      /\ catchup' = catchup + Len(queue) + 1 /\ Len(queue') = 0
      /\ UNCHANGED <<sent, lastSent, sending, spc, discarded>>
  BY <1>0 DEF Oversized, senderVars, wireVars, Oversize
<1>2. Tagged'
  BY <1>1 DEF Tagged
<1>3. Settled' = Settled + 1 /\ Tip' = Tip
  BY <1>0, <1>1 DEF Settled, Tip
<1>4. QueueInv'
  <2>1. bridgeGen' <= Settled' + 1
    BY <1>0, <1>1, <1>3 DEF QueueInv
  <2>2. sending' # NoBatch => Follows(lastSent', sending') /\ sending'.seq \in 0..Settled'
    BY <1>0, <1>1, <1>3 DEF QueueInv
  <2>3. lastSent'.gen <= bridgeGen' /\ Tip'.gen < bridgeGen'
    BY <1>0, <1>1, <1>3 DEF QueueInv
  <2>4. spc' # "ended" /\ ~stopped' => Tip'.seq < Settled'
    BY <1>0, <1>1, <1>3, TipSettled
  <2>5. Tip'.seq \in Int /\ Tip'.gen \in Int /\ Settled' \in Int /\ bridgeGen' \in Int
    BY <1>0, <1>1, <1>3
  <2>6. spc' # "ended" /\ ~stopped' =>
          /\ Tip'.seq <= Settled'
          /\ (Tip'.seq = Settled') <=> (Tip'.gen = bridgeGen')
    BY <2>3, <2>4, <2>5
  <2>7. Tip'.gen <= bridgeGen'
    BY <2>3, <2>5
  <2>8. queue' = <<>> /\ DOMAIN queue' = {}
    BY <1>1
  <2> QED
    BY <2>1, <2>2, <2>3, <2>6, <2>7, <2>8 DEF QueueInv
<1>5. Lost' = Lost /\ Lost \in Int
  BY <1>0, <1>1 DEF Lost
<1>6. LostInv'
  BY <1>1, <1>5 DEF LostInv
<1> QED
  BY <1>2, <1>4, <1>6

LEMMA ConvertQueue ==
  ASSUME TypeOK, Tagged, QueueInv, LostInv, Convert
  PROVE  Tagged' /\ QueueInv' /\ LostInv'
<1>0. /\ batches \in Nat /\ sent \in Nat /\ catchup \in Nat /\ discarded \in Nat
      /\ Len(queue) \in Nat
  BY Numbers
<1>1. /\ mpc = "idle" /\ mpc' = "push" /\ ~stopped /\ batches' = batches + 1
      /\ UNCHANGED <<queue, bridgeGen, catchup, discarded, sent, lastSent, sending,
                     spc, stopped>>
  BY DEF Convert, senderVars, wireVars
<1>2. Tagged'
  BY <1>1 DEF Tagged
<1>3. Settled' = Settled /\ Tip' = Tip
  BY <1>0, <1>1 DEF Settled, Tip
<1>4. QueueInv'
  BY <1>1, <1>3 DEF QueueInv
<1>5. Lost' = Lost /\ Lost = 0
  <2>1. Lost = 0
    BY <1>1 DEF LostInv
  <2>2. Lost' = Lost
    BY <1>0, <1>1 DEF Lost
  <2> QED
    BY <2>1, <2>2
<1>6. LostInv'
  BY <1>1, <1>5 DEF LostInv
<1> QED
  BY <1>2, <1>4, <1>6

\* A batch that finds the session stopped is lost.
LEMMA PushStopped ==
  ASSUME TypeOK, Tagged, QueueInv, LostInv, Push, stopped
  PROVE  Tagged' /\ QueueInv' /\ LostInv'
<1>0. /\ batches \in Nat /\ sent \in Nat /\ catchup \in Nat /\ discarded \in Nat
      /\ Len(queue) \in Nat /\ bridgeGen \in Nat /\ Settled \in Int
      /\ sending.seq \in Int /\ \A i \in 1..Len(queue) : queue[i].seq \in Int
  BY Numbers
<1>1. /\ mpc = "push" /\ mpc' = "idle"
      /\ UNCHANGED <<queue, bridgeGen, catchup, discarded, sent, lastSent, sending,
                     spc, stopped, batches>>
  BY DEF Push, EnqueueUnlessStopped, senderVars, wireVars
<1>2. Tagged'
  BY <1>1 DEF Tagged
<1>3. Settled' = Settled + 1 /\ Tip' = Tip
  BY <1>0, <1>1 DEF Settled, Tip
<1>4. QueueInv'
  <2>1. bridgeGen' <= Settled' + 1
    BY <1>0, <1>1, <1>3 DEF QueueInv
  <2>2. sending' # NoBatch => Follows(lastSent', sending') /\ sending'.seq \in 0..Settled'
    BY <1>0, <1>1, <1>3 DEF QueueInv
  <2>3. \A i \in DOMAIN queue' : queue'[i].seq \in 0..Settled'
    BY <1>0, <1>1, <1>3 DEF QueueInv
  <2> QED
    BY <1>1, <1>3, <2>1, <2>2, <2>3 DEF QueueInv
<1>5. Lost' = Lost + 1 /\ Lost \in Int
  BY <1>0, <1>1 DEF Lost
<1>6. LostInv'
  BY <1>1, <1>5 DEF LostInv
<1> QED
  BY <1>2, <1>4, <1>6

\* A batch that is queued follows on the newest one of the queue, or on the last
\* one taken from it; whenever older batches go, their numbers and the old tag
\* are given up together.
LEMMA PushQueued ==
  ASSUME TypeOK, Tagged, HeldInv, QueueInv, LostInv, Push, ~stopped
  PROVE  Tagged' /\ QueueInv' /\ LostInv'
<1> DEFINE L == Len(queue)
           M == Len(queue')
<1>0. /\ batches \in Nat /\ sent \in Nat /\ catchup \in Nat /\ discarded \in Nat
      /\ L \in Nat /\ bridgeGen \in Nat /\ Settled \in Int
      /\ Tip.seq \in Int /\ Tip.gen \in Int
      /\ sending.seq \in Int /\ \A i \in 1..L : queue[i].seq \in Int
      /\ DOMAIN queue = 1..L
  BY Numbers
<1>1. /\ mpc = "push"
      /\ UNCHANGED <<discarded, sent, lastSent, sending, spc, stopped, batches>>
  BY DEF Push, senderVars, wireVars
<1>2. Settled = batches - 2 /\ batch.seq = batches - 1
  BY <1>1 DEF Settled, HeldInv
<1>3. bridgeGen + 1 <= MaxSeq
  <2>1. bridgeGen <= Settled + 1
    BY DEF QueueInv
  <2>2. batches \in 0..MaxSeq
    BY DEF TypeOK
  <2> QED
    BY <1>0, <1>2, <2>1, <2>2, BoundsAssumption
<1>4. PICK k \in 0..L :
        /\ queue' \in Seq(Batch) /\ M = L - k + 1
        /\ \A i \in 1..L - k : queue'[i].seq = queue[i + k].seq
        /\ queue'[M].seq = batch.seq
        /\ \A i \in 1..M : queue'[i].gen = bridgeGen'
        /\ bridgeGen' = IF k = 0 THEN bridgeGen ELSE bridgeGen + 1
        /\ catchup' = catchup + k
        /\ Len(queue') <= MaxBatches /\ Bytes(queue') <= MaxPayload
        /\ mpc' \in {"mark", "notify"}
  BY <1>3, PushEffect
<1>a. L \in Nat /\ M = L - k + 1 /\ k \in Nat /\ k <= L
  BY <1>0, <1>4
<1>5. Settled' = batches - 1 /\ Settled' = Settled + 1 /\ Tip' = Tip
  BY <1>0, <1>1, <1>2, <1>4 DEF Settled, Tip
<1>6. L > 0 => queue[L].seq = Settled
  BY <1>0, <1>1 DEF QueueInv, Last
<1>7. /\ M \in Nat /\ M >= 1 /\ DOMAIN queue' = 1..M /\ queue' # <<>>
      /\ Last(queue') = queue'[M]
  BY <1>0, <1>4 DEF Last
<1>8. \A i \in 2..M : queue'[i].seq = queue'[i - 1].seq + 1
  <2> SUFFICES ASSUME NEW i \in 2..M PROVE queue'[i].seq = queue'[i - 1].seq + 1
    OBVIOUS
  <2>1. CASE i = M
    <3>1. i - 1 \in 1..L - k /\ (i - 1) + k = L /\ L > 0
      BY <1>0, <1>4, <2>1
    <3>2. queue'[i - 1].seq = queue[L].seq
      BY <1>4, <3>1
    <3> QED
      BY <1>0, <1>2, <1>4, <1>6, <2>1, <3>1, <3>2
  <2>2. CASE i # M
    <3>1. /\ i \in 1..L - k /\ i - 1 \in 1..L - k /\ i + k \in 2..L
          /\ (i - 1) + k = (i + k) - 1
      <4> HIDE DEF L, M
      <4> QED
        BY ONLY <1>a, <2>2, i \in 2..M
    <3>2. queue'[i].seq = queue[i + k].seq /\ queue'[i - 1].seq = queue[(i + k) - 1].seq
      BY <1>4, <3>1
    <3> QED
      BY <3>1, <3>2 DEF Tagged
  <2> QED
    BY <2>1, <2>2
<1>9. Tagged'
  BY <1>4, <1>8 DEF Tagged
<1>10. ASSUME NEW i \in 1..M PROVE queue'[i].seq \in 0..Settled'
  <2>1. CASE i = M
    <3>1. bridgeGen <= Settled + 1
      BY DEF QueueInv
    <3>2. queue'[i].seq = batches - 1 /\ Settled' = batches - 1 /\ batches - 1 >= 0
      BY <1>0, <1>2, <1>4, <1>5, <2>1, <3>1
    <3> QED
      BY <1>0, <3>2
  <2>2. CASE i # M
    <3>1. i \in 1..L - k /\ i + k \in 1..L
      <4> HIDE DEF L, M
      <4> QED
        BY ONLY <1>a, <2>2, i \in 1..M
    <3>2. queue[i + k].seq \in 0..Settled
      BY <1>0, <3>1 DEF QueueInv
    <3>3. queue'[i].seq \in 0..Settled
      BY <1>4, <3>1, <3>2
    <3> QED
      BY <1>0, <1>5, <3>3
  <2> QED
    BY <2>1, <2>2
<1>11. spc # "ended" => Follows(Tip, queue'[1])
  <2> SUFFICES ASSUME spc # "ended" PROVE Follows(Tip, queue'[1])
    OBVIOUS
  <2>0. queue'[1].gen = bridgeGen' /\ Tip.gen <= bridgeGen
    BY <1>4, <1>7 DEF QueueInv
  <2>1. CASE k = 0 /\ L = 0
    <3>1. queue = <<>> /\ M = 1
      BY <1>0, <1>4, <2>1
    <3>2. Tip.seq <= Settled /\ ((Tip.seq = Settled) <=> (Tip.gen = bridgeGen))
      BY <1>1, <3>1 DEF QueueInv
    <3>3. queue'[1].seq = Settled + 1 /\ queue'[1].gen = bridgeGen
      BY <1>0, <1>2, <1>4, <2>0, <2>1, <3>1
    <3> QED
      BY <1>0, <2>0, <3>2, <3>3 DEF Follows
  <2>2. CASE k = 0 /\ L > 0
    <3>1. queue # <<>> /\ 1 \in 1..L - k /\ 1 + k = 1
      BY <1>0, <2>2
    <3>2. Follows(Tip, queue[1]) /\ queue[1].gen = bridgeGen
      BY <1>0, <2>2, <3>1 DEF QueueInv, Tagged
    <3>3. queue'[1].seq = queue[1].seq /\ queue'[1].gen = bridgeGen
      BY <1>4, <2>0, <2>2, <3>1
    <3> QED
      BY <3>2, <3>3 DEF Follows
  <2>3. CASE k > 0
    <3>1. queue # <<>> /\ 1 \in 1..L
      BY <1>0, <2>3
    <3>2. queue[1].seq > Tip.seq
      BY <3>1 DEF QueueInv, Follows
    <3>3. queue'[1].seq = queue[1].seq + k
      <4>1. CASE k = L
        <5>1. M = 1 /\ queue'[1].seq = Settled + 1
          BY <1>0, <1>2, <1>4, <4>1
        <5>2. queue[L].seq = queue[1].seq + (L - 1)
          BY <1>0, <3>1, Run
        <5>3. queue[1].seq + (L - 1) = Settled /\ queue[1].seq \in Int
          BY <1>0, <1>6, <3>1, <5>2
        <5> HIDE DEF L, M
        <5> QED
          BY ONLY <1>a, <4>1, <5>1, <5>3, Settled \in Int
      <4>2. CASE k # L
        <5>1. 1 \in 1..L - k /\ 1 + k \in 1..L
          <6> HIDE DEF L, M
          <6> QED
            BY ONLY <1>a, <4>2
        <5>2. queue'[1].seq = queue[1 + k].seq
          BY <1>4, <5>1
        <5>3. queue[1 + k].seq = queue[1].seq + ((1 + k) - 1)
          BY <5>1, Run
        <5> QED
          BY <1>0, <3>1, <5>2, <5>3
      <4> QED
        BY <4>1, <4>2
    <3>4. queue[1].seq \in Int /\ k \in Int
      BY <1>0, <3>1
    <3>5. queue'[1].seq > Tip.seq + 1 /\ queue'[1].seq \in Int
      BY <1>0, <2>3, <3>2, <3>3, <3>4
    <3>6. queue'[1].gen = bridgeGen + 1
      BY <1>4, <2>0, <2>3
    <3> QED
      BY <1>0, <2>0, <3>5, <3>6 DEF Follows
  <2> QED
    BY <1>0, <2>1, <2>2, <2>3
<1>12. QueueInv'
  <2>1. bridgeGen' <= Settled' + 1 /\ bridgeGen <= bridgeGen' /\ bridgeGen' \in Int
    <3>1. bridgeGen <= Settled + 1
      BY DEF QueueInv
    <3>2. bridgeGen' = bridgeGen \/ bridgeGen' = bridgeGen + 1
      BY <1>4
    <3>3. Settled' = Settled + 1 /\ bridgeGen \in Int /\ Settled \in Int
      BY <1>0, <1>5
    <3> QED
      BY ONLY <3>1, <3>2, <3>3
  <2>2. sending' # NoBatch => Follows(lastSent', sending') /\ sending'.seq \in 0..Settled'
    BY <1>0, <1>1, <1>5 DEF QueueInv
  <2>3. lastSent'.gen <= bridgeGen' /\ Tip'.gen <= bridgeGen'
    <3>1. lastSent.gen \in Int /\ lastSent.gen <= bridgeGen /\ Tip.gen <= bridgeGen
      BY Numbers DEF QueueInv
    <3> QED
      BY <1>0, <1>1, <1>5, <2>1, <3>1
  <2>4. Last(queue').seq = Settled'
    BY <1>2, <1>4, <1>5, <1>7
  <2>5. \A i \in DOMAIN queue' : queue'[i].seq \in 0..Settled'
    BY <1>7, <1>10
  <2> QED
    BY <1>1, <1>5, <1>7, <1>11, <2>1, <2>2, <2>3, <2>4, <2>5 DEF QueueInv
<1>13. Lost' = Lost /\ Lost \in Int
  <2>1. /\ Lost = batches - (sent + L + catchup + discarded
                             + 1 + (IF spc = "send" THEN 1 ELSE 0))
        /\ Lost' = batches - (sent + M + (catchup + k) + discarded
                              + 0 + (IF spc = "send" THEN 1 ELSE 0))
    <3>1. mpc' # "push" /\ catchup' = catchup + k
      BY <1>4
    <3> QED
      BY <1>1, <3>1 DEF Lost
  <2>2. batches \in Nat /\ sent \in Nat /\ catchup \in Nat /\ discarded \in Nat
    BY <1>0
  <2> HIDE DEF L, M
  <2> QED
    BY ONLY <1>a, <2>1, <2>2
<1>14. LostInv'
  <2>1. Lost = 0
    BY DEF LostInv
  <2> QED
    BY <1>1, <1>4, <1>13, <2>1 DEF LostInv
<1> QED
  BY <1>9, <1>12, <1>14

\* Once the session has stopped, an empty queue promises nothing.
LEMMA DiscardQueue ==
  ASSUME TypeOK, Tagged, QueueInv, LostInv, CloseQueue, stopped, stopped',
         mpc' = "push" <=> mpc = "push", UNCHANGED <<senderVars, sent, lastSent>>
  PROVE  Tagged' /\ QueueInv' /\ LostInv'
<1>0. /\ batches \in Nat /\ sent \in Nat /\ catchup \in Nat /\ discarded \in Nat
      /\ Len(queue) \in Nat
  BY Numbers
<1>1. /\ queue' = <<>> /\ discarded' = discarded + Len(queue) /\ Len(queue') = 0
      /\ UNCHANGED <<bridgeGen, catchup, sent, lastSent, sending, spc, batches>>
  BY DEF CloseQueue, senderVars
<1>2. Tagged'
  BY <1>1 DEF Tagged
<1>3. Settled' = Settled /\ Tip' = Tip
  BY <1>0, <1>1 DEF Settled, Tip
<1>4. DOMAIN queue' = {}
  BY <1>1
<1>5. QueueInv'
  BY <1>1, <1>3, <1>4 DEF QueueInv
<1>6. Lost' = Lost /\ Lost \in Int
  BY <1>0, <1>1 DEF Lost
<1>7. LostInv'
  BY <1>1, <1>6 DEF LostInv
<1> QED
  BY <1>2, <1>5, <1>7

\* The batch taken is the one that follows on the last one sent, and the next
\* one of the queue, or the next one queued, follows on it.
LEMMA TakeQueue ==
  ASSUME TypeOK, Tagged, HeldInv, QueueInv, LostInv, TakeBatch, ~stopped, queue # <<>>
  PROVE  Tagged' /\ QueueInv' /\ LostInv'
<1> DEFINE L == Len(queue)
<1>0. /\ batches \in Nat /\ sent \in Nat /\ catchup \in Nat /\ discarded \in Nat
      /\ L \in Nat /\ bridgeGen \in Nat /\ Settled \in Int /\ L > 0
      /\ queue \in Seq(Batch) /\ DOMAIN queue = 1..L
      /\ \A i \in 1..L : queue[i].seq \in Int /\ queue[i].gen \in Int
  BY Numbers
<1>1. /\ spc = "take" /\ spc' = "send"
      /\ sending' = queue[1] /\ queue' = Tail(queue)
      /\ UNCHANGED <<discarded, sent, lastSent, mpc, stopped, batches, catchup, bridgeGen>>
  BY <1>0 DEF TakeBatch, mainVars, wireVars
<1>2. /\ Len(queue') = L - 1 /\ DOMAIN queue' = 1..L - 1
      /\ \A i \in 1..L - 1 : queue'[i] = queue[i + 1]
  BY <1>0, <1>1
<1>3. Tagged'
  <2>1. \A i \in 1..Len(queue') : queue'[i].gen = bridgeGen'
    BY <1>0, <1>1, <1>2 DEF Tagged
  <2>2. ASSUME NEW i \in 2..Len(queue') PROVE queue'[i].seq = queue'[i - 1].seq + 1
    <3>1. i + 1 \in 2..L /\ i \in 1..L - 1 /\ i - 1 \in 1..L - 1
          /\ (i - 1) + 1 = i /\ (i + 1) - 1 = i
      BY <1>0, <1>2
    <3>2. queue[i + 1].seq = queue[(i + 1) - 1].seq + 1
      BY <3>1 DEF Tagged
    <3> QED
      BY <1>2, <3>1, <3>2
  <2> QED
    BY <2>1, <2>2 DEF Tagged
<1>4. sending = NoBatch /\ Tip = lastSent
  BY <1>1 DEF HeldInv, Tip
<1>5. /\ queue[1].seq \in 0..Settled /\ Follows(lastSent, queue[1])
      /\ queue[1].gen = bridgeGen /\ queue[L].seq = Settled
  BY <1>0, <1>1, <1>4 DEF QueueInv, Tagged, Last
<1>6. sending' # NoBatch /\ Tip' = queue[1] /\ Settled' = Settled
  BY <1>0, <1>1, <1>5 DEF NoBatch, Tip, Settled
<1>7. QueueInv'
  <2>1. bridgeGen' <= Settled' + 1 /\ lastSent'.gen <= bridgeGen' /\ Tip'.gen <= bridgeGen'
    BY <1>0, <1>1, <1>5, <1>6 DEF QueueInv
  <2>2. ASSUME NEW i \in DOMAIN queue' PROVE queue'[i].seq \in 0..Settled'
    <3>1. i \in 1..L - 1 /\ i + 1 \in DOMAIN queue
      BY <1>0, <1>2
    <3>2. queue[i + 1].seq \in 0..Settled
      BY <3>1 DEF QueueInv
    <3> QED
      BY <1>2, <1>6, <3>1, <3>2
  <2>3. queue' # <<>> => Last(queue').seq = Settled'
    <3> SUFFICES ASSUME queue' # <<>> PROVE Last(queue').seq = Settled'
      OBVIOUS
    <3>1. L - 1 \in 1..L - 1 /\ (L - 1) + 1 = L
      BY <1>0, <1>1, <1>2
    <3> QED
      BY <1>2, <1>5, <1>6, <3>1 DEF Last
  <2>4. Follows(lastSent', sending') /\ sending'.seq \in 0..Settled'
    BY <1>1, <1>5, <1>6
  <2>5. queue' # <<>> => Follows(Tip', queue'[1])
    <3> SUFFICES ASSUME queue' # <<>> PROVE Follows(queue[1], queue'[1])
      BY <1>6
    <3>1. 1 \in 1..L - 1 /\ 2 \in 2..L /\ 2 \in 1..L /\ 1 \in 1..L
      BY <1>0, <1>1, <1>2
    <3>2. /\ queue'[1] = queue[2] /\ queue[2].seq = queue[1].seq + 1
          /\ queue[2].gen = queue[1].gen
      BY <1>2, <3>1 DEF Tagged
    <3> QED
      BY <1>0, <3>1, <3>2 DEF Follows
  <2>6. queue' = <<>> => Tip'.seq = Settled' /\ Tip'.gen = bridgeGen'
    <3> SUFFICES ASSUME queue' = <<>> PROVE queue[1].seq = Settled
      BY <1>1, <1>5, <1>6
    <3>1. L = 1
      <4>1. Len(queue') = 0
        BY <1>1
      <4>2. L - 1 = 0 /\ L \in Nat
        BY <1>0, <1>2, <4>1
      <4> HIDE DEF L
      <4> QED
        BY ONLY <4>2
    <3> QED
      BY <1>5, <3>1
  <2> QED
    BY <1>0, <1>1, <1>6, <2>1, <2>2, <2>3, <2>4, <2>5, <2>6 DEF QueueInv
<1>8. Lost' = Lost /\ Lost \in Int
  BY <1>0, <1>1, <1>2 DEF Lost
<1>9. LostInv'
  BY <1>1, <1>8 DEF LostInv
<1> QED
  BY <1>3, <1>7, <1>9

LEMMA SendDoneQueue ==
  ASSUME TypeOK, Tagged, HeldInv, QueueInv, LostInv, SendDone
  PROVE  Tagged' /\ QueueInv' /\ LostInv'
<1>0. /\ batches \in Nat /\ sent \in Nat /\ catchup \in Nat /\ discarded \in Nat
      /\ Len(queue) \in Nat
  BY Numbers
<1>1. /\ spc = "send" /\ spc' = "take" /\ sent' = sent + 1
      /\ lastSent' = sending /\ sending' = NoBatch
      /\ UNCHANGED <<queue, bridgeGen, batches, catchup, discarded, mpc, stopped>>
  BY DEF SendDone, mainVars, queueVars
<1>2. Tagged'
  BY <1>1 DEF Tagged
<1>3. sending # NoBatch /\ Tip = sending /\ Tip' = Tip /\ Settled' = Settled
  BY <1>1 DEF HeldInv, Tip, Settled
<1>4. QueueInv'
  BY <1>1, <1>3 DEF QueueInv
<1>5. Lost' = Lost /\ Lost \in Int
  BY <1>0, <1>1 DEF Lost
<1>6. LostInv'
  BY <1>1, <1>5 DEF LostInv
<1> QED
  BY <1>2, <1>4, <1>6

\* The batch whose packet failed is lost, and nothing is sent after it.
LEMMA SendFailsQueue ==
  ASSUME TypeOK, Tagged, QueueInv, LostInv, SendFails
  PROVE  Tagged' /\ QueueInv' /\ LostInv'
<1>0. /\ batches \in Nat /\ sent \in Nat /\ catchup \in Nat /\ discarded \in Nat
      /\ Len(queue) \in Nat
  BY Numbers
<1>1. /\ spc = "send" /\ spc' = "ended" /\ sending' = NoBatch /\ stopped'
      /\ UNCHANGED <<queue, bridgeGen, batches, catchup, discarded, mpc, sent, lastSent>>
  BY DEF SendFails, Fails, PauseEnter, mainVars, queueVars, wireVars
<1>2. Tagged'
  BY <1>1 DEF Tagged
<1>3. Tip' = lastSent /\ Settled' = Settled
  BY <1>1 DEF Tip, Settled
<1>4. QueueInv'
  BY <1>1, <1>3 DEF QueueInv
<1>5. Lost' = Lost + 1 /\ Lost \in Int
  BY <1>0, <1>1 DEF Lost
<1>6. LostInv'
  BY <1>1, <1>5 DEF LostInv
<1> QED
  BY <1>2, <1>4, <1>6

-----------------------------------------------------------------------------
(* Every other step leaves the queue and the counts alone                  *)

LEMMA MainStays ==
  ASSUME HeldInv, Main, ~Oversized, ~Convert, ~Push, ~CloseDiscards
  PROVE  QueueStays
<1> USE DEF QueueStays, senderVars, queueVars, wireVars
<1>1. CASE ConversionFails
  BY <1>1 DEF ConversionFails, PauseEnter, mainVars
<1>2. CASE MarkCatchingUp
  BY <1>2 DEF MarkCatchingUp, AfterMark
<1>3. CASE Notify
  BY <1>3 DEF Notify
<1>4. CASE Close
  BY <1>4 DEF Close
<1>5. CASE CloseShutsDown
  BY <1>5 DEF CloseShutsDown
<1>6. CASE JoinSender
  BY <1>6 DEF JoinSender
<1>7. CASE JoinReader
  BY <1>7 DEF JoinReader
<1>8. CASE Summarise
  BY <1>8 DEF Summarise
<1> QED
  BY <1>1, <1>2, <1>3, <1>4, <1>5, <1>6, <1>7, <1>8 DEF Main

LEMMA SenderStays ==
  ASSUME Sender, ~SendDone, ~SendFails, TakeBatch => stopped \/ queue = <<>>
  PROVE  QueueStays
<1> USE DEF QueueStays, mainVars, queueVars, wireVars
<1>1. CASE Connected
  BY <1>1 DEF Connected
<1>2. CASE ConnectStops
  BY <1>2 DEF ConnectStops
<1>3. CASE Register
  BY <1>3 DEF Register
<1>4. CASE MarkConnected
  BY <1>4 DEF MarkConnected
<1>5. CASE StartReader
  BY <1>5 DEF StartReader
<1>6. CASE TakeBatch
  BY <1>6 DEF TakeBatch
<1> QED
  BY <1>1, <1>2, <1>3, <1>4, <1>5, <1>6 DEF Sender

LEMMA ReaderStays ==
  ASSUME Reader \/ WorkerGone
  PROVE  QueueStays
<1> USE DEF QueueStays, mainVars, senderVars, queueVars, wireVars
<1>1. CASE ReaderTop
  BY <1>1 DEF ReaderTop
<1>2. CASE Arrives
  BY <1>2 DEF Arrives
<1>3. CASE RecvFails
  BY <1>3 DEF RecvFails, Fails, PauseEnter
<1>4. CASE HandleOther
  BY <1>4 DEF HandleOther, Fails, PauseEnter
<1>5. CASE HandleStatus
  BY <1>5 DEF HandleStatus
<1>6. CASE HandleResult
  BY <1>6 DEF HandleResult
<1>7. CASE UpdateState
  BY <1>7 DEF UpdateState
<1>8. CASE PublishResult
  BY <1>8 DEF PublishResult
<1>9. CASE WorkerGone
  BY <1>9 DEF WorkerGone
<1> QED
  BY <1>1, <1>2, <1>3, <1>4, <1>5, <1>6, <1>7, <1>8, <1>9 DEF Reader

\* A thread inside pause() leaves them alone, except where it discards the queue.
LEMMA PausingStays ==
  ASSUME NEW t \in Threads, Pausing(t), ~PauseQueue(t)
  PROVE  QueueStays
<1> USE DEF QueueStays, mainVars, senderVars, queueVars, wireVars
<1>1. CASE PauseState(t)
  BY <1>1 DEF PauseState
<1>2. CASE PauseSocket(t)
  BY <1>2 DEF PauseSocket
<1> QED
  BY <1>1, <1>2 DEF Pausing

\* The queue may be discarded while main is about to push to it.
LEMMA PauseDiscards ==
  ASSUME TypeOK, Tagged, HeldInv, QueueInv, LostInv,
         NEW t \in Threads, PauseQueue(t)
  PROVE  Tagged' /\ QueueInv' /\ LostInv'
<1>1. stopped /\ stopped' /\ ppc[t] = "paused" /\ CloseQueue
  BY DEF PauseQueue, HeldInv
<1>2. UNCHANGED <<mpc, senderVars, sent, lastSent>>
  BY <1>1 DEF PauseQueue, mainVars, wireVars
<1> QED
  BY <1>1, <1>2, DiscardQueue

LEMMA QueueStep ==
  ASSUME TypeOK, Tagged, HeldInv, QueueInv, LostInv, Next
  PROVE  Tagged' /\ QueueInv' /\ LostInv'
<1>1. CASE Oversized
  BY <1>1, OversizedQueue
<1>2. CASE Convert
  BY <1>2, ConvertQueue
<1>3. CASE Push
  BY <1>3, PushStopped, PushQueued
<1>4. CASE CloseDiscards
  <2>1. stopped /\ stopped' /\ mpc # "push" /\ mpc' # "push"
    BY <1>4 DEF CloseDiscards, HeldInv
  <2>2. CloseQueue /\ UNCHANGED <<senderVars, sent, lastSent>>
    BY <1>4 DEF CloseDiscards, wireVars
  <2> QED
    BY <2>1, <2>2, DiscardQueue
<1>5. CASE TakeBatch /\ ~stopped /\ queue # <<>>
  BY <1>5, TakeQueue
<1>6. CASE SendDone
  BY <1>6, SendDoneQueue
<1>7. CASE SendFails
  BY <1>7, SendFailsQueue
<1>8. ASSUME NEW t \in Threads, PauseQueue(t)
      PROVE  Tagged' /\ QueueInv' /\ LostInv'
  BY <1>8, PauseDiscards
<1>9. ASSUME QueueStays PROVE Tagged' /\ QueueInv' /\ LostInv'
  BY <1>9, QueueKept
<1>10. CASE Main
  BY <1>1, <1>2, <1>3, <1>4, <1>9, <1>10, MainStays
<1>11. CASE Sender
  BY <1>5, <1>6, <1>7, <1>9, <1>11, SenderStays
<1>12. CASE Reader \/ WorkerGone
  BY <1>9, <1>12, ReaderStays
<1>13. CASE \E t \in Threads : Pausing(t)
  BY <1>8, <1>9, <1>13, PausingStays
<1> QED
  BY <1>10, <1>11, <1>12, <1>13 DEF Next

-----------------------------------------------------------------------------
(* Who holds a batch, and who is inside pause()                            *)

HeldBatches ==
  /\ batch # NoBatch <=> mpc = "push"
  /\ sending # NoBatch <=> spc = "send"
  /\ mpc = "push" => batch.seq = batches - 1 /\ batch.size <= MaxPayload

HeldPause ==
  /\ \A t \in Threads : ppc[t] # "none" => stopped /\ t = pauser
  /\ \A t \in Threads : ppc[t] = "entered" => errors = 0
  /\ ~stopped => errors = 0 /\ mpc # "closing"

LEMMA HeldParts == HeldInv <=> HeldBatches /\ HeldPause
BY DEF HeldInv, HeldBatches, HeldPause

\* A step that takes and gives back no batch
BatchesStay ==
  /\ UNCHANGED <<batch, sending, batches>>
  /\ mpc' = "push" <=> mpc = "push"
  /\ spc' = "send" <=> spc = "send"

LEMMA BatchesKept == ASSUME HeldBatches, BatchesStay PROVE HeldBatches'
BY DEF HeldBatches, BatchesStay

LEMMA BatchesMain ==
  ASSUME TypeOK, HeldBatches, Main
  PROVE  HeldBatches'
<1> USE DEF senderVars, stateVars, wireVars, queueVars
<1>0. batches \in Nat
  BY Numbers
<1>1. CASE Oversized
  BY <1>1 DEF Oversized, HeldBatches
<1>2. CASE Convert
  <2>1. PICK size \in Sizes :
          size <= MaxPayload /\ batch' = [seq |-> batches, gen |-> 0, size |-> size]
    BY <1>2 DEF Convert
  <2>2. /\ batch'.seq = batches /\ batch'.size = size /\ batch' # NoBatch
        /\ batches' = batches + 1 /\ mpc' = "push" /\ UNCHANGED <<sending, spc>>
    BY <1>0, <1>2, <2>1 DEF Convert, NoBatch
  <2>3. batch'.seq = batches' - 1
    BY <1>0, <2>2
  <2> QED
    BY <2>1, <2>2, <2>3 DEF HeldBatches
<1>3. CASE Push
  <2>1. mpc = "push" /\ mpc' # "push"
    BY <1>3 DEF Push, EnqueueUnlessStopped, Enqueue
  <2> QED
    BY <1>3, <2>1 DEF Push, HeldBatches
<1>4. CASE ConversionFails \/ MarkCatchingUp \/ Notify \/ Close \/ CloseDiscards
             \/ CloseShutsDown \/ JoinSender \/ JoinReader \/ Summarise
  BY <1>4, BatchesKept DEF BatchesStay, ConversionFails, MarkCatchingUp, AfterMark,
     Notify, Close, CloseDiscards, CloseQueue, CloseShutsDown, JoinSender,
     JoinReader, Summarise, mainVars
<1> QED
  BY <1>1, <1>2, <1>3, <1>4 DEF Main

LEMMA BatchesSender ==
  ASSUME TypeOK, HeldBatches, QueueInv, Sender
  PROVE  HeldBatches'
<1> USE DEF mainVars, stateVars, wireVars, queueVars
<1>1. CASE TakeBatch /\ ~stopped /\ queue # <<>>
  <2>1. /\ spc' = "send" /\ sending' = Head(queue)
        /\ UNCHANGED <<mpc, batch, batches>>
    BY <1>1 DEF TakeBatch
  <2>2. Head(queue) = queue[1] /\ 1 \in DOMAIN queue
    BY <1>1, Numbers
  <2>3. queue[1].seq \in 0..Settled
    BY <2>2 DEF QueueInv
  <2>4. sending' # NoBatch
    BY <2>1, <2>2, <2>3, Numbers DEF NoBatch
  <2> QED
    BY <2>1, <2>4 DEF HeldBatches
<1>2. CASE SendDone
  BY <1>2 DEF SendDone, HeldBatches
<1>3. CASE SendFails
  BY <1>3 DEF SendFails, HeldBatches
<1>4. CASE Connected \/ ConnectStops \/ Register \/ MarkConnected \/ StartReader
  BY <1>4, BatchesKept DEF BatchesStay, Connected, ConnectStops, Register,
     MarkConnected, StartReader, senderVars
<1>5. CASE TakeBatch /\ (stopped \/ queue = <<>>)
  BY <1>5, BatchesKept DEF BatchesStay, TakeBatch
<1> QED
  BY <1>1, <1>2, <1>3, <1>4, <1>5 DEF Sender

LEMMA BatchesOther ==
  ASSUME HeldBatches, Reader \/ WorkerGone \/ \E t \in Threads : Pausing(t)
  PROVE  HeldBatches'
<1> USE DEF BatchesStay, mainVars, senderVars, stateVars, wireVars, queueVars
<1>1. CASE Reader \/ WorkerGone
  BY <1>1, BatchesKept DEF Reader, ReaderTop, Arrives, RecvFails, HandleOther,
     HandleStatus, HandleResult, UpdateState, PublishResult, WorkerGone
<1>2. CASE \E t \in Threads : Pausing(t)
  BY <1>2, BatchesKept DEF Pausing, PauseState, PauseQueue, PauseSocket, CloseQueue
<1> QED
  BY <1>1, <1>2

\* A step outside pause()
PauseStays ==
  /\ UNCHANGED <<ppc, pauser, errors>>
  /\ stopped => stopped'
  /\ mpc' = "closing" => mpc = "closing" \/ stopped'

LEMMA PauseKept == ASSUME HeldPause, PauseStays PROVE HeldPause'
BY DEF HeldPause, PauseStays

\* Only one thread ever enters pause().
LEMMA PauseEntered ==
  ASSUME TypeOK, HeldPause, NEW t \in Threads, PauseEnter(t), UNCHANGED errors
  PROVE  HeldPause'
<1>1. ppc \in [Threads -> {"none", "entered", "paused", "cleared"}]
  BY DEF TypeOK
<1>2. ~stopped /\ stopped' /\ pauser' = t /\ ppc' = [ppc EXCEPT ![t] = "entered"]
  BY DEF PauseEnter
<1>3. \A u \in Threads : u # t => ppc'[u] = "none"
  BY <1>1, <1>2 DEF HeldPause
<1> QED
  BY <1>2, <1>3 DEF HeldPause

LEMMA PauseFails ==
  ASSUME TypeOK, HeldPause, NEW t \in Threads, Fails(t), UNCHANGED <<errors, mpc>>
  PROVE  HeldPause'
<1>1. CASE PauseEnter(t)
  BY <1>1, PauseEntered
<1>2. CASE ~PauseEnter(t)
  BY <1>2, PauseKept DEF Fails, PauseStays
<1> QED
  BY <1>1, <1>2

LEMMA PauseMain ==
  ASSUME TypeOK, HeldPause, Main
  PROVE  HeldPause'
<1>1. CASE ConversionFails
  <2>1. "main" \in Threads /\ PauseEnter("main") /\ UNCHANGED errors
    BY <1>1 DEF ConversionFails, stateVars, Threads
  <2> QED
    BY <2>1, PauseEntered
<1>2. CASE Push
  <2>1. mpc' # "closing"
    BY <1>2 DEF Push, EnqueueUnlessStopped, Enqueue
  <2> QED
    BY <1>2, <2>1, PauseKept DEF PauseStays, Push, stateVars
<1>3. CASE Oversized \/ Convert \/ MarkCatchingUp \/ Notify \/ Close \/ CloseDiscards
             \/ CloseShutsDown \/ JoinSender \/ JoinReader \/ Summarise
  BY <1>3, PauseKept DEF PauseStays, Oversized, Convert, MarkCatchingUp, AfterMark,
     Notify, Close, CloseDiscards, CloseShutsDown, JoinSender, JoinReader,
     Summarise, stateVars
<1> QED
  BY <1>1, <1>2, <1>3 DEF Main

LEMMA PauseOther ==
  ASSUME TypeOK, HeldPause, Sender \/ Reader \/ WorkerGone
  PROVE  HeldPause'
<1> USE DEF mainVars, stateVars
<1>1. CASE SendFails
  <2>1. "sender" \in Threads /\ Fails("sender") /\ UNCHANGED <<errors, mpc>>
    BY <1>1 DEF SendFails, Threads
  <2> QED
    BY <2>1, PauseFails
<1>2. CASE RecvFails
  <2>1. "reader" \in Threads /\ Fails("reader") /\ UNCHANGED <<errors, mpc>>
    BY <1>2 DEF RecvFails, Threads
  <2> QED
    BY <2>1, PauseFails
<1>3. CASE HandleOther /\ packet.kind # "foreign"
  <2>1. "reader" \in Threads /\ Fails("reader") /\ UNCHANGED <<errors, mpc>>
    BY <1>3 DEF HandleOther, Threads
  <2> QED
    BY <2>1, PauseFails
<1>4. CASE HandleOther /\ packet.kind = "foreign"
  BY <1>4, PauseKept DEF PauseStays, HandleOther
<1>5. CASE Connected \/ ConnectStops \/ Register \/ MarkConnected \/ StartReader
             \/ TakeBatch \/ SendDone
  BY <1>5, PauseKept DEF PauseStays, Connected, ConnectStops, Register,
     MarkConnected, StartReader, TakeBatch, SendDone
<1>6. CASE ReaderTop \/ Arrives \/ HandleStatus \/ HandleResult \/ UpdateState
             \/ PublishResult \/ WorkerGone
  BY <1>6, PauseKept DEF PauseStays, ReaderTop, Arrives, HandleStatus,
     HandleResult, UpdateState, PublishResult, WorkerGone
<1> QED
  BY <1>1, <1>2, <1>3, <1>4, <1>5, <1>6 DEF Sender, Reader

LEMMA PausePasses ==
  ASSUME TypeOK, HeldPause, NEW t \in Threads, Pausing(t)
  PROVE  HeldPause'
<1>1. ppc \in [Threads -> {"none", "entered", "paused", "cleared"}]
  BY DEF TypeOK
<1>2. /\ ppc[t] # "none" /\ UNCHANGED <<stopped, pauser, mpc>>
      /\ \E p \in {"paused", "cleared", "none"} : ppc' = [ppc EXCEPT ![t] = p]
  BY DEF Pausing, PauseState, PauseQueue, PauseSocket, mainVars
<1>3. stopped /\ t = pauser
  BY <1>2 DEF HeldPause
<1>4. ppc'[t] # "entered" /\ \A u \in Threads : u # t => ppc'[u] = "none"
  <2>1. PICK p \in {"paused", "cleared", "none"} : ppc' = [ppc EXCEPT ![t] = p]
    BY <1>2
  <2>2. \A u \in Threads : u # t => ppc[u] = "none"
    BY <1>3 DEF HeldPause
  <2> QED
    BY <1>1, <2>1, <2>2
<1> QED
  BY <1>2, <1>3, <1>4 DEF HeldPause

LEMMA HeldStep ==
  ASSUME TypeOK, HeldInv, QueueInv, Next
  PROVE  HeldInv'
<1>1. HeldBatches /\ HeldPause
  BY HeldParts
<1>2. HeldBatches'
  BY <1>1, BatchesMain, BatchesSender, BatchesOther DEF Next
<1>3. HeldPause'
  BY <1>1, PauseMain, PauseOther, PausePasses DEF Next
<1>4. (HeldBatches /\ HeldPause)' => HeldInv'
  BY HeldParts, PTL
<1> QED
  BY <1>2, <1>3, <1>4

-----------------------------------------------------------------------------
(* The sender's sleep, and the reader's result                             *)

\* A step that neither queues a batch nor sends the sender to sleep, and that
\* leaves alone whoever is about to wake it
AwakeStays ==
  /\ asleep' => asleep
  /\ queue' # <<>> => queue # <<>>
  /\ queue # <<>> /\ asleep' => (mpc \in {"mark", "notify"} => mpc' \in {"mark", "notify"})
  /\ UNCHANGED <<stopped, ppc>>
  /\ mpc = "closing" => mpc' = "closing"

LEMMA AwakeKept == ASSUME SenderAwake, AwakeStays PROVE SenderAwake'
BY DEF SenderAwake, AwakeStays

LEMMA AwakeEntered ==
  ASSUME TypeOK, SenderAwake, NEW t \in Threads, PauseEnter(t),
         UNCHANGED <<asleep, queue, mpc>>
  PROVE  SenderAwake'
<1>1. ppc' = [ppc EXCEPT ![t] = "entered"] /\ ppc'[t] = "entered"
  BY DEF PauseEnter, TypeOK
<1> QED
  BY <1>1 DEF SenderAwake

LEMMA AwakeFails ==
  ASSUME TypeOK, SenderAwake, NEW t \in Threads, Fails(t),
         UNCHANGED <<asleep, queue, mpc>>
  PROVE  SenderAwake'
<1>1. CASE PauseEnter(t)
  BY <1>1, AwakeEntered
<1>2. CASE ~PauseEnter(t)
  BY <1>2, AwakeKept DEF Fails, AwakeStays
<1> QED
  BY <1>1, <1>2

LEMMA AwakeMain ==
  ASSUME TypeOK, SenderAwake, Main
  PROVE  SenderAwake'
<1> USE DEF stateVars, queueVars
<1>1. CASE ConversionFails
  <2>1. "main" \in Threads /\ PauseEnter("main") /\ UNCHANGED <<asleep, queue, mpc>>
    BY <1>1 DEF ConversionFails, Threads, mainVars
  <2> QED
    BY <2>1, AwakeEntered
<1>2. CASE Push
  <2>1. stopped => mpc' = "idle" /\ queue' = queue
    BY <1>2 DEF Push, EnqueueUnlessStopped
  <2>2. ~stopped => mpc' \in {"mark", "notify"}
    BY <1>2 DEF Push, EnqueueUnlessStopped, Enqueue
  <2>3. mpc = "push" /\ UNCHANGED <<asleep, stopped, ppc>>
    BY <1>2 DEF Push
  <2> QED
    BY <2>1, <2>2, <2>3 DEF SenderAwake
<1>3. CASE Close
  BY <1>3 DEF Close, SenderAwake
<1>4. CASE MarkCatchingUp
  BY <1>4 DEF MarkCatchingUp, AfterMark, SenderAwake
<1>5. CASE Convert
  BY <1>5 DEF Convert, SenderAwake
<1>6. CASE Oversized
  BY <1>6 DEF Oversized, SenderAwake
<1>7. CASE Notify \/ CloseDiscards
  BY <1>7 DEF Notify, CloseDiscards, CloseQueue, SenderAwake
<1>8. CASE CloseShutsDown \/ JoinSender \/ JoinReader \/ Summarise
  BY <1>8 DEF CloseShutsDown, JoinSender, JoinReader, Summarise, SenderAwake
<1> QED
  BY <1>1, <1>2, <1>3, <1>4, <1>5, <1>6, <1>7, <1>8 DEF Main

LEMMA AwakeOther ==
  ASSUME TypeOK, SenderAwake, Sender \/ Reader \/ WorkerGone
  PROVE  SenderAwake'
<1> USE DEF mainVars, stateVars, queueVars
<1>1. CASE TakeBatch
  <2>1. UNCHANGED <<mpc, stopped, ppc>> /\ ~asleep
    BY <1>1 DEF TakeBatch
  <2>2. asleep' => queue' = <<>> /\ ~stopped
    BY <1>1, <2>1 DEF TakeBatch
  <2> QED
    BY <2>1, <2>2 DEF SenderAwake
<1>2. CASE SendFails
  <2>1. "sender" \in Threads /\ Fails("sender") /\ UNCHANGED <<asleep, queue, mpc>>
    BY <1>2 DEF SendFails, Threads
  <2> QED
    BY <2>1, AwakeFails
<1>3. CASE RecvFails
  <2>1. "reader" \in Threads /\ Fails("reader") /\ UNCHANGED <<asleep, queue, mpc>>
    BY <1>3 DEF RecvFails, Threads
  <2> QED
    BY <2>1, AwakeFails
<1>4. CASE HandleOther /\ packet.kind # "foreign"
  <2>1. "reader" \in Threads /\ Fails("reader") /\ UNCHANGED <<asleep, queue, mpc>>
    BY <1>4 DEF HandleOther, Threads
  <2> QED
    BY <2>1, AwakeFails
<1>5. CASE HandleOther /\ packet.kind = "foreign"
  BY <1>5, AwakeKept DEF AwakeStays, HandleOther
<1>6. CASE Connected \/ ConnectStops \/ Register \/ MarkConnected \/ StartReader
             \/ SendDone
  BY <1>6, AwakeKept DEF AwakeStays, Connected, ConnectStops, Register,
     MarkConnected, StartReader, SendDone
<1>7. CASE ReaderTop \/ Arrives \/ HandleStatus \/ HandleResult \/ UpdateState
             \/ PublishResult \/ WorkerGone
  BY <1>7, AwakeKept DEF AwakeStays, ReaderTop, Arrives, HandleStatus,
     HandleResult, UpdateState, PublishResult, WorkerGone
<1> QED
  BY <1>1, <1>2, <1>3, <1>4, <1>5, <1>6, <1>7 DEF Sender, Reader

\* The thread that pauses the session stays on its way to wake the sender until
\* it has discarded the queue.
LEMMA AwakePausing ==
  ASSUME TypeOK, SenderAwake, NEW t \in Threads, Pausing(t)
  PROVE  SenderAwake'
<1> USE DEF mainVars
<1>0. ppc \in [Threads -> {"none", "entered", "paused", "cleared"}]
  BY DEF TypeOK
<1>1. CASE PauseState(t)
  <2>1. /\ UNCHANGED <<asleep, queue, mpc, stopped>>
        /\ ppc' = [ppc EXCEPT ![t] = "paused"] /\ ppc'[t] = "paused"
    BY <1>0, <1>1 DEF PauseState, queueVars
  <2> QED
    BY <2>1 DEF SenderAwake
<1>2. CASE PauseQueue(t)
  BY <1>2 DEF PauseQueue, CloseQueue, SenderAwake
<1>3. CASE PauseSocket(t)
  <2>1. /\ UNCHANGED <<asleep, queue, mpc, stopped>>
        /\ \A u \in Threads : ppc[u] \in {"entered", "paused"} => ppc'[u] = ppc[u]
    BY <1>0, <1>3 DEF PauseSocket, queueVars
  <2> QED
    BY <2>1 DEF SenderAwake
<1> QED
  BY <1>1, <1>2, <1>3 DEF Pausing

LEMMA AwakeStep ==
  ASSUME TypeOK, SenderAwake, Next
  PROVE  SenderAwake'
BY AwakeMain, AwakeOther, AwakePausing DEF Next

LEMMA PacketTyped ==
  ASSUME TypeOK
  PROVE  /\ packet.gen \in 0..MaxGen /\ packet.bgen \in 0..MaxSeq
         /\ procGen \in 0..MaxGen /\ published.gen \in 0..MaxGen
         /\ 0..MaxGen \subseteq Int
<1>1. packet \in Packet \cup {NoPacket}
  BY DEF TypeOK
<1>2. packet.gen \in 0..MaxGen /\ packet.bgen \in 0..MaxSeq
  BY <1>1, BoundsAssumption DEF Packet, NoPacket
<1> QED
  BY <1>2 DEF TypeOK

\* Whatever the worker sends is a packet.
LEMMA PacketsTyped ==
  ASSUME TypeOK
  PROVE  Packets \subseteq Packet
<1>1. lastSent.gen \in 0..MaxSeq
  BY DEF TypeOK, Batch
<1>2. arrived.gen \in 0..MaxGen /\ arrived.bgen \in 0..MaxSeq
  BY DEF TypeOK
<1>3. 0..lastSent.gen \subseteq 0..MaxSeq
  BY <1>1, BoundsAssumption
<1> QED
  BY <1>2, <1>3 DEF Packets, Packet

ReaderStaysPut ==
  /\ UNCHANGED <<rpc, packet, published, procGen>>
  /\ spc' \in {"connect", "register", "mark", "start"}
       => spc \in {"connect", "register", "mark", "start"}

LEMMA ReaderKept == ASSUME ReaderInv, ReaderStaysPut PROVE ReaderInv'
BY DEF ReaderInv, ReaderStaysPut

LEMMA ReaderStep ==
  ASSUME TypeOK, ReaderInv, Next
  PROVE  ReaderInv'
<1> USE DEF readerVars, senderVars, stateVars
<1>0. /\ packet.gen \in Int /\ procGen \in Int /\ published.gen \in Int
  BY PacketTyped
<1>1. CASE Main
  BY <1>1, ReaderKept DEF ReaderStaysPut, Main, Oversized, Convert,
     ConversionFails, Push, MarkCatchingUp, Notify, Close, CloseDiscards,
     CloseShutsDown, JoinSender, JoinReader, Summarise
<1>2. CASE Sender /\ ~StartReader
  BY <1>2, ReaderKept DEF ReaderStaysPut, Sender, Connected, ConnectStops,
     Register, MarkConnected, TakeBatch, SendDone, SendFails
<1>3. CASE StartReader
  BY <1>3 DEF StartReader, ReaderInv
<1>4. CASE ReaderTop
  BY <1>4 DEF ReaderTop, ReaderInv
<1>5. CASE Arrives
  <2>1. /\ packet' \in Packets /\ rpc = "recv" /\ rpc' = "handle"
        /\ UNCHANGED <<spc, published, procGen>>
    BY <1>5 DEF Arrives
  <2>2. packet'.kind = "status" => packet'.state \in {"connected", "catching_up"}
    BY <2>1 DEF Packets
  <2> QED
    BY <2>1, <2>2 DEF ReaderInv
<1>6. CASE RecvFails
  BY <1>6 DEF RecvFails, ReaderInv
<1>7. CASE HandleOther
  BY <1>7 DEF HandleOther, ReaderInv, NoPacket
<1>8. CASE HandleStatus
  <2>1. procGen' >= procGen
    BY <1>0, <1>8 DEF HandleStatus
  <2>2. procGen' \in Int
    BY <1>0, <1>8 DEF HandleStatus
  <2>3. published'.gen <= procGen'
    BY <1>0, <1>8, <2>1, <2>2 DEF HandleStatus, ReaderInv
  <2> QED
    BY <1>8, <2>3 DEF HandleStatus, ReaderInv, NoPacket
<1>9. CASE HandleResult
  BY <1>9 DEF HandleResult, ReaderInv, NoPacket
<1>10. CASE UpdateState
  <2>1. published'.gen <= procGen'
    BY <1>0, <1>10 DEF UpdateState, Outdated, ReaderInv
  <2> QED
    BY <1>10, <2>1 DEF UpdateState, ReaderInv, NoPacket
<1>11. CASE PublishResult
  <2>1. published'.gen = packet.gen /\ packet.gen = procGen /\ UNCHANGED procGen
    BY <1>11 DEF PublishResult, ReaderInv
  <2>2. published'.gen <= procGen'
    BY <1>0, <2>1
  <2> QED
    BY <1>11, <2>2 DEF PublishResult, ReaderInv, NoPacket
<1>12. CASE WorkerGone \/ \E t \in Threads : Pausing(t)
  BY <1>12, ReaderKept DEF ReaderStaysPut, WorkerGone, Pausing, PauseState,
     PauseQueue, PauseSocket
<1> QED
  BY <1>1, <1>2, <1>3, <1>4, <1>5, <1>6, <1>7, <1>8, <1>9, <1>10, <1>11, <1>12
     DEF Next, Sender, Reader

-----------------------------------------------------------------------------
(* TypeOK                                                                  *)

\* What is queued, held, on its way or given up has been numbered.
LEMMA Counted ==
  ASSUME TypeOK, LostInv
  PROVE  /\ sent + Len(queue) + catchup + discarded
              + (IF mpc = "push" THEN 1 ELSE 0) + (IF spc = "send" THEN 1 ELSE 0) <= MaxSeq
         /\ batches \in 0..MaxSeq
<1> DEFINE N == sent + Len(queue) + catchup + discarded
                 + (IF mpc = "push" THEN 1 ELSE 0) + (IF spc = "send" THEN 1 ELSE 0)
<1>1. N \in Nat /\ batches \in Nat
  BY Numbers
<1>2. Lost = batches - N
  BY DEF Lost
<1>3. batches \in 0..MaxSeq
  BY DEF TypeOK
<1>4. Lost >= 0
  BY DEF LostInv
<1> HIDE DEF N
<1>5. N <= MaxSeq
  BY <1>1, <1>2, <1>3, <1>4, BoundsAssumption
<1> QED
  BY <1>3, <1>5 DEF N

LEMMA FailsTyped ==
  ASSUME TypeOK, NEW t \in Threads, Fails(t)
  PROVE  /\ stopped' \in BOOLEAN /\ pauser' \in Threads \cup {"nobody"}
         /\ ppc' \in [Threads -> {"none", "entered", "paused", "cleared"}]
<1>1. stopped' \in BOOLEAN
  BY DEF TypeOK, Fails, PauseEnter
<1>2. ppc' \in [Threads -> {"none", "entered", "paused", "cleared"}]
  BY DEF TypeOK, Fails, PauseEnter
<1>3. pauser' \in Threads \cup {"nobody"}
  BY DEF TypeOK, Fails, PauseEnter
<1> QED
  BY <1>1, <1>2, <1>3

LEMMA NoBatchTyped == NoBatch \in Batch
BY BoundsAssumption DEF NoBatch, Batch

LEMMA TypedMain ==
  ASSUME IInv, Main
  PROVE  TypeOK'
<1> USE DEF mainVars, senderVars, readerVars, queueVars, stateVars, wireVars
<1>0. /\ TypeOK /\ HeldInv /\ QueueInv /\ LostInv /\ 0..MaxSeq \subseteq Nat
      /\ MaxSeq \in Nat
  BY BoundsAssumption DEF IInv, QueueIsTaggedSuffix
<1>1. /\ sent + Len(queue) + catchup + discarded
           + (IF mpc = "push" THEN 1 ELSE 0) + (IF spc = "send" THEN 1 ELSE 0) <= MaxSeq
      /\ batches \in 0..MaxSeq
  BY <1>0, Counted
<1>2. /\ sent \in Nat /\ catchup \in Nat /\ discarded \in Nat
      /\ bridgeGen \in Nat /\ Len(queue) \in Nat
  BY <1>0, Numbers
<1>3. bridgeGen <= Settled + 1
  BY <1>0 DEF QueueInv
<1>4. <<>> \in Seq(Batch) /\ Len(<<>>) <= MaxBatches /\ Bytes(<<>>) <= MaxPayload
  BY BytesEmpty, LimitsAssumption
<1>5. CASE Oversized
  <2>1. /\ batches < MaxSeq /\ batches' = batches + 1 /\ queue' = <<>>
        /\ bridgeGen' = bridgeGen + 1 /\ mpc = "idle" /\ mpc' = "mark_only"
    BY <1>5 DEF Oversized
  <2>2. batches' \in 0..MaxSeq /\ bridgeGen' \in 0..MaxSeq
    BY <1>0, <1>1, <1>2, <1>3, <2>1 DEF Settled
  <2>3. catchup' \in 0..MaxSeq
    <3>1. catchup' = catchup + (Len(queue) + 1)
      BY <1>5 DEF Oversized, Oversize
    <3>2. catchup + (Len(queue) + 1) <= batches + 1
      <4>1. ~stopped /\ batches \in Nat
        BY <1>0, <1>1, <1>5 DEF Oversized
      <4>2. Lost = 0
        BY <1>0, <4>1 DEF LostInv
      <4> QED
        BY <1>2, <4>1, <4>2 DEF Lost
    <3> QED
      BY <1>0, <1>1, <1>2, <2>1, <3>1, <3>2
  <2> QED
    BY <1>0, <1>4, <1>5, <2>1, <2>2, <2>3 DEF TypeOK, Oversized
<1>6. CASE Convert
  <2>1. batches < MaxSeq /\ batches' = batches + 1
    BY <1>6 DEF Convert
  <2>2. batches' \in 0..MaxSeq
    BY <1>0, <1>1, <2>1
  <2>3. batch' \in Batch
    <3>1. PICK size \in Sizes : batch' = [seq |-> batches, gen |-> 0, size |-> size]
      BY <1>6 DEF Convert
    <3>2. batches \in -1..MaxSeq /\ 0 \in 0..MaxSeq
      BY <1>0, <1>1
    <3> QED
      BY <3>1, <3>2 DEF Batch
  <2> QED
    BY <1>0, <1>6, <2>2, <2>3 DEF TypeOK, Convert
<1>7. CASE ConversionFails
  <2>1. "main" \in Threads /\ Fails("main")
    BY <1>7 DEF ConversionFails, Threads, Fails
  <2>2. /\ stopped' \in BOOLEAN /\ pauser' \in Threads \cup {"nobody"}
        /\ ppc' \in [Threads -> {"none", "entered", "paused", "cleared"}]
    BY <1>0, <2>1, FailsTyped
  <2>3. UNCHANGED <<mainVars, senderVars, asleep, readerVars, stateVars, queueVars,
                    wireVars, reported>>
    BY <1>7 DEF ConversionFails
  <2> QED
    BY <1>0, <2>2, <2>3 DEF TypeOK
<1>8. CASE Push
  <2>1. /\ mpc = "push" /\ batch' = NoBatch /\ batch' \in Batch
        /\ UNCHANGED <<senderVars, asleep, readerVars, ppc, stopped, pauser,
                       stateVars, batches, discarded, wireVars, reported>>
    BY <1>8, NoBatchTyped DEF Push
  <2>2. CASE stopped
    <3>1. mpc' = "idle" /\ UNCHANGED <<queue, bridgeGen, catchup>>
      BY <1>8, <2>2 DEF Push, EnqueueUnlessStopped
    <3> QED
      BY <1>0, <2>1, <3>1 DEF TypeOK
  <2>3. CASE ~stopped
    <3>1. bridgeGen + 1 <= MaxSeq
      BY <1>0, <1>1, <1>2, <1>3, <2>1 DEF Settled
    <3>2. PICK k \in 0..Len(queue) :
            /\ queue' \in Seq(Batch) /\ Len(queue') = Len(queue) - k + 1
            /\ bridgeGen' = IF k = 0 THEN bridgeGen ELSE bridgeGen + 1
            /\ catchup' = catchup + k
            /\ Len(queue') <= MaxBatches /\ Bytes(queue') <= MaxPayload
            /\ mpc' \in {"mark", "notify"}
      BY <1>0, <1>8, <2>3, <3>1, PushEffect
    <3>3. bridgeGen' \in 0..MaxSeq
      BY <1>0, <1>2, <3>1, <3>2
    <3>4. catchup' \in 0..MaxSeq
      BY <1>0, <1>1, <1>2, <3>2
    <3>5. /\ queue' \in Seq(Batch) /\ Len(queue') <= MaxBatches
          /\ Bytes(queue') <= MaxPayload /\ mpc' \in {"mark", "notify"}
      BY <3>2
    <3>6. TypeOK
      BY <1>0
    <3> QED
      <4>1. /\ mpc' \in {"mark", "notify"} /\ batch' \in Batch
            /\ UNCHANGED <<senderVars, asleep, readerVars, ppc, stopped, pauser,
                           stateVars, wireVars, reported>>
        BY <2>1, <3>5
      <4>2. {batches', catchup', discarded', sent'} \subseteq 0..MaxSeq
        BY <2>1, <3>4, <3>6 DEF TypeOK
      <4>3. /\ queue' \in Seq(Batch) /\ Len(queue') <= MaxBatches
            /\ Bytes(queue') <= MaxPayload
        BY <3>5
      <4> QED
          BY ONLY <3>3, <3>6, <4>1, <4>2, <4>3, SMTT(60) DEF TypeOK
  <2> QED
    BY <2>2, <2>3
<1>9. CASE Notify
  <2>1. asleep' \in BOOLEAN
    BY <1>9 DEF Notify
  <2> QED
    BY <1>0, <1>9, <2>1 DEF TypeOK, Notify
<1>10. CASE CloseDiscards
  <2>1. asleep' \in BOOLEAN /\ queue' = <<>>
    BY <1>10 DEF CloseDiscards, CloseQueue
  <2>2. discarded' \in 0..MaxSeq
    BY <1>0, <1>1, <1>2, <1>10 DEF CloseDiscards, CloseQueue
  <2> QED
    BY <1>0, <1>4, <1>10, <2>1, <2>2 DEF TypeOK, CloseDiscards, CloseQueue
<1>11. CASE MarkCatchingUp
  BY <1>0, <1>11 DEF TypeOK, MarkCatchingUp, CatchingUp, AfterMark
<1>12. CASE Close
  BY <1>0, <1>12 DEF TypeOK, Close
<1>13. CASE CloseShutsDown
  BY <1>0, <1>13 DEF TypeOK, CloseShutsDown, ShutdownSocket
<1>14. CASE JoinSender
  BY <1>0, <1>14 DEF TypeOK, JoinSender
<1>15. CASE JoinReader
  BY <1>0, <1>15 DEF TypeOK, JoinReader
<1>16. CASE Summarise
  BY <1>0, <1>16 DEF TypeOK, Summarise
<1> QED
  BY <1>5, <1>6, <1>7, <1>8, <1>9, <1>10, <1>11, <1>12, <1>13,
     <1>14, <1>15, <1>16 DEF Main

LEMMA TypedSender ==
  ASSUME IInv, Sender
  PROVE  TypeOK'
<1> USE DEF mainVars, senderVars, readerVars, queueVars, stateVars, wireVars
<1>0. TypeOK /\ LostInv /\ MaxSeq \in Nat
  BY BoundsAssumption DEF IInv, QueueIsTaggedSuffix
<1>1. /\ sent + Len(queue) + catchup + discarded
           + (IF mpc = "push" THEN 1 ELSE 0) + (IF spc = "send" THEN 1 ELSE 0) <= MaxSeq
      /\ batches \in 0..MaxSeq
  BY <1>0, Counted
<1>2. /\ sent \in Nat /\ catchup \in Nat /\ discarded \in Nat /\ Len(queue) \in Nat
      /\ queue \in Seq(Batch)
  BY <1>0, Numbers
<1>3. CASE Connected
  BY <1>0, <1>3 DEF TypeOK, Connected
<1>4. CASE ConnectStops
  BY <1>0, <1>4 DEF TypeOK, ConnectStops
<1>5. CASE Register
  BY <1>0, <1>5 DEF TypeOK, Register
<1>6. CASE MarkConnected
  BY <1>0, <1>6 DEF TypeOK, MarkConnected
<1>7. CASE StartReader
  BY <1>0, <1>7 DEF TypeOK, StartReader
<1>8. CASE TakeBatch
  <2>1. CASE stopped
    BY <1>0, <1>8, <2>1 DEF TypeOK, TakeBatch
  <2>2. CASE ~stopped /\ queue = <<>>
    <3>1. asleep' \in BOOLEAN
      BY <1>8, <2>2 DEF TakeBatch
    <3> QED
      BY <1>0, <1>8, <2>2, <3>1 DEF TypeOK, TakeBatch
  <2>3. CASE ~stopped /\ queue # <<>>
    <3>1. queue' = Tail(queue) /\ sending' = Head(queue) /\ spc' = "send" /\ asleep' = asleep
      BY <1>8, <2>3 DEF TakeBatch
    <3>2. /\ queue' \in Seq(Batch) /\ sending' \in Batch
          /\ Len(queue') = Len(queue) - 1
          /\ \A i \in 1..Len(queue') : queue'[i] = queue[i + 1]
      BY <1>2, <2>3, <3>1
    <3>3. Bytes(queue') <= Bytes(queue)
      <4>1. /\ 1 \in Nat /\ Len(queue) = Len(queue') + 1
            /\ \A i \in 1..Len(queue') : queue'[i].size = queue[i + 1].size
        BY <1>2, <3>2
      <4> QED
        BY <1>2, <3>2, <4>1, BytesSuffix
    <3>4. Len(queue) <= MaxBatches /\ Bytes(queue) <= MaxPayload
      BY <1>0 DEF TypeOK
    <3>5. Len(queue') <= MaxBatches /\ Bytes(queue') <= MaxPayload
      <4>1. MaxBatches \in Nat /\ MaxPayload \in Nat /\ Bytes(queue) \in Nat /\ Bytes(queue') \in Nat
        BY <1>2, <3>2, LimitsAssumption, BytesNatural
      <4> QED
        BY <1>2, <3>2, <3>3, <3>4, <4>1
    <3> QED
      BY <1>0, <1>8, <3>1, <3>2, <3>5 DEF TypeOK, TakeBatch
  <2> QED
    BY <2>1, <2>2, <2>3
<1>9. CASE SendDone
  <2>1. sent' \in 0..MaxSeq
    BY <1>0, <1>1, <1>2, <1>9 DEF SendDone
  <2> QED
    BY <1>0, <1>9, <2>1, NoBatchTyped DEF TypeOK, SendDone
<1>10. CASE SendFails
  <2>1. "sender" \in Threads /\ Fails("sender")
    BY <1>10 DEF SendFails, Threads
  <2>2. /\ stopped' \in BOOLEAN /\ pauser' \in Threads \cup {"nobody"}
        /\ ppc' \in [Threads -> {"none", "entered", "paused", "cleared"}]
    BY <1>0, <2>1, FailsTyped
  <2>3. /\ sending' = NoBatch /\ spc' = "ended"
        /\ UNCHANGED <<mainVars, asleep, readerVars, stateVars, queueVars, wireVars,
                       reported>>
    BY <1>10 DEF SendFails
  <2> QED
    BY <1>0, <2>2, <2>3, NoBatchTyped DEF TypeOK
<1> QED
  BY <1>3, <1>4, <1>5, <1>6, <1>7, <1>8, <1>9, <1>10 DEF Sender

LEMMA TypedReader ==
  ASSUME IInv, Reader \/ WorkerGone
  PROVE  TypeOK'
<1> USE DEF mainVars, senderVars, readerVars, queueVars, stateVars, wireVars
<1>0. TypeOK /\ ReaderInv
  BY DEF IInv, QueueIsTaggedSuffix
<1>1. /\ packet.gen \in 0..MaxGen /\ packet.bgen \in 0..MaxSeq
      /\ packet \in Packet \cup {NoPacket}
  BY <1>0, PacketTyped DEF TypeOK
<1>2. CASE ReaderTop
  BY <1>0, <1>2 DEF TypeOK, ReaderTop
<1>3. CASE Arrives
  <2>1. PICK p \in Packets :
          /\ packet' = p
          /\ arrived' = [gen |-> p.gen, bgen |-> p.bgen, result |->
                          IF p.kind = "result" THEN p.gen ELSE arrived.result]
    BY <1>3 DEF Arrives
  <2>2. p \in Packet
    BY <1>0, PacketsTyped
  <2>3. p.gen \in 0..MaxGen /\ p.bgen \in 0..MaxSeq /\ p.gen \in -1..MaxGen
    BY <2>2, BoundsAssumption DEF Packet
  <2>4. arrived.result \in -1..MaxGen
    BY <1>0 DEF TypeOK
  <2>5. arrived' \in [gen : 0..MaxGen, bgen : 0..MaxSeq, result : -1..MaxGen]
    BY <2>1, <2>3, <2>4
  <2>6. packet' \in Packet \cup {NoPacket}
    BY <2>1, <2>2
  <2>7. /\ rpc' = "handle"
        /\ UNCHANGED <<mainVars, senderVars, asleep, published, ppc, stopped, pauser,
                       stateVars, queueVars, socket, sent, lastSent, reported>>
    BY <1>3 DEF Arrives
  <2> QED
    BY ONLY <1>0, <2>5, <2>6, <2>7 DEF TypeOK
<1>4. CASE RecvFails
  <2>1. "reader" \in Threads /\ Fails("reader")
    BY <1>4 DEF RecvFails, Threads
  <2>2. /\ stopped' \in BOOLEAN /\ pauser' \in Threads \cup {"nobody"}
        /\ ppc' \in [Threads -> {"none", "entered", "paused", "cleared"}]
    BY <1>0, <2>1, FailsTyped
  <2>3. /\ rpc' = "ended"
        /\ UNCHANGED <<mainVars, senderVars, asleep, packet, published, stateVars,
                       queueVars, wireVars, reported>>
    BY <1>4 DEF RecvFails
  <2> QED
    BY <1>0, <2>2, <2>3 DEF TypeOK
<1>5. CASE HandleOther
  <2>1. /\ stopped' \in BOOLEAN /\ pauser' \in Threads \cup {"nobody"}
        /\ ppc' \in [Threads -> {"none", "entered", "paused", "cleared"}]
    <3>1. CASE Fails("reader")
      BY <1>0, <3>1, FailsTyped DEF Threads
    <3>2. CASE ~Fails("reader")
      <4>1. UNCHANGED <<stopped, pauser, ppc>>
        BY <1>5, <3>2 DEF HandleOther
      <4> QED
        BY <1>0, <4>1 DEF TypeOK
    <3> QED
      BY <3>1, <3>2
  <2>2. /\ rpc' \in {"top", "ended"} /\ packet' = NoPacket
        /\ UNCHANGED <<mainVars, senderVars, asleep, published, stateVars, queueVars,
                       wireVars, reported>>
    BY <1>5 DEF HandleOther
  <2> QED
    BY <1>0, <2>1, <2>2 DEF TypeOK
<1>6. CASE HandleStatus
  <2>1. procGen' \in 0..MaxGen
    BY <1>0, <1>1, <1>6 DEF TypeOK, HandleStatus
  <2>2. state' \in {"connecting", "connected", "catching_up", "paused"}
    BY <1>0, <1>6 DEF TypeOK, HandleStatus, ReaderInv
  <2>3. /\ packet' = NoPacket /\ rpc' = "top"
        /\ UNCHANGED <<mainVars, senderVars, asleep, published, ppc, stopped, pauser,
                       errors, queueVars, wireVars, reported>>
    BY <1>6 DEF HandleStatus
  <2> QED
    BY <1>0, <2>1, <2>2, <2>3 DEF TypeOK
<1>7. CASE HandleResult
  BY <1>0, <1>7 DEF TypeOK, HandleResult
<1>8. CASE UpdateState
  <2>1. procGen' \in 0..MaxGen
    BY <1>0, <1>1, <1>8 DEF TypeOK, UpdateState
  <2>2. state' \in {"connecting", "connected", "catching_up", "paused"}
    BY <1>0, <1>8 DEF TypeOK, UpdateState
  <2>3. /\ packet' \in Packet \cup {NoPacket} /\ rpc' \in {"top", "publish"}
        /\ UNCHANGED <<mainVars, senderVars, asleep, published, ppc, stopped, pauser,
                       errors, queueVars, wireVars, reported>>
    BY <1>1, <1>8 DEF UpdateState
  <2> QED
    BY <1>0, <2>1, <2>2, <2>3 DEF TypeOK
<1>9. CASE PublishResult
  <2>1. published' \in [gen : 0..MaxGen, bgen : 0..MaxSeq]
    BY <1>1, <1>9 DEF PublishResult
  <2>2. /\ packet' = NoPacket /\ rpc' = "top"
        /\ UNCHANGED <<mainVars, senderVars, asleep, ppc, stopped, pauser, stateVars,
                       queueVars, wireVars, reported>>
    BY <1>9 DEF PublishResult
  <2> QED
    BY <1>0, <2>1, <2>2 DEF TypeOK
<1>10. CASE WorkerGone
  BY <1>0, <1>10 DEF TypeOK, WorkerGone
<1> QED
  BY <1>2, <1>3, <1>4, <1>5, <1>6, <1>7, <1>8, <1>9, <1>10 DEF Reader

LEMMA TypedPausing ==
  ASSUME IInv, NEW t \in Threads, Pausing(t)
  PROVE  TypeOK'
<1> USE DEF mainVars, senderVars, readerVars, queueVars, stateVars, wireVars
<1>0. TypeOK /\ LostInv /\ HeldInv /\ MaxSeq \in Nat
  BY BoundsAssumption DEF IInv, QueueIsTaggedSuffix
<1>1. ppc' \in [Threads -> {"none", "entered", "paused", "cleared"}]
  BY <1>0 DEF TypeOK, Pausing, PauseState, PauseQueue, PauseSocket
<1>2. CASE PauseState(t)
  <2>1. errors' \in 0..1
    BY <1>0, <1>2 DEF PauseState, HeldInv
  <2> QED
    BY <1>0, <1>1, <1>2, <2>1 DEF TypeOK, PauseState
<1>3. CASE PauseQueue(t)
  <2>1. asleep' \in BOOLEAN /\ queue' = <<>>
    BY <1>3 DEF PauseQueue, CloseQueue
  <2>2. discarded' \in 0..MaxSeq
    <3>1. discarded' = discarded + Len(queue)
      BY <1>3 DEF PauseQueue, CloseQueue
    <3>2. /\ sent \in Nat /\ catchup \in Nat /\ discarded \in Nat /\ Len(queue) \in Nat
      BY <1>0, Numbers
    <3>3. sent + Len(queue) + catchup + discarded
           + (IF mpc = "push" THEN 1 ELSE 0) + (IF spc = "send" THEN 1 ELSE 0) <= MaxSeq
      BY <1>0, Counted
    <3> QED
      BY <1>0, <3>1, <3>2, <3>3
  <2>3. <<>> \in Seq(Batch) /\ Len(<<>>) <= MaxBatches /\ Bytes(<<>>) <= MaxPayload
    BY BytesEmpty, LimitsAssumption
  <2> QED
    BY <1>0, <1>1, <1>3, <2>1, <2>2, <2>3 DEF TypeOK, PauseQueue, CloseQueue
<1>4. CASE PauseSocket(t)
  BY <1>0, <1>1, <1>4 DEF TypeOK, PauseSocket, ShutdownSocket
<1> QED
  BY <1>2, <1>3, <1>4 DEF Pausing

-----------------------------------------------------------------------------
(* The invariant, and what follows from it                                 *)

LEMMA Initially == Init => IInv
<1> SUFFICES ASSUME Init PROVE IInv
  OBVIOUS
<1>1. TypeOK
  <2>1. /\ <<>> \in Seq(Batch) /\ Len(<<>>) = 0 /\ Bytes(<<>>) = 0
        /\ MaxBatches \in Nat /\ MaxPayload \in Nat /\ 0 \in 0..MaxSeq
        /\ 0 \in 0..MaxGen /\ -1 \in -1..MaxGen /\ FALSE \in BOOLEAN
    BY BytesEmpty, LimitsAssumption, BoundsAssumption
  <2>2. ppc \in [Threads -> {"none", "entered", "paused", "cleared"}]
    BY DEF Init
  <2>3. /\ queue \in Seq(Batch) /\ Len(queue) <= MaxBatches /\ Bytes(queue) <= MaxPayload
    BY <2>1 DEF Init
  <2>4. /\ arrived \in [gen : 0..MaxGen, bgen : 0..MaxSeq, result : -1..MaxGen]
        /\ published \in [gen : 0..MaxGen, bgen : 0..MaxSeq]
    BY <2>1 DEF Init
  <2>5. asleep \in BOOLEAN /\ stopped \in BOOLEAN
    BY DEF Init
  <2>6. /\ batch \in Batch /\ sending \in Batch /\ lastSent \in Batch
    BY NoBatchTyped DEF Init
  <2>7. /\ procGen \in 0..MaxGen /\ bridgeGen \in 0..MaxSeq /\ errors \in 0..1
        /\ {batches, catchup, discarded, sent} \subseteq 0..MaxSeq
    BY <2>1 DEF Init
  <2>8. /\ mpc = "idle" /\ spc = "connect" /\ rpc = "unstarted" /\ packet = NoPacket
        /\ state = "connecting" /\ pauser = "nobody" /\ socket = "none" /\ reported = "none"
    BY DEF Init
  <2> QED
    BY <2>2, <2>3, <2>4, <2>5, <2>6, <2>7, <2>8 DEF TypeOK
<1>2. HeldInv
  BY DEF Init, HeldInv
<1>3. QueueInv /\ Tagged
  BY DEF Init, QueueInv, Tagged, Tip, Settled, NoBatch
<1>4. LostInv
  <2>1. Len(queue) = 0
    BY DEF Init
  <2>2. Lost = 0
    <3>1. /\ batches = 0 /\ sent = 0 /\ catchup = 0 /\ discarded = 0
          /\ mpc # "push" /\ spc # "send"
      BY DEF Init
    <3>2. Lost = 0 - (0 + 0 + 0 + 0 + 0 + 0)
      BY ONLY <2>1, <3>1 DEF Lost
    <3> QED
      BY ONLY <3>2
  <2> QED
    BY <2>2 DEF Init, LostInv
<1>5. SenderAwake /\ ReaderInv
  BY DEF Init, SenderAwake, ReaderInv, NoPacket
<1> QED
  BY <1>1, <1>2, <1>3, <1>4, <1>5, TaggedParts DEF IInv

LEMMA Inductive ==
  ASSUME IInv, [Next]_vars
  PROVE  IInv'
<1>1. /\ TypeOK /\ Tagged /\ HeldInv /\ QueueInv /\ LostInv
      /\ SenderAwake /\ ReaderInv
  BY TaggedParts DEF IInv, QueueIsTaggedSuffix
<1>2. CASE UNCHANGED vars
  BY <1>2 DEF vars, mainVars, senderVars, readerVars, queueVars, stateVars, wireVars,
     IInv, QueueIsTaggedSuffix, TypeOK, HeldInv, QueueInv, Settled, Tip, LostInv, Lost,
     SenderAwake, ReaderInv
<1>3. CASE Next
  <2>1. TypeOK'
    BY <1>3, TypedMain, TypedSender, TypedReader, TypedPausing DEF Next
  <2>2. Tagged' /\ QueueInv' /\ LostInv'
    BY <1>1, <1>3, QueueStep
  <2>3. HeldInv'
    BY <1>1, <1>3, HeldStep
  <2>4. SenderAwake' /\ ReaderInv'
    BY <1>1, <1>3, AwakeStep, ReaderStep
  <2>5. (TypeOK /\ QueueInv => (QueueIsTaggedSuffix <=> Tagged))'
    BY TaggedParts, PTL
  <2> QED
    BY <2>1, <2>2, <2>3, <2>4, <2>5 DEF IInv
<1> QED
  BY <1>2, <1>3

\* Every reachable state satisfies the invariant.
THEOREM Invariance == Spec => []IInv
<1>1. Init => IInv
  BY Initially
<1>2. IInv /\ [Next]_vars => IInv'
  BY Inductive
<1> QED
  BY <1>1, <1>2, PTL DEF Spec

\* What is queued is the newest unbroken run of batches, all of it tagged with
\* the current bridge_generation (onEvents).
THEOREM QueueKeepsTaggedSuffix == Spec => []QueueIsTaggedSuffix
<1>1. IInv => QueueIsTaggedSuffix
  BY DEF IInv
<1> QED
  BY <1>1, Invariance, PTL

\* No wake-up of the sender is lost (onEvents, closeQueue, sendLoop).
THEOREM SenderIsAwake == Spec => []SenderAwake
<1>1. IInv => SenderAwake
  BY DEF IInv
<1> QED
  BY <1>1, Invariance, PTL

\* Every batch is sent, held, queued, skipped or discarded, once, and stopping
\* loses count of two at most (onEvents, closeQueue, sendLoop).
LEMMA Accounted == IInv => BatchesAccounted
<1> SUFFICES ASSUME IInv PROVE BatchesAccounted
  OBVIOUS
<1> DEFINE Held == {b \in {batch, sending} : b # NoBatch}
           P == IF mpc = "push" THEN 1 ELSE 0
           S == IF spc = "send" THEN 1 ELSE 0
<1>1. /\ TypeOK /\ HeldInv /\ QueueInv /\ LostInv
  BY DEF IInv, QueueIsTaggedSuffix
<1>2. /\ batches \in Nat /\ sent \in Nat /\ catchup \in Nat /\ discarded \in Nat
      /\ Len(queue) \in Nat
  BY <1>1, Numbers
<1>3. Cardinality(Held) = P + S
  <2>1. (batch # NoBatch <=> mpc = "push") /\ (sending # NoBatch <=> spc = "send")
    BY <1>1 DEF HeldInv
  <2>2. CASE mpc # "push" /\ spc # "send"
    <3>1. Held = {}
      BY <2>1, <2>2
    <3> QED
      BY <2>2, <3>1, FS_EmptySet
  <2>3. CASE mpc = "push" /\ spc # "send"
    <3>1. Held = {batch}
      BY <2>1, <2>3
    <3> QED
      BY <2>3, <3>1, FS_Singleton
  <2>4. CASE mpc # "push" /\ spc = "send"
    <3>1. Held = {sending}
      BY <2>1, <2>4
    <3> QED
      BY <2>4, <3>1, FS_Singleton
  <2>5. CASE mpc = "push" /\ spc = "send"
    <3>1. batch.seq = batches - 1 /\ sending.seq <= batches - 2
      BY <1>1, <1>2, <2>1, <2>5 DEF HeldInv, QueueInv, Settled
    <3>2. batch # sending
      BY <1>2, <3>1
    <3>3. Held = {batch} \cup {sending} /\ sending \notin {batch}
      BY <2>1, <2>5, <3>2
    <3>4. IsFiniteSet({batch}) /\ Cardinality({batch}) = 1
      BY FS_Singleton
    <3>5. Cardinality({batch} \cup {sending}) = Cardinality({batch}) + 1
      BY ONLY <3>3, <3>4, FS_AddElement
    <3> QED
      BY <2>5, <3>3, <3>4, <3>5
  <2> QED
    BY <2>2, <2>3, <2>4, <2>5
<1>4. batches - (sent + Cardinality(Held) + Len(queue) + catchup + discarded) = Lost
  <2>1. Lost = batches - (sent + Len(queue) + catchup + discarded + P + S)
    BY DEF Lost
  <2>2. P \in Nat /\ S \in Nat
    OBVIOUS
  <2> HIDE DEF Held, P, S
  <2> QED
    BY <1>2, <1>3, <2>1, <2>2
<1>5. Lost \in 0..2 /\ (~stopped => Lost = 0)
  <2>1. Lost \in Int
    BY <1>2 DEF Lost
  <2> QED
    BY <1>1, <2>1 DEF LostInv
<1> QED
  BY <1>4, <1>5 DEF BatchesAccounted

THEOREM EveryBatchAccounted == Spec => []BatchesAccounted
BY Accounted, Invariance, PTL

\* The worker finds every batch the bridge skipped: neighbouring packets have
\* neighbouring batch_seq exactly when their bridge_generation is equal
\* (onEvents, sendLoop).
LEMMA SentFollows ==
  ASSUME IInv, [Next]_vars, sent' # sent
  PROVE  /\ lastSent'.seq > lastSent.seq
         /\ lastSent'.gen >= lastSent.gen
         /\ (lastSent'.seq = lastSent.seq + 1) <=> (lastSent'.gen = lastSent.gen)
<1>1. SendDone
  <2> SUFFICES ASSUME ~SendDone PROVE sent' = sent
    OBVIOUS
  <2> USE DEF wireVars, queueVars, stateVars
  <2>1. CASE UNCHANGED vars
    BY <2>1 DEF vars
  <2>2. CASE Main
    BY <2>2 DEF Main, Oversized, Convert, ConversionFails, Push, MarkCatchingUp,
       Notify, Close, CloseDiscards, CloseShutsDown, JoinSender, JoinReader, Summarise
  <2>3. CASE Sender
    BY <2>3 DEF Sender, Connected, ConnectStops, Register, MarkConnected,
       StartReader, TakeBatch, SendFails
  <2>4. CASE Reader \/ WorkerGone
    BY <2>4 DEF Reader, ReaderTop, Arrives, RecvFails, HandleOther, HandleStatus,
       HandleResult, UpdateState, PublishResult, WorkerGone
  <2>5. CASE \E t \in Threads : Pausing(t)
    BY <2>5 DEF Pausing, PauseState, PauseQueue, PauseSocket
  <2> QED
    BY <2>1, <2>2, <2>3, <2>4, <2>5 DEF Next
<1>2. sending # NoBatch /\ lastSent' = sending
  BY <1>1 DEF IInv, HeldInv, SendDone
<1>3. Follows(lastSent, sending)
  BY <1>2 DEF IInv, QueueInv
<1> QED
  BY <1>2, <1>3 DEF Follows

THEOREM SkipsAreMarked == Spec => SkipsMarked
<1>1. IInv /\ [Next]_vars
        => [sent' # sent =>
              /\ lastSent'.seq > lastSent.seq
              /\ lastSent'.gen >= lastSent.gen
              /\ (lastSent'.seq = lastSent.seq + 1) <=> (lastSent'.gen = lastSent.gen)]_vars
  BY SentFollows
<1> QED
  BY <1>1, Invariance, PTL DEF Spec, SkipsMarked

\* No result is published after one of a newer generation, nor after a status
\* packet announced a newer one (publishResult).
LEMMA PublishedFresh ==
  ASSUME IInv, Next, rpc = "publish", rpc' = "top"
  PROVE  published'.gen >= published.gen /\ published'.gen = procGen
<1>0. TypeOK /\ ReaderInv
  BY DEF IInv, QueueIsTaggedSuffix
<1>1. PublishResult
  <2> SUFFICES ASSUME ~PublishResult PROVE FALSE
    OBVIOUS
  <2> USE DEF readerVars
  <2>1. CASE Main
    BY <2>1 DEF Main, Oversized, Convert, ConversionFails, Push, MarkCatchingUp,
       Notify, Close, CloseDiscards, CloseShutsDown, JoinSender, JoinReader, Summarise
  <2>2. CASE Sender
    BY <1>0, <2>2 DEF Sender, Connected, ConnectStops, Register, MarkConnected,
       StartReader, TakeBatch, SendDone, SendFails, ReaderInv
  <2>3. CASE Reader \/ WorkerGone
    BY <2>3 DEF Reader, ReaderTop, Arrives, RecvFails, HandleOther, HandleStatus,
       HandleResult, UpdateState, WorkerGone
  <2>4. CASE \E t \in Threads : Pausing(t)
    BY <2>4 DEF Pausing, PauseState, PauseQueue, PauseSocket
  <2> QED
    BY <2>1, <2>2, <2>3, <2>4 DEF Next
<1>2. published'.gen = packet.gen /\ packet.gen = procGen /\ published.gen <= procGen
  BY <1>0, <1>1 DEF PublishResult, ReaderInv
<1>3. procGen \in Int /\ published.gen \in Int
  BY <1>0, PacketTyped
<1> QED
  BY <1>2, <1>3

THEOREM PublishedIsNotStale == Spec => PublishedNotStale
<1>1. IInv /\ [Next]_vars
        => [rpc = "publish" /\ rpc' = "top"
              => published'.gen >= published.gen /\ published'.gen = procGen]_vars
  BY PublishedFresh
<1> QED
  BY <1>1, Invariance, PTL DEF Spec, PublishedNotStale

=============================================================================
