-------------------------- MODULE EventQueueProofs --------------------------
(***************************************************************************)
(* Theorems about module EventQueue, for every value of its constants, and *)
(* that it implements module FreshFifo, step by step.                      *)
(***************************************************************************)
EXTENDS EventQueue, WellFoundedInduction, SequenceTheorems, TLAPS

-----------------------------------------------------------------------------
(* Induction over the natural numbers for a set of them, rather than for a *)
(* predicate: proofs about recursive functions cite it.                    *)

\* A set of natural numbers that is not empty has a least element.
LEMMA LeastNatural ==
  ASSUME NEW T \in SUBSET Nat, T # {}
  PROVE  \E x \in T : \A y \in T : x <= y
<1> DEFINE Less == OpToRel(<, Nat)
<1>1. PICK x \in T : \A y \in T : ~ (<<y, x>> \in Less)
  BY NatLessThanWellFounded, WFMin, Zenon
<1>2. Less = {p \in Nat \X Nat : p[1] < p[2]}
  BY Zenon DEF OpToRel
<1> HIDE DEF Less
<1>3. ASSUME NEW y \in T, y < x PROVE FALSE
  <2>1. <<y, x>> \in Nat \X Nat /\ <<y, x>>[1] = y /\ <<y, x>>[2] = x
    OBVIOUS
  <2> QED
    BY <1>1, <1>2, <1>3, <2>1
<1> QED
  BY <1>3

\* A set of natural numbers that holds 0 and the successor of each of its
\* elements is all of Nat.
LEMMA SetInduction ==
  ASSUME NEW S \in SUBSET Nat, 0 \in S, \A n \in S : n + 1 \in S
  PROVE  S = Nat
<1> SUFFICES ASSUME Nat \ S # {} PROVE FALSE
  OBVIOUS
<1>1. PICK x \in Nat \ S : \A y \in Nat \ S : x <= y
  BY LeastNatural
<1>2. x - 1 \in S /\ x - 1 \in Nat
  BY <1>1
<1> QED
  BY <1>1, <1>2

-----------------------------------------------------------------------------
(* SizeOf(q), the recursive function that totals the sizes of a queue       *)

\* f solves the recursive definition inside SizeOf(q) on 0..n.
Sums(f, q, n) == f = [i \in 0..n |-> IF i = 0 THEN 0 ELSE f[i - 1] + q[i].size]

\* Every bound has a solution: the one for n is extended to n + 1.
LEMMA SumsExist ==
  ASSUME NEW q
  PROVE  \A n \in Nat : \E f : Sums(f, q, n)
<1> DEFINE Step(f, i) == IF i = 0 THEN 0 ELSE f[i - 1] + q[i].size
           S == {n \in Nat : \E f : f = [i \in 0..n |-> Step(f, i)]}
<1>1. 0 \in S
  <2> DEFINE f == [i \in 0..0 |-> 0]
  <2>1. f = [i \in 0..0 |-> Step(f, i)]
    OBVIOUS
  <2> QED
    BY <2>1
<1>2. ASSUME NEW n \in S PROVE n + 1 \in S
  <2>1. PICK f : f = [i \in 0..n |-> Step(f, i)]
    OBVIOUS
  <2> DEFINE h == [i \in 0..n + 1 |-> Step(f, i)]
  <2>2. ASSUME NEW i \in 0..n + 1 PROVE h[i] = Step(h, i)
    <3>1. CASE i = 0
      BY <3>1
    <3>2. CASE i # 0
      <4>1. i - 1 \in 0..n /\ i - 1 \in 0..n + 1
        BY <3>2
      <4>2. f[i - 1] = Step(f, i - 1)
        BY <2>1, <4>1
      <4>3. h[i - 1] = Step(f, i - 1)
        BY <4>1
      <4>4. h[i - 1] = f[i - 1]
        BY <4>2, <4>3
      <4> QED
        BY <3>2, <4>4
    <3> QED
      BY <3>1, <3>2
  <2>3. h = [i \in 0..n + 1 |-> Step(h, i)]
    BY <2>2
  <2>4. \E k : k = [i \in 0..n + 1 |-> Step(k, i)]
    <3> HIDE DEF h, Step
    <3> QED
      BY <2>3, Zenon
  <2>5. n + 1 \in Nat
    OBVIOUS
  <2> HIDE DEF Step
  <2> QED
    BY <2>4, <2>5
<1>3. S = Nat
  <2> HIDE DEF Step
  <2> QED
    BY <1>1, <1>2, SetInduction
<1> QED
  BY <1>3 DEF Sums

\* SizeOf(q) is the last value of such a solution.
LEMMA SizeOfIs ==
  ASSUME NEW q, Len(q) \in Nat
  PROVE  \E f : Sums(f, q, Len(q)) /\ SizeOf(q) = f[Len(q)]
<1> DEFINE K == CHOOSE f : Sums(f, q, Len(q))
<1>1. \E f : Sums(f, q, Len(q))
  BY SumsExist
<1>2. Sums(K, q, Len(q))
  BY <1>1, Zenon
<1>3. SizeOf(q) = K[Len(q)]
  BY Zenon DEF SizeOf, Sums
<1> QED
  BY <1>2, <1>3

LEMMA SizeNatural ==
  ASSUME NEW b \in Item
  PROVE  b.size \in Nat
<1>1. Sizes \cup {0} \subseteq Nat
  BY BoundsAssumption
<1>2. b.size \in Sizes \cup {0}
  BY DEF Item
<1> QED
  BY <1>1, <1>2

LEMMA SizeOfEmpty == SizeOf(<<>>) = 0
<1>1. Len(<<>>) = 0
  OBVIOUS
<1>2. PICK f : Sums(f, <<>>, 0) /\ SizeOf(<<>>) = f[0]
  BY <1>1, SizeOfIs
<1> QED
  BY <1>2 DEF Sums

LEMMA SizeOfNatural ==
  ASSUME NEW q \in Seq(Item)
  PROVE  SizeOf(q) \in Nat
<1>1. PICK f : Sums(f, q, Len(q)) /\ SizeOf(q) = f[Len(q)]
  BY SizeOfIs
<1> DEFINE S == {i \in Nat : i <= Len(q) => f[i] \in Nat}
<1>2. \A i \in 0..Len(q) : f[i] = IF i = 0 THEN 0 ELSE f[i - 1] + q[i].size
  BY <1>1 DEF Sums
<1>3. 0 \in S
  BY <1>2
<1>4. ASSUME NEW i \in S PROVE i + 1 \in S
  <2> SUFFICES ASSUME i + 1 <= Len(q) PROVE f[i + 1] \in Nat
    OBVIOUS
  <2>1. f[i + 1] = f[i] + q[i + 1].size
    BY <1>2
  <2>2. q[i + 1].size \in Nat
    BY SizeNatural
  <2>3. f[i] \in Nat
    OBVIOUS
  <2> QED
    BY <2>1, <2>2, <2>3
<1>5. S = Nat
  <2> HIDE DEF S
  <2> QED
    BY <1>3, <1>4, SetInduction DEF S
<1> QED
  BY <1>1, <1>5

\* A batch at the end adds its size.
LEMMA SizeOfAppend ==
  ASSUME NEW q \in Seq(Item), NEW b \in Item
  PROVE  SizeOf(Append(q, b)) = SizeOf(q) + b.size
<1> DEFINE N == Len(q)
           r == Append(q, b)
<1>0. /\ r \in Seq(Item) /\ Len(r) = N + 1 /\ r[N + 1] = b
      /\ \A i \in 1..N : r[i] = q[i]
  OBVIOUS
<1>1. PICK f : Sums(f, q, N) /\ SizeOf(q) = f[N]
  BY SizeOfIs
<1>2. PICK h : Sums(h, r, N + 1) /\ SizeOf(r) = h[N + 1]
  <2>1. N + 1 \in Nat
    OBVIOUS
  <2> HIDE DEF r
  <2> QED
    BY ONLY <1>0, <2>1, SizeOfIs
<1>3. \A i \in 0..N : f[i] = IF i = 0 THEN 0 ELSE f[i - 1] + q[i].size
  BY <1>1 DEF Sums
<1>4. \A i \in 0..N + 1 : h[i] = IF i = 0 THEN 0 ELSE h[i - 1] + r[i].size
  BY <1>2 DEF Sums
<1> DEFINE S == {i \in Nat : i <= N => h[i] = f[i]}
<1>5. 0 \in S
  BY <1>3, <1>4
<1>6. ASSUME NEW i \in S PROVE i + 1 \in S
  <2> SUFFICES ASSUME i + 1 <= N PROVE h[i + 1] = f[i + 1]
    OBVIOUS
  <2>1. f[i + 1] = f[i] + q[i + 1].size
    BY <1>3
  <2>2. h[i + 1] = h[i] + r[i + 1].size
    BY <1>4
  <2> QED
    BY <1>0, <2>1, <2>2
<1>7. S = Nat
  <2> HIDE DEF S
  <2> QED
    BY <1>5, <1>6, SetInduction DEF S
<1>8. h[N] = f[N]
  BY <1>7
<1>9. h[N + 1] = h[N] + b.size
  <2> HIDE DEF r
  <2> QED
    BY <1>0, <1>4
<1> QED
  BY <1>1, <1>2, <1>8, <1>9

\* A queue cut in two has the size of both parts.
LEMMA SizeOfSplit ==
  ASSUME NEW q \in Seq(Item), NEW k \in 0..Len(q)
  PROVE  /\ Suffix(q, k) \in Seq(Item) /\ Len(Suffix(q, k)) = Len(q) - k
         /\ \A i \in 1..Len(q) - k : Suffix(q, k)[i] = q[i + k]
         /\ Prefix(q, k) \in Seq(Item) /\ Len(Prefix(q, k)) = k
         /\ \A i \in 1..k : Prefix(q, k)[i] = q[i]
         /\ SizeOf(q) = SizeOf(Prefix(q, k)) + SizeOf(Suffix(q, k))
<1> DEFINE N == Len(q)
           m == k + 1
           p == Prefix(q, k)
           s == Suffix(q, k)
<1>1. N \in Nat /\ m \in Int /\ k \in Nat /\ k <= N /\ \A i \in 1..N : q[i] \in Item
  OBVIOUS
<1>2. s \in Seq(Item) /\ Len(s) = N - k /\ \A i \in 1..N - k : s[i] = q[i + k]
  <2>1. N - m + 1 = N - k /\ (m <= N => N - k > 0) /\ (~(m <= N) => N - k = 0)
    BY ONLY <1>1
  <2>2. \A i \in 1..(N - k) : m + i - 1 = i + k
    BY <1>1
  <2>3. \A i \in m..N : q[i] \in Item
    BY <1>1
  <2>4. /\ SubSeq(q, m, N) \in Seq(Item)
        /\ Len(SubSeq(q, m, N)) = IF m <= N THEN N - m + 1 ELSE 0
        /\ \A i \in 1..(N - m + 1) : SubSeq(q, m, N)[i] = q[m + i - 1]
    <3> HIDE DEF N, m
    <3> QED
      BY <1>1, <2>3, SubSeqProperties
  <2>5. s = SubSeq(q, m, N)
    BY DEF Suffix
  <2>6. Len(SubSeq(q, m, N)) = N - k
    <3> HIDE DEF N, m
    <3> QED
      BY <2>1, <2>4
  <2>7. \A i \in 1..(N - k) : SubSeq(q, m, N)[i] = q[i + k]
    <3> HIDE DEF N, m
    <3> QED
      BY <2>1, <2>2, <2>4
  <2> QED
    BY <2>4, <2>5, <2>6, <2>7
<1>3. p \in Seq(Item) /\ Len(p) = k /\ \A i \in 1..k : p[i] = q[i]
  BY <1>1 DEF Prefix
<1>4. PICK f : Sums(f, q, N) /\ SizeOf(q) = f[N]
  BY ONLY <1>1, SizeOfIs
<1>5. PICK g : Sums(g, p, k) /\ SizeOf(p) = g[k]
  BY ONLY <1>1, <1>3, SizeOfIs
<1>6. PICK h : Sums(h, s, N - k) /\ SizeOf(s) = h[N - k]
  <2>1. N - k \in Nat
    BY <1>1
  <2> QED
    BY ONLY <1>2, <2>1, SizeOfIs
<1>7. \A i \in 0..N : f[i] = IF i = 0 THEN 0 ELSE f[i - 1] + q[i].size
  BY <1>4 DEF Sums
<1>8. \A i \in 0..k : g[i] = IF i = 0 THEN 0 ELSE g[i - 1] + p[i].size
  BY <1>5 DEF Sums
<1>9. \A i \in 0..N - k : h[i] = IF i = 0 THEN 0 ELSE h[i - 1] + s[i].size
  BY <1>6 DEF Sums
<1> DEFINE P == {i \in Nat : i <= k => f[i] = g[i] /\ f[i] \in Nat}
           S == {i \in Nat : i <= N - k => f[i + k] = g[k] + h[i] /\ h[i] \in Nat}
<1> HIDE DEF N, m, p, s
<1>10. P = Nat
  <2>1. 0 \in P
    BY <1>1, <1>7, <1>8
  <2>2. ASSUME NEW i \in P PROVE i + 1 \in P
    <3> SUFFICES ASSUME i + 1 <= k PROVE f[i + 1] = g[i + 1] /\ f[i + 1] \in Nat
      OBVIOUS
    <3>1. f[i + 1] = f[i] + q[i + 1].size
      BY <1>1, <1>7
    <3>2. g[i + 1] = g[i] + p[i + 1].size
      BY <1>1, <1>8
    <3>3. p[i + 1] = q[i + 1] /\ q[i + 1].size \in Nat
      BY <1>1, <1>3, SizeNatural
    <3>4. f[i] = g[i] /\ f[i] \in Nat
      BY <1>1
    <3> QED
      BY <3>1, <3>2, <3>3, <3>4
  <2> HIDE DEF P
  <2> QED
    BY <2>1, <2>2, SetInduction DEF P
<1>11. f[k] = g[k] /\ f[k] \in Nat
  BY <1>1, <1>10
<1>12. S = Nat
  <2>1. 0 \in S
    <3>1. h[0] = 0
      BY <1>1, <1>9
    <3> QED
      BY <1>1, <1>11, <3>1
  <2>2. ASSUME NEW i \in S PROVE i + 1 \in S
    <3> SUFFICES ASSUME i + 1 <= N - k
                 PROVE  f[(i + 1) + k] = g[k] + h[i + 1] /\ h[i + 1] \in Nat
      OBVIOUS
    <3>1. f[(i + 1) + k] = f[i + k] + q[(i + 1) + k].size
      <4>1. (i + 1) + k \in 0..N /\ (i + 1) + k # 0 /\ ((i + 1) + k) - 1 = i + k
        BY <1>1
      <4> QED
        BY <1>7, <4>1
    <3>2. h[i + 1] = h[i] + s[i + 1].size
      BY <1>1, <1>9
    <3>3. s[i + 1] = q[(i + 1) + k] /\ q[(i + 1) + k].size \in Nat
      <4>1. i + 1 \in 1..N - k /\ (i + 1) + k \in 1..N
        BY <1>1
      <4> QED
        BY <1>1, <1>2, <4>1, SizeNatural
    <3>4. f[i + k] = g[k] + h[i] /\ h[i] \in Nat
      BY <1>1
    <3>5. f[(i + 1) + k] = (g[k] + h[i]) + s[i + 1].size
      BY <3>1, <3>3, <3>4
    <3>6. h[i] \in Nat /\ s[i + 1].size \in Nat /\ g[k] \in Nat
      BY <1>11, <3>3, <3>4
    <3> QED
      BY ONLY <3>2, <3>5, <3>6
  <2> HIDE DEF S
  <2> QED
    BY <2>1, <2>2, SetInduction DEF S
<1>13. f[(N - k) + k] = g[k] + h[N - k] /\ (N - k) + k = N
  <2>1. N - k \in Nat /\ (N - k) + k = N
    BY <1>1
  <2>2. N - k \in S
    <3> HIDE DEF S
    <3> QED
      BY <1>12, <2>1
  <2> QED
    BY <2>1, <2>2
<1> QED
  BY <1>2, <1>3, <1>4, <1>5, <1>6, <1>13 DEF N, p, s

-----------------------------------------------------------------------------
(* The rule of trim *)

\* The loop of trim ends: nothing meets every target.
LEMMA ShedIs ==
  ASSUME NEW q \in Seq(Item), NEW total, total = SizeOf(q), NEW r \in BOOLEAN
  PROVE  /\ Shed(q, total, r) \in 0..Len(q)
         /\ ~(Triggered(q, total) \/ r) => Shed(q, total, r) = 0
         /\ Triggered(q, total) \/ r =>
              /\ MeetsTargets(Suffix(q, Shed(q, total, r)),
                               SizeOf(Suffix(q, Shed(q, total, r))))
              /\ \A j \in 0..(Shed(q, total, r) - 1) :
                   ~MeetsTargets(Suffix(q, j), SizeOf(Suffix(q, j)))
<1> DEFINE Stops(j) == MeetsTargets(Suffix(q, j), total - SizeOf(Prefix(q, j)))
           Meets(j) == MeetsTargets(Suffix(q, j), SizeOf(Suffix(q, j)))
           P(k) == Stops(k) /\ \A j \in 0..(k - 1) : ~Stops(j)
           T == {k \in 0..Len(q) : Stops(k)}
<1>1. ASSUME NEW j \in 0..Len(q) PROVE Stops(j) <=> Meets(j)
  <2>1. /\ SizeOf(Prefix(q, j)) \in Nat /\ SizeOf(Suffix(q, j)) \in Nat
        /\ SizeOf(q) = SizeOf(Prefix(q, j)) + SizeOf(Suffix(q, j))
    BY SizeOfSplit, SizeOfNatural
  <2>2. total - SizeOf(Prefix(q, j)) = SizeOf(Suffix(q, j))
    BY <2>1
  <2> QED
    BY <2>2
<1>2. Len(q) \in T
  <2>1. Len(q) \in 0..Len(q)
    OBVIOUS
  <2>2. Suffix(q, Len(q)) \in Seq(Item) /\ Len(Suffix(q, Len(q))) = 0
    BY <2>1, SizeOfSplit
  <2>3. Suffix(q, Len(q)) = <<>>
    BY <2>2
  <2> QED
    BY <2>1, <2>3 DEF MeetsTargets
<1>3. PICK x \in T : \A y \in T : x <= y
  <2>1. T \in SUBSET Nat /\ T # {}
    BY <1>2
  <2> HIDE DEF T
  <2> QED
    BY <2>1, LeastNatural
<1>4. x \in 0..Len(q) /\ Stops(x)
  OBVIOUS
<1>5. ASSUME NEW j \in 0..(x - 1) PROVE ~Stops(j)
  <2>1. j \in 0..Len(q) /\ ~(x <= j)
    BY <1>4
  <2> QED
    BY <1>3, <2>1
<1>6. \E k \in 0..Len(q) : P(k)
  BY <1>4, <1>5
<1>7. CASE ~(Triggered(q, total) \/ r)
  BY <1>7 DEF Shed
<1>8. CASE Triggered(q, total) \/ r
  <2> DEFINE k == Shed(q, total, r)
  <2>1. k = CHOOSE i \in 0..Len(q) : P(i)
    BY <1>8, Zenon DEF Shed
  <2>2. k \in 0..Len(q) /\ P(k)
    <3> HIDE DEF P, k
    <3> QED
      BY <1>6, <2>1, Zenon
  <2>3. Meets(k) /\ \A j \in 0..(k - 1) : ~Meets(j)
    <3> HIDE DEF k
    <3>1. \A j \in 0..(k - 1) : j \in 0..Len(q)
      BY <2>2
    <3> HIDE DEF Stops, Meets
    <3> QED
      BY <1>1, <2>2, <3>1 DEF P
  <2> QED
    BY <1>8, <2>2, <2>3
<1> QED
  BY <1>7, <1>8

\* After trim the FIFO is below both its limits, and exactly counted.
LEMMA ShedWithin ==
  ASSUME NEW q \in Seq(Item), NEW total, total = SizeOf(q), NEW r \in BOOLEAN,
         NEW k, k = Shed(q, total, r)
  PROVE  /\ k \in 0..Len(q)
         /\ Suffix(q, k) \in Seq(Item) /\ (Len(Suffix(q, k)) < MaxBatches \/ Len(Suffix(q, k)) <= 1)
         /\ BytesLeft(total, Prefix(q, k)) = SizeOf(Suffix(q, k))
         /\ SizeOf(Suffix(q, k)) \in 0..(MaxBytes - 1)
<1>1. k \in 0..Len(q)
  BY ShedIs
<1>2. /\ Suffix(q, k) \in Seq(Item) /\ Len(Suffix(q, k)) = Len(q) - k
      /\ Prefix(q, k) \in Seq(Item)
      /\ \A i \in 1..Len(q) - k : Suffix(q, k)[i] = q[i + k]
      /\ SizeOf(q) = SizeOf(Prefix(q, k)) + SizeOf(Suffix(q, k))
  BY <1>1, SizeOfSplit
<1>3. /\ SizeOf(Prefix(q, k)) \in Nat /\ SizeOf(Suffix(q, k)) \in Nat
      /\ Len(q) \in Nat /\ Len(Suffix(q, k)) \in Nat
  BY <1>2, SizeOfNatural
<1>4. BytesLeft(total, Prefix(q, k)) = SizeOf(Suffix(q, k))
  BY <1>2, <1>3 DEF BytesLeft
<1>5. /\ MaxBatches \in Nat /\ MaxBatches >= 1 /\ MaxBytes \in Nat /\ TargetBytes \in Nat
      /\ TriggerBytes \in Nat /\ TargetBytes < TriggerBytes /\ TriggerBytes <= MaxBytes
  BY BatchesAssumption, BytesAssumption
<1>6. TargetBatches \in Nat /\ (TargetBatches < MaxBatches \/ TargetBatches <= 1)
  BY <1>5 DEF TargetBatches
<1>7. CASE Triggered(q, total) \/ r
  <2>1. MeetsTargets(Suffix(q, k), SizeOf(Suffix(q, k)))
    BY <1>7, ShedIs
  <2>2. CASE Suffix(q, k) = <<>>
    <3>1. Len(Suffix(q, k)) = 0 /\ SizeOf(Suffix(q, k)) = 0
      BY <2>2, SizeOfEmpty
    <3> QED
      BY <1>1, <1>2, <1>4, <1>5, <3>1
  <2>3. CASE Suffix(q, k) # <<>>
    <3>1. /\ SizeOf(Suffix(q, k)) <= TargetBytes
          /\ Len(Suffix(q, k)) <= TargetBatches
      BY <2>1, <2>3 DEF MeetsTargets
    <3> QED
      BY <1>1, <1>2, <1>3, <1>4, <1>5, <1>6, <3>1
  <2> QED
    BY <2>2, <2>3
<1>8. CASE ~(Triggered(q, total) \/ r)
  <2>1. k = 0
    BY <1>8, ShedIs
  <2>2. ~(total >= CapacityTrigger) /\ ~(Len(q) >= MaxBatches)
    BY <1>8 DEF Triggered
  <2>3. CapacityTrigger \in Nat /\ CapacityTrigger <= MaxBytes
    BY <1>5 DEF CapacityTrigger
  <2>4. total \in Nat /\ total < MaxBytes
    BY <1>3, <1>5, <2>2, <2>3, SizeOfNatural
  <2>5. (Len(Suffix(q, k)) < MaxBatches \/ Len(Suffix(q, k)) <= 1)
    BY <1>2, <1>3, <1>5, <2>1, <2>2
  <2>6. SizeOf(Suffix(q, k)) <= total
    BY <1>2, <1>3
  <2> QED
    BY <1>1, <1>2, <1>3, <1>4, <1>5, <2>4, <2>5, <2>6
<1> QED
  BY <1>7, <1>8

-----------------------------------------------------------------------------
(* BytesExact                                                              *)

LEMMA EmptyWithin ==
  /\ <<>> \in Seq(Item) /\ (Len(<<>>) < MaxBatches \/ Len(<<>>) <= 1) /\ SizeOf(<<>>) = 0
  /\ 0 \in 0..(MaxBytes - 1)
BY BatchesAssumption, BytesAssumption, SizeOfEmpty

LEMMA NewItem ==
  ASSUME TypeOK, NEW n \in (latest.seq + 1)..MaxSeq, NEW size \in Sizes,
         NEW cb \in latest.cb..now
  PROVE  /\ [seq |-> n, size |-> size, cb |-> cb] \in Item
         /\ n \in Nat /\ n > latest.seq /\ latest.seq \in Nat
<1>1. latest.seq \in 0..MaxSeq /\ latest.cb \in 0..MaxTime /\ now \in 0..MaxTime
  BY DEF TypeOK, Item
<1>2. MaxSeq \in Nat /\ MaxTime \in Nat
  BY BoundsAssumption
<1>3. n \in 0..MaxSeq /\ n > latest.seq /\ n \in Nat /\ latest.seq \in Nat
  BY <1>1, <1>2
<1>4. cb \in 0..MaxTime
  BY <1>1, <1>2
<1> QED
  BY <1>3, <1>4 DEF Item

\* What a batch that arrives is queued behind
LEMMA Candidates ==
  ASSUME BytesExact, NEW new \in Item, NEW changed \in BOOLEAN,
         NEW kept, kept = IF changed THEN <<>> ELSE items,
         NEW total, total = (IF changed THEN 0 ELSE bytes) + new.size
  PROVE  /\ kept \in Seq(Item) /\ Append(kept, new) \in Seq(Item)
         /\ total = SizeOf(Append(kept, new))
<1>1. kept \in Seq(Item)
  BY DEF BytesExact, TypeOK
<1>2. SizeOf(Append(kept, new)) = SizeOf(kept) + new.size
  BY <1>1, SizeOfAppend
<1>3. SizeOf(kept) = IF changed THEN 0 ELSE bytes
  BY SizeOfEmpty DEF BytesExact
<1> QED
  BY <1>1, <1>2, <1>3

LEMMA ExactReceive ==
  ASSUME BytesExact, Receive
  PROVE  BytesExact'
<1>0. TypeOK
  BY DEF BytesExact
<1>1. PICK n \in (latest.seq + 1)..MaxSeq, size \in Sizes, cb \in latest.cb..now,
           changed \in BOOLEAN :
        LET new  == [seq |-> n, size |-> size, cb |-> cb]
            kept == IF changed THEN <<>> ELSE items
            candidates == Append(kept, new)
            total == (IF changed THEN 0 ELSE bytes) + size
            k == Shed(candidates, total, catchingUp \/ changed)
        IN /\ items' = Suffix(candidates, k)
           /\ bytes' = BytesLeft(total, Prefix(candidates, k))
           /\ catchingUp' = (catchingUp \/ changed \/ k > 0)
           /\ latest' = new
  BY DEF Receive
<1>2. UNCHANGED <<proactive, freshness, now, got>>
  BY DEF Receive, optionVars
<1> DEFINE new  == [seq |-> n, size |-> size, cb |-> cb]
           kept == IF changed THEN <<>> ELSE items
           q == Append(kept, new)
           total == (IF changed THEN 0 ELSE bytes) + size
           r == catchingUp \/ changed
           k == Shed(q, total, r)
<1>3. new \in Item /\ new.size = size
  BY <1>0, NewItem
<1>4. q \in Seq(Item) /\ total = SizeOf(q)
  <2> HIDE DEF new
  <2> QED
    BY <1>3, Candidates
<1>5. r \in BOOLEAN
  BY <1>0 DEF TypeOK
<1>6. items' = Suffix(q, k) /\ bytes' = BytesLeft(total, Prefix(q, k)) /\ latest' = new
  BY <1>1
<1>7. catchingUp' \in BOOLEAN
  BY <1>1
<1>8. /\ Suffix(q, k) \in Seq(Item) /\ (Len(Suffix(q, k)) < MaxBatches \/ Len(Suffix(q, k)) <= 1)
      /\ BytesLeft(total, Prefix(q, k)) = SizeOf(Suffix(q, k))
      /\ SizeOf(Suffix(q, k)) \in 0..(MaxBytes - 1)
  <2> HIDE DEF q, total, r
  <2> QED
    BY <1>4, <1>5, ShedWithin
<1>9. /\ items' \in Seq(Item) /\ (Len(items') < MaxBatches \/ Len(items') <= 1)
      /\ bytes' \in 0..(MaxBytes - 1) /\ bytes' = SizeOf(items') /\ latest' \in Item
  <2> HIDE DEF k, q, total, new
  <2> QED
    BY <1>3, <1>6, <1>8
<1> QED
  BY ONLY <1>0, <1>2, <1>7, <1>9 DEF BytesExact, TypeOK

\* trim of the queue as it is, before take() and in recover()
LEMMA TrimItems ==
  ASSUME BytesExact, NEW r \in BOOLEAN, NEW k, k = Shed(items, bytes, r)
  PROVE  /\ k \in 0..Len(items)
         /\ Suffix(items, k) \in Seq(Item) /\ (Len(Suffix(items, k)) < MaxBatches \/ Len(Suffix(items, k)) <= 1)
         /\ BytesLeft(bytes, Prefix(items, k)) = SizeOf(Suffix(items, k))
         /\ SizeOf(Suffix(items, k)) \in 0..(MaxBytes - 1)
<1>1. items \in Seq(Item) /\ bytes = SizeOf(items)
  BY DEF BytesExact, TypeOK
<1> QED
  BY <1>1, ShedWithin

\* get: the head of a queue leaves, with its bytes.
LEMMA GetHead ==
  ASSUME NEW q \in Seq(Item), q # <<>>, (Len(q) < MaxBatches \/ Len(q) <= 1),
         SizeOf(q) \in 0..(MaxBytes - 1)
  PROVE  /\ Head(q) \in Item /\ Tail(q) \in Seq(Item) /\ (Len(Tail(q)) < MaxBatches \/ Len(Tail(q)) <= 1)
         /\ BytesLeft(SizeOf(q), Prefix(q, 1)) = SizeOf(Tail(q))
         /\ SizeOf(Tail(q)) \in 0..(MaxBytes - 1)
         /\ Tail(q) = Suffix(q, 1) /\ 1 \in 0..Len(q)
<1>1. /\ Len(q) \in Nat /\ Len(q) >= 1 /\ 1 \in 0..Len(q) /\ Head(q) \in Item
      /\ Tail(q) \in Seq(Item) /\ Len(Tail(q)) = Len(q) - 1
      /\ \A i \in 1..Len(q) - 1 : Tail(q)[i] = q[i + 1]
  OBVIOUS
<1>2. /\ Suffix(q, 1) \in Seq(Item) /\ Len(Suffix(q, 1)) = Len(q) - 1
      /\ \A i \in 1..Len(q) - 1 : Suffix(q, 1)[i] = q[i + 1]
      /\ Prefix(q, 1) \in Seq(Item)
      /\ SizeOf(q) = SizeOf(Prefix(q, 1)) + SizeOf(Suffix(q, 1))
  BY <1>1, SizeOfSplit
<1>3. Tail(q) = Suffix(q, 1)
  BY <1>1, <1>2
<1>4. SizeOf(Prefix(q, 1)) \in Nat /\ SizeOf(Suffix(q, 1)) \in Nat
  BY <1>2, SizeOfNatural
<1>a. /\ SizeOf(Suffix(q, 1)) <= SizeOf(q)
      /\ SizeOf(q) - SizeOf(Prefix(q, 1)) = SizeOf(Suffix(q, 1))
  BY <1>2, <1>4
<1>5. BytesLeft(SizeOf(q), Prefix(q, 1)) = SizeOf(Tail(q))
  BY ONLY <1>3, <1>a DEF BytesLeft
<1>6. SizeOf(Tail(q)) \in 0..(MaxBytes - 1)
  <2>1. SizeOf(Suffix(q, 1)) \in 0..(MaxBytes - 1)
    <3>1. SizeOf(q) \in 0..(MaxBytes - 1) /\ MaxBytes \in Nat
      BY BytesAssumption
    <3> QED
      BY ONLY <1>4, <1>a, <3>1
  <2> QED
    BY ONLY <1>3, <2>1
<1>7. (Len(Tail(q)) < MaxBatches \/ Len(Tail(q)) <= 1)
  BY <1>1, BatchesAssumption
<1> QED
  BY <1>1, <1>3, <1>5, <1>6, <1>7

LEMMA ExactTake ==
  ASSUME BytesExact, Take
  PROVE  BytesExact'
<1> DEFINE k == Shed(items, bytes, catchingUp)
           kept == Suffix(items, k)
           left == BytesLeft(bytes, Prefix(items, k))
<1>0. TypeOK /\ catchingUp \in BOOLEAN
  BY DEF BytesExact, TypeOK
<1>1. /\ catchingUp' = (catchingUp \/ k > 0)
      /\ kept = <<>> => items' = kept /\ bytes' = left /\ UNCHANGED got
      /\ kept # <<>> => /\ got' = Head(kept) /\ items' = Tail(kept)
                        /\ bytes' = BytesLeft(left, Prefix(kept, 1))
      /\ UNCHANGED <<proactive, freshness, now, latest>>
  BY DEF Take, optionVars
<1>2. /\ kept \in Seq(Item) /\ (Len(kept) < MaxBatches \/ Len(kept) <= 1)
      /\ left = SizeOf(kept) /\ SizeOf(kept) \in 0..(MaxBytes - 1)
  <2> HIDE DEF k
  <2> QED
    BY <1>0, TrimItems DEF k
<1>3. catchingUp' \in BOOLEAN
  BY <1>1
<1> HIDE DEF k, kept, left
<1>4. /\ items' \in Seq(Item) /\ (Len(items') < MaxBatches \/ Len(items') <= 1)
      /\ bytes' \in 0..(MaxBytes - 1) /\ bytes' = SizeOf(items') /\ got' \in Item
  <2>1. CASE kept = <<>>
    BY <1>0, <1>1, <1>2, <2>1 DEF TypeOK
  <2>2. CASE kept # <<>>
    BY <1>1, <1>2, <2>2, GetHead
  <2> QED
    BY <2>1, <2>2
<1>5. UNCHANGED <<proactive, freshness, now, latest>>
  BY <1>1
<1> QED
  BY ONLY <1>0, <1>3, <1>4, <1>5 DEF BytesExact, TypeOK

LEMMA ExactRecover ==
  ASSUME BytesExact, Recover
  PROVE  BytesExact'
<1> DEFINE k == Shed(items, bytes, TRUE)
<1>0. TypeOK /\ TRUE \in BOOLEAN
  BY DEF BytesExact
<1>1. /\ catchingUp' = TRUE /\ items' = Suffix(items, k)
      /\ bytes' = BytesLeft(bytes, Prefix(items, k))
      /\ UNCHANGED <<proactive, freshness, now, latest, got>>
  BY DEF Recover, optionVars
<1>2. /\ Suffix(items, k) \in Seq(Item) /\ (Len(Suffix(items, k)) < MaxBatches \/ Len(Suffix(items, k)) <= 1)
      /\ BytesLeft(bytes, Prefix(items, k)) = SizeOf(Suffix(items, k))
      /\ SizeOf(Suffix(items, k)) \in 0..(MaxBytes - 1)
  <2> HIDE DEF k
  <2> QED
    BY <1>0, TrimItems DEF k
<1> HIDE DEF k
<1>3. /\ items' \in Seq(Item) /\ (Len(items') < MaxBatches \/ Len(items') <= 1)
      /\ bytes' \in 0..(MaxBytes - 1) /\ bytes' = SizeOf(items')
  BY <1>1, <1>2
<1>4. UNCHANGED <<proactive, freshness, now, latest, got>> /\ catchingUp' \in BOOLEAN
  BY <1>1
<1> QED
  BY ONLY <1>0, <1>3, <1>4 DEF BytesExact, TypeOK

LEMMA ExactInit == Init => BytesExact
<1> SUFFICES ASSUME Init PROVE BytesExact
  OBVIOUS
<1>1. /\ items = <<>> /\ bytes = 0 /\ proactive \in BOOLEAN /\ freshness \in BOOLEAN
      /\ catchingUp \in BOOLEAN /\ now = 0 /\ latest = NoItem /\ got = NoItem
  BY DEF Init
<1>2. NoItem \in Item /\ 0 \in 0..MaxTime
  BY BoundsAssumption DEF NoItem, Item
<1> QED
  BY ONLY <1>1, <1>2, EmptyWithin DEF BytesExact, TypeOK

LEMMA ExactStep ==
  ASSUME BytesExact, [Next]_vars
  PROVE  BytesExact'
<1>1. CASE Tick
  <2>1. now' \in 0..MaxTime
    BY <1>1, BoundsAssumption DEF Tick, BytesExact, TypeOK
  <2> QED
    BY <1>1, <2>1 DEF Tick, BytesExact, TypeOK, optionVars
<1>2. CASE ResultSent
  <2>1. catchingUp' \in BOOLEAN
    BY <1>2 DEF ResultSent
  <2> QED
    BY <1>2, <2>1 DEF ResultSent, BytesExact, TypeOK, optionVars
<1>3. CASE UNCHANGED vars
  BY <1>3 DEF vars, BytesExact, TypeOK, optionVars
<1> QED
  BY <1>1, <1>2, <1>3, ExactReceive, ExactTake, ExactRecover DEF Next

\* The byte count is the size of what is queued, which never reaches either
\* limit once a call has returned (BoundedEventQueue).
THEOREM BytesAreExact == Spec => []BytesExact
BY ExactInit, ExactStep, PTL DEF Spec

-----------------------------------------------------------------------------
(* What take() hands out, and what a recovery leaves                       *)

LEMMA TakenWithin ==
  ASSUME BytesExact, Next, got' # got, proactive, freshness
  PROVE  now - got'.cb <= (IF catchingUp' THEN WaitTarget ELSE WaitLimit)
<1> DEFINE k == Shed(items, bytes, catchingUp)
           kept == Suffix(items, k)
<1>0. /\ items \in Seq(Item) /\ bytes = SizeOf(items) /\ catchingUp \in BOOLEAN
      /\ now \in Int
  BY BoundsAssumption DEF BytesExact, TypeOK
<1>1. Take
  <2>1. Tick => got' = got
    BY DEF Tick
  <2>2. Receive => got' = got
    BY DEF Receive
  <2>3. Recover => got' = got
    BY DEF Recover
  <2>4. ResultSent => got' = got
    BY DEF ResultSent
  <2> QED
    BY ONLY <2>1, <2>2, <2>3, <2>4, Next, got' # got DEF Next
<1>2. /\ catchingUp' = (catchingUp \/ k > 0)
      /\ kept # <<>> /\ got' = Head(kept)
  BY <1>1 DEF Take
<1>3. kept \in Seq(Item) /\ k \in 0..Len(items)
  <2> HIDE DEF k
  <2> QED
    BY <1>0, TrimItems DEF k
<1>4. Head(kept) \in Item
  BY <1>2, <1>3
<1>5. got'.cb \in Int
  BY <1>2, <1>4, BoundsAssumption DEF Item
<1>6. WaitTarget \in Nat /\ WaitLimit \in Nat /\ WaitTarget < WaitLimit
  BY WaitAssumption
<1>7. CASE Triggered(items, bytes) \/ catchingUp
  <2>1. MeetsTargets(kept, SizeOf(kept))
    BY <1>0, <1>7, ShedIs
  <2>2. Age(Head(kept)) <= WaitTarget
    BY <1>2, <2>1 DEF MeetsTargets
  <2>3. now - got'.cb <= WaitTarget
    BY <1>2, <2>2 DEF Age
  <2> QED
    BY <1>0, <1>5, <1>6, <2>3
<1>8. CASE ~(Triggered(items, bytes) \/ catchingUp)
  <2>1. k = 0
    BY <1>0, <1>8, ShedIs
  <2>2. kept = items
    <3>1. /\ Suffix(items, 0) \in Seq(Item) /\ Len(Suffix(items, 0)) = Len(items)
          /\ \A i \in 1..Len(items) : Suffix(items, 0)[i] = items[i]
      <4>1. 0 \in 0..Len(items)
        BY <1>0
      <4> QED
        BY <1>0, <4>1, SizeOfSplit
    <3>2. Suffix(items, 0) = items
      BY <1>0, <3>1
    <3> QED
      BY <2>1, <3>2
  <2>3. ~(Age(Head(items)) > WaitLimit)
    BY <1>2, <1>8, <2>2 DEF Triggered
  <2>4. ~(now - got'.cb > WaitLimit)
    BY <1>2, <2>2, <2>3 DEF Age
  <2>5. ~catchingUp'
    <3>1. ~(k > 0)
      BY <2>1
    <3> HIDE DEF k
    <3> QED
      BY <1>2, <1>8, <3>1, Zenon
  <2> QED
    BY <1>0, <1>5, <1>6, <2>4, <2>5
<1> QED
  BY <1>7, <1>8

\* No batch is handed to the builder after waiting longer than the limit, nor,
\* in a recovery, longer than the target (SessionReceiver.take).
THEOREM TakenAreFresh == Spec => TakenFresh
<1>1. BytesExact /\ [Next]_vars
        => [got' # got /\ proactive /\ freshness
              => now - got'.cb <= (IF catchingUp' THEN WaitTarget ELSE WaitLimit)]_vars
  BY TakenWithin
<1> QED
  BY <1>1, BytesAreExact, PTL DEF Spec, TakenFresh

\* A queue whose last batch meets the targets by itself keeps it.
LEMMA LastKept ==
  ASSUME NEW q \in Seq(Item), q # <<>>, NEW r \in BOOLEAN,
         q[Len(q)].size <= TargetBytes,
         freshness => now - q[Len(q)].cb <= WaitTarget,
         NEW k, k = Shed(q, SizeOf(q), r)
  PROVE  Suffix(q, k) # <<>> /\ Last(Suffix(q, k)) = q[Len(q)]
<1> DEFINE N == Len(q)
<1>1. N \in Nat /\ N >= 1 /\ N - 1 \in 0..N /\ q[N] \in Item
  BY EmptySeq
<1>2. k \in 0..N
  BY ShedIs
<1>3. k # N
  <2> SUFFICES ASSUME k = N PROVE FALSE
    OBVIOUS
  <2>1. Triggered(q, SizeOf(q)) \/ r
    <3> SUFFICES ASSUME ~(Triggered(q, SizeOf(q)) \/ r) PROVE FALSE
      OBVIOUS
    <3>1. Shed(q, SizeOf(q), r) = 0
      BY ShedIs
    <3> HIDE DEF N
    <3> QED
      BY ONLY <1>1, <3>1, k = N, k = Shed(q, SizeOf(q), r)
  <2>2. ~MeetsTargets(Suffix(q, N - 1), SizeOf(Suffix(q, N - 1)))
    <3>1. N - 1 \in 0..(k - 1)
      BY <1>1
    <3> QED
      BY <2>1, <3>1, ShedIs
  <2> DEFINE s == Suffix(q, N - 1)
  <2>3. s \in Seq(Item) /\ Len(s) = 1 /\ s[1] = q[N]
    <3>1. /\ s \in Seq(Item) /\ Len(s) = N - (N - 1)
          /\ \A i \in 1..N - (N - 1) : s[i] = q[i + (N - 1)]
      BY <1>1, SizeOfSplit
    <3>2. N - (N - 1) = 1 /\ 1 + (N - 1) = N /\ 1 \in 1..1
      BY <1>1
    <3> HIDE DEF N, s
    <3> QED
      BY <3>1, <3>2
  <2>4. SizeOf(s) = q[N].size
    <3> HIDE DEF s, N
    <3>1. s = Append(<<>>, q[N])
      BY <1>1, <2>3
    <3>2. SizeOf(s) = SizeOf(<<>>) + q[N].size /\ q[N].size \in Nat
      <4>1. <<>> \in Seq(Item)
        OBVIOUS
      <4> QED
        BY <1>1, <3>1, <4>1, SizeOfAppend, SizeNatural
    <3> QED
      BY <3>2, SizeOfEmpty
  <2>5. 1 <= TargetBatches
    BY BatchesAssumption DEF TargetBatches
  <2>6. Head(s) = q[N]
    BY <2>3
  <2> HIDE DEF s
  <2>7. MeetsTargets(s, SizeOf(s))
    BY <2>3, <2>4, <2>5, <2>6 DEF MeetsTargets, Age
  <2> QED
    BY <2>2, <2>7 DEF s
<1>4. /\ Suffix(q, k) \in Seq(Item) /\ Len(Suffix(q, k)) = N - k
      /\ \A i \in 1..N - k : Suffix(q, k)[i] = q[i + k]
  BY <1>2, SizeOfSplit
<1>5. N - k \in 1..N - k /\ (N - k) + k = N
  <2> HIDE DEF N
  <2> QED
    BY ONLY <1>1, <1>2, <1>3
<1> HIDE DEF N
<1>6. Suffix(q, k)[N - k] = q[N]
  BY <1>4, <1>5
<1>7. Suffix(q, k) # <<>>
  BY <1>4, <1>5
<1> QED
  BY <1>4, <1>6, <1>7 DEF Last, N

LEMMA NewestStays ==
  ASSUME BytesExact, Next, latest' # latest, latest'.size <= TargetBytes,
         freshness => now - latest'.cb <= WaitTarget
  PROVE  items' # <<>> /\ Last(items') = latest'
<1>0. TypeOK
  BY DEF BytesExact
<1>1. Receive
  BY DEF Next, Tick, Take, Recover, ResultSent
<1>2. PICK n \in (latest.seq + 1)..MaxSeq, size \in Sizes, cb \in latest.cb..now,
           changed \in BOOLEAN :
        LET new  == [seq |-> n, size |-> size, cb |-> cb]
            kept == IF changed THEN <<>> ELSE items
            candidates == Append(kept, new)
            total == (IF changed THEN 0 ELSE bytes) + size
            k == Shed(candidates, total, catchingUp \/ changed)
        IN items' = Suffix(candidates, k) /\ latest' = new
  BY <1>1 DEF Receive
<1> DEFINE new  == [seq |-> n, size |-> size, cb |-> cb]
           kept == IF changed THEN <<>> ELSE items
           q == Append(kept, new)
           total == (IF changed THEN 0 ELSE bytes) + size
           r == catchingUp \/ changed
           k == Shed(q, total, r)
<1>3. new \in Item /\ new.size = size
  BY <1>0, NewItem
<1>4. kept \in Seq(Item) /\ q \in Seq(Item) /\ total = SizeOf(q)
  <2> HIDE DEF new
  <2> QED
    BY <1>3, Candidates
<1>5. r \in BOOLEAN
  BY <1>0 DEF TypeOK
<1>6. items' = Suffix(q, k) /\ latest' = new
  BY <1>2
<1>7. q # <<>> /\ q[Len(q)] = new
  <2> HIDE DEF new, kept
  <2>1. Len(q) = Len(kept) + 1 /\ q[Len(kept) + 1] = new /\ Len(kept) \in Nat
    BY <1>3, <1>4
  <2> HIDE DEF q
  <2>2. q # <<>>
    BY <2>1
  <2> QED
    BY <2>1, <2>2
<1> HIDE DEF new, kept, q, total, r
<1> QED
  BY <1>4, <1>5, <1>6, <1>7, LastKept DEF k

\* Catching up never costs the newest data: a batch that meets every target on
\* its own is queued, whatever had to go before it (trim).
THEOREM NewestIsKept == Spec => NewestKept
<1>1. BytesExact /\ [Next]_vars
        => [/\ latest' # latest
            /\ latest'.size <= TargetBytes
            /\ freshness => now - latest'.cb <= WaitTarget
            => items' # <<>> /\ Last(items') = latest']_vars
  BY NewestStays
<1> QED
  BY <1>1, BytesAreExact, PTL DEF Spec, NewestKept

-----------------------------------------------------------------------------
(* EventQueue implements FreshFifo                                         *)

\* The refinement mapping of a queue: the numbers of its batches
Numbers(q) == [i \in DOMAIN q |-> q[i].seq]

LEMMA NumbersOf ==
  ASSUME NEW q \in Seq(Item)
  PROVE  /\ Numbers(q) \in Seq(Nat) /\ Len(Numbers(q)) = Len(q)
         /\ \A i \in 1..Len(q) : Numbers(q)[i] = q[i].seq
<1>1. \A i \in 1..Len(q) : q[i].seq \in Nat
  <2> SUFFICES ASSUME NEW i \in 1..Len(q) PROVE q[i].seq \in Nat
    OBVIOUS
  <2>1. q[i] \in Item
    OBVIOUS
  <2>2. q[i].seq \in 0..MaxSeq
    BY <2>1 DEF Item
  <2> QED
    BY <2>2
<1>2. Numbers(q) \in [1..Len(q) -> Nat] /\ Len(q) \in Nat
  BY <1>1 DEF Numbers
<1>3. Numbers(q) \in Seq(Nat) /\ Len(Numbers(q)) = Len(q)
  BY <1>2
<1> QED
  BY <1>3 DEF Numbers

\* Two sequences of numbers that agree everywhere are the same one.
LEMMA SameNumbers ==
  ASSUME NEW a \in Seq(Nat), NEW b \in Seq(Nat), Len(a) = Len(b),
         \A i \in 1..Len(a) : a[i] = b[i]
  PROVE  a = b
OBVIOUS

\* What trim leaves of a queue FreshFifo may keep of its numbers.
LEMMA SuffixKept ==
  ASSUME NEW q \in Seq(Item), NEW k \in 0..Len(q),
         Len(q) >= MaxBatches => Len(q) - k <= TargetBatches
  PROVE  Numbers(Suffix(q, k)) \in Fifo!Kept(Numbers(q))
<1> DEFINE a == Numbers(q)
           N == Len(q)
           m == k + 1
<1>1. a \in Seq(Nat) /\ Len(a) = N /\ \A i \in 1..N : a[i] = q[i].seq
  BY NumbersOf
<1>2. /\ Suffix(q, k) \in Seq(Item) /\ Len(Suffix(q, k)) = N - k
      /\ \A i \in 1..N - k : Suffix(q, k)[i] = q[i + k]
  BY SizeOfSplit
<1>3. N \in Nat /\ m \in Int /\ k \in Nat /\ k <= N
  OBVIOUS
<1>4. /\ SubSeq(a, m, N) \in Seq(Nat)
      /\ Len(SubSeq(a, m, N)) = IF m <= N THEN N - m + 1 ELSE 0
      /\ \A i \in 1..(N - m + 1) : SubSeq(a, m, N)[i] = a[m + i - 1]
  <2>1. \A i \in m..N : a[i] \in Nat
    BY <1>1, <1>3
  <2> HIDE DEF N, m, a
  <2> QED
    BY <1>1, <1>3, <2>1, SubSeqProperties
<1>5. Len(SubSeq(a, m, N)) = N - k /\ N - m + 1 = N - k
  <2> HIDE DEF N, a
  <2> QED
    BY ONLY <1>3, <1>4
<1>6. ASSUME NEW i \in 1..N - k PROVE SubSeq(a, m, N)[i] = Numbers(Suffix(q, k))[i]
  <2>1. m + i - 1 = i + k /\ i + k \in 1..N
    BY <1>3
  <2>2. SubSeq(a, m, N)[i] = q[i + k].seq
    <3> HIDE DEF N, m, a
    <3> QED
      BY <1>1, <1>4, <1>5, <2>1
  <2>3. Numbers(Suffix(q, k))[i] = Suffix(q, k)[i].seq
    <3> HIDE DEF N
    <3> QED
      BY <1>2, NumbersOf
  <2> QED
    BY <1>2, <2>2, <2>3
<1>7. /\ Numbers(Suffix(q, k)) \in Seq(Nat) /\ Len(Numbers(Suffix(q, k))) = N - k
  BY <1>2, NumbersOf
<1>8. Numbers(Suffix(q, k)) = SubSeq(a, k + 1, Len(a))
  <2>1. \A i \in 1..Len(SubSeq(a, m, N)) : SubSeq(a, m, N)[i] = Numbers(Suffix(q, k))[i]
    BY <1>5, <1>6
  <2>2. SubSeq(a, m, N) = Numbers(Suffix(q, k))
    <3> HIDE DEF N, m, a
    <3> QED
      BY ONLY <1>4, <1>5, <1>7, <2>1, SameNumbers
  <2> QED
    BY <1>1, <2>2
<1>9. k \in {j \in 0..Len(a) : Len(a) >= MaxBatches => Len(a) - j <= Fifo!Half}
  <2>1. Fifo!Half = TargetBatches
    BY DEF Fifo!Half, TargetBatches
  <2> QED
    BY <1>1, <2>1
<1> HIDE DEF a
<1>10. Numbers(Suffix(q, k)) \in Fifo!Kept(a)
  BY <1>8, <1>9 DEF Fifo!Kept
<1> QED
  BY <1>10 DEF a

\* A full queue sheds at least half of what it may hold.
LEMMA ShedHalf ==
  ASSUME NEW q \in Seq(Item), NEW r \in BOOLEAN, NEW k, k = Shed(q, SizeOf(q), r),
         Len(q) >= MaxBatches
  PROVE  Len(q) - k <= TargetBatches
<1>1. Triggered(q, SizeOf(q)) \/ r
  BY DEF Triggered
<1>2. k \in 0..Len(q) /\ MeetsTargets(Suffix(q, k), SizeOf(Suffix(q, k)))
  BY <1>1, ShedIs
<1>3. Len(Suffix(q, k)) = Len(q) - k
  BY <1>2, SizeOfSplit
<1>4. 0 <= TargetBatches
  BY BatchesAssumption DEF TargetBatches
<1>5. Suffix(q, k) = <<>> => Len(q) - k = 0
  BY <1>3
<1> QED
  BY <1>2, <1>3, <1>4, <1>5 DEF MeetsTargets

LEMMA ReceiveOffers ==
  ASSUME BytesExact, Receive
  PROVE  Fifo!Offer
<1>0. TypeOK /\ items \in Seq(Item)
  BY DEF BytesExact, TypeOK
<1>1. PICK n \in (latest.seq + 1)..MaxSeq, size \in Sizes, cb \in latest.cb..now,
           changed \in BOOLEAN :
        /\ n > latest.seq + 1 => changed
        /\ LET new  == [seq |-> n, size |-> size, cb |-> cb]
               kept == IF changed THEN <<>> ELSE items
               candidates == Append(kept, new)
               total == (IF changed THEN 0 ELSE bytes) + size
               k == Shed(candidates, total, catchingUp \/ changed)
           IN items' = Suffix(candidates, k) /\ latest' = new
  BY DEF Receive
<1> DEFINE new  == [seq |-> n, size |-> size, cb |-> cb]
           kept == IF changed THEN <<>> ELSE items
           q == Append(kept, new)
           all == Append(items, new)
           total == (IF changed THEN 0 ELSE bytes) + size
           r == catchingUp \/ changed
           k == Shed(q, total, r)
<1>2. /\ new \in Item /\ new.size = size /\ new.seq = n
      /\ n \in Nat /\ n > latest.seq /\ latest.seq \in Nat
  BY <1>0, NewItem
<1>3. kept \in Seq(Item) /\ q \in Seq(Item) /\ total = SizeOf(q)
  <2> HIDE DEF new
  <2> QED
    BY <1>2, Candidates
<1>4. r \in BOOLEAN
  BY <1>0 DEF TypeOK
<1>5. items' = Suffix(q, k) /\ latest' = new /\ got' = got
  BY <1>1 DEF Receive
<1>6. k \in 0..Len(q) /\ (Len(q) >= MaxBatches => Len(q) - k <= TargetBatches)
  <2> HIDE DEF q, r, total
  <2> QED
    BY <1>3, <1>4, ShedIs, ShedHalf
<1>7. Numbers(items') \in Fifo!Kept(Numbers(q))
  <2> HIDE DEF q, k
  <2> QED
    BY <1>3, <1>5, <1>6, SuffixKept
<1>8. /\ all \in Seq(Item) /\ Len(all) = Len(items) + 1 /\ all[Len(items) + 1] = new
      /\ \A i \in 1..Len(items) : all[i] = items[i]
  BY <1>0, <1>2
<1>9. Numbers(all) = Append(Numbers(items), n)
  <2> HIDE DEF all, new
  <2>1. /\ Numbers(all) \in Seq(Nat) /\ Len(Numbers(all)) = Len(items) + 1
        /\ \A i \in 1..Len(items) + 1 : Numbers(all)[i] = all[i].seq
    BY <1>8, NumbersOf
  <2>2. /\ Numbers(items) \in Seq(Nat) /\ Len(Numbers(items)) = Len(items)
        /\ \A i \in 1..Len(items) : Numbers(items)[i] = items[i].seq
    BY <1>0, NumbersOf
  <2>3. /\ Append(Numbers(items), n) \in Seq(Nat)
        /\ Len(Append(Numbers(items), n)) = Len(items) + 1
        /\ Append(Numbers(items), n)[Len(items) + 1] = n
        /\ \A i \in 1..Len(items) : Append(Numbers(items), n)[i] = Numbers(items)[i]
    BY <1>2, <2>2
  <2>4. ASSUME NEW i \in 1..Len(items) + 1
        PROVE  Numbers(all)[i] = Append(Numbers(items), n)[i]
    <3>1. CASE i = Len(items) + 1
      BY <1>2, <1>8, <2>1, <2>3, <3>1
    <3>2. CASE i # Len(items) + 1
      <4>1. i \in 1..Len(items)
        BY <1>0, <3>2
      <4> QED
        BY <1>8, <2>1, <2>2, <2>3, <4>1
    <3> QED
      BY <3>1, <3>2
  <2> QED
    BY <2>1, <2>3, <2>4, SameNumbers
<1>10. latest'.seq \in Nat /\ latest'.seq > latest.seq /\ latest'.seq = n
  BY <1>2, <1>5
<1>11. Numbers(items') \in Fifo!Kept(IF n = latest.seq + 1 THEN Append(Numbers(items), n)
                                                          ELSE <<n>>)
  <2>1. CASE n = latest.seq + 1 /\ ~changed
    BY <1>7, <1>9, <2>1
  <2>2. CASE n = latest.seq + 1 /\ changed
    <3>1. q = <<new>> /\ Len(q) = 1 /\ q[1] = new
      BY <2>2
    <3> DEFINE K == Len(items) + k
    <3>2. Len(items) \in Nat /\ k \in 0..1 /\ K \in 0..Len(all) /\ Len(all) - K = 1 - k
      <4> HIDE DEF k, all, q
      <4> QED
        BY <1>0, <1>6, <1>8, <3>1
    <3>3. Len(all) - K <= TargetBatches
      <4>1. 1 <= TargetBatches /\ TargetBatches \in Nat
        BY BatchesAssumption DEF TargetBatches
      <4> HIDE DEF k, K, all
      <4> QED
        BY <3>2, <4>1
    <3>4. Numbers(Suffix(all, K)) \in Fifo!Kept(Numbers(all))
      <4> HIDE DEF K, all
      <4> QED
        BY <1>8, <3>2, <3>3, SuffixKept
    <3>5. Suffix(all, K) = Suffix(q, k)
      <4> HIDE DEF k, all, q, new
      <4>1. /\ Suffix(all, K) \in Seq(Item) /\ Len(Suffix(all, K)) = Len(all) - K
            /\ \A i \in 1..Len(all) - K : Suffix(all, K)[i] = all[i + K]
        <5> HIDE DEF K
        <5> QED
          BY <1>8, <3>2, SizeOfSplit
      <4>2. /\ Suffix(q, k) \in Seq(Item) /\ Len(Suffix(q, k)) = 1 - k
            /\ \A i \in 1..1 - k : Suffix(q, k)[i] = q[i + k]
        <5>1. k \in 0..Len(q)
          BY <1>6
        <5> QED
          BY <1>3, <3>1, <5>1, SizeOfSplit
      <4>3. ASSUME NEW i \in 1..1 - k PROVE all[i + K] = q[i + k]
        <5>1. i = 1 /\ k = 0
          BY <3>2
        <5>2. i + K = Len(items) + 1 /\ i + k = 1
          BY <3>2, <5>1
        <5> QED
          BY <1>8, <3>1, <5>2
      <4>4. /\ Len(Suffix(all, K)) = Len(Suffix(q, k))
            /\ \A i \in 1..Len(Suffix(q, k)) : Suffix(all, K)[i] = Suffix(q, k)[i]
        <5> HIDE DEF K
        <5> QED
          BY <3>2, <4>1, <4>2, <4>3
      <4> HIDE DEF K
      <4> QED
        BY <4>1, <4>2, <4>4
    <3> QED
      BY <1>5, <1>9, <2>2, <3>4, <3>5
  <2>3. CASE n # latest.seq + 1
    <3>1. changed
      BY <1>1, <1>2, <2>3
    <3>2. q = <<new>> /\ Len(q) = 1 /\ q[1] = new
      BY <3>1
    <3>3. Numbers(q) = <<n>>
      <4> HIDE DEF q, new
      <4>1. Numbers(q) \in Seq(Nat) /\ Len(Numbers(q)) = 1 /\ Numbers(q)[1] = n
        <5>1. /\ Numbers(q) \in Seq(Nat) /\ Len(Numbers(q)) = Len(q)
              /\ \A i \in 1..Len(q) : Numbers(q)[i] = q[i].seq
          BY <1>3, NumbersOf
        <5>2. 1 \in 1..Len(q)
          BY <3>2
        <5> QED
          BY <1>2, <3>2, <5>1, <5>2
      <4> QED
        BY <4>1
    <3> QED
      BY <1>7, <2>3, <3>3
  <2> QED
    BY <2>1, <2>2, <2>3
<1> HIDE DEF new, kept, q, all, total, r, k
<1> QED
  BY <1>5, <1>10, <1>11 DEF Fifo!Offer, Numbers

\* Trim of the queue as it is: FreshFifo may shed as much.
LEMMA TrimKept ==
  ASSUME BytesExact, NEW r \in BOOLEAN, NEW k, k = Shed(items, bytes, r)
  PROVE  Numbers(Suffix(items, k)) \in Fifo!Kept(Numbers(items))
<1>1. items \in Seq(Item) /\ bytes = SizeOf(items)
  BY DEF BytesExact, TypeOK
<1>2. k \in 0..Len(items)
  BY TrimItems
<1>3. Len(items) >= MaxBatches => Len(items) - k <= TargetBatches
  BY <1>1, ShedHalf
<1> QED
  BY <1>1, <1>2, <1>3, SuffixKept

LEMMA TakeImplements ==
  ASSUME BytesExact, Take
  PROVE  Fifo!Take \/ Fifo!Shed
<1> DEFINE k == Shed(items, bytes, catchingUp)
           kept == Suffix(items, k)
<1>0. catchingUp \in BOOLEAN
  BY DEF BytesExact, TypeOK
<1>1. /\ kept = <<>> => items' = kept /\ got' = got
      /\ kept # <<>> => got' = Head(kept) /\ items' = Tail(kept)
      /\ latest' = latest
  BY DEF Take
<1>2. Numbers(kept) \in Fifo!Kept(Numbers(items))
  <2> HIDE DEF k
  <2> QED
    BY <1>0, TrimKept DEF k
<1>3. kept \in Seq(Item)
  <2> HIDE DEF k
  <2> QED
    BY <1>0, TrimItems DEF k
<1> HIDE DEF k, kept
<1>4. CASE kept = <<>>
  <2>1. Numbers(items') \in Fifo!Kept(Numbers(items)) /\ got' = got /\ latest' = latest
    BY <1>1, <1>2, <1>4
  <2> QED
    BY <2>1 DEF Fifo!Shed, Numbers
<1>5. CASE kept # <<>>
  <2>1. /\ Numbers(kept) \in Seq(Nat) /\ Len(Numbers(kept)) = Len(kept)
        /\ \A i \in 1..Len(kept) : Numbers(kept)[i] = kept[i].seq
    BY <1>3, NumbersOf
  <2>2. Len(kept) \in Nat /\ Len(kept) >= 1
    BY <1>3, <1>5
  <2>3. Numbers(kept) # <<>> /\ Head(Numbers(kept)) = Head(kept).seq
    BY <1>3, <1>5, <2>1, <2>2
  <2>4. Numbers(Tail(kept)) = Tail(Numbers(kept))
    <3>1. /\ Tail(kept) \in Seq(Item) /\ Len(Tail(kept)) = Len(kept) - 1
          /\ \A i \in 1..Len(kept) - 1 : Tail(kept)[i] = kept[i + 1]
      BY <1>3, <1>5
    <3>2. /\ Tail(Numbers(kept)) \in Seq(Nat) /\ Len(Tail(Numbers(kept))) = Len(kept) - 1
          /\ \A i \in 1..Len(kept) - 1 : Tail(Numbers(kept))[i] = Numbers(kept)[i + 1]
      BY <2>1, <2>2, <2>3
    <3>3. /\ Numbers(Tail(kept)) \in Seq(Nat) /\ Len(Numbers(Tail(kept))) = Len(kept) - 1
          /\ \A i \in 1..Len(kept) - 1 : Numbers(Tail(kept))[i] = Tail(kept)[i].seq
      BY <3>1, NumbersOf
    <3>4. ASSUME NEW i \in 1..Len(kept) - 1
          PROVE  Numbers(Tail(kept))[i] = Tail(Numbers(kept))[i]
      <4>1. i + 1 \in 1..Len(kept)
        BY <2>2
      <4> QED
        BY <2>1, <3>1, <3>2, <3>3, <4>1
    <3> QED
      BY ONLY <3>2, <3>3, <3>4, SameNumbers
  <2>5. got'.seq = Head(Numbers(kept)) /\ Numbers(items') = Tail(Numbers(kept))
    BY <1>1, <1>5, <2>3, <2>4
  <2>6. \E f \in Fifo!Kept(Numbers(items)) :
          /\ f # <<>> /\ got'.seq = Head(f) /\ Numbers(items') = Tail(f)
          /\ latest'.seq = latest.seq
    BY <1>1, <1>2, <2>3, <2>5
  <2> QED
    BY <2>6 DEF Fifo!Take, Numbers
<1> QED
  BY <1>4, <1>5

LEMMA RecoverSheds ==
  ASSUME BytesExact, Recover
  PROVE  Fifo!Shed
<1> DEFINE k == Shed(items, bytes, TRUE)
<1>1. items' = Suffix(items, k) /\ got' = got /\ latest' = latest
  BY DEF Recover
<1>2. TRUE \in BOOLEAN
  OBVIOUS
<1>3. Numbers(Suffix(items, k)) \in Fifo!Kept(Numbers(items))
  <2> HIDE DEF k
  <2> QED
    BY <1>2, TrimKept DEF k
<1> HIDE DEF k
<1>4. Numbers(items') \in Fifo!Kept(Numbers(items))
  BY <1>1, <1>3
<1> QED
  BY <1>1, <1>4 DEF Fifo!Shed, Numbers

\* The FIFO promises its users what FreshFifo says: a batch that arrives is an
\* offer, take() a take or, if it leaves nothing to take, a loss of the oldest,
\* recover() such a loss, and the rest goes unnoticed.
THEOREM Implements == Spec => FifoImplemented
<1>1. Init => Fifo!Init
  <2> SUFFICES ASSUME Init PROVE Fifo!Init
    OBVIOUS
  <2>1. items = <<>> /\ latest.seq = 0 /\ got.seq = 0
    BY DEF Init, NoItem
  <2>2. [i \in DOMAIN items |-> items[i].seq] = <<>>
    BY <2>1
  <2> QED
    BY <2>1, <2>2 DEF Fifo!Init
<1>2. BytesExact /\ [Next]_vars => [Fifo!Offer \/ Fifo!Shed \/ Fifo!Take]_(Fifo!vars)
  <2> SUFFICES ASSUME BytesExact, [Next]_vars
               PROVE  Fifo!Offer \/ Fifo!Shed \/ Fifo!Take \/ UNCHANGED Fifo!vars
    OBVIOUS
  <2>1. CASE Tick
    BY <2>1 DEF Tick, Fifo!vars
  <2>2. CASE ResultSent
    BY <2>2 DEF ResultSent, Fifo!vars
  <2>3. CASE UNCHANGED vars
    BY <2>3 DEF vars, Fifo!vars
  <2> QED
    BY <2>1, <2>2, <2>3, ReceiveOffers, TakeImplements, RecoverSheds DEF Next
<1> QED
  BY <1>1, <1>2, BytesAreExact, PTL DEF Spec, FifoImplemented, Fifo!Spec

=============================================================================
