------------------------- MODULE VoxelStreamsProofs -------------------------
(***************************************************************************)
(* Theorems about module VoxelStreams, for every value of its constants.   *)
(***************************************************************************)
EXTENDS VoxelStreams, WellFoundedInduction, SequenceTheorems, TLAPS

-----------------------------------------------------------------------------
(* Induction over the natural numbers for a set of them, rather than for a *)
(* predicate: proofs about recursive functions cite it.                    *)

\* A set of natural numbers that is not empty has a least element.
LEMMA LeastNatural ==
  ASSUME NEW T \in SUBSET Nat, T # {}
  PROVE  \E x \in T : \A y \in T : x <= y
<1> DEFINE Less == OpToRel(<, Nat)
<1>1. PICK x \in T : \A y \in T : ~ (<<y, x>> \in Less)
  BY NatLessThanWellFounded, WFMin, Zenon
<1>2. Less = {p \in Nat \X Nat : p[1] < p[2]}
  BY Zenon DEF OpToRel
<1> HIDE DEF Less
<1>3. ASSUME NEW y \in T, y < x PROVE FALSE
  <2>1. <<y, x>> \in Nat \X Nat /\ <<y, x>>[1] = y /\ <<y, x>>[2] = x
    OBVIOUS
  <2> QED
    BY <1>1, <1>2, <1>3, <2>1
<1> QED
  BY <1>3

\* A set of natural numbers that holds 0 and the successor of each of its
\* elements is all of Nat.
LEMMA SetInduction ==
  ASSUME NEW S \in SUBSET Nat, 0 \in S, \A n \in S : n + 1 \in S
  PROVE  S = Nat
<1> SUFFICES ASSUME Nat \ S # {} PROVE FALSE
  OBVIOUS
<1>1. PICK x \in Nat \ S : \A y \in Nat \ S : x <= y
  BY LeastNatural
<1>2. x - 1 \in S /\ x - 1 \in Nat
  BY <1>1
<1> QED
  BY <1>1, <1>2

-----------------------------------------------------------------------------
(* History(q, v, s), the recursive function that runs the operations q on   *)
(* the content v of slot s                                                  *)

\* f solves the recursive definition inside History(q, v, s) on 0..n.
Runs(f, q, v, s, n) ==
  f = [i \in 0..n |-> IF i = 0 THEN v ELSE Then(f[i - 1], q[i], s)]

\* Every bound has a solution: the one for n is extended to n + 1.
LEMMA RunsExist ==
  ASSUME NEW q, NEW v, NEW s
  PROVE  \A n \in Nat : \E f : Runs(f, q, v, s, n)
<1> DEFINE Step(f, i) == IF i = 0 THEN v ELSE Then(f[i - 1], q[i], s)
           S == {n \in Nat : \E f : f = [i \in 0..n |-> Step(f, i)]}
<1>1. 0 \in S
  <2> DEFINE f == [i \in 0..0 |-> v]
  <2>1. f = [i \in 0..0 |-> Step(f, i)]
    OBVIOUS
  <2> QED
    BY <2>1
<1>2. ASSUME NEW n \in S PROVE n + 1 \in S
  <2>1. PICK f : f = [i \in 0..n |-> Step(f, i)]
    OBVIOUS
  <2> DEFINE h == [i \in 0..n + 1 |-> Step(f, i)]
  <2>2. ASSUME NEW i \in 0..n + 1 PROVE h[i] = Step(h, i)
    <3>1. CASE i = 0
      BY <3>1
    <3>2. CASE i # 0
      <4>1. i - 1 \in 0..n /\ i - 1 \in 0..n + 1
        BY <3>2
      <4>2. f[i - 1] = Step(f, i - 1)
        BY <2>1, <4>1
      <4>3. h[i - 1] = Step(f, i - 1)
        BY <4>1
      <4>4. h[i - 1] = f[i - 1]
        BY <4>2, <4>3
      <4> QED
        BY <3>2, <4>4
    <3> QED
      BY <3>1, <3>2
  <2>3. h = [i \in 0..n + 1 |-> Step(h, i)]
    BY <2>2
  <2>4. \E k : k = [i \in 0..n + 1 |-> Step(k, i)]
    <3> HIDE DEF h, Step
    <3> QED
      BY <2>3, Zenon
  <2>5. n + 1 \in Nat
    OBVIOUS
  <2> HIDE DEF Step
  <2> QED
    BY <2>4, <2>5
<1>3. S = Nat
  <2> HIDE DEF Step
  <2> QED
    BY <1>1, <1>2, SetInduction
<1> QED
  BY <1>3 DEF Runs

LEMMA HistoryIs ==
  ASSUME NEW q, NEW v, NEW s, Len(q) \in Nat
  PROVE  Runs(History(q, v, s), q, v, s, Len(q))
<1> DEFINE K == CHOOSE f : Runs(f, q, v, s, Len(q))
<1>1. \E f : Runs(f, q, v, s, Len(q))
  BY RunsExist
<1>2. Runs(K, q, v, s, Len(q))
  BY <1>1, Zenon
<1>3. History(q, v, s) = K
  BY Zenon DEF History, Runs
<1> QED
  BY <1>2, <1>3

LEMMA HistoryStep ==
  ASSUME NEW q, NEW v, NEW s, Len(q) \in Nat
  PROVE  /\ History(q, v, s)[0] = v
         /\ \A i \in 1..Len(q) : History(q, v, s)[i] = Then(History(q, v, s)[i - 1], q[i], s)
<1> DEFINE h == History(q, v, s)
<1>1. h = [i \in 0..Len(q) |-> IF i = 0 THEN v ELSE Then(h[i - 1], q[i], s)]
  BY HistoryIs DEF Runs
<1> HIDE DEF h
<1>2. 0 \in 0..Len(q) /\ \A i \in 1..Len(q) : i \in 0..Len(q) /\ i # 0
  OBVIOUS
<1>3. h[0] = v
  BY <1>1, <1>2
<1>4. \A i \in 1..Len(q) : h[i] = Then(h[i - 1], q[i], s)
  BY <1>1, <1>2
<1> QED
  BY <1>3, <1>4 DEF h

\* Whatever starts at v and takes the steps of q is its history.
LEMMA HistoryUnique ==
  ASSUME NEW q, NEW v, NEW s, Len(q) \in Nat, NEW n \in 0..Len(q),
         NEW h, h[0] = v, \A i \in 1..n : h[i] = Then(h[i - 1], q[i], s)
  PROVE  \A i \in 0..n : h[i] = History(q, v, s)[i]
<1> DEFINE H == History(q, v, s)
           S == {i \in Nat : i <= n => h[i] = H[i]}
<1>1. H[0] = v /\ \A i \in 1..n : H[i] = Then(H[i - 1], q[i], s)
  <2>1. \A i \in 1..n : i \in 1..Len(q)
    OBVIOUS
  <2> QED
    BY <2>1, HistoryStep
<1> HIDE DEF H
<1>2. 0 \in S
  BY <1>1
<1>3. ASSUME NEW i \in S PROVE i + 1 \in S
  <2> SUFFICES ASSUME i + 1 <= n PROVE h[i + 1] = H[i + 1]
    OBVIOUS
  <2>1. h[i] = H[i] /\ i + 1 \in 1..n /\ (i + 1) - 1 = i
    OBVIOUS
  <2>2. h[i + 1] = Then(h[i], q[i + 1], s)
    BY <2>1
  <2>3. H[i + 1] = Then(H[i], q[i + 1], s)
    BY <1>1, <2>1
  <2> QED
    BY <2>1, <2>2, <2>3
<1>4. S = Nat
  <2> HIDE DEF S
  <2>1. S \in SUBSET Nat
    BY DEF S
  <2> QED
    BY <1>2, <1>3, <2>1, SetInduction
<1> QED
  BY <1>4 DEF H

\* Operations that are queued later change nothing before them.
LEMMA HistoryExtends ==
  ASSUME NEW q, NEW r, NEW v, NEW s, Len(q) \in Nat, Len(r) \in Nat, Len(q) <= Len(r),
         \A i \in 1..Len(q) : r[i] = q[i]
  PROVE  \A i \in 0..Len(q) : History(r, v, s)[i] = History(q, v, s)[i]
<1> DEFINE h == History(r, v, s)
<1>1. h[0] = v /\ \A i \in 1..Len(q) : h[i] = Then(h[i - 1], q[i], s)
  <2>1. \A i \in 1..Len(q) : i \in 1..Len(r)
    OBVIOUS
  <2> QED
    BY <2>1, HistoryStep
<1> HIDE DEF h
<1>2. Len(q) \in 0..Len(q)
  OBVIOUS
<1>3. \A i \in 0..Len(q) : h[i] = History(q, v, s)[i]
  BY <1>1, <1>2, HistoryUnique
<1> QED
  BY <1>3 DEF h

LEMMA HistoryAppend ==
  ASSUME NEW q \in Seq(Op), NEW op \in Op, NEW v, NEW s
  PROVE  /\ \A i \in 0..Len(q) : History(Append(q, op), v, s)[i] = History(q, v, s)[i]
         /\ History(Append(q, op), v, s)[Len(q) + 1]
              = Then(History(q, v, s)[Len(q)], op, s)
<1> DEFINE r == Append(q, op)
<1>1. /\ Len(q) \in Nat /\ Len(r) = Len(q) + 1 /\ r[Len(q) + 1] = op
      /\ \A i \in 1..Len(q) : r[i] = q[i]
  BY AppendProperties
<1> HIDE DEF r
<1>2. Len(r) \in Nat /\ Len(q) <= Len(r) /\ Len(q) + 1 \in 1..Len(r)
      /\ (Len(q) + 1) - 1 = Len(q) /\ Len(q) \in 0..Len(q)
  BY <1>1
<1>3. \A i \in 0..Len(q) : History(r, v, s)[i] = History(q, v, s)[i]
  BY <1>1, <1>2, HistoryExtends
<1>4. History(r, v, s)[Len(q) + 1] = Then(History(r, v, s)[Len(q)], r[Len(q) + 1], s)
  BY <1>2, HistoryStep
<1>5. History(r, v, s)[Len(q) + 1] = Then(History(q, v, s)[Len(q)], op, s)
  BY <1>1, <1>2, <1>3, <1>4
<1> QED
  BY <1>3, <1>5 DEF r

\* When the first operation has run, the history goes on from what it left.
LEMMA HistoryTail ==
  ASSUME NEW q \in Seq(Op), q # <<>>, NEW v, NEW s
  PROVE  \A i \in 0..(Len(q) - 1) :
           History(Tail(q), Then(v, Head(q), s), s)[i] = History(q, v, s)[i + 1]
<1> DEFINE N == Len(q) - 1
           H == History(q, v, s)
           t == Tail(q)
           w == Then(v, Head(q), s)
           h == [i \in 0..N |-> H[i + 1]]
<1>1. /\ N \in Nat /\ Len(q) = N + 1 /\ Len(t) = N /\ Head(q) = q[1]
      /\ \A i \in 1..N : t[i] = q[i + 1]
  BY EmptySeq
<1>2. H[0] = v /\ \A i \in 1..N + 1 : H[i] = Then(H[i - 1], q[i], s)
  <2> HIDE DEF N
  <2> QED
    BY <1>1, HistoryStep
<1> HIDE DEF N, H, t
<1>3. h[0] = w
  <2>1. 1 \in 1..N + 1 /\ 1 - 1 = 0 /\ 0 \in 0..N /\ 0 + 1 = 1
    BY <1>1
  <2>2. H[1] = Then(H[1 - 1], q[1], s)
    BY <1>2, <2>1
  <2> QED
    BY <1>1, <1>2, <2>1, <2>2
<1>4. ASSUME NEW i \in 1..N PROVE h[i] = Then(h[i - 1], t[i], s)
  <2>1. /\ i \in 0..N /\ i - 1 \in 0..N /\ i + 1 \in 1..N + 1
        /\ (i + 1) - 1 = i /\ (i - 1) + 1 = i
    BY <1>1
  <2>2. h[i] = H[i + 1] /\ h[i - 1] = H[i]
    BY <2>1
  <2>3. H[i + 1] = Then(H[i], q[i + 1], s)
    BY <1>2, <2>1
  <2> QED
    BY <1>1, <2>2, <2>3
<1>5. \A i \in 0..N : h[i] = H[i + 1]
  OBVIOUS
<1> HIDE DEF h, w
<1>6. N \in 0..Len(t) /\ Len(t) \in Nat
  BY <1>1
<1>7. \A i \in 0..N : h[i] = History(t, w, s)[i]
  <2>1. \A i \in 1..N : h[i] = Then(h[i - 1], t[i], s)
    BY <1>4
  <2>2. ASSUME NEW n \in 0..Len(t), \A i \in 1..n : h[i] = Then(h[i - 1], t[i], s)
        PROVE  \A i \in 0..n : h[i] = History(t, w, s)[i]
    BY ONLY <1>3, <1>6, <2>2, HistoryUnique
  <2> QED
    BY ONLY <1>6, <2>1, <2>2
<1> QED
  BY <1>5, <1>7 DEF N, H, t, w

-----------------------------------------------------------------------------
(* One slot, when its voxel or voxel_stream moves on                        *)

\* Only later operations are added to voxel_stream.
Extended ==
  /\ vStream' \in Seq(Op) /\ Len(vStream) <= Len(vStream')
  /\ \A i \in 1..Len(vStream) : vStream'[i] = vStream[i]
  /\ voxel' = voxel /\ vRan' = vRan

LEMMA ContentExtends ==
  ASSUME TypeOK, Extended, NEW s \in Slot
  PROVE  \A i \in 0..Len(vStream) : Content(s)'[i] = Content(s)[i]
<1>1. Len(vStream) \in Nat /\ Len(vStream') \in Nat
  BY DEF TypeOK, Extended
<1>2. \A i \in 0..Len(vStream) : History(vStream', voxel[s], s)[i] = History(vStream, voxel[s], s)[i]
  BY <1>1, HistoryExtends DEF Extended
<1> QED
  BY <1>2 DEF Content, Extended

LEMMA Queued ==
  ASSUME TypeOK, NEW op \in Op, vStream' = Append(vStream, op), voxel' = voxel, vRan' = vRan
  PROVE  /\ Extended
         /\ Len(vStream) \in Nat /\ Len(vStream') = Len(vStream) + 1
         /\ vStream'[Len(vStream) + 1] = op
         /\ VQueued' = VQueued + 1 /\ VQueued \in Nat
         /\ \A s \in Slot : /\ \A i \in 0..Len(vStream) : Content(s)'[i] = Content(s)[i]
                            /\ Finally(s)' = Then(Finally(s), op, s)
<1>1. vStream \in Seq(Op) /\ vRan \in Nat
  BY DEF TypeOK
<1>2. /\ Len(vStream) \in Nat /\ vStream' \in Seq(Op) /\ Len(vStream') = Len(vStream) + 1
      /\ vStream'[Len(vStream) + 1] = op
      /\ \A i \in 1..Len(vStream) : vStream'[i] = vStream[i]
  BY <1>1, AppendProperties
<1>3. Extended
  <2>1. Len(vStream) <= Len(vStream')
    BY <1>2
  <2> QED
    BY <1>2, <2>1 DEF Extended
<1>4. VQueued' = VQueued + 1 /\ VQueued \in Nat
  BY ONLY <1>1, <1>2, vRan' = vRan DEF VQueued
<1>5. ASSUME NEW s \in Slot PROVE Finally(s)' = Then(Finally(s), op, s)
  <2>1. History(vStream', voxel'[s], s)[Len(vStream) + 1]
          = Then(History(vStream, voxel[s], s)[Len(vStream)], op, s)
    BY <1>1, HistoryAppend
  <2> QED
    BY <1>2, <2>1 DEF Finally, Content
<1> QED
  BY <1>2, <1>3, <1>4, <1>5, ContentExtends

LEMMA OpOfOther ==
  ASSUME NEW c, NEW op, NEW s, op.slot # s
  PROVE  Then(c, op, s) = c
BY DEF Then

\* Nothing happens to a slot.
LEMMA SlotSame ==
  ASSUME NEW s \in Slot, ContentInv(s), vStream' = vStream, voxel' = voxel, vRan' = vRan,
         slots'[s] = slots[s], slots[s].st = "FILLING" => Staged' = Staged
  PROVE  ContentInv(s)'
<1> USE DEF ContentInv, Finally, Content, Holds, VQueued
<1>1. CASE slots[s].st = "FILLING"
  BY <1>1
<1>2. CASE slots[s].st # "FILLING"
  BY <1>2
<1> QED
  BY <1>1, <1>2

\* A window changes hands.
LEMMA SlotMoved ==
  ASSUME NEW s \in Slot, ContentInv(s), vStream' = vStream, voxel' = voxel, vRan' = vRan,
         slots[s].st \in {"READY", "INFERENCING"}, slots'[s].st \in {"READY", "INFERENCING"},
         slots'[s].filled = slots[s].filled, slots'[s].events = slots[s].events
  PROVE  ContentInv(s)'
BY DEF ContentInv, Finally, Content, Holds, VQueued

\* An operation on another slot is queued.
LEMMA SlotQueued ==
  ASSUME TypeOK, NEW s \in Slot, ContentInv(s), NEW op \in Op, op.slot # s,
         vStream' = Append(vStream, op), voxel' = voxel, vRan' = vRan,
         slots'[s] = slots[s], slots[s].st = "FILLING" => Staged' = Staged
  PROVE  ContentInv(s)'
<1>1. /\ Len(vStream) \in Nat /\ Len(vStream') = Len(vStream) + 1
      /\ VQueued' = VQueued + 1 /\ VQueued \in Nat
      /\ \A i \in 0..Len(vStream) : Content(s)'[i] = Content(s)[i]
      /\ Finally(s)' = Then(Finally(s), op, s)
  BY Queued
<1>2. Finally(s)' = Finally(s)
  BY <1>1, OpOfOther
<1>3. CASE slots[s].st \in {"FREE", "FILLING"}
  BY <1>2, <1>3 DEF ContentInv
<1>4. CASE slots[s].st \in {"READY", "INFERENCING"}
  <2> DEFINE from == slots[s].filled
             e == slots[s].events
             N == Len(vStream)
  <2>1. from <= VQueued /\ Holds(s, from, N, e)
    BY <1>4 DEF ContentInv
  <2>2. from \in Nat
    BY DEF TypeOK
  <2>3. from <= VQueued'
    BY <1>1, <2>1, <2>2
  <2>4. Content(s)[N] = e
    <3>1. N \in 0..N /\ from <= vRan + N
      BY <1>1, <2>1 DEF VQueued
    <3> QED
      BY <2>1, <3>1 DEF Holds
  <2>5. Content(s)'[N + 1] = e
    BY <1>1, <1>2, <2>4 DEF Finally
  <2>6. ASSUME NEW i \in 0..Len(vStream'), from <= vRan' + i PROVE Content(s)'[i] = e
    <3>1. CASE i = N + 1
      BY <2>5, <3>1
    <3>2. CASE i # N + 1
      <4>1. i \in 0..N
        BY <1>1, <3>2
      <4> QED
        BY <1>1, <2>1, <2>6, <4>1 DEF Holds
    <3> QED
      BY <3>1, <3>2
  <2> QED
    BY <1>4, <2>3, <2>6 DEF ContentInv, Holds
<1>5. slots[s].st \in {"FREE", "FILLING", "READY", "INFERENCING"}
  BY DEF TypeOK
<1> QED
  BY <1>3, <1>4, <1>5

\* Its own zeroing is queued, and it is FREE.
LEMMA SlotCleared ==
  ASSUME TypeOK, NEW s \in Slot, NEW after \in Nat, vStream' = Append(vStream, Zero(s, after)),
         voxel' = voxel, vRan' = vRan, slots'[s] = Free
  PROVE  Zero(s, after) \in Op /\ ContentInv(s)'
<1>1. Zero(s, after) \in Op
  BY SizesAssumption DEF Zero, Op
<1>2. Finally(s)' = Then(Finally(s), Zero(s, after), s)
  BY <1>1, Queued
<1>3. Finally(s)' = <<>>
  BY <1>2 DEF Then, Zero
<1> QED
  BY <1>1, <1>3 DEF ContentInv, Free

\* The first operation of voxel_stream runs.
LEMMA ContentRun ==
  ASSUME TypeOK, FillInv, VRun
  PROVE  /\ Len(vStream) \in Nat /\ Len(vStream) >= 1 /\ Len(vStream') = Len(vStream) - 1
         /\ vRan \in Nat /\ vRan' = vRan + 1
         /\ \A i \in 1..Len(vStream') : vStream'[i] = vStream[i + 1]
         /\ \A s \in Slot : \A i \in 0..Len(vStream') : Content(s)'[i] = Content(s)[i + 1]
<1>1. /\ vStream \in Seq(Op) /\ vStream # <<>> /\ vStream' = Tail(vStream)
      /\ vRan \in Nat /\ vRan' = vRan + 1
  BY DEF TypeOK, VRun, VReady
<1>2. /\ Len(vStream) \in Nat /\ Len(vStream) >= 1 /\ Len(vStream') = Len(vStream) - 1
      /\ Head(vStream) = vStream[1] /\ Head(vStream) \in Op
      /\ \A i \in 1..Len(vStream') : vStream'[i] = vStream[i + 1]
  BY <1>1
<1> DEFINE op == Head(vStream)
<1>3. op.do = "fill" => SubSeq(staging[op.stage].mem, 1, op.n) = op.events
  <2>1. 1 \in DOMAIN vStream
    BY <1>1, <1>2
  <2> QED
    BY <1>2, <2>1 DEF FillInv
<1>4. op.slot \in Slot /\ op.do \in {"fill", "zero"}
  BY <1>2 DEF Op
<1>5. ASSUME NEW s \in Slot PROVE voxel'[s] = Then(voxel[s], op, s)
  <2>1. voxel \in [Slot -> Seq(Nat)]
    BY DEF TypeOK
  <2>2. voxel' = [voxel EXCEPT ![op.slot] =
                    IF op.do = "zero" THEN <<>> ELSE @ \o SubSeq(staging[op.stage].mem, 1, op.n)]
    BY DEF VRun
  <2> HIDE DEF op
  <2>3. CASE op.slot # s
    BY <2>1, <2>2, <2>3 DEF Then
  <2>4. CASE op.slot = s /\ op.do = "zero"
    BY <2>1, <2>2, <2>4 DEF Then
  <2>5. CASE op.slot = s /\ op.do # "zero"
    <3>1. op.events = SubSeq(staging[op.stage].mem, 1, op.n)
      BY <1>3, <1>4, <2>5
    <3>2. voxel'[s] = voxel[s] \o SubSeq(staging[op.stage].mem, 1, op.n)
      BY <2>1, <2>2, <2>5
    <3> QED
      BY <2>5, <3>1, <3>2 DEF Then
  <2> QED
    BY <2>3, <2>4, <2>5
<1>6. ASSUME NEW s \in Slot
      PROVE  \A i \in 0..Len(vStream') : Content(s)'[i] = Content(s)[i + 1]
  <2>1. \A i \in 0..(Len(vStream) - 1) :
          History(vStream', Then(voxel[s], op, s), s)[i] = History(vStream, voxel[s], s)[i + 1]
    BY <1>1, HistoryTail
  <2> HIDE DEF op
  <2> QED
    BY <1>2, <1>5, <2>1 DEF Content
<1> QED
  BY <1>1, <1>2, <1>6

LEMMA SlotRun ==
  ASSUME TypeOK, FillInv, VRun, NEW s \in Slot, ContentInv(s)
  PROVE  ContentInv(s)'
<1>1. /\ Len(vStream) \in Nat /\ Len(vStream) >= 1 /\ Len(vStream') = Len(vStream) - 1
      /\ vRan \in Nat /\ vRan' = vRan + 1
      /\ \A i \in 0..Len(vStream') : Content(s)'[i] = Content(s)[i + 1]
  BY ContentRun
<1>2. slots' = slots /\ Staged' = Staged
  BY DEF VRun, Staged, builderVars
<1>3. Finally(s)' = Finally(s)
  <2>1. Len(vStream') \in 0..Len(vStream') /\ Len(vStream') + 1 = Len(vStream)
    BY <1>1
  <2> QED
    BY <1>1, <2>1 DEF Finally
<1>4. CASE slots[s].st \in {"FREE", "FILLING"}
  BY <1>2, <1>3, <1>4 DEF ContentInv
<1>5. CASE slots[s].st \in {"READY", "INFERENCING"}
  <2> DEFINE from == slots[s].filled
             e == slots[s].events
  <2>1. from <= VQueued /\ Holds(s, from, Len(vStream), e)
    BY <1>5 DEF ContentInv
  <2>2. VQueued' = VQueued
    BY <1>1 DEF VQueued
  <2>3. ASSUME NEW i \in 0..Len(vStream'), from <= vRan' + i PROVE Content(s)'[i] = e
    <3>1. i + 1 \in 0..Len(vStream) /\ vRan' + i = vRan + (i + 1)
      BY <1>1
    <3>2. Content(s)[i + 1] = e
      BY <2>1, <2>3, <3>1 DEF Holds
    <3> QED
      BY <1>1, <3>2
  <2> QED
    BY <1>2, <1>5, <2>1, <2>2, <2>3 DEF ContentInv, Holds
<1>6. slots[s].st \in {"FREE", "FILLING", "READY", "INFERENCING"}
  BY DEF TypeOK
<1> QED
  BY <1>4, <1>5, <1>6

-----------------------------------------------------------------------------
(* Staging buffers                                                          *)

LEMMA OpsTyped ==
  ASSUME TypeOK, NEW i \in DOMAIN vStream
  PROVE  /\ i \in 1..Len(vStream) /\ vStream[i] \in Op
         /\ vStream[i].stage \in 0..Stages /\ vStream[i].slot \in Slot
<1>1. vStream \in Seq(Op)
  BY DEF TypeOK
<1>2. i \in 1..Len(vStream) /\ vStream[i] \in Op
  BY <1>1
<1> QED
  BY <1>2 DEF Op

NoTransfer(b) == \A i \in DOMAIN vStream : vStream[i].do = "fill" => vStream[i].stage # b

\* A buffer that is not in use, or whose last transfer has run, has none left.
LEMMA Transferred ==
  ASSUME TypeOK, FillInv, NEW b \in Stage, staging[b].used => staging[b].done <= vRan
  PROVE  NoTransfer(b)
<1> SUFFICES ASSUME NEW i \in DOMAIN vStream, vStream[i].do = "fill", vStream[i].stage = b
             PROVE  FALSE
  BY DEF NoTransfer
<1>1. staging[b].used /\ staging[b].done = vRan + i
  BY DEF FillInv
<1>2. vRan \in Nat /\ i \in Nat /\ i >= 1
  BY DEF TypeOK
<1> QED
  BY <1>1, <1>2

LEMMA FillSame ==
  ASSUME FillInv, vStream' = vStream, vRan' = vRan, staging' = staging
  PROVE  FillInv'
BY DEF FillInv

\* A buffer without a transfer is written.
LEMMA FillWritten ==
  ASSUME TypeOK, FillInv, NEW b \in Stage, NoTransfer(b),
         vStream' = vStream, vRan' = vRan, \A c \in Stage : c # b => staging'[c] = staging[c]
  PROVE  FillInv'
<1> SUFFICES ASSUME NEW i \in DOMAIN vStream, vStream[i].do = "fill"
             PROVE  /\ vStream[i].stage # 0
                    /\ staging'[vStream[i].stage].used
                    /\ staging'[vStream[i].stage].done = vRan + i
                    /\ SubSeq(staging'[vStream[i].stage].mem, 1, vStream[i].n) = vStream[i].events
  BY DEF FillInv
<1>1. vStream[i].stage # b /\ vStream[i].stage # 0
  BY DEF NoTransfer, FillInv
<1>2. vStream[i].stage \in 0..Stages
  BY OpsTyped
<1>3. vStream[i].stage \in Stage
  BY <1>1, <1>2, SizesAssumption DEF Stage
<1>4. staging'[vStream[i].stage] = staging[vStream[i].stage]
  BY <1>1, <1>3
<1> QED
  BY <1>1, <1>4 DEF FillInv

\* A zeroing is queued.
LEMMA FillZero ==
  ASSUME TypeOK, FillInv, NEW op \in Op, op.do = "zero", vStream' = Append(vStream, op),
         voxel' = voxel, vRan' = vRan, staging' = staging
  PROVE  FillInv'
<1>1. /\ Len(vStream) \in Nat /\ Len(vStream') = Len(vStream) + 1
      /\ vStream'[Len(vStream) + 1] = op /\ Extended
      /\ DOMAIN vStream = 1..Len(vStream)
  <2>1. vStream \in Seq(Op)
    BY DEF TypeOK
  <2>2. DOMAIN vStream = 1..Len(vStream)
    BY <2>1
  <2> QED
    BY <2>2, Queued
<1>2. vStream' \in Seq(Op) /\ \A i \in 1..Len(vStream) : vStream'[i] = vStream[i]
  BY <1>1 DEF Extended
<1> SUFFICES ASSUME NEW i \in DOMAIN vStream', vStream'[i].do = "fill"
             PROVE  /\ vStream'[i].stage # 0
                    /\ staging[vStream'[i].stage].used
                    /\ staging[vStream'[i].stage].done = vRan + i
                    /\ SubSeq(staging[vStream'[i].stage].mem, 1, vStream'[i].n)
                         = vStream'[i].events
  BY DEF FillInv
<1>3. i \in 1..Len(vStream)
  <2>1. i \in 1..(Len(vStream) + 1) /\ i # Len(vStream) + 1
    BY <1>1, <1>2
  <2> QED
    BY ONLY <1>1, <2>1
<1>4. vStream'[i] = vStream[i] /\ i \in DOMAIN vStream
  BY <1>1, <1>2, <1>3
<1> QED
  BY <1>4 DEF FillInv

\* What a buffer without a transfer holds is queued.
LEMMA FillQueued ==
  ASSUME TypeOK, FillInv, NEW b \in Stage, NoTransfer(b), NEW op \in Op,
         op.do = "fill", op.stage = b,
         vStream' = Append(vStream, op), voxel' = voxel, vRan' = vRan,
         \A c \in Stage : c # b => staging'[c] = staging[c],
         staging'[b].used, staging'[b].done = VQueued + 1,
         SubSeq(staging'[b].mem, 1, op.n) = op.events
  PROVE  FillInv'
<1>1. /\ Len(vStream) \in Nat /\ Len(vStream') = Len(vStream) + 1
      /\ vStream'[Len(vStream) + 1] = op /\ Extended
      /\ DOMAIN vStream = 1..Len(vStream) /\ vRan \in Nat
  BY Queued DEF TypeOK
<1>2. vStream' \in Seq(Op) /\ \A i \in 1..Len(vStream) : vStream'[i] = vStream[i]
  BY <1>1 DEF Extended
<1> SUFFICES ASSUME NEW i \in DOMAIN vStream', vStream'[i].do = "fill"
             PROVE  /\ vStream'[i].stage # 0
                    /\ staging'[vStream'[i].stage].used
                    /\ staging'[vStream'[i].stage].done = vRan + i
                    /\ SubSeq(staging'[vStream'[i].stage].mem, 1, vStream'[i].n)
                         = vStream'[i].events
  BY DEF FillInv
<1>3. CASE i = Len(vStream) + 1
  <2>1. vStream'[i] = op /\ b # 0
    BY <1>1, <1>3, SizesAssumption DEF Stage
  <2>2. VQueued + 1 = vRan + i
    BY <1>1, <1>3 DEF VQueued
  <2> QED
    BY <2>1, <2>2
<1>4. CASE i # Len(vStream) + 1
  <2>1. i \in 1..(Len(vStream) + 1)
    BY <1>1, <1>2
  <2>2. i \in 1..Len(vStream)
    BY ONLY <1>1, <1>4, <2>1
  <2>3. vStream'[i] = vStream[i] /\ i \in DOMAIN vStream
    BY <1>1, <1>2, <2>2
  <2>4. vStream[i].stage # b /\ vStream[i].stage # 0
    BY <2>3 DEF NoTransfer, FillInv
  <2>5. vStream[i].stage \in 0..Stages
    BY <2>3, OpsTyped
  <2>6. vStream[i].stage \in Stage
    BY <2>4, <2>5, SizesAssumption DEF Stage
  <2>7. staging'[vStream[i].stage] = staging[vStream[i].stage]
    BY <2>4, <2>6
  <2> QED
    BY <2>3, <2>4, <2>7 DEF FillInv
<1> QED
  BY <1>3, <1>4

LEMMA FillRun ==
  ASSUME TypeOK, FillInv, VRun
  PROVE  FillInv'
<1>1. /\ Len(vStream) \in Nat /\ Len(vStream) >= 1 /\ Len(vStream') = Len(vStream) - 1
      /\ vRan \in Nat /\ vRan' = vRan + 1
      /\ \A i \in 1..Len(vStream') : vStream'[i] = vStream[i + 1]
  BY ContentRun
<1>2. vStream' \in Seq(Op) /\ vStream \in Seq(Op) /\ staging' = staging
  BY DEF TypeOK, VRun, VReady
<1> SUFFICES ASSUME NEW i \in DOMAIN vStream', vStream'[i].do = "fill"
             PROVE  /\ vStream'[i].stage # 0
                    /\ staging[vStream'[i].stage].used
                    /\ staging[vStream'[i].stage].done = vRan' + i
                    /\ SubSeq(staging[vStream'[i].stage].mem, 1, vStream'[i].n)
                         = vStream'[i].events
  BY <1>2 DEF FillInv
<1>3. i \in 1..Len(vStream')
  BY <1>2
<1>4. /\ vStream'[i] = vStream[i + 1] /\ i + 1 \in DOMAIN vStream
      /\ vRan' + i = vRan + (i + 1)
  <2>1. i + 1 \in 1..Len(vStream) /\ vRan' + i = vRan + (i + 1)
    BY ONLY <1>1, <1>3
  <2> QED
    BY <1>1, <1>2, <1>3, <2>1
<1> QED
  BY <1>4 DEF FillInv

-----------------------------------------------------------------------------
(* The network that is queued                                               *)

LEMMA GuardExtends ==
  ASSUME TypeOK, Extended, iRan' = iRan, NEW op, op.slot \in Slot, Guarded(op)
  PROVE  Guarded(op)'
<1>1. PICK j \in DOMAIN vStream :
        /\ vStream[j].do = "zero" /\ vStream[j].slot = op.slot
        /\ vStream[j].after = iRan + 1 /\ op.after < vRan + j
        /\ Holds(op.slot, op.after, j - 1, op.events)
  BY DEF Guarded
<1>2. /\ vStream \in Seq(Op) /\ vStream' \in Seq(Op) /\ Len(vStream) <= Len(vStream')
      /\ vStream'[j] = vStream[j] /\ vRan' = vRan /\ j \in 1..Len(vStream)
  BY OpsTyped DEF TypeOK, Extended
<1>3. j \in 1..Len(vStream) /\ j \in DOMAIN vStream'
  BY <1>2
<1>4. \A i \in 0..(j - 1) : i \in 0..Len(vStream)
  BY <1>3
<1>5. \A i \in 0..Len(vStream) : Content(op.slot)'[i] = Content(op.slot)[i]
  BY ContentExtends
<1>6. \A i \in 0..(j - 1) : op.after <= vRan' + i => Content(op.slot)'[i] = op.events
  BY <1>1, <1>2, <1>4, <1>5 DEF Holds
<1>7. \E k \in DOMAIN vStream' :
        /\ vStream'[k].do = "zero" /\ vStream'[k].slot = op.slot
        /\ vStream'[k].after = iRan' + 1 /\ op.after < vRan' + k
        /\ \A i \in 0..(k - 1) : op.after <= vRan' + i => Content(op.slot)'[i] = op.events
  BY <1>1, <1>2, <1>3, <1>6
<1> QED
  BY <1>7 DEF Guarded, Holds

LEMMA GuardRun ==
  ASSUME TypeOK, FillInv, VRun, NEW op, op.slot \in Slot, Guarded(op)
  PROVE  Guarded(op)'
<1>1. PICK j \in DOMAIN vStream :
        /\ vStream[j].do = "zero" /\ vStream[j].slot = op.slot
        /\ vStream[j].after = iRan + 1 /\ op.after < vRan + j
        /\ Holds(op.slot, op.after, j - 1, op.events)
  BY DEF Guarded
<1>2. /\ Len(vStream) \in Nat /\ Len(vStream') = Len(vStream) - 1
      /\ vRan \in Nat /\ vRan' = vRan + 1
      /\ \A i \in 1..Len(vStream') : vStream'[i] = vStream[i + 1]
      /\ \A i \in 0..Len(vStream') : Content(op.slot)'[i] = Content(op.slot)[i + 1]
  BY ContentRun
<1>3. /\ vStream' \in Seq(Op) /\ vStream \in Seq(Op) /\ iRan' = iRan /\ iRan \in Nat
      /\ Head(vStream).after <= iRan /\ Head(vStream) = vStream[1]
  BY DEF TypeOK, VRun, VReady
<1>4. j # 1
  BY <1>1, <1>3
<1> DEFINE k == j - 1
<1>5. /\ k \in 1..Len(vStream') /\ k + 1 = j /\ vRan' + k = vRan + j
      /\ \A i \in 0..(k - 1) : /\ i \in 0..Len(vStream') /\ i + 1 \in 0..(j - 1)
                               /\ vRan' + i = vRan + (i + 1)
  <2>1. j \in 1..Len(vStream)
    BY <1>3
  <2>2. /\ Len(vStream) \in Nat /\ Len(vStream') = Len(vStream) - 1
        /\ vRan \in Nat /\ vRan' = vRan + 1
    BY <1>2
  <2> QED
    BY ONLY <1>4, <2>1, <2>2
<1> HIDE DEF k
<1>6. vStream'[k] = vStream[j] /\ k \in DOMAIN vStream'
  BY <1>2, <1>3, <1>5
<1>7. \A i \in 0..(k - 1) : op.after <= vRan' + i => Content(op.slot)'[i] = op.events
  BY <1>1, <1>2, <1>5 DEF Holds
<1>8. \E m \in DOMAIN vStream' :
        /\ vStream'[m].do = "zero" /\ vStream'[m].slot = op.slot
        /\ vStream'[m].after = iRan' + 1 /\ op.after < vRan' + m
        /\ \A i \in 0..(m - 1) : op.after <= vRan' + i => Content(op.slot)'[i] = op.events
  BY <1>1, <1>3, <1>5, <1>6, <1>7
<1> QED
  BY <1>8 DEF Guarded, Holds

\* The builder queues what it likes on voxel_stream.
LEMMA InferenceExtends ==
  ASSUME TypeOK, InferenceInv, Extended,
         iStream' = iStream, iRan' = iRan, islot' = islot, ipc' = ipc,
         islot # 0 => slots'[islot] = slots[islot]
  PROVE  InferenceInv'
<1>1. /\ ipc \in {"acquire", "failed"} <=> islot = 0
      /\ ipc \in {"acquire", "scope"} => iStream = <<>>
  BY DEF InferenceInv
<1>2. ipc = "queued" =>
        /\ slots'[islot].inferred = IQueued'
        /\ iStream \in {<<>>, <<[events |-> slots'[islot].events, slot |-> islot,
                                 after |-> slots'[islot].filled]>>}
  <2> SUFFICES ASSUME ipc = "queued" PROVE slots'[islot] = slots[islot] /\ IQueued' = IQueued
    BY DEF InferenceInv
  <2> QED
    BY <1>1 DEF IQueued
<1>3. ipc = "failed" /\ iStream # <<>> => Len(iStream) = 1 /\ Guarded(iStream[1])'
  <2> SUFFICES ASSUME ipc = "failed", iStream # <<>>
               PROVE  Len(iStream) = 1 /\ Guarded(iStream[1])'
    OBVIOUS
  <2>1. Len(iStream) = 1 /\ Guarded(iStream[1])
    BY DEF InferenceInv
  <2>2. iStream[1].slot \in Slot
    <3> DEFINE R == [events : Seq(Nat), slot : Slot, after : Nat]
    <3>1. iStream \in Seq(R) /\ Len(iStream) = 1
      BY <2>1 DEF TypeOK
    <3>2. iStream[1] \in R
      <4> HIDE DEF R
      <4> QED
        BY ONLY <3>1
    <3> QED
      BY <3>2
  <2>3. \A op : op.slot \in Slot /\ Guarded(op) => Guarded(op)'
    BY GuardExtends
  <2> QED
    BY <2>1, <2>2, <2>3
<1> QED
  BY <1>1, <1>2, <1>3 DEF InferenceInv

-----------------------------------------------------------------------------
(* Sequences: pinned memory and the READY list                              *)

LEMMA MemoryRead ==
  ASSUME NEW mem \in [1..MaxBatch -> Nat], NEW n \in 0..MaxBatch
  PROVE  /\ SubSeq(mem, 1, n) \in Seq(Nat) /\ Len(SubSeq(mem, 1, n)) = n
         /\ \A i \in 1..n : SubSeq(mem, 1, n)[i] = mem[i]
<1>1. n \in Nat /\ MaxBatch \in Nat /\ 1 \in Int /\ n \in Int
  BY SizesAssumption
<1>2. \A i \in 1..n : mem[i] \in Nat
  BY <1>1
<1>3. /\ SubSeq(mem, 1, n) \in Seq(Nat)
      /\ Len(SubSeq(mem, 1, n)) = IF 1 <= n THEN n - 1 + 1 ELSE 0
      /\ \A i \in 1..(n - 1 + 1) : SubSeq(mem, 1, n)[i] = mem[1 + i - 1]
  BY <1>1, <1>2, SubSeqProperties
<1>4. n - 1 + 1 = n /\ \A i \in 1..n : 1 + i - 1 = i
  BY <1>1
<1>5. Len(SubSeq(mem, 1, n)) = n
  BY <1>1, <1>3, <1>4
<1> QED
  BY <1>3, <1>4, <1>5

LEMMA SameEvents ==
  ASSUME NEW a \in Seq(Nat), NEW b \in Seq(Nat), Len(a) = Len(b),
         \A i \in 1..Len(a) : a[i] = b[i]
  PROVE  a = b
OBVIOUS

LEMMA MemoryWritten ==
  ASSUME NEW mem \in [1..MaxBatch -> Nat], NEW n \in 0..(MaxBatch - 1), NEW x \in Nat
  PROVE  /\ [mem EXCEPT ![n + 1] = x] \in [1..MaxBatch -> Nat]
         /\ SubSeq([mem EXCEPT ![n + 1] = x], 1, n + 1) = Append(SubSeq(mem, 1, n), x)
<1> DEFINE new == [mem EXCEPT ![n + 1] = x]
           a == SubSeq(new, 1, n + 1)
           b == SubSeq(mem, 1, n)
           c == Append(b, x)
<1>1. n \in 0..MaxBatch /\ n + 1 \in 0..MaxBatch /\ n \in Nat /\ n + 1 \in 1..MaxBatch
  BY SizesAssumption
<1>2. /\ new \in [1..MaxBatch -> Nat] /\ new[n + 1] = x
      /\ \A i \in 1..n : new[i] = mem[i]
  BY <1>1
<1>3. a \in Seq(Nat) /\ Len(a) = n + 1 /\ \A i \in 1..n + 1 : a[i] = new[i]
  <2> HIDE DEF new
  <2> QED
    BY <1>1, <1>2, MemoryRead
<1>4. b \in Seq(Nat) /\ Len(b) = n /\ \A i \in 1..n : b[i] = mem[i]
  BY <1>1, MemoryRead
<1> HIDE DEF new, a, b
<1>5. /\ c \in Seq(Nat) /\ Len(c) = n + 1 /\ c[n + 1] = x
      /\ \A i \in 1..n : c[i] = b[i]
  BY <1>4, AppendProperties
<1>6. ASSUME NEW i \in 1..n + 1 PROVE a[i] = c[i]
  <2>1. CASE i = n + 1
    BY <1>1, <1>2, <1>3, <1>5, <2>1
  <2>2. CASE i # n + 1
    <3>1. i \in 1..n
      BY <1>1, <2>2
    <3> QED
      BY <1>2, <1>3, <1>4, <1>5, <3>1
  <2> QED
    BY <2>1, <2>2
<1>7. a = c
  <2> HIDE DEF c
  <2> QED
    BY ONLY <1>3, <1>5, <1>6, SameEvents
<1> QED
  BY <1>2, <1>7 DEF a, b, new

LEMMA AppendToBoth ==
  ASSUME NEW a \in Seq(Nat), NEW b \in Seq(Nat), NEW x \in Nat
  PROVE  Append(a \o b, x) = a \o Append(b, x) /\ Append(b, x) \in Seq(Nat)
<1> DEFINE M == Len(a)
           N == Len(b)
           d == Append(b, x)
           c == a \o b
           l == Append(c, x)
           r == a \o d
<1>1. /\ d \in Seq(Nat) /\ Len(d) = N + 1 /\ d[N + 1] = x
      /\ \A i \in 1..N : d[i] = b[i]
  BY AppendProperties
<1>2. /\ c \in Seq(Nat) /\ Len(c) = M + N
      /\ \A i \in 1..M + N : c[i] = IF i <= M THEN a[i] ELSE b[i - M]
  BY ConcatProperties
<1>3. M \in Nat /\ N \in Nat
  OBVIOUS
<1> HIDE DEF c, d, M, N
<1>4. /\ l \in Seq(Nat) /\ Len(l) = (M + N) + 1 /\ l[(M + N) + 1] = x
      /\ \A i \in 1..M + N : l[i] = c[i]
  BY <1>2, AppendProperties
<1>5. /\ r \in Seq(Nat) /\ Len(r) = M + (N + 1)
      /\ \A i \in 1..M + (N + 1) : r[i] = IF i <= M THEN a[i] ELSE d[i - M]
  <2>1. /\ r \in Seq(Nat) /\ Len(r) = Len(a) + Len(d)
        /\ \A i \in 1..Len(a) + Len(d) : r[i] = IF i <= Len(a) THEN a[i] ELSE d[i - Len(a)]
    BY <1>1, ConcatProperties
  <2> HIDE DEF r
  <2> QED
    BY ONLY <1>1, <2>1 DEF M
<1> HIDE DEF l, r
<1>6. ASSUME NEW i \in 1..(M + N) + 1 PROVE l[i] = r[i]
  <2>1. CASE i = (M + N) + 1
    <3>1. i \in 1..M + (N + 1) /\ ~(i <= M) /\ i - M = N + 1
      BY <1>3, <2>1
    <3> QED
      BY <1>1, <1>4, <1>5, <2>1, <3>1
  <2>2. CASE i # (M + N) + 1
    <3>1. i \in 1..M + N /\ i \in 1..M + (N + 1) /\ (~(i <= M) => i - M \in 1..N)
      BY <1>3, <2>2
    <3> QED
      BY <1>1, <1>2, <1>4, <1>5, <3>1
  <2> QED
    BY <2>1, <2>2
<1>7. Len(l) = Len(r) /\ \A i \in 1..Len(l) : l[i] = r[i]
  <2>1. (M + N) + 1 = M + (N + 1)
    BY <1>3
  <2> QED
    BY <1>4, <1>5, <1>6, <2>1
<1>8. l = r
  BY ONLY <1>4, <1>5, <1>7, SameEvents
<1> QED
  BY <1>1, <1>8 DEF l, r, c, d

LEMMA EmptyStaged ==
  ASSUME NEW a \in Seq(Nat)
  PROVE  a \o <<>> = a /\ <<>> \o a = a /\ <<>> \in Seq(Nat)
OBVIOUS

Distinct(q) == \A i, j \in DOMAIN q : q[i] = q[j] => i = j

LEMMA DistinctAppend ==
  ASSUME NEW q \in Seq(Slot), NEW x \in Slot
  PROVE  /\ Append(q, x) \in Seq(Slot)
         /\ Range(Append(q, x)) = Range(q) \cup {x}
         /\ Distinct(q) /\ x \notin Range(q) => Distinct(Append(q, x))
<1> DEFINE r == Append(q, x)
           N == Len(q)
<1>1. /\ r \in Seq(Slot) /\ Len(r) = N + 1 /\ N \in Nat /\ r[N + 1] = x
      /\ \A i \in 1..N : r[i] = q[i]
      /\ DOMAIN r = 1..N + 1 /\ DOMAIN q = 1..N
  BY AppendProperties
<1> HIDE DEF r, N
<1>2. Range(r) = Range(q) \cup {x}
  <2>1. \A i \in 1..N + 1 : i = N + 1 \/ i \in 1..N
    BY <1>1
  <2>2. N + 1 \in 1..N + 1 /\ \A i \in 1..N : i \in 1..N + 1
    BY <1>1
  <2> QED
    BY <1>1, <2>1, <2>2 DEF Range
<1>3. ASSUME Distinct(q), x \notin Range(q) PROVE Distinct(r)
  <2> SUFFICES ASSUME NEW i \in 1..N + 1, NEW j \in 1..N + 1, r[i] = r[j] PROVE i = j
    BY <1>1 DEF Distinct
  <2>1. (i = N + 1 \/ i \in 1..N) /\ (j = N + 1 \/ j \in 1..N)
    BY <1>1
  <2>2. \A k \in 1..N : q[k] # x
    BY <1>1, <1>3 DEF Range
  <2> QED
    BY <1>1, <1>3, <2>1, <2>2 DEF Distinct
<1> QED
  BY <1>1, <1>2, <1>3 DEF r

\* An element of the list leaves it.
LEMMA DistinctRemove ==
  ASSUME NEW q \in Seq(Slot), NEW n \in DOMAIN q
  PROVE  /\ RemoveAt(q, n) \in Seq(Slot)
         /\ Distinct(q) => /\ Distinct(RemoveAt(q, n))
                           /\ Range(RemoveAt(q, n)) = Range(q) \ {q[n]}
<1> DEFINE r == RemoveAt(q, n)
           N == Len(q)
           a == SubSeq(q, 1, n - 1)
           b == SubSeq(q, n + 1, N)
<1>1. N \in Nat /\ n \in 1..N /\ DOMAIN q = 1..N /\ \A i \in 1..N : q[i] \in Slot
  OBVIOUS
<1>2. /\ a \in Seq(Slot) /\ Len(a) = n - 1 /\ \A i \in 1..n - 1 : a[i] = q[i]
  <2> HIDE DEF N
  <2>1. 1 \in Int /\ n - 1 \in Int /\ \A i \in 1..n - 1 : q[i] \in Slot
    BY <1>1
  <2>2. /\ a \in Seq(Slot) /\ Len(a) = IF 1 <= n - 1 THEN (n - 1) - 1 + 1 ELSE 0
        /\ \A i \in 1..(n - 1) - 1 + 1 : a[i] = q[1 + i - 1]
    BY <2>1, SubSeqProperties
  <2>3. (n - 1) - 1 + 1 = n - 1 /\ \A i \in 1..n - 1 : 1 + i - 1 = i
    BY <1>1
  <2> HIDE DEF a
  <2>4. Len(a) = n - 1
    BY <1>1, <2>2, <2>3
  <2> QED
    BY <2>2, <2>3, <2>4
<1>3. /\ b \in Seq(Slot) /\ Len(b) = N - n /\ \A i \in 1..N - n : b[i] = q[n + i]
  <2> HIDE DEF N
  <2>1. n + 1 \in Int /\ N \in Int /\ \A i \in n + 1..N : q[i] \in Slot
    BY <1>1
  <2>2. /\ b \in Seq(Slot) /\ Len(b) = IF n + 1 <= N THEN N - (n + 1) + 1 ELSE 0
        /\ \A i \in 1..N - (n + 1) + 1 : b[i] = q[n + 1 + i - 1]
    BY <2>1, SubSeqProperties
  <2>3. N - (n + 1) + 1 = N - n /\ \A i \in 1..N - n : n + 1 + i - 1 = n + i
    BY <1>1
  <2> HIDE DEF b
  <2>4. Len(b) = N - n
    BY <1>1, <2>2, <2>3
  <2> QED
    BY <2>2, <2>3, <2>4
<1>4. r = a \o b
  BY DEF RemoveAt
<1> HIDE DEF a, b, r, N
<1>5. /\ r \in Seq(Slot) /\ Len(r) = (n - 1) + (N - n)
      /\ \A i \in 1..(n - 1) + (N - n) :
           r[i] = IF i <= n - 1 THEN a[i] ELSE b[i - (n - 1)]
  BY <1>2, <1>3, <1>4, ConcatProperties
<1>6. (n - 1) + (N - n) = N - 1 /\ DOMAIN r = 1..N - 1
  BY <1>1, <1>5
<1> DEFINE At(i) == IF i < n THEN i ELSE i + 1
<1>7. ASSUME NEW i \in 1..N - 1 PROVE r[i] = q[At(i)] /\ At(i) \in 1..N /\ At(i) # n
  <2>1. r[i] = IF i <= n - 1 THEN a[i] ELSE b[i - (n - 1)]
    BY <1>5, <1>6
  <2>2. CASE i < n
    <3>1. i <= n - 1 /\ i \in 1..n - 1
      BY <1>1, <2>2
    <3> QED
      BY <1>1, <1>2, <2>1, <2>2, <3>1
  <2>3. CASE ~(i < n)
    <3>1. ~(i <= n - 1) /\ i - (n - 1) \in 1..N - n /\ n + (i - (n - 1)) = i + 1
      BY <1>1, <2>3
    <3>2. b[i - (n - 1)] = q[n + (i - (n - 1))]
      BY <1>3, <3>1
    <3>3. r[i] = q[i + 1] /\ At(i) = i + 1
      BY <2>1, <2>3, <3>1, <3>2
    <3> QED
      BY <1>1, <2>3, <3>3
  <2> QED
    BY <2>2, <2>3
<1>8. \A i, j \in 1..N - 1 : At(i) = At(j) => i = j
  BY <1>1
<1>9. ASSUME NEW k \in 1..N, k # n PROVE \E i \in 1..N - 1 : At(i) = k
  <2>1. CASE k < n
    <3>1. k \in 1..N - 1 /\ At(k) = k
      BY <1>1, <2>1
    <3> QED
      BY <3>1
  <2>2. CASE ~(k < n)
    <3>1. k - 1 \in 1..N - 1 /\ At(k - 1) = k
      BY <1>1, <1>9, <2>2
    <3> QED
      BY <3>1
  <2> QED
    BY <2>1, <2>2
<1> HIDE DEF At
<1>10. ASSUME Distinct(q) PROVE Distinct(r)
  <2> SUFFICES ASSUME NEW i \in 1..N - 1, NEW j \in 1..N - 1, r[i] = r[j] PROVE i = j
    BY <1>6 DEF Distinct
  <2>1. At(i) = At(j)
    BY <1>1, <1>7, <1>10 DEF Distinct
  <2> QED
    BY <1>8, <2>1
<1>11. ASSUME Distinct(q) PROVE Range(r) = Range(q) \ {q[n]}
  <2>1. ASSUME NEW x \in Range(r) PROVE x \in Range(q) \ {q[n]}
    <3>1. PICK i \in 1..N - 1 : x = r[i]
      BY <1>6 DEF Range
    <3>2. x = q[At(i)] /\ At(i) \in 1..N /\ At(i) # n
      BY <1>7, <3>1
    <3>3. x # q[n]
      BY <1>1, <1>11, <3>2 DEF Distinct
    <3> QED
      BY <1>1, <3>2, <3>3 DEF Range
  <2>2. ASSUME NEW x \in Range(q), x # q[n] PROVE x \in Range(r)
    <3>1. PICK k \in 1..N : x = q[k]
      BY <1>1 DEF Range
    <3>2. PICK i \in 1..N - 1 : At(i) = k
      BY <1>9, <2>2, <3>1
    <3>3. r[i] = x
      BY <1>7, <3>1, <3>2
    <3> QED
      BY <1>6, <3>3 DEF Range
  <2> QED
    BY <2>1, <2>2
<1> QED
  BY <1>5, <1>10, <1>11 DEF r

LEMMA DistinctTail ==
  ASSUME NEW q \in Seq(Slot), q # <<>>
  PROVE  /\ Head(q) \in Range(q) /\ Head(q) \in Slot /\ Tail(q) \in Seq(Slot)
         /\ Distinct(q) => /\ Distinct(Tail(q))
                           /\ Range(Tail(q)) = Range(q) \ {Head(q)}
<1> DEFINE t == Tail(q)
           N == Len(q)
<1>1. /\ N \in Nat /\ N >= 1 /\ DOMAIN q = 1..N /\ Head(q) = q[1]
      /\ t \in Seq(Slot) /\ DOMAIN t = 1..N - 1 /\ Head(q) \in Slot
      /\ \A i \in 1..N - 1 : t[i] = q[i + 1]
  BY EmptySeq
<1> HIDE DEF t, N
<1>2. Head(q) \in Range(q)
  <2>1. 1 \in 1..N
    BY <1>1
  <2> QED
    BY <1>1, <2>1 DEF Range
<1>3. /\ \A i \in 1..N - 1 : i + 1 \in 1..N /\ i + 1 # 1
      /\ \A i \in 1..N : i = 1 \/ (i - 1 \in 1..N - 1 /\ (i - 1) + 1 = i)
      /\ 1 \in 1..N
  BY <1>1
<1>4. ASSUME Distinct(q) PROVE Distinct(t)
  <2> SUFFICES ASSUME NEW i \in 1..N - 1, NEW j \in 1..N - 1, t[i] = t[j] PROVE i = j
    BY <1>1 DEF Distinct
  <2>1. i + 1 = j + 1
    BY <1>1, <1>3, <1>4 DEF Distinct
  <2> QED
    BY <2>1
<1>5. ASSUME Distinct(q) PROVE Range(t) = Range(q) \ {Head(q)}
  <2>1. ASSUME NEW x \in Range(t) PROVE x \in Range(q) \ {Head(q)}
    <3>1. PICK i \in 1..N - 1 : x = t[i]
      BY <1>1 DEF Range
    <3>2. x = q[i + 1] /\ i + 1 \in 1..N /\ i + 1 # 1
      BY <1>1, <1>3, <3>1
    <3>3. x # q[1]
      BY <1>1, <1>3, <1>5, <3>2 DEF Distinct
    <3> QED
      BY <1>1, <3>2, <3>3 DEF Range
  <2>2. ASSUME NEW x \in Range(q), x # Head(q) PROVE x \in Range(t)
    <3>1. PICK k \in 1..N : x = q[k]
      BY <1>1 DEF Range
    <3>2. k - 1 \in 1..N - 1 /\ (k - 1) + 1 = k
      BY <1>1, <1>3, <2>2, <3>1
    <3>3. t[k - 1] = x
      BY <1>1, <3>1, <3>2
    <3> QED
      BY <1>1, <3>2, <3>3 DEF Range
  <2> QED
    BY <2>1, <2>2
<1> QED
  BY <1>1, <1>2, <1>4, <1>5 DEF t

-----------------------------------------------------------------------------
(* Builder thread                                                           *)

\* What is known of the current window: all its events are on their way to the
\* voxel or staged.
LEMMA Current ==
  ASSUME IInv, cur # 0
  PROVE  /\ cur \in Slot /\ slots[cur].st = "FILLING"
         /\ slots[cur].events = Finally(cur) \o Staged /\ Finally(cur) \in Seq(Nat)
         /\ cur # islot /\ \A s \in Slot : s # cur => slots[s].st # "FILLING"
<1>1. cur \in Slot
  BY SizesAssumption DEF IInv, TypeOK, Slot
<1>2. slots[cur].st = "FILLING"
  BY <1>1 DEF IInv, RoleInv
<1>3. slots[cur].events = Finally(cur) \o Staged /\ Finally(cur) \in Seq(Nat)
  BY <1>1, <1>2 DEF IInv, ContentInv
<1>4. cur # islot
  BY <1>1, <1>2 DEF IInv, RoleInv
<1>5. ASSUME NEW s \in Slot, s # cur PROVE slots[s].st # "FILLING"
  BY <1>5 DEF IInv, RoleInv
<1> QED
  BY <1>1, <1>2, <1>3, <1>4, <1>5

LEMMA FillTyped ==
  ASSUME NEW s \in Slot, NEW b \in Stage, NEW n \in 0..MaxBatch, NEW mem \in [1..MaxBatch -> Nat]
  PROVE  Fill(s, b, n, mem) \in Op
<1>1. SubSeq(mem, 1, n) \in Seq(Nat) /\ b \in 0..Stages
  BY MemoryRead, SizesAssumption DEF Stage
<1> QED
  BY <1>1 DEF Fill, Op

LEMMA NothingQueued ==
  ASSUME TypeOK, vStream' = vStream, voxel' = voxel, vRan' = vRan
  PROVE  /\ Extended /\ vStream' \in Seq(Op) /\ Len(vStream) \in Nat
         /\ VQueued' = VQueued /\ VQueued \in Nat
         /\ \A s \in Slot : Finally(s)' = Finally(s)
<1>1. vStream \in Seq(Op) /\ Len(vStream) \in Nat /\ vRan \in Nat
  BY DEF TypeOK
<1>2. VQueued' = VQueued /\ VQueued \in Nat
  BY <1>1 DEF VQueued
<1>3. Len(vStream) <= Len(vStream')
  BY <1>1
<1> QED
  BY <1>1, <1>2, <1>3 DEF Extended, Finally, Content

\* flush: what is staged goes to the voxel, and nothing is staged any more.
LEMMA Flushed ==
  ASSUME IInv, cur # 0, Flush, voxel' = voxel, vRan' = vRan, NEW c, c = cur
  PROVE  /\ Extended /\ vStream' \in Seq(Op)
         /\ VQueued' = FillDone /\ FillDone \in Nat
         /\ Finally(c)' = slots[c].events
         /\ staging' \in [Stage -> [mem : [1..MaxBatch -> Nat], used : BOOLEAN, done : Nat]]
         /\ FillInv' /\ curStage' = 0 /\ count' = 0
         /\ \A s \in Slot : s # cur /\ slots'[s] = slots[s] => ContentInv(s)'
<1>0. TypeOK /\ FillInv /\ StageInv /\ \A s \in Slot : ContentInv(s)
  BY DEF IInv
<1>1. /\ cur \in Slot /\ c \in Slot /\ slots[c].events = Finally(c) \o Staged
      /\ Finally(c) \in Seq(Nat) /\ \A s \in Slot : s # cur => slots[s].st # "FILLING"
  BY Current
<1>2. staging \in [Stage -> [mem : [1..MaxBatch -> Nat], used : BOOLEAN, done : Nat]]
  BY <1>0 DEF TypeOK
<1>3. CASE curStage = 0
  <2>1. /\ vStream' = vStream /\ staging' = staging /\ curStage' = 0
        /\ count' = count /\ count = 0
    BY <1>0, <1>3 DEF Flush, StageInv
  <2>2. /\ Extended /\ vStream' \in Seq(Op) /\ VQueued' = VQueued /\ VQueued \in Nat
        /\ Finally(c)' = Finally(c)
    BY <1>0, <1>1, <2>1, NothingQueued
  <2>3. VQueued' = FillDone /\ FillDone \in Nat
    BY <1>3, <2>2 DEF FillDone
  <2>4. Finally(c)' = slots[c].events
    BY <1>1, <1>3, <2>2, EmptyStaged DEF Staged
  <2>5. ASSUME NEW s \in Slot, s # cur, slots'[s] = slots[s] PROVE ContentInv(s)'
    BY <1>0, <1>1, <2>1, <2>5, SlotSame
  <2>6. FillInv'
    BY <1>0, <2>1, FillSame
  <2> QED
    BY <1>2, <2>1, <2>2, <2>3, <2>4, <2>5, <2>6
<1>4. CASE curStage # 0
  <2> DEFINE mem == staging[curStage].mem
             op == Fill(cur, curStage, count, mem)
  <2>1. /\ vStream' = Append(vStream, op)
        /\ staging' = [staging EXCEPT ![curStage].used = TRUE, ![curStage].done = VQueued + 1]
        /\ curStage' = 0 /\ count' = 0
    BY <1>4 DEF Flush
  <2>2. /\ curStage \in Stage /\ count \in 0..MaxBatch /\ ~staging[curStage].used
    <3>1. curStage \in 0..Stages /\ count \in 0..(MaxBatch - 1)
      BY <1>0 DEF TypeOK
    <3>2. ~staging[curStage].used
      BY <1>0, <1>4 DEF StageInv
    <3> QED
      BY <1>4, <3>1, <3>2, SizesAssumption DEF Stage
  <2>3. mem \in [1..MaxBatch -> Nat]
    BY <1>2, <2>2
  <2>4. op \in Op /\ op.do = "fill" /\ op.slot = cur /\ op.stage = curStage /\ op.n = count
        /\ op.events = SubSeq(mem, 1, count)
    <3>1. op \in Op
      <4> HIDE DEF mem
      <4> QED
        BY <1>1, <2>2, <2>3, FillTyped
    <3> QED
      BY <3>1 DEF Fill
  <2>5. op.events = Staged
    BY <1>4, <2>4 DEF Staged
  <2> HIDE DEF op
  <2>6. /\ Extended /\ VQueued' = VQueued + 1 /\ VQueued \in Nat
        /\ Finally(c)' = Then(Finally(c), op, c)
    BY <1>0, <1>1, <2>1, <2>4, Queued
  <2>7. vStream' \in Seq(Op)
    BY <2>6 DEF Extended
  <2>8. VQueued' = FillDone /\ FillDone \in Nat
    BY <1>4, <2>6 DEF FillDone
  <2>9. Finally(c)' = slots[c].events
    BY <1>1, <2>4, <2>5, <2>6 DEF Then
  <2>10. ASSUME NEW s \in Slot, s # cur, slots'[s] = slots[s] PROVE ContentInv(s)'
    BY <1>0, <1>1, <2>1, <2>4, <2>10, SlotQueued
  <2>11. /\ staging'[curStage].used /\ staging'[curStage].done = VQueued + 1
         /\ staging'[curStage].mem = mem
         /\ \A b \in Stage : b # curStage => staging'[b] = staging[b]
         /\ staging' \in [Stage -> [mem : [1..MaxBatch -> Nat], used : BOOLEAN, done : Nat]]
    <3>1. VQueued + 1 \in Nat
      BY <2>6
    <3> HIDE DEF mem
    <3> QED
      BY ONLY <1>2, <2>1, <2>2, <3>1 DEF mem
  <2>12. NoTransfer(curStage)
    BY <1>0, <2>2, Transferred
  <2>13. FillInv'
    <3>1. SubSeq(staging'[curStage].mem, 1, op.n) = op.events
      BY <2>4, <2>11
    <3> HIDE DEF mem
    <3> QED
      BY <1>0, <2>1, <2>2, <2>4, <2>11, <2>12, <3>1, FillQueued
  <2> QED
    BY <2>1, <2>6, <2>7, <2>8, <2>9, <2>10, <2>11, <2>13
<1> QED
  BY <1>3, <1>4

\* Nothing has been staged since, so the window that is being filled is what
\* its voxel will hold.
LEMMA FlushDueKeeps ==
  ASSUME IInv, FlushDue
  PROVE  IInv'
<1>0. /\ TypeOK /\ StageInv /\ InferenceInv /\ PhaseInv /\ ReadyInv
      /\ \A s \in Slot : RoleInv(s) /\ ContentInv(s)
  BY DEF IInv
<1>1. /\ phase = "open" /\ curStage # 0 /\ Flush
      /\ UNCHANGED <<last, nextStage, slots, cur, ready, voxel, vRan, iRan, iStream,
                     islot, ipc, phase>>
  BY DEF FlushDue, gpuVars, inferVars
<1>2. cur # 0
  BY <1>0, <1>1 DEF StageInv
<1> PICK c : c = cur
  OBVIOUS
<1>3. /\ Extended /\ vStream' \in Seq(Op) /\ Finally(c)' = slots[cur].events
      /\ staging' \in [Stage -> [mem : [1..MaxBatch -> Nat], used : BOOLEAN, done : Nat]]
      /\ FillInv' /\ curStage' = 0 /\ count' = 0
      /\ \A s \in Slot : s # cur /\ slots'[s] = slots[s] => ContentInv(s)'
  BY <1>1, <1>2, Flushed
<1>4. cur \in Slot /\ slots[cur].st = "FILLING"
  BY <1>2, Current
<1>5. TypeOK'
  <2>1. curStage' \in 0..Stages /\ count' \in 0..(MaxBatch - 1)
    BY <1>3, SizesAssumption
  <2> QED
    BY <1>0, <1>1, <1>3, <2>1 DEF TypeOK
<1>6. ASSUME NEW s \in Slot PROVE RoleInv(s)' /\ ContentInv(s)'
  <2>1. RoleInv(s)'
    BY <1>0, <1>1 DEF RoleInv
  <2>2. CASE s # cur
    BY <1>1, <1>3, <2>1, <2>2
  <2>3. CASE s = cur
    <3>1. slots[cur].events \in Seq(Nat)
      BY <1>0, <1>4 DEF TypeOK
    <3>2. Staged' = <<>> /\ slots[cur].events \o <<>> = slots[cur].events
      BY <1>3, <3>1, EmptyStaged DEF Staged
    <3> QED
      BY <1>1, <1>3, <1>4, <2>1, <2>3, <3>1, <3>2 DEF ContentInv
  <2> QED
    BY <2>2, <2>3
<1>7. ReadyInv' /\ StageInv' /\ PhaseInv'
  BY <1>0, <1>1, <1>3 DEF ReadyInv, StageInv, PhaseInv
<1>8. InferenceInv'
  BY <1>0, <1>1, <1>3, InferenceExtends
<1> QED
  BY <1>3, <1>5, <1>6, <1>7, <1>8 DEF IInv

LEMMA FinishWindowKeeps ==
  ASSUME IInv, FinishWindow
  PROVE  IInv'
<1>0. /\ TypeOK /\ StageInv /\ InferenceInv /\ PhaseInv /\ ReadyInv
      /\ \A s \in Slot : RoleInv(s) /\ ContentInv(s)
  BY DEF IInv
<1>1. /\ phase = "open" /\ cur # 0 /\ Flush
      /\ slots' = [slots EXCEPT ![cur].st = "READY", ![cur].filled = FillDone]
      /\ ready' = Append(ready, cur) /\ cur' = 0
      /\ UNCHANGED <<last, nextStage, voxel, vRan, iRan, iStream, islot, ipc, phase>>
  BY DEF FinishWindow, gpuVars, inferVars
<1> PICK c : c = cur
  OBVIOUS
<1>2. /\ Extended /\ vStream' \in Seq(Op) /\ Finally(c)' = slots[cur].events
      /\ VQueued' = FillDone /\ FillDone \in Nat
      /\ staging' \in [Stage -> [mem : [1..MaxBatch -> Nat], used : BOOLEAN, done : Nat]]
      /\ FillInv' /\ curStage' = 0 /\ count' = 0
      /\ \A s \in Slot : s # cur /\ slots'[s] = slots[s] => ContentInv(s)'
  BY <1>1, Flushed
<1>3. /\ cur \in Slot /\ slots[cur].st = "FILLING" /\ cur # islot
      /\ \A s \in Slot : s # cur => slots[s].st # "FILLING"
  BY <1>1, Current
<1> DEFINE Rec == [st : {"FREE", "FILLING", "READY", "INFERENCING"},
                   events : Seq(Nat), filled : Nat, inferred : Nat]
<1>4. slots \in [Slot -> Rec] /\ ready \in Seq(Slot)
  BY <1>0 DEF TypeOK
<1>5. /\ slots' \in [Slot -> Rec] /\ slots'[cur].st = "READY"
      /\ slots'[cur].filled = FillDone /\ slots'[cur].events = slots[cur].events
      /\ \A s \in Slot : s # cur => slots'[s] = slots[s]
  BY <1>1, <1>2, <1>3, <1>4
<1>6. /\ ready' \in Seq(Slot) /\ Range(ready') = Range(ready) \cup {cur}
      /\ Distinct(ready) /\ cur \notin Range(ready) => Distinct(ready')
  BY <1>1, <1>3, <1>4, DistinctAppend
<1>7. cur \notin Range(ready)
  BY <1>0, <1>3 DEF RoleInv
<1>8. TypeOK'
  <2>1. curStage' \in 0..Stages /\ count' \in 0..(MaxBatch - 1) /\ cur' \in 0..PoolSize
    BY <1>1, <1>2, SizesAssumption
  <2> QED
    BY <1>0, <1>1, <1>2, <1>5, <1>6, <2>1 DEF TypeOK
<1>9. ASSUME NEW s \in Slot PROVE RoleInv(s)'
  <2>1. CASE s = cur
    <3>1. cur # 0
      BY <1>1
    <3> QED
      BY <1>1, <1>3, <1>5, <1>6, <2>1, <3>1 DEF RoleInv
  <2>2. CASE s # cur
    <3>1. slots'[s] = slots[s] /\ s # 0 /\ (s \in Range(ready') <=> s \in Range(ready))
      BY <1>5, <1>6, <2>2 DEF Slot
    <3> QED
      BY <1>0, <1>1, <1>3, <2>2, <3>1 DEF RoleInv
  <2> QED
    BY <2>1, <2>2
<1>10. ASSUME NEW s \in Slot PROVE ContentInv(s)'
  <2>1. CASE s # cur
    BY <1>2, <1>5, <2>1
  <2>2. CASE s = cur
    <3>1. Len(vStream') \in Nat /\ vRan' \in Nat /\ VQueued' = vRan' + Len(vStream')
      BY <1>2, <1>8 DEF TypeOK, VQueued
    <3>2. ASSUME NEW i \in 0..Len(vStream'), FillDone <= vRan' + i
          PROVE  Content(c)'[i] = slots[cur].events
      <4>1. i = Len(vStream')
        BY ONLY <1>2, <3>1, <3>2
      <4> QED
        BY <1>2, <4>1 DEF Finally
    <3>3. FillDone <= VQueued'
      BY <1>2
    <3>4. \A i \in 0..Len(vStream') : FillDone <= vRan' + i
             => Content(s)'[i] = slots[cur].events
      BY <2>2, <3>2
    <3> QED
      BY <1>5, <2>2, <3>3, <3>4 DEF ContentInv, Holds
  <2> QED
    BY <2>1, <2>2
<1>11. ReadyInv'
  BY <1>0, <1>6, <1>7 DEF ReadyInv, Distinct
<1>12. StageInv' /\ PhaseInv'
  BY <1>1, <1>2 DEF StageInv, PhaseInv
<1>13. InferenceInv'
  <2>1. islot # 0 => slots'[islot] = slots[islot]
    BY <1>0, <1>3, <1>5, SizesAssumption DEF TypeOK, Slot
  <2> QED
    BY <1>0, <1>1, <1>2, <2>1, InferenceExtends
<1> QED
  BY <1>2, <1>8, <1>9, <1>10, <1>11, <1>12, <1>13 DEF IInv

\* A FREE slot that is made the current one has nothing to come either.
LEMMA Chosen ==
  ASSUME IInv, NEW c \in Slot, IF cur = 0 THEN FirstFree(c) ELSE c = cur
  PROVE  /\ slots[c].events = Finally(c) \o Staged /\ Finally(c) \in Seq(Nat)
         /\ slots[c].events \in Seq(Nat)
         /\ Staged \in Seq(Nat) /\ slots[c].st \in {"FREE", "FILLING"}
         /\ c # islot /\ c \notin Range(ready)
         /\ \A s \in Slot : s # c => slots[s].st # "FILLING"
<1>0. TypeOK /\ StageInv /\ \A s \in Slot : RoleInv(s) /\ ContentInv(s)
  BY DEF IInv
<1>1. Staged \in Seq(Nat)
  <2>1. CASE curStage = 0
    BY <2>1, EmptyStaged DEF Staged
  <2>2. CASE curStage # 0
    <3>1. curStage \in Stage /\ count \in 0..MaxBatch
      BY <1>0, <2>2, SizesAssumption DEF TypeOK, Stage
    <3>2. staging[curStage].mem \in [1..MaxBatch -> Nat]
      BY <1>0, <3>1 DEF TypeOK
    <3>3. SubSeq(staging[curStage].mem, 1, count) \in Seq(Nat)
      BY <3>1, <3>2, MemoryRead
    <3> QED
      BY <2>2, <3>3 DEF Staged
  <2> QED
    BY <2>1, <2>2
<1>2. slots[c].events \in Seq(Nat)
  BY <1>0 DEF TypeOK
<1>3. CASE cur = 0
  <2>1. slots[c].st = "FREE"
    BY <1>3 DEF FirstFree
  <2>2. slots[c] = Free /\ Finally(c) = <<>>
    BY <1>0, <2>1 DEF ContentInv
  <2>3. curStage = 0
    BY <1>0, <1>3 DEF StageInv
  <2>4. Staged = <<>> /\ slots[c].events = <<>>
    BY <2>2, <2>3 DEF Staged, Free
  <2>5. <<>> \o <<>> = <<>> /\ <<>> \in Seq(Nat)
    BY EmptyStaged
  <2>6. c # islot /\ c \notin Range(ready)
    BY <1>0, <2>1 DEF RoleInv
  <2>7. \A s \in Slot : slots[s].st # "FILLING"
    BY <1>0, <1>3 DEF RoleInv, Slot
  <2> QED
    BY <1>1, <1>2, <2>1, <2>2, <2>4, <2>5, <2>6, <2>7
<1>4. CASE cur # 0
  <2>1. c = cur
    BY <1>4
  <2>2. c \notin Range(ready)
    BY <1>0, <1>4, <2>1, Current DEF RoleInv
  <2> QED
    BY <1>1, <1>2, <1>4, <2>1, <2>2, Current
<1> QED
  BY <1>3, <1>4

\* The buffer that the event goes to has no transfer left, and holds what is
\* staged.
LEMMA Claimed ==
  ASSUME IInv, NEW b \in Stage, IF curStage = 0 THEN Claim(b) ELSE b = curStage
  PROVE  /\ NoTransfer(b) /\ staging[b].mem \in [1..MaxBatch -> Nat]
         /\ SubSeq(staging[b].mem, 1, count) = Staged
<1>0. TypeOK /\ StageInv /\ FillInv
  BY DEF IInv
<1>1. staging[b].used => staging[b].done <= vRan
  <2>1. CASE curStage = 0
    BY <2>1 DEF Claim
  <2>2. CASE curStage # 0
    BY <1>0, <2>2 DEF StageInv
  <2> QED
    BY <2>1, <2>2
<1>2. NoTransfer(b)
  BY <1>0, <1>1, Transferred
<1>3. staging[b].mem \in [1..MaxBatch -> Nat]
  BY <1>0 DEF TypeOK
<1>4. SubSeq(staging[b].mem, 1, count) = Staged
  <2>1. CASE curStage = 0
    <3>1. count = 0
      BY <1>0, <2>1 DEF StageInv
    <3>2. 0 \in 0..MaxBatch
      BY SizesAssumption
    <3>3. SubSeq(staging[b].mem, 1, 0) \in Seq(Nat) /\ Len(SubSeq(staging[b].mem, 1, 0)) = 0
      BY <1>3, <3>2, MemoryRead
    <3>4. SubSeq(staging[b].mem, 1, 0) = <<>>
      BY <3>3, EmptySeq
    <3> QED
      BY <2>1, <3>1, <3>4 DEF Staged
  <2>2. CASE curStage # 0
    BY <2>2 DEF Staged
  <2> QED
    BY <2>1, <2>2
<1> QED
  BY <1>2, <1>3, <1>4

LEMMA AppendEventKeeps ==
  ASSUME IInv, AppendEvent
  PROVE  IInv'
<1>0. /\ TypeOK /\ StageInv /\ InferenceInv /\ PhaseInv /\ ReadyInv /\ FillInv
      /\ \A s \in Slot : RoleInv(s) /\ ContentInv(s)
  BY DEF IInv
<1> DEFINE full == count + 1 = MaxBatch
           x == last + 1
<1>1. PICK c \in Slot, b \in Stage :
        /\ IF cur = 0 THEN FirstFree(c) ELSE c = cur
        /\ IF curStage = 0 THEN Claim(b) ELSE b = curStage
        /\ LET mem == [staging[b].mem EXCEPT ![count + 1] = x]
           IN /\ staging' = [staging EXCEPT ![b] =
                   [mem |-> mem, used |-> full,
                    done |-> IF full THEN VQueued + 1 ELSE @.done]]
              /\ vStream' = IF full THEN Append(vStream, Fill(c, b, MaxBatch, mem))
                                    ELSE vStream
              /\ curStage' = IF full THEN 0 ELSE b
              /\ count' = IF full THEN 0 ELSE count + 1
        /\ nextStage' = IF curStage = 0 THEN (b % Stages) + 1 ELSE nextStage
        /\ slots' = [slots EXCEPT ![c].st = "FILLING", ![c].events = Append(@, x)]
        /\ cur' = c
  BY DEF AppendEvent
<1>2. /\ phase = "open" /\ last' = x
      /\ UNCHANGED <<ready, voxel, vRan, iRan, iStream, islot, ipc, phase>>
  BY DEF AppendEvent, gpuVars, inferVars
<1>3. /\ slots[c].events = Finally(c) \o Staged /\ Finally(c) \in Seq(Nat)
      /\ slots[c].events \in Seq(Nat)
      /\ Staged \in Seq(Nat) /\ slots[c].st \in {"FREE", "FILLING"}
      /\ c # islot /\ c \notin Range(ready)
      /\ \A s \in Slot : s # c => slots[s].st # "FILLING"
  BY <1>1, Chosen
<1> DEFINE old == staging[b].mem
           mem == [old EXCEPT ![count + 1] = x]
<1>4. /\ NoTransfer(b) /\ old \in [1..MaxBatch -> Nat] /\ SubSeq(old, 1, count) = Staged
  BY <1>1, Claimed
<1>5. x \in Nat /\ count \in 0..(MaxBatch - 1) /\ count + 1 \in 0..MaxBatch /\ MaxBatch \in 0..MaxBatch
  <2>1. x \in Nat
    BY <1>0 DEF TypeOK
  <2>2. count \in 0..(MaxBatch - 1)
    BY <1>0 DEF TypeOK
  <2>3. MaxBatch \in Nat \ {0}
    BY SizesAssumption
  <2> HIDE DEF x
  <2> QED
    BY ONLY <2>1, <2>2, <2>3
<1>6. mem \in [1..MaxBatch -> Nat] /\ SubSeq(mem, 1, count + 1) = Append(Staged, x)
  <2> HIDE DEF x, old
  <2> QED
    BY <1>4, <1>5, MemoryWritten
<1> DEFINE Rec == [st : {"FREE", "FILLING", "READY", "INFERENCING"},
                   events : Seq(Nat), filled : Nat, inferred : Nat]
           Buf == [mem : [1..MaxBatch -> Nat], used : BOOLEAN, done : Nat]
<1>7. slots \in [Slot -> Rec] /\ staging \in [Stage -> Buf]
  BY <1>0 DEF TypeOK
<1>8. /\ Append(slots[c].events, x) = Finally(c) \o Append(Staged, x)
      /\ Append(Staged, x) \in Seq(Nat) /\ Append(slots[c].events, x) \in Seq(Nat)
  <2> HIDE DEF x
  <2>1. Append(slots[c].events, x) \in Seq(Nat)
    BY <1>3, <1>5, AppendProperties
  <2>2. /\ Append(Finally(c) \o Staged, x) = Finally(c) \o Append(Staged, x)
        /\ Append(Staged, x) \in Seq(Nat)
    BY <1>3, <1>5, AppendToBoth
  <2> QED
    BY <1>3, <2>1, <2>2
<1>9. /\ slots' \in [Slot -> Rec] /\ slots'[c].st = "FILLING"
      /\ slots'[c].events = Append(slots[c].events, x)
      /\ \A s \in Slot : s # c => slots'[s] = slots[s]
  <2> HIDE DEF x
  <2> QED
    BY ONLY <1>1, <1>7, <1>8
<1>10. /\ \A d \in Stage : d # b => staging'[d] = staging[d]
       /\ staging'[b].mem = mem /\ staging'[b].used = full
       /\ full => staging'[b].done = VQueued + 1
       /\ staging' \in [Stage -> Buf]
  <2>1. VQueued + 1 \in Nat
    BY <1>0 DEF TypeOK, VQueued
  <2>2. full \in BOOLEAN
    OBVIOUS
  <2>3. staging' = [staging EXCEPT ![b] =
                      [mem |-> mem, used |-> full,
                       done |-> IF full THEN VQueued + 1 ELSE @.done]]
    BY <1>1
  <2> HIDE DEF full, mem, old
  <2> QED
    BY ONLY <1>6, <1>7, <2>1, <2>2, <2>3
<1> HIDE DEF mem, old
\* The two outcomes: the buffer is full and is flushed, or it is not
<1>11. /\ Extended /\ vStream' \in Seq(Op) /\ FillInv'
       /\ Finally(c)' \in Seq(Nat) /\ slots'[c].events = Finally(c)' \o Staged'
       /\ \A s \in Slot : s # c => ContentInv(s)'
  <2>1. CASE full
    <3> DEFINE op == Fill(c, b, MaxBatch, mem)
    <3>1. vStream' = Append(vStream, op) /\ curStage' = 0
      BY <1>1, <2>1 DEF mem, old
    <3>2. op \in Op
      BY <1>5, <1>6, FillTyped
    <3>3. /\ op.do = "fill" /\ op.slot = c /\ op.stage = b /\ op.n = MaxBatch
          /\ op.events = SubSeq(mem, 1, MaxBatch)
      BY DEF Fill
    <3>4. op.events = Append(Staged, x)
      BY <1>6, <2>1, <3>3
    <3> HIDE DEF op
    <3>5. Extended /\ Finally(c)' = Then(Finally(c), op, c)
      BY <1>0, <1>2, <3>1, <3>2, Queued
    <3>6. Finally(c)' = slots'[c].events
      BY <1>8, <1>9, <3>3, <3>4, <3>5 DEF Then
    <3>7. Staged' = <<>>
      BY <3>1 DEF Staged
    <3>8. Finally(c)' \in Seq(Nat) /\ slots'[c].events = Finally(c)' \o Staged'
      <4>1. slots'[c].events \in Seq(Nat)
        BY <1>8, <1>9
      <4> QED
        BY <3>6, <3>7, <4>1, EmptyStaged
    <3>9. FillInv'
      <4>1. SubSeq(staging'[b].mem, 1, op.n) = op.events
        BY <1>10, <3>3
      <4>2. staging'[b].used /\ staging'[b].done = VQueued + 1
        BY <1>10, <2>1
      <4> QED
        BY <1>0, <1>2, <1>4, <1>10, <3>1, <3>2, <3>3, <4>1, <4>2, FillQueued
    <3>10. ASSUME NEW s \in Slot, s # c PROVE ContentInv(s)'
      <4>1. slots'[s] = slots[s] /\ slots[s].st # "FILLING" /\ op.slot # s
        BY <1>3, <1>9, <3>3, <3>10
      <4> QED
        BY <1>0, <1>2, <3>1, <3>2, <4>1, SlotQueued
    <3>11. vStream' \in Seq(Op)
      BY <3>5 DEF Extended
    <3> QED
      BY <3>5, <3>8, <3>9, <3>10, <3>11
  <2>2. CASE ~full
    <3>1. vStream' = vStream /\ curStage' = b /\ count' = count + 1
      BY <1>1, <2>2
    <3>2. Extended /\ vStream' \in Seq(Op) /\ Finally(c)' = Finally(c)
      BY <1>0, <1>2, <3>1, NothingQueued
    <3>3. Staged' = Append(Staged, x)
      <4>1. b # 0
        BY SizesAssumption DEF Stage
      <4>2. Staged' = SubSeq(staging'[b].mem, 1, count + 1)
        BY <3>1, <4>1 DEF Staged
      <4> QED
        BY <1>6, <1>10, <4>2
    <3>4. FillInv'
      BY <1>0, <1>2, <1>4, <1>10, <3>1, FillWritten
    <3>5. ASSUME NEW s \in Slot, s # c PROVE ContentInv(s)'
      <4>1. slots'[s] = slots[s] /\ slots[s].st # "FILLING"
        BY <1>3, <1>9, <3>5
      <4> QED
        BY <1>0, <1>2, <3>1, <4>1, SlotSame
    <3> QED
      BY <1>3, <1>8, <1>9, <3>2, <3>3, <3>4, <3>5
  <2> QED
    BY <2>1, <2>2
<1>12. TypeOK'
  <2>1. curStage' \in 0..Stages /\ count' \in 0..(MaxBatch - 1)
    BY <1>1, <1>5, SizesAssumption DEF Stage
  <2>2. nextStage' \in Stage
    <3>1. (b % Stages) + 1 \in Stage
      BY SizesAssumption DEF Stage
    <3> QED
      BY <1>0, <1>1, <3>1 DEF TypeOK
  <2>3. cur' \in 0..PoolSize
    BY <1>1, SizesAssumption DEF Slot
  <2> QED
    BY <1>0, <1>2, <1>5, <1>9, <1>10, <1>11, <2>1, <2>2, <2>3 DEF TypeOK
<1>13. ASSUME NEW s \in Slot PROVE RoleInv(s)' /\ ContentInv(s)'
  <2>1. CASE s = c
    <3>1. ContentInv(c)'
      BY <1>9, <1>11 DEF ContentInv
    <3>2. RoleInv(c)'
      BY <1>1, <1>2, <1>3, <1>9 DEF RoleInv
    <3> QED
      BY <2>1, <3>1, <3>2
  <2>2. CASE s # c
    <3>1. slots'[s] = slots[s] /\ slots[s].st # "FILLING"
      BY <1>3, <1>9, <2>2
    <3>2. RoleInv(s)'
      BY <1>0, <1>1, <1>2, <2>2, <3>1 DEF RoleInv
    <3> QED
      BY <1>11, <2>2, <3>2
  <2> QED
    BY <2>1, <2>2
<1>14. ReadyInv' /\ PhaseInv'
  BY <1>0, <1>2 DEF ReadyInv, PhaseInv
<1>15. StageInv'
  <2>1. CASE full
    BY <1>1, <2>1 DEF StageInv
  <2>2. CASE ~full
    <3>1. b # 0 /\ c # 0 /\ count + 1 > 0
      BY <1>5, SizesAssumption DEF Stage, Slot
    <3> QED
      BY <1>1, <1>10, <2>2, <3>1 DEF StageInv
  <2> QED
    BY <2>1, <2>2
<1>16. InferenceInv'
  <2>1. islot # 0 => slots'[islot] = slots[islot]
    <3>1. islot # 0 => islot \in Slot
      BY <1>0, SizesAssumption DEF TypeOK, Slot
    <3> QED
      BY <1>3, <1>9, <3>1
  <2> QED
    BY <1>0, <1>2, <1>11, <2>1, InferenceExtends
<1> QED
  BY <1>11, <1>12, <1>13, <1>14, <1>15, <1>16 DEF IInv

\* _enqueue_clear of one slot
LEMMA ClearOne ==
  ASSUME TypeOK, NEW c \in Slot, Clear(<<c>>)
  PROVE  vStream' = Append(vStream, Zero(c, 0)) /\ slots' = [slots EXCEPT ![c] = Free]
<1>1. vStream \in Seq(Op)
  BY DEF TypeOK
<1>2. DOMAIN <<c>> = 1..1 /\ <<c>>[1] = c
  OBVIOUS
<1>3. Range(<<c>>) = {c}
  BY <1>2 DEF Range
<1>4. slots' = [slots EXCEPT ![c] = Free]
  BY <1>3 DEF Clear, TypeOK
<1> DEFINE z == [i \in DOMAIN <<c>> |-> Zero(<<c>>[i], 0)]
<1>5. z = <<Zero(c, 0)>>
  <2>1. z = [i \in 1..1 |-> Zero(c, 0)]
    BY <1>2
  <2> HIDE DEF z
  <2> QED
    BY <2>1
<1>6. vStream' = vStream \o <<Zero(c, 0)>>
  BY <1>5 DEF Clear
<1>7. Append(vStream, Zero(c, 0)) = vStream \o <<Zero(c, 0)>>
  <2>1. Zero(c, 0) \in Op
    BY SizesAssumption DEF Zero, Op
  <2> QED
    BY <1>1, <2>1, AppendIsConcat
<1> QED
  BY <1>4, <1>6, <1>7

\* What clearing one slot that is not in the network's hands leaves
LEMMA ClearedOne ==
  ASSUME IInv, NEW c \in Slot, c # islot, Clear(<<c>>), voxel' = voxel, vRan' = vRan,
         staging' = staging, iStream' = iStream, iRan' = iRan, islot' = islot, ipc' = ipc,
         c = cur \/ Staged' = Staged
  PROVE  /\ vStream' \in Seq(Op) /\ FillInv' /\ InferenceInv'
         /\ slots' = [slots EXCEPT ![c] = Free]
         /\ slots' \in [Slot -> [st : {"FREE", "FILLING", "READY", "INFERENCING"},
                                 events : Seq(Nat), filled : Nat, inferred : Nat]]
         /\ \A s \in Slot : ContentInv(s)'
<1>0. /\ TypeOK /\ InferenceInv /\ FillInv /\ \A s \in Slot : RoleInv(s) /\ ContentInv(s)
  BY DEF IInv
<1> DEFINE op == Zero(c, 0)
<1>1. vStream' = Append(vStream, op) /\ slots' = [slots EXCEPT ![c] = Free]
  BY <1>0, ClearOne
<1>2. /\ slots \in [Slot -> [st : {"FREE", "FILLING", "READY", "INFERENCING"},
                             events : Seq(Nat), filled : Nat, inferred : Nat]]
  BY <1>0 DEF TypeOK
<1>3. Free \in [st : {"FREE", "FILLING", "READY", "INFERENCING"},
                events : Seq(Nat), filled : Nat, inferred : Nat]
  BY EmptyStaged DEF Free
<1>4. /\ slots' \in [Slot -> [st : {"FREE", "FILLING", "READY", "INFERENCING"},
                              events : Seq(Nat), filled : Nat, inferred : Nat]]
      /\ slots'[c] = Free /\ \A s \in Slot : s # c => slots'[s] = slots[s]
  <2> HIDE DEF Free
  <2> QED
    BY <1>1, <1>2, <1>3
<1>5. op \in Op /\ op.do = "zero" /\ op.slot = c /\ 0 \in Nat
  BY SizesAssumption DEF Zero, Op
<1>6. ContentInv(c)'
  BY <1>0, <1>1, <1>4, <1>5, SlotCleared
<1> HIDE DEF op
<1>7. Extended /\ vStream' \in Seq(Op)
  BY <1>0, <1>1, <1>5, Queued DEF Extended
<1>8. ASSUME NEW s \in Slot, s # c PROVE ContentInv(s)'
  <2>1. slots'[s] = slots[s] /\ op.slot # s
    BY <1>4, <1>5, <1>8
  <2>2. slots[s].st = "FILLING" => Staged' = Staged
    BY <1>0, <1>8 DEF RoleInv
  <2> QED
    BY <1>0, <1>1, <1>5, <2>1, <2>2, SlotQueued
<1>9. FillInv'
  BY <1>0, <1>1, <1>5, FillZero
<1>10. InferenceInv'
  <2>1. islot # 0 => islot \in Slot
    BY <1>0, SizesAssumption DEF TypeOK, Slot
  <2>2. islot # 0 => slots'[islot] = slots[islot]
    BY <1>4, <2>1
  <2> QED
    BY <1>0, <1>7, <2>2, InferenceExtends
<1> QED
  BY <1>1, <1>4, <1>6, <1>7, <1>8, <1>9, <1>10

LEMMA AbortKeeps ==
  ASSUME IInv, Abort
  PROVE  IInv'
<1>0. /\ TypeOK /\ PhaseInv /\ ReadyInv /\ \A s \in Slot : RoleInv(s)
  BY DEF IInv
<1>1. /\ phase = "open" /\ cur # 0 /\ Clear(<<cur>>) /\ cur' = 0
      /\ curStage' = 0 /\ count' = 0
      /\ UNCHANGED <<last, nextStage, ready, staging, voxel, vRan, iRan, iStream,
                     islot, ipc, phase>>
  BY DEF Abort, StagingReset, gpuVars, inferVars
<1> PICK c : c = cur
  OBVIOUS
<1>2. c \in Slot /\ slots[c].st = "FILLING" /\ c # islot
  BY <1>1, Current
<1>3. Clear(<<c>>)
  BY <1>1
<1>4. /\ vStream' \in Seq(Op) /\ FillInv' /\ InferenceInv'
      /\ slots' = [slots EXCEPT ![c] = Free]
      /\ slots' \in [Slot -> [st : {"FREE", "FILLING", "READY", "INFERENCING"},
                              events : Seq(Nat), filled : Nat, inferred : Nat]]
      /\ \A s \in Slot : ContentInv(s)'
  BY <1>1, <1>2, <1>3, ClearedOne
<1>5. TypeOK'
  <2>1. curStage' \in 0..Stages /\ count' \in 0..(MaxBatch - 1) /\ cur' \in 0..PoolSize
    BY <1>1, SizesAssumption
  <2> QED
    BY <1>0, <1>1, <1>4, <2>1 DEF TypeOK
<1>6. ASSUME NEW s \in Slot PROVE RoleInv(s)'
  <2>1. s # 0 /\ slots'[s] = IF s = c THEN Free ELSE slots[s]
    BY <1>0, <1>2, <1>4 DEF Slot, TypeOK
  <2>2. CASE s = c
    <3>1. slots'[s].st = "FREE" /\ s \notin Range(ready)
      BY <1>0, <1>2, <2>1, <2>2 DEF Free, RoleInv
    <3> QED
      BY <1>1, <1>2, <2>1, <2>2, <3>1 DEF RoleInv
  <2>3. CASE s # c
    BY <1>0, <1>1, <2>1, <2>3 DEF RoleInv
  <2> QED
    BY <2>2, <2>3
<1>7. ReadyInv' /\ PhaseInv' /\ StageInv'
  BY <1>0, <1>1 DEF ReadyInv, PhaseInv, StageInv
<1> QED
  BY <1>4, <1>5, <1>6, <1>7 DEF IInv

LEMMA InvalidateKeeps ==
  ASSUME IInv, Invalidate
  PROVE  IInv'
<1>0. /\ TypeOK /\ PhaseInv /\ ReadyInv /\ StageInv /\ \A s \in Slot : RoleInv(s)
  BY DEF IInv
<1>1. PICK n \in DOMAIN ready : Clear(<<ready[n]>>) /\ ready' = RemoveAt(ready, n)
  BY DEF Invalidate
<1>2. /\ phase = "open"
      /\ UNCHANGED <<last, curStage, nextStage, count, cur, staging, voxel, vRan, iRan,
                     iStream, islot, ipc, phase>>
  BY DEF Invalidate, builderVars, gpuVars, inferVars
<1> PICK c : c = ready[n]
  OBVIOUS
<1>3. c \in Slot /\ c \in Range(ready) /\ ready \in Seq(Slot)
  BY <1>0 DEF TypeOK, Range
<1>4. slots[c].st = "READY" /\ c # islot /\ c # cur
  BY <1>0, <1>3 DEF RoleInv
<1>5. Clear(<<c>>) /\ Staged' = Staged
  BY <1>1, <1>2 DEF Staged
<1>6. /\ vStream' \in Seq(Op) /\ FillInv' /\ InferenceInv'
      /\ slots' = [slots EXCEPT ![c] = Free]
      /\ slots' \in [Slot -> [st : {"FREE", "FILLING", "READY", "INFERENCING"},
                              events : Seq(Nat), filled : Nat, inferred : Nat]]
      /\ \A s \in Slot : ContentInv(s)'
  BY <1>2, <1>3, <1>4, <1>5, ClearedOne
<1>7. ready' \in Seq(Slot) /\ Distinct(ready') /\ Range(ready') = Range(ready) \ {c}
  <2>1. Distinct(ready)
    BY <1>0 DEF ReadyInv, Distinct
  <2> QED
    BY <1>1, <1>3, <2>1, DistinctRemove
<1>8. TypeOK'
  BY <1>0, <1>2, <1>6, <1>7 DEF TypeOK
<1>9. ASSUME NEW s \in Slot PROVE RoleInv(s)'
  <2>1. slots'[s] = IF s = c THEN Free ELSE slots[s]
    BY <1>0, <1>3, <1>6 DEF TypeOK
  <2>2. CASE s = c
    <3>1. slots'[s].st = "FREE" /\ s \notin Range(ready')
      BY <1>7, <2>1, <2>2 DEF Free
    <3> QED
      BY <1>2, <1>4, <2>2, <3>1 DEF RoleInv
  <2>3. CASE s # c
    BY <1>0, <1>2, <1>7, <2>1, <2>3 DEF RoleInv
  <2> QED
    BY <2>2, <2>3
<1>10. ReadyInv' /\ PhaseInv' /\ StageInv'
  BY <1>0, <1>2, <1>7 DEF ReadyInv, Distinct, PhaseInv, StageInv
<1> QED
  BY <1>6, <1>8, <1>9, <1>10 DEF IInv

-----------------------------------------------------------------------------
(* Inference thread                                                         *)

LEMMA AcquireReadyKeeps ==
  ASSUME IInv, AcquireReady
  PROVE  IInv'
<1>0. /\ TypeOK /\ PhaseInv /\ ReadyInv /\ StageInv /\ FillInv /\ InferenceInv
      /\ \A s \in Slot : RoleInv(s) /\ ContentInv(s)
  BY DEF IInv
<1>1. /\ ipc = "acquire" /\ phase = "open" /\ ready # <<>>
      /\ islot' = Head(ready) /\ ready' = Tail(ready)
      /\ slots' = [slots EXCEPT ![Head(ready)].st = "INFERENCING"]
      /\ ipc' = "scope"
      /\ UNCHANGED <<last, curStage, nextStage, count, cur, staging, voxel, vRan, iRan,
                     vStream, iStream, phase>>
  BY DEF AcquireReady, builderVars, gpuVars
<1> PICK c : c = Head(ready)
  OBVIOUS
<1>2. /\ c \in Slot /\ c \in Range(ready) /\ ready' \in Seq(Slot)
      /\ Distinct(ready') /\ Range(ready') = Range(ready) \ {c}
  <2>1. ready \in Seq(Slot) /\ Distinct(ready)
    BY <1>0 DEF TypeOK, ReadyInv, Distinct
  <2> QED
    BY <1>1, <2>1, DistinctTail
<1>3. slots[c].st = "READY" /\ c # cur /\ islot = 0
  BY <1>0, <1>1, <1>2 DEF RoleInv, InferenceInv
<1> DEFINE Rec == [st : {"FREE", "FILLING", "READY", "INFERENCING"},
                   events : Seq(Nat), filled : Nat, inferred : Nat]
<1>4. /\ slots' \in [Slot -> Rec] /\ slots'[c].st = "INFERENCING"
      /\ slots'[c].filled = slots[c].filled /\ slots'[c].events = slots[c].events
      /\ \A s \in Slot : s # c => slots'[s] = slots[s]
  <2>1. slots \in [Slot -> Rec]
    BY <1>0 DEF TypeOK
  <2> QED
    BY <1>1, <1>2, <2>1
<1>5. TypeOK'
  <2>1. islot' \in 0..PoolSize
    BY <1>1, <1>2, SizesAssumption DEF Slot
  <2> QED
    BY <1>0, <1>1, <1>2, <1>4, <2>1 DEF TypeOK
<1>6. ASSUME NEW s \in Slot PROVE RoleInv(s)' /\ ContentInv(s)'
  <2>1. s # 0
    BY DEF Slot
  <2>2. CASE s = c
    <3>1. ContentInv(c)'
      BY <1>0, <1>1, <1>2, <1>3, <1>4, SlotMoved
    <3>2. RoleInv(c)'
      BY <1>1, <1>2, <1>3, <1>4 DEF RoleInv
    <3> QED
      BY <2>2, <3>1, <3>2
  <2>3. CASE s # c
    <3>1. slots'[s] = slots[s] /\ Staged' = Staged
      BY <1>1, <1>4, <2>3 DEF Staged
    <3>2. ContentInv(s)'
      BY <1>0, <1>1, <3>1, SlotSame
    <3>3. RoleInv(s)'
      BY <1>0, <1>1, <1>2, <1>3, <2>1, <2>3, <3>1 DEF RoleInv
    <3> QED
      BY <3>2, <3>3
  <2> QED
    BY <2>2, <2>3
<1>7. ReadyInv' /\ PhaseInv' /\ StageInv'
  BY <1>0, <1>1, <1>2 DEF ReadyInv, Distinct, PhaseInv, StageInv
<1>8. FillInv'
  BY <1>0, <1>1, FillSame
<1>9. InferenceInv'
  <2>1. islot' # 0 /\ iStream' = <<>>
    BY <1>0, <1>1, <1>2 DEF InferenceInv, Slot
  <2> QED
    BY <1>1, <2>1 DEF InferenceInv
<1> QED
  BY <1>5, <1>6, <1>7, <1>8, <1>9 DEF IInv

LEMMA InferenceScopeKeeps ==
  ASSUME IInv, InferenceScope
  PROVE  IInv'
<1>0. /\ TypeOK /\ PhaseInv /\ ReadyInv /\ StageInv /\ FillInv /\ InferenceInv
      /\ \A s \in Slot : RoleInv(s) /\ ContentInv(s)
  BY DEF IInv
<1> DEFINE op == [events |-> slots[islot].events, slot |-> islot,
                  after |-> slots[islot].filled]
<1>1. /\ ipc = "scope" /\ iStream' = Append(iStream, op)
      /\ slots' = [slots EXCEPT ![islot].inferred = IQueued + 1]
      /\ ipc' = "queued"
      /\ UNCHANGED <<last, curStage, nextStage, count, cur, ready, staging, voxel, vRan,
                     iRan, vStream, islot, phase>>
  BY DEF InferenceScope, builderVars, gpuVars
<1>2. iStream = <<>> /\ islot # 0 /\ islot \in Slot
  BY <1>0, <1>1, SizesAssumption DEF InferenceInv, TypeOK, Slot
<1>3. slots[islot].st = "INFERENCING"
  BY <1>0, <1>2 DEF RoleInv
<1>4. iStream' = <<op>> /\ IQueued = iRan /\ IQueued' = iRan + 1 /\ iRan \in Nat
  <2>1. iStream' = <<op>>
    <3> HIDE DEF op
    <3> QED
      BY <1>1, <1>2
  <2>2. Len(iStream) = 0 /\ Len(iStream') = 1 /\ iRan \in Nat
    BY <1>0, <1>2, <2>1 DEF TypeOK
  <2> QED
    BY <1>1, <2>1, <2>2 DEF IQueued
<1> DEFINE Rec == [st : {"FREE", "FILLING", "READY", "INFERENCING"},
                   events : Seq(Nat), filled : Nat, inferred : Nat]
<1>5. slots \in [Slot -> Rec]
  BY <1>0 DEF TypeOK
<1>6. /\ slots' \in [Slot -> Rec] /\ slots'[islot].inferred = iRan + 1
      /\ slots'[islot].st = "INFERENCING"
      /\ slots'[islot].filled = slots[islot].filled
      /\ slots'[islot].events = slots[islot].events
      /\ \A s \in Slot : s # islot => slots'[s] = slots[s]
  BY <1>1, <1>2, <1>3, <1>4, <1>5
<1>7. iStream' \in Seq([events : Seq(Nat), slot : Slot, after : Nat])
  <2>1. op \in [events : Seq(Nat), slot : Slot, after : Nat]
    BY <1>2, <1>5
  <2> HIDE DEF op
  <2> QED
    BY <1>4, <2>1
<1>8. TypeOK'
  BY <1>0, <1>1, <1>6, <1>7 DEF TypeOK
<1>9. ASSUME NEW s \in Slot PROVE RoleInv(s)' /\ ContentInv(s)'
  <2>1. CASE s = islot
    <3>1. ContentInv(s)'
      BY <1>0, <1>1, <1>3, <1>6, <2>1, SlotMoved
    <3>2. RoleInv(s)'
      BY <1>0, <1>1, <1>3, <1>6, <2>1 DEF RoleInv
    <3> QED
      BY <3>1, <3>2
  <2>2. CASE s # islot
    <3>1. slots'[s] = slots[s] /\ Staged' = Staged
      BY <1>1, <1>6, <2>2 DEF Staged
    <3>2. ContentInv(s)'
      BY <1>0, <1>1, <3>1, SlotSame
    <3>3. RoleInv(s)'
      BY <1>0, <1>1, <3>1 DEF RoleInv
    <3> QED
      BY <3>2, <3>3
  <2> QED
    BY <2>1, <2>2
<1>10. ReadyInv' /\ PhaseInv' /\ StageInv'
  <2>1. phase = "open"
    BY <1>0, <1>2 DEF TypeOK, PhaseInv
  <2> QED
    BY <1>0, <1>1, <2>1 DEF ReadyInv, PhaseInv, StageInv
<1>11. FillInv'
  BY <1>0, <1>1, FillSame
<1>12. InferenceInv'
  BY <1>1, <1>2, <1>4, <1>6 DEF InferenceInv
<1> QED
  BY <1>8, <1>9, <1>10, <1>11, <1>12 DEF IInv

\* The slot is FREE at once: either the network has run, or its zeroing waits
\* for the network, which will find the window in the voxel.
LEMMA ReleaseKeeps ==
  ASSUME IInv, Release
  PROVE  IInv'
<1>0. /\ TypeOK /\ PhaseInv /\ ReadyInv /\ StageInv /\ FillInv /\ InferenceInv
      /\ \A s \in Slot : RoleInv(s) /\ ContentInv(s)
  BY DEF IInv
<1>1. /\ ipc = "queued"
      /\ (slots[islot].inferred <= iRan /\ ipc' = "acquire") \/ ipc' = "failed"
      /\ slots' = [slots EXCEPT ![islot] = Free]
      /\ vStream' = Append(vStream, Zero(islot, slots[islot].inferred))
      /\ islot' = 0
      /\ UNCHANGED <<last, curStage, nextStage, count, cur, ready, staging, voxel, vRan,
                     iRan, iStream, phase>>
  BY DEF Release, builderVars, gpuVars
<1>2. islot # 0 /\ islot \in Slot
  BY <1>0, <1>1, SizesAssumption DEF InferenceInv, TypeOK, Slot
<1> PICK c : c = islot
  OBVIOUS
<1>3. slots[c].st = "INFERENCING" /\ c \in Slot /\ c # 0
  BY <1>0, <1>2 DEF RoleInv
<1> DEFINE Rec == [st : {"FREE", "FILLING", "READY", "INFERENCING"},
                   events : Seq(Nat), filled : Nat, inferred : Nat]
<1>4. slots \in [Slot -> Rec]
  BY <1>0 DEF TypeOK
<1>5. /\ slots' \in [Slot -> Rec] /\ slots'[c] = Free
      /\ \A s \in Slot : s # c => slots'[s] = slots[s]
  <2>1. Free \in Rec
    BY EmptyStaged DEF Free
  <2> HIDE DEF Free
  <2> QED
    BY <1>1, <1>3, <1>4, <2>1
<1> PICK a : a = slots[c].inferred
  OBVIOUS
<1>6. a \in Nat /\ vStream' = Append(vStream, Zero(c, a))
  BY <1>1, <1>3, <1>4
<1> DEFINE op == Zero(c, a)
<1>7. op \in Op /\ ContentInv(c)'
  BY <1>0, <1>1, <1>3, <1>5, <1>6, SlotCleared
<1>8. op.do = "zero" /\ op.slot = c /\ op.after = a
  BY DEF Zero
<1> HIDE DEF op
<1>9. /\ Extended /\ Len(vStream) \in Nat /\ Len(vStream') = Len(vStream) + 1
      /\ vStream'[Len(vStream) + 1] = op
      /\ \A i \in 0..Len(vStream) : Content(c)'[i] = Content(c)[i]
  BY <1>0, <1>1, <1>3, <1>6, <1>7, Queued DEF op
<1>10. vStream' \in Seq(Op)
  BY <1>9 DEF Extended
<1>11. TypeOK'
  <2>1. islot' \in 0..PoolSize /\ ipc' \in {"acquire", "scope", "queued", "failed"}
    BY <1>1, SizesAssumption
  <2> QED
    BY <1>0, <1>1, <1>5, <1>10, <2>1 DEF TypeOK
<1>12. ASSUME NEW s \in Slot PROVE RoleInv(s)' /\ ContentInv(s)'
  <2>1. s # 0
    BY DEF Slot
  <2>2. CASE s = c
    <3>1. RoleInv(c)'
      BY <1>0, <1>1, <1>3, <1>5 DEF RoleInv, Free
    <3> QED
      BY <1>7, <2>2, <3>1
  <2>3. CASE s # c
    <3>1. slots'[s] = slots[s] /\ Staged' = Staged /\ op.slot # s
      BY <1>1, <1>5, <1>8, <2>3 DEF Staged
    <3>2. ContentInv(s)'
      BY <1>0, <1>1, <1>6, <1>7, <3>1, SlotQueued DEF op
    <3>3. RoleInv(s)'
      BY <1>0, <1>1, <2>1, <2>3, <3>1 DEF RoleInv
    <3> QED
      BY <3>2, <3>3
  <2> QED
    BY <2>2, <2>3
<1>13. ReadyInv' /\ PhaseInv' /\ StageInv'
  <2>1. phase = "open"
    BY <1>0, <1>2 DEF TypeOK, PhaseInv
  <2> QED
    BY <1>0, <1>1, <2>1 DEF ReadyInv, PhaseInv, StageInv
<1>14. FillInv'
  BY <1>0, <1>1, <1>6, <1>7, <1>8, FillZero DEF op
<1>15. InferenceInv'
  <2>1. a = IQueued /\ iRan \in Nat /\ Len(iStream) \in Nat
    BY <1>0, <1>1 DEF InferenceInv, TypeOK
  <2>2. ipc' = "acquire" => iStream = <<>>
    <3> SUFFICES ASSUME ipc' = "acquire" PROVE Len(iStream) = 0
      BY <1>0, EmptySeq DEF TypeOK
    <3>1. a <= iRan
      BY <1>1
    <3> QED
      BY <2>1, <3>1 DEF IQueued
  <2>3. ASSUME ipc' = "failed", iStream # <<>>
        PROVE  Len(iStream) = 1 /\ Guarded(iStream[1])'
    <3> DEFINE net == [events |-> slots[islot].events, slot |-> islot,
                       after |-> slots[islot].filled]
    <3>1. iStream = <<net>>
      BY <1>0, <1>1, <2>3 DEF InferenceInv
    <3> PICK e : e = slots[c].events
      OBVIOUS
    <3> PICK f : f = slots[c].filled
      OBVIOUS
    <3>2. /\ Len(iStream) = 1 /\ iStream[1].events = e
          /\ iStream[1].slot = c /\ iStream[1].after = f
      BY <3>1
    <3>3. a = iRan + 1
      BY <2>1, <3>2 DEF IQueued
    <3>4. f <= VQueued /\ Holds(c, f, Len(vStream), e)
      BY <1>0, <1>3 DEF ContentInv
    <3> DEFINE j == Len(vStream) + 1
    <3>5. j \in DOMAIN vStream' /\ vStream'[j] = op /\ j - 1 = Len(vStream)
      BY <1>9, <1>10
    <3>6. f < vRan' + j
      <4>1. f \in Nat /\ vRan \in Nat /\ vRan' = vRan
        BY <1>0, <1>1, <1>3, <1>4 DEF TypeOK
      <4> QED
        BY <1>9, <3>4, <4>1 DEF VQueued
    <3>7. \A i \in 0..(j - 1) : f <= vRan' + i => Content(c)'[i] = e
      BY <1>1, <1>9, <3>4, <3>5 DEF Holds
    <3> HIDE DEF j
    <3> PICK o : o = iStream[1]
      OBVIOUS
    <3>8. \E k \in DOMAIN vStream' :
            /\ vStream'[k].do = "zero" /\ vStream'[k].slot = o.slot
            /\ vStream'[k].after = iRan' + 1 /\ o.after < vRan' + k
            /\ \A i \in 0..(k - 1) : o.after <= vRan' + i => Content(o.slot)'[i] = o.events
      BY <1>1, <1>8, <3>2, <3>3, <3>5, <3>6, <3>7
    <3>9. Guarded(o)'
      BY <3>8 DEF Guarded, Holds
    <3> QED
      BY <1>1, <3>2, <3>9
  <2> QED
    BY <1>1, <2>2, <2>3 DEF InferenceInv
<1> QED
  BY <1>11, <1>12, <1>13, <1>14, <1>15 DEF IInv

\* The slots that close clears: the current one and the READY ones.
LEMMA CloseClears ==
  ASSUME IInv, Close
  PROVE  /\ slots' = [s \in Slot |-> Free] /\ vStream' \in Seq(Op)
         /\ Len(vStream) <= Len(vStream')
         /\ \A i \in 1..Len(vStream) : vStream'[i] = vStream[i]
         /\ \A i \in Len(vStream) + 1..Len(vStream') : vStream'[i].do = "zero"
         /\ \A s \in Slot : slots[s].st # "FREE" =>
              \E i \in Len(vStream) + 1..Len(vStream') : vStream'[i].slot = s
<1>0. /\ TypeOK /\ InferenceInv /\ \A s \in Slot : RoleInv(s)
  BY DEF IInv
<1> DEFINE head == IF cur = 0 THEN <<>> ELSE <<cur>>
           victims == head \o ready
           z == [i \in DOMAIN victims |-> Zero(victims[i], 0)]
           N == Len(vStream)
           M == Len(victims)
<1>1. /\ slots' = [s \in Slot |-> IF s \in Range(victims) THEN Free ELSE slots[s]]
      /\ vStream' = vStream \o z /\ ipc \in {"acquire", "failed"}
  BY DEF Close, Clear
<1>2. /\ vStream \in Seq(Op) /\ ready \in Seq(Slot) /\ N \in Nat /\ islot = 0
  BY <1>0, <1>1 DEF TypeOK, InferenceInv
<1>3. head \in Seq(Slot) /\ (cur # 0 => cur \in Range(head))
  <2>1. CASE cur = 0
    BY <2>1
  <2>2. CASE cur # 0
    <3>1. cur \in Slot
      BY <1>0, <2>2, SizesAssumption DEF TypeOK, Slot
    <3>2. <<cur>> \in Seq(Slot) /\ 1 \in DOMAIN <<cur>> /\ <<cur>>[1] = cur
      BY <3>1
    <3>3. head = <<cur>>
      BY <2>2
    <3> HIDE DEF head
    <3>4. cur \in Range(head)
      BY <3>2, <3>3 DEF Range
    <3> QED
      BY <3>2, <3>3, <3>4
  <2> QED
    BY <2>1, <2>2
<1> HIDE DEF head
<1>4. /\ victims \in Seq(Slot) /\ Len(victims) = Len(head) + Len(ready)
      /\ \A i \in 1..Len(head) + Len(ready) :
           victims[i] = IF i <= Len(head) THEN head[i] ELSE ready[i - Len(head)]
  BY <1>2, <1>3, ConcatProperties
<1> HIDE DEF victims
<1>5. M \in Nat /\ DOMAIN victims = 1..M /\ \A i \in 1..M : victims[i] \in Slot
  BY <1>4
<1>6. ASSUME NEW s \in Slot, slots[s].st # "FREE" PROVE \E i \in 1..M : victims[i] = s
  <2>0. Len(head) \in Nat /\ Len(ready) \in Nat /\ M = Len(head) + Len(ready)
    BY <1>2, <1>3, <1>4
  <2>1. CASE s = cur
    <3>1. PICK i \in DOMAIN head : head[i] = s
      BY <1>3, <2>1 DEF Range, Slot
    <3>2. i \in 1..Len(head)
      BY <1>3
    <3>3. i \in 1..M /\ i <= Len(head) /\ i \in 1..Len(head) + Len(ready)
      <4> HIDE DEF M
      <4> QED
        BY ONLY <2>0, <3>2
    <3> QED
      BY <1>4, <3>1, <3>3
  <2>2. CASE s # cur
    <3>1. s # islot
      BY <1>2 DEF Slot
    <3>2. slots[s].st \in {"FREE", "FILLING", "READY", "INFERENCING"}
      BY <1>0 DEF TypeOK
    <3>3. s \in Range(ready)
      BY <1>0, <1>6, <2>2, <3>1, <3>2 DEF RoleInv
    <3>4. PICK j \in DOMAIN ready : ready[j] = s
      BY <3>3 DEF Range
    <3>5. j \in 1..Len(ready)
      BY <1>2
    <3> DEFINE i == j + Len(head)
    <3>6. i \in 1..M /\ i \in 1..Len(head) + Len(ready) /\ ~(i <= Len(head)) /\ i - Len(head) = j
      <4> HIDE DEF M
      <4> QED
        BY ONLY <2>0, <3>5
    <3> HIDE DEF i
    <3> QED
      BY <1>4, <3>4, <3>6
  <2> QED
    BY <2>1, <2>2
<1>7. slots' = [s \in Slot |-> Free]
  <2>1. ASSUME NEW s \in Slot
        PROVE  (IF s \in Range(victims) THEN Free ELSE slots[s]) = Free
    <3>1. CASE slots[s].st = "FREE"
      <4>1. ContentInv(s)
        BY DEF IInv
      <4>2. slots[s] = Free
        BY <3>1, <4>1 DEF ContentInv
      <4> QED
        BY <4>2
    <3>2. CASE slots[s].st # "FREE"
      <4>1. PICK i \in 1..M : victims[i] = s
        BY <1>6, <3>2
      <4>2. s \in Range(victims)
        BY <1>5, <4>1 DEF Range
      <4> QED
        BY <4>2
    <3> QED
      BY <3>1, <3>2
  <2> HIDE DEF Free
  <2> QED
    BY <1>1, <2>1
<1>8. /\ z \in Seq(Op) /\ Len(z) = M
      /\ \A i \in 1..M : z[i].do = "zero" /\ z[i].slot = victims[i]
  <2>1. \A i \in 1..M : Zero(victims[i], 0) \in Op
    BY <1>5, SizesAssumption DEF Zero, Op
  <2>2. z = [i \in 1..M |-> Zero(victims[i], 0)]
    BY <1>5
  <2>3. z \in [1..M -> Op] /\ \A i \in 1..M : z[i] = Zero(victims[i], 0)
    <3> HIDE DEF z, M
    <3> QED
      BY <2>1, <2>2
  <2>4. z \in Seq(Op) /\ Len(z) = M
    <3> HIDE DEF z, M
    <3> QED
      BY <1>5, <2>3
  <2> QED
    BY <2>3, <2>4 DEF Zero
<1> HIDE DEF z, M, N
<1>9. /\ vStream' \in Seq(Op) /\ Len(vStream') = N + M
      /\ \A i \in 1..N + M : vStream'[i] = IF i <= N THEN vStream[i] ELSE z[i - N]
  <2>1. /\ vStream' \in Seq(Op) /\ Len(vStream') = Len(vStream) + Len(z)
        /\ \A i \in 1..Len(vStream) + Len(z) :
             vStream'[i] = IF i <= Len(vStream) THEN vStream[i] ELSE z[i - Len(vStream)]
    BY <1>1, <1>2, <1>8, ConcatProperties
  <2> QED
    BY ONLY <1>8, <2>1 DEF N
<1>10. /\ \A i \in 1..N : i \in 1..N + M /\ i <= N
       /\ \A i \in N + 1..N + M : i \in 1..N + M /\ ~(i <= N) /\ i - N \in 1..M
       /\ \A i \in 1..M : i + N \in N + 1..N + M /\ (i + N) - N = i
       /\ N <= N + M
  BY <1>2, <1>5
<1>11. \A i \in 1..N : vStream'[i] = vStream[i]
  BY <1>9, <1>10
<1>12. \A i \in N + 1..N + M : vStream'[i] = z[i - N]
  BY <1>9, <1>10
<1>13. ASSUME NEW s \in Slot, slots[s].st # "FREE"
       PROVE  \E i \in N + 1..N + M : vStream'[i].slot = s
  <2>1. PICK i \in 1..M : victims[i] = s
    BY <1>6, <1>13
  <2>2. i + N \in N + 1..N + M /\ vStream'[i + N] = z[i]
    BY <1>10, <1>12
  <2> QED
    BY <1>8, <2>1, <2>2
<1>14. \A i \in N + 1..N + M : vStream'[i].do = "zero"
  BY <1>8, <1>10, <1>12
<1> QED
  BY <1>7, <1>9, <1>10, <1>11, <1>13, <1>14 DEF N

\* A voxel that is empty, or is zeroed on the way, is empty in the end if
\* there are only zeroings to come.
LEMMA EmptyInTheEnd ==
  ASSUME NEW q, NEW v, NEW s, Len(q) \in Nat, NEW m \in 0..Len(q),
         History(q, v, s)[m] = <<>>, \A i \in m + 1..Len(q) : q[i].do = "zero"
  PROVE  History(q, v, s)[Len(q)] = <<>>
<1> DEFINE H == History(q, v, s)
           N == Len(q)
           S == {i \in Nat : m <= i /\ i <= N => H[i] = <<>>}
<1>1. \A i \in 1..N : H[i] = Then(H[i - 1], q[i], s)
  BY HistoryStep
<1> HIDE DEF H, N
<1>2. N \in Nat /\ m \in 0..N /\ H[m] = <<>> /\ \A i \in m + 1..N : q[i].do = "zero"
  BY DEF H, N
<1>3. 0 \in S
  <2> SUFFICES ASSUME m <= 0 PROVE H[0] = <<>>
    OBVIOUS
  <2>1. m = 0
    BY <1>2
  <2> QED
    BY <1>2, <2>1
<1>4. ASSUME NEW i \in S PROVE i + 1 \in S
  <2> SUFFICES ASSUME m <= i + 1, i + 1 <= N PROVE H[i + 1] = <<>>
    OBVIOUS
  <2>1. CASE m = i + 1
    BY <1>2, <2>1
  <2>2. CASE m # i + 1
    <3>1. i + 1 \in m + 1..N /\ i + 1 \in 1..N /\ m <= i /\ i <= N /\ (i + 1) - 1 = i
      BY <1>2, <2>2
    <3>2. H[i] = <<>> /\ H[i + 1] = Then(H[i], q[i + 1], s) /\ q[i + 1].do = "zero"
      BY <1>1, <1>2, <3>1
    <3> QED
      BY <3>2 DEF Then
  <2> QED
    BY <2>1, <2>2
<1>5. S = Nat
  <2>1. S \in SUBSET Nat
    OBVIOUS
  <2> HIDE DEF S
  <2> QED
    BY <1>3, <1>4, <2>1, SetInduction
<1>6. N \in S /\ m <= N
  BY <1>2, <1>5
<1> QED
  BY <1>2, <1>6 DEF H, N

LEMMA CloseKeeps ==
  ASSUME IInv, Close
  PROVE  IInv'
<1>0. /\ TypeOK /\ FillInv /\ InferenceInv /\ \A s \in Slot : ContentInv(s)
  BY DEF IInv
<1>1. /\ phase = "open" /\ ipc \in {"acquire", "failed"}
      /\ cur' = 0 /\ ready' = <<>> /\ curStage' = 0 /\ count' = 0 /\ phase' = "closing"
      /\ UNCHANGED <<last, nextStage, staging, voxel, vRan, iRan, iStream, islot, ipc>>
  BY DEF Close, StagingReset, gpuVars, inferVars
<1>2. islot = 0
  BY <1>0, <1>1 DEF InferenceInv
<1>3. /\ slots' = [s \in Slot |-> Free] /\ vStream' \in Seq(Op)
      /\ Len(vStream) <= Len(vStream')
      /\ \A i \in 1..Len(vStream) : vStream'[i] = vStream[i]
      /\ \A i \in Len(vStream) + 1..Len(vStream') : vStream'[i].do = "zero"
      /\ \A s \in Slot : slots[s].st # "FREE" =>
           \E i \in Len(vStream) + 1..Len(vStream') : vStream'[i].slot = s
  BY CloseClears
<1>4. Extended
  BY <1>1, <1>3 DEF Extended
<1>5. TypeOK'
  <2>1. curStage' \in 0..Stages /\ count' \in 0..(MaxBatch - 1) /\ cur' \in 0..PoolSize
    BY <1>1, SizesAssumption
  <2>2. slots' \in [Slot -> [st : {"FREE", "FILLING", "READY", "INFERENCING"},
                             events : Seq(Nat), filled : Nat, inferred : Nat]]
    <3>1. Free \in [st : {"FREE", "FILLING", "READY", "INFERENCING"},
                    events : Seq(Nat), filled : Nat, inferred : Nat]
      BY EmptyStaged DEF Free
    <3> HIDE DEF Free
    <3> QED
      BY <1>3, <3>1
  <2>3. ready' \in Seq(Slot) /\ phase' \in {"open", "closing", "closed"}
    BY <1>1
  <2> QED
    BY <1>0, <1>1, <1>3, <2>1, <2>2, <2>3 DEF TypeOK
<1>6. ASSUME NEW s \in Slot PROVE Finally(s)' = <<>>
  <2> DEFINE H == History(vStream', voxel'[s], s)
  <2>1. Len(vStream) \in Nat /\ Len(vStream') \in Nat
    BY <1>0, <1>3 DEF TypeOK
  <2>2. \A i \in 0..Len(vStream) : Content(s)'[i] = Content(s)[i]
    BY <1>0, <1>4, ContentExtends
  <2>3. CASE slots[s].st = "FREE"
    <3>1. Content(s)[Len(vStream)] = <<>>
      BY <1>0, <2>3 DEF ContentInv, Finally
    <3>2. H[Len(vStream)] = <<>> /\ Len(vStream) \in 0..Len(vStream')
      BY <1>3, <2>1, <2>2, <3>1 DEF Content
    <3>3. H[Len(vStream')] = <<>>
      BY <1>3, <2>1, <3>2, EmptyInTheEnd
    <3> QED
      BY <3>3 DEF Finally, Content
  <2>4. CASE slots[s].st # "FREE"
    <3>1. PICK i \in Len(vStream) + 1..Len(vStream') : vStream'[i].slot = s
      BY <1>3, <2>4
    <3>2. i \in 1..Len(vStream') /\ i \in 0..Len(vStream')
      BY <2>1
    <3>3. \A k \in i + 1..Len(vStream') : k \in Len(vStream) + 1..Len(vStream')
      BY <2>1
    <3>4. H[i] = Then(H[i - 1], vStream'[i], s)
      BY <2>1, <3>2, HistoryStep
    <3>5. H[i] = <<>>
      BY <1>3, <3>1, <3>4 DEF Then
    <3>6. \A k \in i + 1..Len(vStream') : vStream'[k].do = "zero"
      BY <1>3, <3>3
    <3>7. H[Len(vStream')] = <<>>
      BY <2>1, <3>2, <3>5, <3>6, EmptyInTheEnd
    <3> QED
      BY <3>7 DEF Finally, Content
  <2> QED
    BY <2>3, <2>4
<1>7. ASSUME NEW s \in Slot PROVE RoleInv(s)' /\ ContentInv(s)'
  <2>1. slots'[s] = Free /\ Free.st = "FREE"
    BY <1>3 DEF Free
  <2>2. Range(ready') = {} /\ s # 0
    BY <1>1 DEF Range, Slot
  <2>3. RoleInv(s)'
    BY <1>1, <1>2, <2>1, <2>2 DEF RoleInv
  <2>4. ContentInv(s)'
    BY <1>6, <2>1 DEF ContentInv
  <2> QED
    BY <2>3, <2>4
<1>8. ReadyInv' /\ StageInv' /\ PhaseInv'
  <2>1. ReadyInv'
    BY <1>1 DEF ReadyInv
  <2> QED
    BY <1>1, <1>2, <2>1 DEF StageInv, PhaseInv
<1>9. FillInv'
  <2> SUFFICES ASSUME NEW i \in DOMAIN vStream', vStream'[i].do = "fill"
               PROVE  vStream'[i] = vStream[i] /\ i \in DOMAIN vStream
    BY <1>0, <1>1 DEF FillInv
  <2>1. i \in 1..Len(vStream') /\ Len(vStream) \in Nat /\ Len(vStream') \in Nat
    BY <1>0, <1>3 DEF TypeOK
  <2>2. i \notin Len(vStream) + 1..Len(vStream')
    BY <1>3
  <2>3. i \in 1..Len(vStream)
    BY ONLY <2>1, <2>2
  <2> QED
    BY <1>0, <1>3, <2>3 DEF TypeOK
<1>10. InferenceInv'
  BY <1>0, <1>1, <1>2, <1>4, InferenceExtends
<1> QED
  BY <1>5, <1>7, <1>8, <1>9, <1>10 DEF IInv

LEMMA SynchronizeKeeps ==
  ASSUME IInv, Synchronize
  PROVE  IInv'
<1>0. /\ TypeOK /\ PhaseInv /\ ReadyInv /\ StageInv /\ FillInv /\ InferenceInv
      /\ \A s \in Slot : RoleInv(s) /\ ContentInv(s)
  BY DEF IInv
<1>1. /\ phase = "closing" /\ vStream = <<>> /\ iStream = <<>> /\ phase' = "closed"
      /\ staging' = [b \in Stage |-> [staging[b] EXCEPT !.used = FALSE]]
      /\ UNCHANGED <<last, curStage, nextStage, count, slots, cur, ready, voxel, vRan,
                     iRan, vStream, iStream, islot, ipc>>
  BY DEF Synchronize, builderVars, gpuVars, inferVars
<1>2. curStage = 0 /\ Staged' = Staged
  BY <1>0, <1>1 DEF PhaseInv, Staged
<1>3. staging' \in [Stage -> [mem : [1..MaxBatch -> Nat], used : BOOLEAN, done : Nat]]
      /\ \A b \in Stage : ~staging'[b].used
  BY <1>0, <1>1 DEF TypeOK
<1>4. TypeOK'
  BY <1>0, <1>1, <1>3 DEF TypeOK
<1>5. ASSUME NEW s \in Slot PROVE RoleInv(s)' /\ ContentInv(s)'
  <2>1. RoleInv(s)'
    BY <1>0, <1>1 DEF RoleInv
  <2>2. ContentInv(s)'
    BY <1>0, <1>1, <1>2, SlotSame
  <2> QED
    BY <2>1, <2>2
<1>6. ReadyInv' /\ StageInv' /\ PhaseInv'
  BY <1>0, <1>1, <1>2, <1>3 DEF ReadyInv, StageInv, PhaseInv
<1>7. FillInv'
  BY <1>1 DEF FillInv
<1>8. InferenceInv'
  <2>1. Extended
    BY <1>0, <1>1, NothingQueued
  <2> QED
    BY <1>0, <1>1, <2>1, InferenceExtends
<1> QED
  BY <1>4, <1>5, <1>6, <1>7, <1>8 DEF IInv

-----------------------------------------------------------------------------
(* Streams                                                                  *)

LEMMA VRunKeeps ==
  ASSUME IInv, VRun
  PROVE  IInv'
<1>0. /\ TypeOK /\ PhaseInv /\ ReadyInv /\ StageInv /\ FillInv /\ InferenceInv
      /\ \A s \in Slot : RoleInv(s) /\ ContentInv(s)
  BY DEF IInv
<1>1. /\ vStream # <<>> /\ vStream' = Tail(vStream) /\ vRan' = vRan + 1
      /\ UNCHANGED <<last, curStage, nextStage, count, slots, cur, ready, staging,
                     iStream, iRan, islot, ipc, phase>>
  BY DEF VRun, VReady, builderVars, inferVars
<1> DEFINE op == Head(vStream)
<1>2. vStream \in Seq(Op) /\ op \in Op /\ vStream' \in Seq(Op) /\ vRan' \in Nat
  BY <1>0, <1>1 DEF TypeOK
<1>3. voxel' \in [Slot -> Seq(Nat)]
  <2>1. voxel \in [Slot -> Seq(Nat)]
    BY <1>0 DEF TypeOK
  <2>2. op.slot \in Slot /\ op.do \in {"fill", "zero"} /\ op.events \in Seq(Nat)
    BY <1>2 DEF Op
  <2>3. op.do = "fill" => SubSeq(staging[op.stage].mem, 1, op.n) = op.events
    <3>1. 1 \in DOMAIN vStream /\ op = vStream[1]
      BY <1>1, <1>2
    <3> QED
      BY <1>0, <3>1 DEF FillInv
  <2>4. voxel' = [voxel EXCEPT ![op.slot] =
                    IF op.do = "zero" THEN <<>> ELSE @ \o SubSeq(staging[op.stage].mem, 1, op.n)]
    BY DEF VRun
  <2> HIDE DEF op
  <2>5. CASE op.do = "zero"
    BY <2>1, <2>2, <2>4, <2>5
  <2>6. CASE op.do # "zero"
    <3>1. voxel' = [voxel EXCEPT ![op.slot] = @ \o op.events]
      BY <2>2, <2>3, <2>4, <2>6
    <3>2. voxel[op.slot] \o op.events \in Seq(Nat)
      BY <2>1, <2>2, ConcatProperties
    <3> QED
      BY <2>1, <3>1, <3>2
  <2> QED
    BY <2>5, <2>6
<1>4. TypeOK'
  BY <1>0, <1>1, <1>2, <1>3 DEF TypeOK
<1>5. ASSUME NEW s \in Slot PROVE RoleInv(s)' /\ ContentInv(s)'
  <2>1. RoleInv(s)'
    BY <1>0, <1>1 DEF RoleInv
  <2>2. ContentInv(s)'
    BY <1>0, SlotRun
  <2> QED
    BY <2>1, <2>2
<1>6. ReadyInv' /\ StageInv' /\ PhaseInv'
  <2>1. phase # "closed"
    BY <1>0, <1>1 DEF PhaseInv
  <2> QED
    BY <1>0, <1>1, <2>1 DEF ReadyInv, StageInv, PhaseInv
<1>7. FillInv'
  BY <1>0, FillRun
<1>8. InferenceInv'
  <2>1. IQueued' = IQueued
    BY <1>1 DEF IQueued
  <2>2. ASSUME ipc = "failed", iStream # <<>> PROVE Len(iStream) = 1 /\ Guarded(iStream[1])'
    <3>1. Len(iStream) = 1 /\ Guarded(iStream[1])
      BY <1>0, <2>2 DEF InferenceInv
    <3> DEFINE R == [events : Seq(Nat), slot : Slot, after : Nat]
    <3>2. iStream \in Seq(R)
      BY <1>0 DEF TypeOK
    <3>3. iStream[1] \in R
      <4> HIDE DEF R
      <4>1. Len(iStream) = 1
        BY <3>1
      <4> QED
        BY ONLY <3>2, <4>1
    <3> PICK o : o = iStream[1]
      OBVIOUS
    <3>4. Guarded(o)'
      BY <1>0, <3>1, <3>3, GuardRun
    <3> QED
      BY <1>1, <3>1, <3>4
  <2> QED
    BY <1>0, <1>1, <2>1, <2>2 DEF InferenceInv
<1> QED
  BY <1>4, <1>5, <1>6, <1>7, <1>8 DEF IInv

LEMMA IRunKeeps ==
  ASSUME IInv, IRun
  PROVE  IInv'
<1>0. /\ TypeOK /\ PhaseInv /\ ReadyInv /\ StageInv /\ FillInv /\ InferenceInv
      /\ \A s \in Slot : RoleInv(s) /\ ContentInv(s)
  BY DEF IInv
<1>1. /\ iStream # <<>> /\ iStream' = Tail(iStream) /\ iRan' = iRan + 1
      /\ UNCHANGED <<last, curStage, nextStage, count, slots, cur, ready, staging, voxel,
                     vRan, vStream, islot, ipc, phase>>
  BY DEF IRun, IReady, builderVars, inferVars
<1> DEFINE R == [events : Seq(Nat), slot : Slot, after : Nat]
<1>2. iStream \in Seq(R) /\ iRan \in Nat
  BY <1>0 DEF TypeOK
<1>3. Len(iStream) = 1 /\ ipc \in {"queued", "failed"}
  <2>1. ipc \in {"queued", "failed"}
    BY <1>0, <1>1 DEF InferenceInv, TypeOK
  <2>2. CASE ipc = "queued"
    <3>1. iStream = <<[events |-> slots[islot].events, slot |-> islot,
                       after |-> slots[islot].filled]>>
      BY <1>0, <1>1, <2>2 DEF InferenceInv
    <3> QED
      BY <2>1, <3>1
  <2>3. CASE ipc = "failed"
    BY <1>0, <1>1, <2>1, <2>3 DEF InferenceInv
  <2> QED
    BY <2>1, <2>2, <2>3
<1>4. iStream' = <<>> /\ IQueued' = IQueued /\ iRan' \in Nat
  <2> HIDE DEF R
  <2>1. iStream' \in Seq(R) /\ Len(iStream') = 0
    BY <1>1, <1>2, <1>3
  <2>2. iStream' = <<>>
    BY <2>1, EmptySeq
  <2>3. iRan' \in Nat
    BY <1>1, <1>2
  <2>4. IQueued' = IQueued
    BY <1>1, <1>2, <1>3, <2>1 DEF IQueued
  <2> QED
    BY <2>2, <2>3, <2>4
<1>5. TypeOK'
  <2>1. iStream' \in Seq([events : Seq(Nat), slot : Slot, after : Nat])
    BY <1>4
  <2> QED
    BY <1>0, <1>1, <1>4, <2>1 DEF TypeOK
<1>6. ASSUME NEW s \in Slot PROVE RoleInv(s)' /\ ContentInv(s)'
  <2>1. RoleInv(s)'
    BY <1>0, <1>1 DEF RoleInv
  <2>2. Staged' = Staged
    BY <1>1 DEF Staged
  <2>3. ContentInv(s)'
    BY <1>0, <1>1, <2>2, SlotSame
  <2> QED
    BY <2>1, <2>3
<1>7. ReadyInv' /\ StageInv' /\ PhaseInv'
  BY <1>0, <1>1, <1>4 DEF ReadyInv, StageInv, PhaseInv
<1>8. FillInv'
  BY <1>0, <1>1, FillSame
<1>9. InferenceInv'
  BY <1>0, <1>1, <1>3, <1>4 DEF InferenceInv
<1> QED
  BY <1>5, <1>6, <1>7, <1>8, <1>9 DEF IInv

-----------------------------------------------------------------------------
(* Theorems                                                                 *)

LEMMA InitIInv == Init => IInv
<1> SUFFICES ASSUME Init PROVE IInv
  OBVIOUS
<1>1. /\ last = 0 /\ slots = [s \in Slot |-> Free] /\ cur = 0 /\ ready = <<>>
      /\ staging = [b \in Stage |-> [mem |-> [i \in 1..MaxBatch |-> 0],
                                     used |-> FALSE, done |-> 0]]
      /\ curStage = 0 /\ nextStage = 1 /\ count = 0 /\ voxel = [s \in Slot |-> <<>>]
      /\ vStream = <<>> /\ iStream = <<>> /\ vRan = 0 /\ iRan = 0
      /\ islot = 0 /\ ipc = "acquire" /\ phase = "open"
  BY DEF Init
<1>2. Free \in [st : {"FREE", "FILLING", "READY", "INFERENCING"},
                events : Seq(Nat), filled : Nat, inferred : Nat]
  BY EmptyStaged DEF Free
<1>3. slots \in [Slot -> [st : {"FREE", "FILLING", "READY", "INFERENCING"},
                          events : Seq(Nat), filled : Nat, inferred : Nat]]
  <2> HIDE DEF Free
  <2> QED
    BY <1>1, <1>2
<1>4. staging \in [Stage -> [mem : [1..MaxBatch -> Nat], used : BOOLEAN, done : Nat]]
  BY <1>1
<1>5. /\ cur \in 0..PoolSize /\ islot \in 0..PoolSize /\ curStage \in 0..Stages
      /\ nextStage \in Stage /\ count \in 0..(MaxBatch - 1)
  BY <1>1, SizesAssumption DEF Stage
<1>6. /\ ready \in Seq(Slot) /\ vStream \in Seq(Op) /\ voxel \in [Slot -> Seq(Nat)]
      /\ iStream \in Seq([events : Seq(Nat), slot : Slot, after : Nat])
  BY <1>1, EmptyStaged
<1>7. TypeOK
  BY <1>1, <1>3, <1>4, <1>5, <1>6 DEF TypeOK
<1>8. ASSUME NEW s \in Slot PROVE RoleInv(s) /\ ContentInv(s)
  <2>1. slots[s] = Free /\ Free.st = "FREE"
    BY <1>1 DEF Free
  <2>2. Range(ready) = {} /\ s # 0
    BY <1>1 DEF Range, Slot
  <2>3. Finally(s) = <<>>
    <3>1. Len(vStream) = 0
      BY <1>1
    <3>2. History(vStream, voxel[s], s)[0] = voxel[s]
      BY <3>1, HistoryStep
    <3> QED
      BY <1>1, <3>1, <3>2 DEF Finally, Content
  <2> QED
    BY <1>1, <2>1, <2>2, <2>3 DEF RoleInv, ContentInv
<1>9. ReadyInv /\ FillInv /\ StageInv /\ InferenceInv /\ PhaseInv
  BY <1>1 DEF ReadyInv, FillInv, StageInv, InferenceInv, PhaseInv
<1> QED
  BY <1>7, <1>8, <1>9 DEF IInv

LEMMA Stutter ==
  ASSUME IInv, UNCHANGED vars
  PROVE  IInv'
<1>1. UNCHANGED <<last, curStage, nextStage, count, slots, cur, ready, staging, voxel, vRan,
                  iRan, vStream, iStream, islot, ipc, phase>>
  BY DEF vars, builderVars, gpuVars, inferVars
<1>2. /\ TypeOK /\ PhaseInv /\ ReadyInv /\ StageInv /\ FillInv /\ InferenceInv
      /\ \A s \in Slot : RoleInv(s) /\ ContentInv(s)
  BY DEF IInv
<1>3. TypeOK'
  BY <1>1, <1>2 DEF TypeOK
<1>4. ASSUME NEW s \in Slot PROVE RoleInv(s)' /\ ContentInv(s)'
  <2>1. RoleInv(s)'
    BY <1>1, <1>2 DEF RoleInv
  <2>2. Staged' = Staged
    BY <1>1 DEF Staged
  <2>3. ContentInv(s)'
    BY <1>1, <1>2, <2>2, SlotSame
  <2> QED
    BY <2>1, <2>3
<1>5. ReadyInv' /\ StageInv' /\ PhaseInv'
  BY <1>1, <1>2 DEF ReadyInv, StageInv, PhaseInv
<1>6. FillInv'
  BY <1>1, <1>2, FillSame
<1>7. InferenceInv'
  <2>1. Extended
    BY <1>1, <1>2, NothingQueued
  <2> QED
    BY <1>1, <1>2, <2>1, InferenceExtends
<1> QED
  BY <1>3, <1>4, <1>5, <1>6, <1>7 DEF IInv

LEMMA NextIInv == IInv /\ [Next]_vars => IInv'
BY AppendEventKeeps, FlushDueKeeps, FinishWindowKeeps, AbortKeeps, InvalidateKeeps,
   AcquireReadyKeeps, InferenceScopeKeeps, ReleaseKeeps, CloseKeeps, SynchronizeKeeps,
   VRunKeeps, IRunKeeps, Stutter
   DEF Next, Builder, Inference

\* The inductive invariant: what every voxel will hold once the operations that
\* are queued have run, at each of their positions (IncrementalVoxelizer).
THEOREM Invariance == Spec => []IInv
BY InitIInv, NextIInv, PTL DEF Spec

LEMMA IInvReads == IInv => InferenceReadsWindow
<1> SUFFICES ASSUME IInv, IReady
             PROVE  voxel[Head(iStream).slot] = Head(iStream).events
  BY DEF InferenceReadsWindow
<1>0. TypeOK /\ InferenceInv /\ \A s \in Slot : RoleInv(s) /\ ContentInv(s)
  BY DEF IInv
<1>1. iStream # <<>> /\ Head(iStream).after <= vRan
  BY DEF IReady
<1>2. Len(vStream) \in Nat /\ vRan \in Nat /\ vRan + 0 = vRan
  BY <1>0 DEF TypeOK
<1>3. \A s \in Slot : Content(s)[0] = voxel[s]
  BY <1>2, HistoryStep DEF Content
<1>4. CASE ipc = "queued"
  <2>1. iStream = <<[events |-> slots[islot].events, slot |-> islot,
                     after |-> slots[islot].filled]>>
    BY <1>0, <1>1, <1>4 DEF InferenceInv
  <2>2. /\ Head(iStream).events = slots[islot].events /\ Head(iStream).slot = islot
        /\ Head(iStream).after = slots[islot].filled
    BY <2>1
  <2>3. islot \in Slot
    BY <1>0, <1>4, SizesAssumption DEF InferenceInv, TypeOK, Slot
  <2>4. Holds(islot, slots[islot].filled, Len(vStream), slots[islot].events)
    BY <1>0, <2>3 DEF RoleInv, ContentInv
  <2>5. 0 \in 0..Len(vStream)
    BY <1>2
  <2>6. Content(islot)[0] = slots[islot].events
    BY <1>1, <1>2, <2>2, <2>4, <2>5 DEF Holds
  <2> QED
    BY <1>3, <2>2, <2>3, <2>6
<1>5. CASE ipc # "queued"
  <2>1. ipc = "failed"
    BY <1>0, <1>1, <1>5 DEF InferenceInv, TypeOK
  <2>2. Len(iStream) = 1 /\ Guarded(iStream[1])
    BY <1>0, <1>1, <2>1 DEF InferenceInv
  <2> DEFINE R == [events : Seq(Nat), slot : Slot, after : Nat]
  <2>3. iStream \in Seq(R)
    BY <1>0 DEF TypeOK
  <2>4. Head(iStream) = iStream[1] /\ iStream[1] \in R
    <3> HIDE DEF R
    <3> QED
      BY <1>1, <2>2, <2>3
  <2> PICK o : o = iStream[1]
    OBVIOUS
  <2>5. o.slot \in Slot /\ o.after <= vRan
    BY <1>1, <2>4
  <2>6. PICK j \in DOMAIN vStream : Holds(o.slot, o.after, j - 1, o.events)
    BY <2>2 DEF Guarded
  <2>7. 0 \in 0..(j - 1)
    <3>1. j \in 1..Len(vStream)
      BY <1>0, OpsTyped
    <3> QED
      BY <3>1
  <2>8. Content(o.slot)[0] = o.events
    BY <1>2, <2>5, <2>6, <2>7 DEF Holds
  <2> QED
    BY <1>3, <2>4, <2>5, <2>8
<1> QED
  BY <1>4, <1>5

\* The network reads the events of its window, all of them, once each and no
\* others, whatever has become of its slot (inference_scope).
THEOREM ReadsWindow == Spec => []InferenceReadsWindow
BY Invariance, IInvReads, PTL

\* A pinned buffer is not written again before its transfer has run
\* (_claim_staging).
THEOREM StagingKeptIntact == Spec => []StagingIntact
<1>1. IInv => StagingIntact
  BY DEF IInv, FillInv, StagingIntact
<1> QED
  BY <1>1, Invariance, PTL

LEMMA LastOfBoth ==
  ASSUME NEW a \in Seq(Nat), NEW b \in Seq(Nat), NEW n, n = Len(b)
  PROVE  SubSeq(a \o b, Len(a \o b) - n + 1, Len(a \o b)) = b
<1> DEFINE c == a \o b
           M == Len(a)
           m == M + 1
           N == M + n
           d == SubSeq(c, m, N)
<1>1. c \in Seq(Nat) /\ Len(c) = N /\ \A i \in 1..N : c[i] = IF i <= M THEN a[i] ELSE b[i - M]
  BY ConcatProperties
<1>2. M \in Nat /\ n \in Nat
  OBVIOUS
<1> HIDE DEF c, M
<1>3. m \in Int /\ N \in Int /\ \A i \in m..N : c[i] \in Nat
  <2>1. \A i \in m..N : i \in 1..Len(c)
    BY <1>1, <1>2
  <2> QED
    BY <1>1, <1>2, <2>1
<1>4. /\ d \in Seq(Nat) /\ Len(d) = IF m <= N THEN N - m + 1 ELSE 0
      /\ \A i \in 1..(N - m + 1) : d[i] = c[m + i - 1]
  <2> HIDE DEF m, N
  <2> QED
    BY <1>3, SubSeqProperties
<1> HIDE DEF d
<1>5. N - m + 1 = n /\ Len(d) = n
  BY <1>2, <1>4
<1>6. ASSUME NEW i \in 1..n PROVE d[i] = b[i]
  <2>1. i \in 1..(N - m + 1) /\ m + i - 1 \in 1..N /\ ~(m + i - 1 <= M) /\ (m + i - 1) - M = i
    BY <1>2
  <2> HIDE DEF m, N
  <2>2. d[i] = c[m + i - 1]
    BY <1>4, <2>1
  <2>3. c[m + i - 1] = b[(m + i - 1) - M]
    BY <1>1, <2>1
  <2> QED
    BY <2>1, <2>2, <2>3
<1>7. d = b
  <2>1. Len(d) = Len(b) /\ \A i \in 1..Len(d) : d[i] = b[i]
    BY <1>5, <1>6
  <2> QED
    BY <1>4, <2>1, SameEvents
<1>8. Len(c) - n + 1 = m
  BY <1>1, <1>2
<1> QED
  BY <1>1, <1>7, <1>8 DEF d, c

\* What is staged and not flushed belongs to the window being filled, also
\* after a window was aborted (append, abort_current).
THEOREM StagedBelongs == Spec => []StagedOfCurrent
<1>1. IInv => StagedOfCurrent
  <2> SUFFICES ASSUME IInv, curStage # 0
               PROVE  /\ cur # 0 /\ count > 0 /\ ~staging[curStage].used
                      /\ SubSeq(staging[curStage].mem, 1, count)
                           = SubSeq(slots[cur].events, Len(slots[cur].events) - count + 1,
                                    Len(slots[cur].events))
    BY DEF StagedOfCurrent
  <2>1. cur # 0 /\ count > 0 /\ ~staging[curStage].used /\ TypeOK
    BY DEF IInv, StageInv
  <2>2. slots[cur].events = Finally(cur) \o Staged /\ Finally(cur) \in Seq(Nat)
    BY <2>1, Current
  <2>3. curStage \in Stage /\ count \in 0..MaxBatch
    BY <2>1, SizesAssumption DEF TypeOK, Stage
  <2>4. staging[curStage].mem \in [1..MaxBatch -> Nat]
    BY <2>1, <2>3 DEF TypeOK
  <2>5. /\ Staged = SubSeq(staging[curStage].mem, 1, count)
        /\ Staged \in Seq(Nat) /\ Len(Staged) = count
    BY <2>3, <2>4, MemoryRead DEF Staged
  <2>6. SubSeq(Finally(cur) \o Staged, Len(Finally(cur) \o Staged) - count + 1,
               Len(Finally(cur) \o Staged)) = Staged
    <3> PICK f : f = Finally(cur)
      OBVIOUS
    <3> PICK g : g = Staged
      OBVIOUS
    <3>1. f \in Seq(Nat) /\ g \in Seq(Nat) /\ count = Len(g)
      BY <2>2, <2>5
    <3>2. SubSeq(f \o g, Len(f \o g) - count + 1, Len(f \o g)) = g
      BY ONLY <3>1, LastOfBoth
    <3> QED
      BY <3>2
  <2> QED
    BY <2>1, <2>2, <2>5, <2>6
<1> QED
  BY <1>1, Invariance, PTL

\* A closed voxelizer has nothing running on the GPU and only empty voxels,
\* even if the network failed half way (close).
THEOREM ClosedMeansIdle == Spec => []ClosedIdle
<1>1. IInv => ClosedIdle
  <2> SUFFICES ASSUME IInv, phase = "closed"
               PROVE  /\ vStream = <<>> /\ iStream = <<>>
                      /\ \A s \in Slot : voxel[s] = <<>> /\ slots[s] = Free
                      /\ \A b \in Stage : ~staging[b].used
    BY DEF ClosedIdle
  <2>1. /\ vStream = <<>> /\ iStream = <<>> /\ \A b \in Stage : ~staging[b].used
        /\ cur = 0 /\ ready = <<>> /\ islot = 0 /\ TypeOK
    BY DEF IInv, PhaseInv
  <2>2. ASSUME NEW s \in Slot PROVE voxel[s] = <<>> /\ slots[s] = Free
    <3>1. Range(ready) = {} /\ s # 0
      BY <2>1 DEF Range, Slot
    <3>2. slots[s].st \in {"FREE", "FILLING", "READY", "INFERENCING"}
      BY <2>1 DEF TypeOK
    <3>3. RoleInv(s) /\ ContentInv(s)
      BY DEF IInv
    <3>4. slots[s] = Free /\ Finally(s) = <<>>
      BY <2>1, <3>1, <3>2, <3>3 DEF RoleInv, ContentInv
    <3>5. Len(vStream) = 0
      BY <2>1
    <3>6. History(vStream, voxel[s], s)[0] = voxel[s]
      BY <3>5, HistoryStep
    <3> QED
      BY <3>4, <3>5, <3>6 DEF Finally, Content
  <2> QED
    BY <2>1, <2>2
<1> QED
  BY <1>1, Invariance, PTL
=============================================================================
