------------------------- MODULE VoxelPipelineProofs -------------------------
(***************************************************************************)
(* Proofs about VoxelPipeline, for every number of slots, generations,     *)
(* windows and gaps: its type invariant and PoolConsistent,                *)
(* SlotMatchesRouter, and StateContinuous.                                 *)
(*                                                                         *)
(* The pool first (Base): what each operation of the voxelizer leaves in   *)
(* the slots is stated as a lemma of its own, so that the rest need not    *)
(* look into ready_slots again. Then the chain of windows (Full), for which*)
(* only four things can happen to the READY windows: nothing, a reset, one *)
(* more, or the acquisition of one.                                        *)
(***************************************************************************)
EXTENDS VoxelPipeline, FiniteSetTheorems, WellFoundedInduction, SequenceTheorems, TLAPS

-----------------------------------------------------------------------------
(* Induction over the natural numbers for a set of them, rather than for a *)
(* predicate: proofs about recursive functions cite it.                    *)

\* A set of natural numbers that is not empty has a least element.
LEMMA LeastNatural ==
  ASSUME NEW T \in SUBSET Nat, T # {}
  PROVE  \E x \in T : \A y \in T : x <= y
<1> DEFINE Less == OpToRel(<, Nat)
<1>1. PICK x \in T : \A y \in T : ~ (<<y, x>> \in Less)
  BY NatLessThanWellFounded, WFMin, Zenon
<1>2. Less = {p \in Nat \X Nat : p[1] < p[2]}
  BY Zenon DEF OpToRel
<1> HIDE DEF Less
<1>3. ASSUME NEW y \in T, y < x PROVE FALSE
  <2>1. <<y, x>> \in Nat \X Nat /\ <<y, x>>[1] = y /\ <<y, x>>[2] = x
    OBVIOUS
  <2> QED
    BY <1>1, <1>2, <1>3, <2>1
<1> QED
  BY <1>3

\* A set of natural numbers that holds 0 and the successor of each of its
\* elements is all of Nat.
LEMMA SetInduction ==
  ASSUME NEW S \in SUBSET Nat, 0 \in S, \A n \in S : n + 1 \in S
  PROVE  S = Nat
<1> SUFFICES ASSUME Nat \ S # {} PROVE FALSE
  OBVIOUS
<1>1. PICK x \in Nat \ S : \A y \in Nat \ S : x <= y
  BY LeastNatural
<1>2. x - 1 \in S /\ x - 1 \in Nat
  BY <1>1
<1> QED
  BY <1>1, <1>2

-----------------------------------------------------------------------------
USE PoolSizeAssumption, BoundsAssumption

InReady(s) == \E i \in 1..Len(ready) : ready[i] = s

\* Which slot plays which role, slot by slot
Roles ==
  \A s \in Slot :
    /\ slots[s].st = "FILLING" <=> cur = s
    /\ slots[s].st = "INFERENCING" <=> islot = s
    /\ slots[s].st = "READY" <=> InReady(s)

Sorted ==
  \A i, j \in 1..Len(ready) : i < j => slots[ready[i]].win < slots[ready[j]].win

\* The two ways of saying what PoolConsistent says are equivalent.
LEMMA RolesOfPool ==
  PoolConsistent <=> TypeOK /\ Roles /\ Sorted
<1>1. ASSUME PoolConsistent PROVE TypeOK /\ Roles /\ Sorted
  <2>1. TypeOK /\ Sorted
    BY <1>1 DEF PoolConsistent, Sorted
  <2>2. ASSUME NEW s \in Slot PROVE slots[s].st = "FILLING" <=> cur = s
    <3>1. slots[s].st = "FILLING" <=> s \in Current
      BY <1>1 DEF PoolConsistent
    <3> QED
      BY <3>1 DEF Current, Slot
  <2>3. ASSUME NEW s \in Slot PROVE slots[s].st = "INFERENCING" <=> islot = s
    <3>1. slots[s].st = "INFERENCING" <=> s \in {islot} \ {0}
      BY <1>1 DEF PoolConsistent
    <3> QED
      BY <3>1 DEF Slot
  <2>4. ASSUME NEW s \in Slot PROVE slots[s].st = "READY" <=> InReady(s)
    <3>1. slots[s].st = "READY" <=> s \in {ready[i] : i \in 1..Len(ready)}
      BY <1>1 DEF PoolConsistent
    <3> QED
      BY <3>1 DEF InReady
  <2> QED
    BY <2>1, <2>2, <2>3, <2>4 DEF Roles
<1>2. ASSUME TypeOK, Roles, Sorted PROVE PoolConsistent
  <2>1. {s \in Slot : slots[s].st = "FILLING"} = Current
    BY <1>2 DEF TypeOK, Roles, Current, Slot
  <2>2. {s \in Slot : slots[s].st = "READY"} = {ready[i] : i \in 1..Len(ready)}
    <3>1. ASSUME NEW i \in 1..Len(ready) PROVE ready[i] \in Slot
      BY <1>2 DEF TypeOK
    <3> QED
      BY <1>2, <3>1 DEF Roles, InReady
  <2>3. {s \in Slot : slots[s].st = "INFERENCING"} = {islot} \ {0}
    BY <1>2 DEF TypeOK, Roles, Slot
  <2> QED
    BY <1>2, <2>1, <2>2, <2>3 DEF PoolConsistent, Sorted
<1> QED
  BY <1>1, <1>2

\* f[i] is what is left of the first i slots of ready_slots, up to i = n
Keeps(f, g, n) ==
  f = [i \in 0..n |->
         IF i = 0 THEN <<>>
         ELSE IF slots[ready[i]].gen = g THEN Append(f[i - 1], ready[i])
         ELSE f[i - 1]]

\* The recursion of ReadyOf has a solution, however many slots are READY.
LEMMA KeptExists ==
  ASSUME NEW g
  PROVE  \A n \in Nat : \E f : Keeps(f, g, n)
<1> DEFINE Step(f, i) == IF i = 0 THEN <<>>
                         ELSE IF slots[ready[i]].gen = g
                              THEN Append(f[i - 1], ready[i]) ELSE f[i - 1]
           S == {n \in Nat : \E f : f = [i \in 0..n |-> Step(f, i)]}
<1>1. 0 \in S
  <2> DEFINE f == [i \in 0..0 |-> <<>>]
  <2>1. f = [i \in 0..0 |-> Step(f, i)]
    OBVIOUS
  <2> QED
    BY <2>1
<1>2. ASSUME NEW n \in S PROVE n + 1 \in S
  <2>1. PICK f : f = [i \in 0..n |-> Step(f, i)]
    OBVIOUS
  <2> DEFINE h == [i \in 0..n + 1 |-> Step(f, i)]
  <2>2. ASSUME NEW i \in 0..n + 1 PROVE h[i] = Step(h, i)
    <3>1. CASE i = 0
      BY <3>1
    <3>2. CASE i # 0
      <4>1. i - 1 \in 0..n /\ i - 1 \in 0..n + 1
        BY <3>2
      <4>2. f[i - 1] = Step(f, i - 1)
        BY <2>1, <4>1
      <4>3. h[i - 1] = Step(f, i - 1)
        BY <4>1
      <4>4. h[i - 1] = f[i - 1]
        BY <4>2, <4>3
      <4> QED
        BY <3>2, <4>4
    <3> QED
      BY <3>1, <3>2
  <2>3. h = [i \in 0..n + 1 |-> Step(h, i)]
    BY <2>2
  <2>4. \E k : k = [i \in 0..n + 1 |-> Step(k, i)]
    <3> HIDE DEF h, Step
    <3> QED
      BY <2>3, Zenon
  <2>5. n + 1 \in Nat
    OBVIOUS
  <2> HIDE DEF Step
  <2> QED
    BY <2>4, <2>5
<1>3. S = Nat
  <2> HIDE DEF Step
  <2> QED BY <1>1, <1>2, SetInduction
<1> QED
  BY <1>3 DEF Keeps

\* ReadyOf(g) is the last value of such a solution.
LEMMA ReadyOfIs ==
  ASSUME NEW g, ready \in Seq(Slot)
  PROVE  \E f : Keeps(f, g, Len(ready)) /\ ReadyOf(g) = f[Len(ready)]
<1> DEFINE K == CHOOSE f : Keeps(f, g, Len(ready))
<1>1. Len(ready) \in Nat
  OBVIOUS
<1>2. \E f : Keeps(f, g, Len(ready))
  BY <1>1, KeptExists
<1>3. Keeps(K, g, Len(ready))
  BY <1>2, Zenon
<1>4. ReadyOf(g) = K[Len(ready)]
  BY Zenon DEF ReadyOf, Keeps
<1> QED
  BY <1>3, <1>4

\* Invalidating keeps, in their order, the READY slots of one generation.
LEMMA ReadyOfEffect ==
  ASSUME NEW g, TypeOK, Sorted
  PROVE  /\ ReadyOf(g) \in Seq(Slot) /\ Len(ReadyOf(g)) <= Len(ready)
         /\ \A s \in Slot :
              (\E k \in 1..Len(ReadyOf(g)) : ReadyOf(g)[k] = s)
                <=> InReady(s) /\ slots[s].gen = g
         /\ \A k, l \in 1..Len(ReadyOf(g)) :
              k < l => slots[ReadyOf(g)[k]].win < slots[ReadyOf(g)[l]].win
<1> DEFINE N == Len(ready)
           W(s) == slots[s].win
           G(s) == slots[s].gen
<1>0. /\ ready \in Seq(Slot) /\ N \in Nat
      /\ \A i \in 1..N : ready[i] \in Slot
      /\ \A s \in Slot : W(s) \in Nat
  BY DEF TypeOK, Windows
<1>1. PICK f : Keeps(f, g, N) /\ ReadyOf(g) = f[N]
  BY <1>0, ReadyOfIs
<1>2. \A i \in 0..N : f[i] = IF i = 0 THEN <<>>
                              ELSE IF G(ready[i]) = g THEN Append(f[i - 1], ready[i])
                              ELSE f[i - 1]
  BY <1>1 DEF Keeps
<1> DEFINE Kept(q, i) ==
             /\ q \in Seq(Slot) /\ Len(q) <= i
             /\ \A s \in Slot : (\E k \in 1..Len(q) : q[k] = s)
                                <=> (\E j \in 1..i : ready[j] = s) /\ G(s) = g
             /\ \A k, l \in 1..Len(q) : k < l => W(q[k]) < W(q[l])
           S == {i \in Nat : i <= N => Kept(f[i], i)}
<1>3. 0 \in S
  <2>1. f[0] = <<>>
    BY <1>0, <1>2
  <2>2. Kept(<<>>, 0)
    OBVIOUS
  <2> HIDE DEF Kept
  <2> QED
    BY <2>1, <2>2
<1>4. ASSUME NEW i \in S PROVE i + 1 \in S
  <2> SUFFICES ASSUME i + 1 <= N PROVE Kept(f[i + 1], i + 1)
    <3> HIDE DEF Kept
    <3> QED
      OBVIOUS
  <2> DEFINE q == f[i]
             r == ready[i + 1]
  <2>1. i \in Nat /\ i + 1 \in 1..N /\ i \in 0..N /\ r \in Slot /\ (i + 1) - 1 = i
    BY <1>0
  <2>2. Kept(q, i)
    BY <2>1
  <2>3. f[i + 1] = IF G(r) = g THEN Append(q, r) ELSE q
    BY <1>2, <2>1
  <2>4. \A j \in 1..i + 1 : j \in 1..i \/ j = i + 1
    BY <2>1
  <2>5. \A j \in 1..i : j \in 1..N /\ j \in 1..i + 1 /\ W(ready[j]) < W(r)
    BY <2>1 DEF Sorted
  <2>6. CASE G(r) # g
    BY <2>1, <2>2, <2>3, <2>4, <2>5, <2>6
  <2>7. CASE G(r) = g
    <3> DEFINE p == Append(q, r)
    <3>1. f[i + 1] = p
      BY <2>3, <2>7
    <3>2. /\ p \in Seq(Slot) /\ Len(p) = Len(q) + 1 /\ Len(q) \in Nat
          /\ p[Len(q) + 1] = r
          /\ \A k \in 1..Len(q) : p[k] = q[k] /\ q[k] \in Slot
      BY <2>1, <2>2
    <3>3. \A k \in 1..Len(p) : k \in 1..Len(q) \/ k = Len(q) + 1
      BY <3>2
    <3>4. \A k \in 1..Len(q) : \E j \in 1..i : ready[j] = q[k]
      BY <2>2, <3>2
    <3>5. \A k \in 1..Len(q) : W(q[k]) < W(r)
      BY <2>5, <3>4
    <3>6. ASSUME NEW k \in 1..Len(p), NEW l \in 1..Len(p), k < l
          PROVE  W(p[k]) < W(p[l])
      <4> HIDE DEF p, q, r, W
      <4> QED
        BY <2>2, <3>2, <3>3, <3>5, <3>6
    <3>7. ASSUME NEW s \in Slot
          PROVE  (\E k \in 1..Len(p) : p[k] = s)
                   <=> (\E j \in 1..i + 1 : ready[j] = s) /\ G(s) = g
      <4>1. (\E k \in 1..Len(p) : p[k] = s) <=> (\E k \in 1..Len(q) : q[k] = s) \/ s = r
        <5> HIDE DEF p, q, r, G
        <5> QED BY <3>2, <3>3
      <4>2. (\E j \in 1..i + 1 : ready[j] = s) <=> (\E j \in 1..i : ready[j] = s) \/ s = r
        BY <2>1, <2>4
      <4> QED
        BY <2>2, <2>7, <4>1, <4>2
    <3> HIDE DEF p, q, r, W, G
    <3> QED
      BY <2>1, <2>2, <3>1, <3>2, <3>6, <3>7
  <2> QED
    BY <2>6, <2>7
<1>5. S = Nat
  <2> HIDE DEF Kept
  <2> QED BY <1>3, <1>4, SetInduction
<1>6. Kept(f[N], N)
  BY <1>0, <1>5
<1> QED
  BY <1>1, <1>6 DEF InReady

-----------------------------------------------------------------------------
(* Slots *)

SlotRec == [st : {"FREE", "FILLING", "READY", "INFERENCING"},
            gen : Gens, reset : Nat, win : Windows, n : 0..2, prev : Windows]

\* What TypeOK says of one slot.
LEMMA SlotTyped ==
  ASSUME TypeOK, NEW s \in Slot
  PROVE  /\ slots[s].st \in {"FREE", "FILLING", "READY", "INFERENCING"}
         /\ slots[s].gen \in Gens /\ slots[s].gen \in Nat /\ slots[s].reset \in Nat
         /\ slots[s].win \in Windows /\ slots[s].win \in Nat
         /\ slots[s].n \in 0..2 /\ slots[s].prev \in Windows /\ slots[s].prev \in Nat
BY DEF TypeOK, Windows, Gens

\* What TypeOK says of the router.
LEMMA RouterTyped ==
  ASSUME TypeOK
  PROVE  /\ router.reset \in Nat /\ router.win \in 0..MaxWindows /\ router.win \in Nat
         /\ router.n \in 0..2 /\ router.last \in 0..MaxWindows /\ router.last \in Nat
         /\ router.gaps \in 0..MaxGaps
BY DEF TypeOK

\* What a clear leaves of each slot
LEMMA Cleared ==
  ASSUME TypeOK, NEW V
  PROVE  /\ Clear(V) \in [Slot -> SlotRec]
         /\ \A s \in Slot : s \in V => Clear(V)[s] = Free
         /\ \A s \in Slot : s \notin V => Clear(V)[s] = slots[s]
<1>1. Free \in SlotRec
  BY DEF Free, SlotRec, Gens, Windows
<1>2. slots \in [Slot -> SlotRec]
  BY DEF TypeOK, SlotRec
<1> QED
  BY <1>1, <1>2 DEF Clear

\* No more slots are READY than there are.
LEMMA ReadyFits ==
  ASSUME NEW q \in Seq(Slot),
         \A i, j \in 1..Len(q) : i < j => q[i] # q[j]
  PROVE  Len(q) <= PoolSize
<1> DEFINE f == [i \in 1..Len(q) |-> q[i]]
<1>1. Len(q) \in Nat /\ \A i \in 1..Len(q) : q[i] \in Slot
  OBVIOUS
<1>2. f \in [1..Len(q) -> Slot]
  BY <1>1
<1>3. IsFiniteSet(1..Len(q)) /\ Cardinality(1..Len(q)) = Len(q)
  <2>1. Cardinality(1..Len(q)) = IF 1 > Len(q) THEN 0 ELSE Len(q) - 1 + 1
    BY <1>1, FS_Interval
  <2> QED
    BY <1>1, <2>1, FS_Interval
<1>4. IsFiniteSet(Slot) /\ Cardinality(Slot) = PoolSize
  <2>1. Cardinality(1..PoolSize) = IF 1 > PoolSize THEN 0 ELSE PoolSize - 1 + 1
    BY FS_Interval
  <2> QED
    BY <2>1, FS_Interval DEF Slot
<1>5. ASSUME Cardinality(Slot) < Cardinality(1..Len(q)) PROVE FALSE
  <2>1. \E x, y \in 1..Len(q) : x # y /\ f[x] = f[y]
    <3> HIDE DEF f
    <3> QED
      BY <1>2, <1>3, <1>4, <1>5, FS_PigeonHole
  <2> QED
    BY <1>1, <2>1
<1> QED
  BY <1>1, <1>3, <1>4, <1>5

-----------------------------------------------------------------------------
(* What each action leaves in the pool                                     *)

\* The invariant without the GRU state
Base == TypeOK /\ Roles /\ Sorted /\ SlotMatchesRouter /\ ThreadInv /\ ReadyInv

\* The pool's own part
Pool == TypeOK /\ Roles /\ Sorted

\* Actions that leave the pool alone
Quiet == \/ Receiver \/ TakeJob
         \/ Top \/ ReadTarget \/ TakeItem \/ DecideFresh \/ SkipItem
         \/ AcquireStops \/ EndPush
         \/ ReadGeneration \/ Forward \/ CheckWindow \/ Submit

\* The actions that are not about the pool leave it alone.
LEMMA QuietLeaves ==
  ASSUME Quiet
  PROVE  UNCHANGED <<slots, cur, ready, islot, router>>
BY DEF Quiet, Receiver, Drop, Cancel, TakeJob, Top, ReadTarget, TakeItem, DecideFresh,
       SkipItem, AcquireStops, EndPush, ReadGeneration, Forward, CheckWindow, Submit,
       builderVars, poolVars, stateVars, inferVars

\* They keep the type invariant.
LEMMA QuietTyped ==
  ASSUME TypeOK, ThreadInv, Quiet
  PROVE  TypeOK'
<1>1. CASE Drop
  BY <1>1 DEF TypeOK, Drop, builderVars, poolVars, stateVars, inferVars, Gens
<1>2. CASE Cancel
  <2>1. cancelled' \in BOOLEAN
    BY <1>2 DEF Cancel
  <2> QED
    BY <1>2, <2>1 DEF TypeOK, Cancel, builderVars, poolVars, stateVars, inferVars
<1>3. CASE TakeJob
  <2>1. job' \in BOOLEAN
    BY <1>3 DEF TakeJob
  <2> QED
    BY <1>3, <2>1 DEF TypeOK, TakeJob, builderVars, poolVars, stateVars, inferVars
<1>4. CASE Top \/ ReadTarget
  BY <1>4 DEF TypeOK, Top, ReadTarget, builderVars, poolVars, stateVars, inferVars
<1>5. CASE TakeItem
  <2>1. firstPending' \in BOOLEAN /\ UNCHANGED <<procGen, cancelled, active, router, poolVars, inferVars>>
    BY <1>5 DEF TakeItem
  <2>2. bpc' \in {"top", "reset", "fresh"} /\ tgt' \in Gens /\ ret' \in {"top", "take", "fresh"}
    <3>1. 0 \in Gens /\ procGen \in Gens /\ tgt \in Gens /\ ret \in {"top", "take", "fresh"}
      BY DEF TypeOK, Gens
    <3> QED
      BY <1>5, <3>1 DEF TakeItem
  <2> QED
    BY <2>1, <2>2 DEF TypeOK, poolVars, stateVars, inferVars
<1>6. CASE DecideFresh \/ SkipItem
  <2>1. CASE DecideFresh
    BY <2>1 DEF TypeOK, DecideFresh, builderVars, poolVars, stateVars, inferVars
  <2>2. CASE SkipItem
    <3>1. procGen' \in Gens
      BY <2>2 DEF TypeOK, ThreadInv, SkipItem, Gens
    <3> QED
      BY <2>2, <3>1 DEF TypeOK, SkipItem, builderVars, poolVars, stateVars, inferVars
  <2> QED
    BY <1>6, <2>1, <2>2
<1>7. CASE AcquireStops \/ EndPush
  BY <1>7 DEF TypeOK, AcquireStops, EndPush, builderVars, poolVars, stateVars, inferVars
<1>8. CASE ReadGeneration
  <2>1. /\ ipc' \in {"closing", "acquire"} /\ stateGen' \in Gens \cup {None}
        /\ state' \in Windows /\ stateReset' \in Nat \cup {None}
    <3>1. 0 \in Windows /\ procGen \in Gens
      BY DEF TypeOK, Windows
    <3> QED
      BY <1>8, <3>1 DEF TypeOK, ReadGeneration, stateVars
  <2> QED
    BY <1>8, <2>1 DEF TypeOK, ReadGeneration, builderVars, poolVars
<1>9. CASE Forward
  <2>1. islot \in Slot
    BY <1>9 DEF TypeOK, ThreadInv, Forward, Slot
  <2>2. state' \in Windows
    BY <1>9, <2>1, SlotTyped DEF Forward
  <2> QED
    BY <1>9, <2>2 DEF TypeOK, Forward, builderVars, poolVars, stateVars, inferVars
<1>10. CASE CheckWindow
  BY <1>10 DEF TypeOK, CheckWindow, builderVars, poolVars, stateVars, inferVars, Windows
<1>11. CASE Submit
  <2>1. job' \in BOOLEAN /\ ipc' \in {"closing", "read"}
    BY <1>11 DEF Submit, TypeOK
  <2>2. UNCHANGED <<procGen, cancelled, builderVars, poolVars, stateVars, islot, igen>>
    BY <1>11 DEF Submit
  <2> QED
    BY <2>1, <2>2 DEF TypeOK, builderVars, poolVars, stateVars
<1> QED
  BY <1>1, <1>2, <1>3, <1>4, <1>5, <1>6, <1>7, <1>8, <1>9, <1>10, <1>11 DEF Quiet, Receiver

\* router.reset and the slots it and invalidate_generation clear
LEMMA ResetTyped ==
  ASSUME TypeOK
  PROVE  /\ ResetRouter.reset = router.reset + 1 /\ ResetRouter.n = 0
         /\ ResetRouter.last = 0 /\ ResetRouter.win = router.win
         /\ ResetRouter.gaps = router.gaps
         /\ ResetRouter \in [reset : Nat, win : 0..MaxWindows, n : 0..2,
                             last : 0..MaxWindows, gaps : 0..MaxGaps]
<1> DEFINE R == [reset : Nat, win : 0..MaxWindows, n : 0..2, last : 0..MaxWindows,
                 gaps : 0..MaxGaps]
<1>1. router \in R
  BY DEF TypeOK
<1>2. 0 \in 0..2 /\ 0 \in 0..MaxWindows /\ router.reset + 1 \in Nat
  BY <1>1
<1>3. /\ ResetRouter.reset = router.reset + 1 /\ ResetRouter.n = 0
      /\ ResetRouter.last = 0 /\ ResetRouter.win = router.win
      /\ ResetRouter.gaps = router.gaps
  BY <1>1 DEF ResetRouter
<1>4. ResetRouter \in R
  BY <1>1, <1>2 DEF ResetRouter
<1> QED
  BY <1>3, <1>4

\* _reset_generation leaves the READY windows of the new generation, and none
\* being filled.
LEMMA ResetPool ==
  ASSUME Base, ResetGeneration
  PROVE  /\ TypeOK' /\ Roles' /\ Sorted'
         /\ \A s \in Slot : slots'[s] = slots[s] \/ slots'[s] = Free
         /\ \A s \in Slot : slots'[s].st = "READY"
                             <=> slots[s].st = "READY" /\ slots[s].gen = tgt
         /\ cur' = 0
<1> USE DEF Base
<1> DEFINE V == Other(tgt) \cup {s \in Slot : slots[s].st = "READY" /\ slots[s].gen # tgt}
           q == ReadyOf(tgt)
<1>1. /\ slots' = Clear(V) /\ ready' = q
      /\ cur' = IF cur \in Other(tgt) THEN 0 ELSE cur
      /\ router' = ResetRouter
  BY DEF ResetGeneration, Invalidate
<1>2. /\ slots' \in [Slot -> SlotRec]
      /\ \A s \in Slot : s \in V => slots'[s] = Free
      /\ \A s \in Slot : s \notin V => slots'[s] = slots[s]
  <2> HIDE DEF V
  <2> QED
    BY <1>1, Cleared
<1>3. cur # 0 => cur \in Other(tgt)
  BY DEF ResetGeneration, SlotMatchesRouter, Other, Partial, Current, TypeOK
<1>4. cur' = 0
  BY <1>1, <1>3
<1>5. \A s \in Slot : s \in Other(tgt) => s = cur
  BY DEF Other, Partial, Current
<1>6. /\ q \in Seq(Slot) /\ Len(q) <= Len(ready)
      /\ \A s \in Slot : (\E k \in 1..Len(q) : q[k] = s) <=> InReady(s) /\ slots[s].gen = tgt
      /\ \A k, l \in 1..Len(q) : k < l => slots[q[k]].win < slots[q[l]].win
  BY ReadyOfEffect
<1> HIDE DEF q
<1>7. \A s \in Slot : slots'[s].st = "READY" <=> slots[s].st = "READY" /\ slots[s].gen = tgt
  <2> SUFFICES ASSUME NEW s \in Slot
               PROVE  slots'[s].st = "READY" <=> slots[s].st = "READY" /\ slots[s].gen = tgt
    OBVIOUS
  <2>1. s = cur => slots[s].st = "FILLING"
    BY DEF Roles
  <2>2. Free.st # "READY"
    BY DEF Free
  <2> QED
    BY <1>2, <1>5, <2>1, <2>2
<1>8. \A k \in 1..Len(q) : q[k] \in Slot /\ slots'[q[k]] = slots[q[k]]
  <2> SUFFICES ASSUME NEW k \in 1..Len(q) PROVE q[k] \in Slot /\ slots'[q[k]] = slots[q[k]]
    OBVIOUS
  <2>1. q[k] \in Slot
    BY <1>6
  <2>2. InReady(q[k]) /\ slots[q[k]].gen = tgt
    BY <1>6, <2>1
  <2>3. slots[q[k]].st = "READY"
    BY <2>1, <2>2 DEF Roles
  <2>4. slots'[q[k]].st = "READY"
    BY <1>7, <2>1, <2>2, <2>3
  <2> QED
    BY <1>2, <2>1, <2>4 DEF Free
<1>9. Sorted'
  BY <1>1, <1>6, <1>8 DEF Sorted
<1>10. Roles'
  <2> SUFFICES ASSUME NEW s \in Slot
               PROVE  /\ slots'[s].st = "FILLING" <=> cur' = s
                      /\ slots'[s].st = "INFERENCING" <=> islot' = s
                      /\ slots'[s].st = "READY" <=> \E i \in 1..Len(q) : q[i] = s
    BY <1>1 DEF Roles, InReady
  <2>1. islot' = islot
    BY DEF ResetGeneration, inferVars
  <2>2. slots'[s].st = "FILLING" <=> cur' = s
    <3>1. slots[s].st = "FILLING" <=> s = cur
      BY DEF Roles
    <3>2. s = cur => s \in V
      BY <1>3 DEF Slot
    <3> QED
      BY <1>2, <1>4, <3>1, <3>2 DEF Free, Slot
  <2>3. slots'[s].st = "INFERENCING" <=> islot' = s
    <3>1. slots[s].st = "INFERENCING" => s \notin V
      BY <1>5 DEF Roles
    <3> QED
      BY <1>2, <2>1, <3>1 DEF Roles, Free
  <2>4. slots'[s].st = "READY" <=> \E i \in 1..Len(q) : q[i] = s
    BY <1>6, <1>7 DEF Roles
  <2> QED
    BY <2>2, <2>3, <2>4
<1>11. TypeOK'
  <2>1. ready' \in Seq(Slot) /\ Len(ready') <= PoolSize
    BY <1>1, <1>6 DEF TypeOK
  <2>2. router' \in [reset : Nat, win : 0..MaxWindows, n : 0..2,
                     last : 0..MaxWindows, gaps : 0..MaxGaps]
    BY <1>1, ResetTyped
  <2>3. /\ active' \in Gens /\ bpc' \in {"top", "take", "fresh"} /\ tgt' = 0 /\ ret' = "top"
        /\ cur' \in 0..PoolSize /\ 0 \in Gens
    BY <1>4 DEF TypeOK, ResetGeneration, Gens
  <2>4. UNCHANGED <<procGen, cancelled, firstPending, closed, ipc, stateGen, stateReset,
                    state, islot, igen, job>>
    BY DEF ResetGeneration, inferVars, stateVars
  <2>5. slots' \in [Slot -> SlotRec]
    BY <1>2
  <2> QED
    BY <2>1, <2>2, <2>3, <2>4, <2>5 DEF TypeOK, SlotRec
<1> QED
  BY <1>2, <1>4, <1>7, <1>9, <1>10, <1>11

\* ready_slots and the slots in it stay as they are.
KeepsReady ==
  /\ ready' = ready
  /\ \A s \in Slot : slots'[s].st = "READY" <=> slots[s].st = "READY"
  /\ \A s \in Slot : slots[s].st = "READY" => slots'[s] = slots[s]

\* What ready_slots holds is READY.
LEMMA InReadyIsReady ==
  ASSUME Pool, NEW i \in 1..Len(ready)
  PROVE  ready[i] \in Slot /\ slots[ready[i]].st = "READY"
BY DEF Pool, TypeOK, Roles, InReady

\* ready_slots stays in order if neither it nor its slots change.
LEMMA KeepsSorted ==
  ASSUME Pool, KeepsReady
  PROVE  Sorted'
<1>1. \A i \in 1..Len(ready) : slots'[ready[i]] = slots[ready[i]]
  BY InReadyIsReady DEF KeepsReady
<1> QED
  BY <1>1 DEF Sorted, KeepsReady, Pool

\* append counts events in the current slot only.
LEMMA AppendPool ==
  ASSUME Base, AppendChunk
  PROVE  /\ TypeOK' /\ Roles' /\ KeepsReady /\ UNCHANGED <<cur, islot>>
         /\ \A s \in Slot : s # cur => slots'[s] = slots[s]
<1> USE DEF Base
<1>1. PICK n \in 1..2 :
        /\ router' = [router EXCEPT !.n = Sat(@ + n)]
        /\ IF cur = 0 THEN bpc' = "wait" /\ UNCHANGED slots
           ELSE slots' = [slots EXCEPT ![cur].n = Sat(@ + n)] /\ UNCHANGED bpc
  BY DEF AppendChunk
<1>2. \A m \in 0..2 : Sat(m + n) \in 0..2
  BY DEF Sat
<1>3. router' \in [reset : Nat, win : 0..MaxWindows, n : 0..2,
                  last : 0..MaxWindows, gaps : 0..MaxGaps]
  BY <1>1, <1>2 DEF TypeOK
<1>4. UNCHANGED <<procGen, cancelled, tgt, ret, firstPending, active, cur, ready,
                  closed, inferVars>> /\ bpc = "push"
  BY DEF AppendChunk
<1>5. bpc' \in {"push", "wait"}
  BY <1>1, <1>4
<1>6. /\ slots' \in [Slot -> SlotRec]
      /\ \A s \in Slot : slots'[s].st = slots[s].st /\ (s # cur => slots'[s] = slots[s])
  <2>1. CASE cur = 0
    BY <1>1, <2>1 DEF TypeOK, SlotRec
  <2>2. CASE cur # 0
    <3>1. cur \in Slot /\ slots \in [Slot -> SlotRec]
      BY <2>2 DEF TypeOK, Slot, SlotRec
    <3>2. slots' = [slots EXCEPT ![cur] = [slots[cur] EXCEPT !.n = Sat(slots[cur].n + n)]]
      BY <1>1, <2>2, <3>1
    <3>3. Sat(slots[cur].n + n) \in 0..2
      BY <1>2, <3>1 DEF SlotRec
    <3> DEFINE c == [slots[cur] EXCEPT !.n = Sat(slots[cur].n + n)]
    <3>4. c \in SlotRec /\ c.st = slots[cur].st
      BY <3>1, <3>3 DEF SlotRec
    <3> HIDE DEF c
    <3> QED
      BY <3>1, <3>2, <3>4 DEF c
  <2> QED
    BY <2>1, <2>2
<1>7. TypeOK'
  BY <1>3, <1>4, <1>5, <1>6 DEF TypeOK, SlotRec, inferVars, stateVars
<1>8. Roles'
  BY <1>4, <1>6 DEF Roles, InReady, inferVars
<1>9. KeepsReady
  BY <1>4, <1>6 DEF KeepsReady, Roles
<1> QED
  BY <1>4, <1>6, <1>7, <1>8, <1>9 DEF inferVars

\* _acquire_slot takes a FREE slot for the window being filled.
LEMMA AcquireSlotPool ==
  ASSUME Base, AcquireSlot
  PROVE  /\ TypeOK' /\ Roles' /\ KeepsReady /\ cur' \in Slot
         /\ slots'[cur'] = [st |-> "FILLING", gen |-> active, reset |-> router.reset,
                            win |-> router.win + 1, n |-> router.n, prev |-> 0]
<1> USE DEF Base
<1> DEFINE new == [st |-> "FILLING", gen |-> active, reset |-> router.reset,
                   win |-> router.win + 1, n |-> router.n, prev |-> 0]
<1>1. PICK s \in Slot : /\ slots[s].st = "FREE" /\ cur' = s
                        /\ slots' = [slots EXCEPT ![s] = new]
  BY DEF AcquireSlot
<1>2. new \in SlotRec /\ new.st = "FILLING"
  <2>1. /\ active \in Gens /\ router.reset \in Nat /\ router.win + 1 \in Windows
        /\ router.n \in 0..2 /\ 0 \in Windows
    BY RouterTyped DEF TypeOK, Windows
  <2> QED
    BY <2>1 DEF SlotRec
<1>3. UNCHANGED <<procGen, cancelled, tgt, ret, firstPending, active, router, ready,
                  closed, inferVars>> /\ bpc' = "push" /\ cur = 0
  BY DEF AcquireSlot, ThreadInv
<1> HIDE DEF new
<1>4. slots \in [Slot -> SlotRec]
  BY DEF TypeOK, SlotRec
<1>5. /\ slots' \in [Slot -> SlotRec] /\ slots'[s] = new
      /\ \A t \in Slot : t # s => slots'[t] = slots[t]
  BY <1>1, <1>2, <1>4
<1>6. TypeOK'
  BY <1>1, <1>3, <1>5 DEF TypeOK, SlotRec, inferVars, stateVars, Slot
<1>7. Roles'
  <2> SUFFICES ASSUME NEW t \in Slot
               PROVE  /\ slots'[t].st = "FILLING" <=> cur' = t
                      /\ slots'[t].st = "INFERENCING" <=> islot' = t
                      /\ slots'[t].st = "READY" <=> InReady(t)'
    BY DEF Roles
  <2>1. InReady(t)' <=> InReady(t)
    BY <1>3 DEF InReady
  <2>2. islot' = islot
    BY <1>3 DEF inferVars
  <2>3. CASE t = s
    BY <1>1, <1>2, <1>5, <2>1, <2>2, <2>3 DEF Roles
  <2>4. CASE t # s
    BY <1>1, <1>3, <1>5, <2>1, <2>2, <2>4 DEF Roles, Slot
  <2> QED
    BY <2>3, <2>4
<1>8. KeepsReady
  BY <1>1, <1>2, <1>3, <1>5 DEF KeepsReady
<1> QED
  BY <1>1, <1>5, <1>6, <1>7, <1>8 DEF new

\* A gap gives up the window being filled, and only that.
LEMMA RouterGapPool ==
  ASSUME Base, RouterGap
  PROVE  TypeOK' /\ Roles' /\ KeepsReady /\ cur' = 0
<1> USE DEF Base
<1>1. /\ slots' = Clear(Partial) /\ cur' = IF cur \in Partial THEN 0 ELSE cur
      /\ router' = [ResetRouter EXCEPT !.gaps = @ + 1]
      /\ bpc = "push" /\ router.gaps < MaxGaps
      /\ UNCHANGED <<procGen, cancelled, bpc, tgt, ret, firstPending, active, ready,
                     closed, inferVars>>
  BY DEF RouterGap
<1>2. /\ slots' \in [Slot -> SlotRec]
      /\ \A s \in Slot : s \in Partial => slots'[s] = Free
      /\ \A s \in Slot : s \notin Partial => slots'[s] = slots[s]
  BY <1>1, Cleared
<1>3. \A s \in Slot : s \in Partial <=> s = cur
  BY <1>1 DEF SlotMatchesRouter, Partial, Current, TypeOK, Slot
<1>4. cur' = 0
  BY <1>1 DEF SlotMatchesRouter, Partial, Current, TypeOK
<1>5. router' \in [reset : Nat, win : 0..MaxWindows, n : 0..2,
                  last : 0..MaxWindows, gaps : 0..MaxGaps]
  <2>1. ResetRouter.gaps + 1 \in 0..MaxGaps
    BY <1>1, ResetTyped, RouterTyped
  <2> QED
    BY <1>1, <2>1, ResetTyped
<1>6. TypeOK'
  BY <1>1, <1>2, <1>4, <1>5 DEF TypeOK, SlotRec, inferVars, stateVars
<1>7. Roles'
  <2> SUFFICES ASSUME NEW t \in Slot
               PROVE  /\ slots'[t].st = "FILLING" <=> cur' = t
                      /\ slots'[t].st = "INFERENCING" <=> islot' = t
                      /\ slots'[t].st = "READY" <=> InReady(t)'
    BY DEF Roles
  <2>1. (InReady(t)' <=> InReady(t)) /\ islot' = islot
    BY <1>1 DEF InReady, inferVars
  <2>2. Free.st = "FREE"
    BY DEF Free
  <2> QED
    BY <1>2, <1>3, <1>4, <2>1, <2>2 DEF Roles, Slot
<1>8. KeepsReady
  BY <1>1, <1>2, <1>3 DEF KeepsReady, Roles, Free
<1> QED
  BY <1>4, <1>6, <1>7, <1>8

\* EndWindow, told apart by the events of the window
EndRouter ==
  router' = [router EXCEPT !.win = @ + 1, !.n = 0,
                           !.last = IF router.n < 2 THEN @ ELSE router.win + 1]

\* The router's state after the end of a window.
LEMMA EndRouterTyped ==
  ASSUME TypeOK, router.win < MaxWindows, EndRouter
  PROVE  /\ router' \in [reset : Nat, win : 0..MaxWindows, n : 0..2,
                         last : 0..MaxWindows, gaps : 0..MaxGaps]
         /\ router'.reset = router.reset /\ router'.win = router.win + 1
         /\ router'.n = 0
         /\ router'.last = IF router.n < 2 THEN router.last ELSE router.win + 1
<1> DEFINE l == IF router.n < 2 THEN router.last ELSE router.win + 1
<1>1. router.win + 1 \in 0..MaxWindows /\ 0 \in 0..2 /\ l \in 0..MaxWindows
  BY RouterTyped
<1>2. router \in [reset : Nat, win : 0..MaxWindows, n : 0..2, last : 0..MaxWindows,
                 gaps : 0..MaxGaps]
  BY DEF TypeOK
<1>3. router' = [router EXCEPT !.win = router.win + 1, !.n = 0, !.last = l]
  BY <1>2 DEF EndRouter
<1> HIDE DEF l
<1>4. /\ router' \in [reset : Nat, win : 0..MaxWindows, n : 0..2,
                      last : 0..MaxWindows, gaps : 0..MaxGaps]
      /\ router'.reset = router.reset /\ router'.win = router.win + 1
      /\ router'.n = 0 /\ router'.last = l
  BY <1>1, <1>2, <1>3
<1> QED
  BY <1>4 DEF l

\* A window ends with the current slot filled for it.
LEMMA EndWindowOutline ==
  ASSUME Base, EndWindow
  PROVE  /\ cur \in Slot /\ slots[cur].gen = active /\ slots[cur].reset = router.reset
         /\ slots[cur].win = router.win + 1 /\ slots[cur].st = "FILLING"
         /\ EndRouter /\ router.win < MaxWindows /\ cur' = 0
         /\ IF router.n < 2 THEN GiveUp ELSE FinishWindow
         /\ bpc = "push"
         /\ UNCHANGED <<procGen, cancelled, bpc, tgt, ret, firstPending, active,
                        closed, inferVars>>
<1>1. bpc = "push" /\ router.n > 0
  BY DEF EndWindow
<1>2. cur # 0 /\ slots[cur].gen = active /\ slots[cur].reset = router.reset
        /\ slots[cur].win = router.win + 1
  BY <1>1 DEF Base, SlotMatchesRouter
<1>3. cur \in Slot
  BY <1>2 DEF Base, TypeOK, Slot
<1>4. slots[cur].st = "FILLING"
  BY <1>3 DEF Base, Roles
<1> QED
  BY <1>1, <1>2, <1>3, <1>4 DEF EndWindow, EndRouter

\* A window of one event is given up: its slot is free again.
LEMMA GiveUpPool ==
  ASSUME Base, EndWindow, router.n < 2
  PROVE  TypeOK' /\ Roles' /\ KeepsReady
<1> USE DEF Base
<1>1. slots' = Clear({cur}) /\ ready' = ready /\ cur' = 0 /\ cur \in Slot
  BY EndWindowOutline DEF GiveUp, Current, Slot
<1>2. /\ slots' \in [Slot -> SlotRec]
      /\ \A s \in Slot : s = cur => slots'[s] = Free
      /\ \A s \in Slot : s # cur => slots'[s] = slots[s]
  BY <1>1, Cleared
<1>3. UNCHANGED <<procGen, cancelled, bpc, tgt, ret, firstPending, active,
                  closed, inferVars>>
  BY EndWindowOutline
<1>4. TypeOK'
  <2>1. router' \in [reset : Nat, win : 0..MaxWindows, n : 0..2,
                     last : 0..MaxWindows, gaps : 0..MaxGaps]
    BY EndWindowOutline, EndRouterTyped
  <2>2. slots' \in [Slot -> SlotRec] /\ cur' \in 0..PoolSize /\ ready' = ready
    BY <1>1, <1>2
  <2>3. UNCHANGED <<procGen, cancelled, bpc, tgt, ret, firstPending, active,
                    closed, ipc, stateGen, stateReset, state, islot, igen, job>>
    BY <1>3 DEF inferVars, stateVars
  <2> QED
    BY ONLY TypeOK, <2>1, <2>2, <2>3 DEF TypeOK, SlotRec
<1>5. Roles'
  <2> SUFFICES ASSUME NEW t \in Slot
               PROVE  /\ slots'[t].st = "FILLING" <=> cur' = t
                      /\ slots'[t].st = "INFERENCING" <=> islot' = t
                      /\ slots'[t].st = "READY" <=> InReady(t)'
    BY DEF Roles
  <2>1. (InReady(t)' <=> InReady(t)) /\ islot' = islot
    BY <1>1, <1>3 DEF InReady, inferVars
  <2>2. Free.st = "FREE" /\ slots[cur].st = "FILLING"
    BY EndWindowOutline DEF Free
  <2>3. CASE t = cur
    <3>1. slots'[t] = Free /\ slots[t].st = "FILLING"
      BY <1>2, <2>2, <2>3
    <3> QED
      BY <1>1, <2>1, <2>2, <3>1 DEF Roles, Slot
  <2>4. CASE t # cur
    <3>1. slots'[t] = slots[t]
      BY <1>2, <2>4
    <3> QED
      BY <1>1, <2>1, <2>4, <3>1 DEF Roles, Slot
  <2> QED
    BY <2>3, <2>4
<1>6. KeepsReady
  <2>1. Free.st = "FREE" /\ slots[cur].st = "FILLING"
    BY EndWindowOutline DEF Free
  <2> QED
    BY <1>1, <1>2, <2>1 DEF KeepsReady
<1> QED
  BY <1>4, <1>5, <1>6

\* finish_window adds the window that was filled at the end of ready_slots.
LEMMA FinishPool ==
  ASSUME Base, EndWindow, ~(router.n < 2)
  PROVE  /\ TypeOK' /\ Roles' /\ Sorted'
         /\ slots'[cur].st = "READY" /\ slots'[cur].gen = active
         /\ slots'[cur].reset = router.reset /\ slots'[cur].win = router.win + 1
         /\ slots'[cur].prev = router.last
         /\ \A s \in Slot : s # cur => slots'[s] = slots[s]
<1> USE DEF Base
<1>1. /\ slots' = [slots EXCEPT ![cur].st = "READY", ![cur].prev = router.last]
      /\ ready' = Append(ready, cur) /\ cur' = 0 /\ cur \in Slot
  BY EndWindowOutline DEF FinishWindow
<1> DEFINE new == [slots[cur] EXCEPT !.st = "READY", !.prev = router.last]
<1>2. slots \in [Slot -> SlotRec]
  BY DEF TypeOK, SlotRec
<1>3. slots' = [slots EXCEPT ![cur] = new]
  BY <1>1, <1>2
<1>4. /\ new \in SlotRec /\ new.st = "READY" /\ new.prev = router.last
      /\ new.gen = slots[cur].gen /\ new.reset = slots[cur].reset /\ new.win = slots[cur].win
  <2>1. router.last \in Windows
    BY RouterTyped DEF Windows
  <2> QED
    BY <1>1, <1>2, <2>1 DEF SlotRec
<1> HIDE DEF new
<1>5. /\ slots' \in [Slot -> SlotRec] /\ slots'[cur] = new
      /\ \A s \in Slot : s # cur => slots'[s] = slots[s]
  BY <1>1, <1>2, <1>3, <1>4
<1>6. UNCHANGED <<procGen, cancelled, bpc, tgt, ret, firstPending, active,
                  closed, inferVars>>
  BY EndWindowOutline
<1>7. /\ ready' \in Seq(Slot) /\ Len(ready') = Len(ready) + 1 /\ Len(ready) \in Nat
      /\ ready'[Len(ready) + 1] = cur
      /\ \A i \in 1..Len(ready) : ready'[i] = ready[i]
      /\ \A i \in 1..Len(ready') : i \in 1..Len(ready) \/ i = Len(ready) + 1
  <2>1. ready \in Seq(Slot) /\ Len(ready) \in Nat
    BY DEF TypeOK
  <2> QED
    BY ONLY <1>1, <2>1
<1>8. \A i \in 1..Len(ready) : /\ ready[i] \in Slot /\ ready[i] # cur
                               /\ slots[ready[i]].win <= router.win
  <2> SUFFICES ASSUME NEW i \in 1..Len(ready)
               PROVE  ready[i] \in Slot /\ ready[i] # cur /\ slots[ready[i]].win <= router.win
    OBVIOUS
  <2>1. ready[i] \in Slot /\ slots[ready[i]].st = "READY"
    BY InReadyIsReady DEF Pool
  <2>2. slots[cur].st = "FILLING"
    BY EndWindowOutline
  <2>3. slots[ready[i]].win <= router.win
    BY <2>1 DEF ReadyInv, Ready
  <2> QED
    BY <2>1, <2>2, <2>3
<1>9. slots'[cur].win = router.win + 1 /\ router.win \in Nat
  BY <1>4, <1>5, EndWindowOutline, RouterTyped
<1>10. ASSUME NEW i \in 1..Len(ready'), NEW j \in 1..Len(ready'), i < j
       PROVE  slots'[ready'[i]].win < slots'[ready'[j]].win
  <2>1. i \in 1..Len(ready) /\ ready'[i] = ready[i] /\ slots'[ready[i]] = slots[ready[i]]
    BY <1>5, <1>7, <1>8, <1>10
  <2>2. CASE j \in 1..Len(ready)
    <3>1. ready'[j] = ready[j] /\ slots'[ready[j]] = slots[ready[j]]
      BY <1>5, <1>7, <1>8, <2>2
    <3>2. slots[ready[i]].win < slots[ready[j]].win
      BY <2>1, <2>2, <1>10 DEF Sorted
    <3> QED
      BY <2>1, <3>1, <3>2
  <2>3. CASE j = Len(ready) + 1
    <3>1. slots[ready[i]].win \in Nat /\ slots[ready[i]].win <= router.win
      BY <1>8, <2>1, SlotTyped
    <3> QED
      BY <1>7, <1>9, <2>1, <2>3, <3>1
  <2> QED
    BY <1>7, <2>2, <2>3
<1>11. Sorted'
  BY <1>10 DEF Sorted
<1>12. Len(ready') <= PoolSize
  <2>1. \A i, j \in 1..Len(ready') : i < j => ready'[i] # ready'[j]
    <3> SUFFICES ASSUME NEW i \in 1..Len(ready'), NEW j \in 1..Len(ready'), i < j,
                        ready'[i] = ready'[j]
                 PROVE  FALSE
      OBVIOUS
    <3>1. slots'[ready'[i]].win < slots'[ready'[j]].win
      BY <1>10
    <3>2. ready'[i] \in Slot
      BY <1>7
    <3>3. slots'[ready'[i]].win \in Nat
      BY <1>5, <3>2 DEF SlotRec, Windows
    <3> QED
      BY <3>1, <3>3
  <2> QED
    BY <1>7, <2>1, ReadyFits
<1>13. TypeOK'
  <2>1. router' \in [reset : Nat, win : 0..MaxWindows, n : 0..2,
                     last : 0..MaxWindows, gaps : 0..MaxGaps]
    BY EndWindowOutline, EndRouterTyped
  <2>2. /\ slots' \in [Slot -> SlotRec] /\ cur' \in 0..PoolSize
        /\ ready' \in Seq(Slot) /\ Len(ready') <= PoolSize
    BY <1>1, <1>5, <1>7, <1>12
  <2>3. UNCHANGED <<procGen, cancelled, bpc, tgt, ret, firstPending, active,
                    closed, ipc, stateGen, stateReset, state, islot, igen, job>>
    BY <1>6 DEF inferVars, stateVars
  <2> QED
    BY ONLY TypeOK, <2>1, <2>2, <2>3 DEF TypeOK, SlotRec
<1>14. Roles'
  <2> SUFFICES ASSUME NEW t \in Slot
               PROVE  /\ slots'[t].st = "FILLING" <=> cur' = t
                      /\ slots'[t].st = "INFERENCING" <=> islot' = t
                      /\ slots'[t].st = "READY" <=> InReady(t)'
    BY DEF Roles
  <2>1. islot' = islot
    BY <1>6 DEF inferVars
  <2>2. InReady(t)' <=> InReady(t) \/ t = cur
    <3>1. Len(ready) + 1 \in 1..Len(ready') /\ \A i \in 1..Len(ready) : i \in 1..Len(ready')
      BY <1>7
    <3> QED
      BY <1>7, <3>1 DEF InReady
  <2>3. CASE t = cur
    BY <1>1, <1>4, <1>5, <2>1, <2>2, <2>3, EndWindowOutline DEF Roles, Slot
  <2>4. CASE t # cur
    BY <1>1, <1>5, <2>1, <2>2, <2>4 DEF Roles, Slot
  <2> QED
    BY <2>3, <2>4
<1> QED
  BY <1>4, <1>5, <1>11, <1>13, <1>14, EndWindowOutline

\* What is left of a sequence behind its i-th element
LEMMA Rest ==
  ASSUME NEW S, NEW q \in Seq(S), NEW i \in 1..Len(q)
  PROVE  /\ SubSeq(q, i + 1, Len(q)) \in Seq(S)
         /\ Len(SubSeq(q, i + 1, Len(q))) = Len(q) - i
         /\ \A k \in 1..(Len(q) - i) : /\ SubSeq(q, i + 1, Len(q))[k] = q[i + k]
                                       /\ i + k \in 1..Len(q)
<1> DEFINE N == Len(q)
           m == i + 1
<1>1. N \in Nat /\ m \in Int /\ N \in Int /\ \A k \in m..N : q[k] \in S
  OBVIOUS
<1>2. N - m + 1 = N - i /\ (m <= N => N - i > 0) /\ (~(m <= N) => N - i = 0)
  BY <1>1
<1>3. \A k \in 1..(N - i) : m + k - 1 = i + k /\ i + k \in 1..N
  BY <1>1
<1>4. /\ SubSeq(q, m, N) \in Seq(S)
      /\ Len(SubSeq(q, m, N)) = IF m <= N THEN N - m + 1 ELSE 0
      /\ \A k \in 1..(N - m + 1) : SubSeq(q, m, N)[k] = q[m + k - 1]
  <2> HIDE DEF N, m
  <2> QED
    BY <1>1, SubSeqProperties
<1>5. Len(SubSeq(q, m, N)) = N - i
  <2> HIDE DEF N, m
  <2> QED
    BY <1>2, <1>4
<1>6. \A k \in 1..(N - i) : SubSeq(q, m, N)[k] = q[i + k]
  <2> HIDE DEF N, m
  <2> QED
    BY <1>2, <1>3, <1>4
<1> QED
  BY <1>3, <1>4, <1>5, <1>6

\* acquire_ready takes the first slot of the wanted generation and clears those
\* before it, which are of other ones.
LEMMA AcquirePool ==
  ASSUME Base, Acquire
  PROVE  /\ TypeOK' /\ Roles' /\ Sorted'
         /\ islot' \in Slot /\ slots[islot'].st = "READY" /\ slots[islot'].gen = stateGen
         /\ slots'[islot'].win = slots[islot'].win
         /\ slots'[islot'].reset = slots[islot'].reset
         /\ slots'[islot'].prev = slots[islot'].prev
         /\ stateReset' = slots[islot'].reset
         /\ state' = IF slots[islot'].reset = stateReset THEN state ELSE 0
         /\ \A s \in Slot : slots'[s].st = "READY"
                <=> slots[s].st = "READY" /\ slots[islot'].win < slots[s].win
         /\ \A s \in Slot : slots'[s].st = "READY" => slots'[s] = slots[s]
         /\ \A s \in Slot : slots[s].st = "READY" /\ slots[s].win < slots[islot'].win
                => slots[s].gen # stateGen
         /\ \A s \in Slot : slots[s].st = "READY" /\ slots[s].win = slots[islot'].win
                => s = islot'
         /\ cur \in Slot => slots'[cur] = slots[cur]
<1> USE DEF Base
<1>1. PICK i \in 1..Len(ready) :
       /\ MatchAt(i)
       /\ slots' = [Clear({ready[j] : j \in 1..(i - 1)})
                      EXCEPT ![ready[i]].st = "INFERENCING"]
       /\ ready' = SubSeq(ready, i + 1, Len(ready))
       /\ islot' = ready[i]
       /\ igen' = slots[ready[i]].gen
       /\ stateReset' = slots[ready[i]].reset
       /\ state' = IF slots[ready[i]].reset = stateReset THEN state ELSE 0
  BY DEF Acquire
<1> DEFINE N == Len(ready)
           a == ready[i]
           V == {ready[j] : j \in 1..(i - 1)}
           new == [slots[a] EXCEPT !.st = "INFERENCING"]
<1>2. UNCHANGED <<procGen, cancelled, builderVars, cur, closed, stateGen, job>>
        /\ ipc = "acquire" /\ ipc' = "forward"
  BY DEF Acquire
<1>3. \A j \in 1..N : ready[j] \in Slot /\ slots[ready[j]].st = "READY"
  BY InReadyIsReady DEF Pool
<1>4. N \in Nat /\ i \in 1..N /\ a \in Slot /\ slots[a].st = "READY"
  BY <1>3 DEF TypeOK
<1>5. /\ Clear(V) \in [Slot -> SlotRec]
      /\ \A s \in Slot : s \in V => Clear(V)[s] = Free
      /\ \A s \in Slot : s \notin V => Clear(V)[s] = slots[s]
  <2> HIDE DEF V
  <2> QED
    BY Cleared
<1>6. \A j, k \in 1..N : j < k => slots[ready[j]].win < slots[ready[k]].win
  BY DEF Sorted
<1>7. \A s \in Slot : slots[s].win \in Nat
  BY SlotTyped
<1>8. \A j \in 1..(i - 1) : j \in 1..N /\ j < i
  BY <1>4
<1>9. a \notin V
  <2> SUFFICES ASSUME NEW j \in 1..(i - 1), ready[j] = a PROVE FALSE
    OBVIOUS
  <2>1. slots[ready[j]].win < slots[a].win
    BY <1>4, <1>6, <1>8
  <2> QED
    BY <2>1, <1>4, <1>7
<1>10. new \in SlotRec /\ new.st = "INFERENCING" /\ new.win = slots[a].win
         /\ new.reset = slots[a].reset /\ new.prev = slots[a].prev
  BY <1>4 DEF TypeOK, SlotRec
<1>11. slots' = [Clear(V) EXCEPT ![a] = new]
  <2>1. Clear(V)[a] = slots[a]
    BY <1>4, <1>5, <1>9
  <2>2. slots' = [Clear(V) EXCEPT ![a] = [Clear(V)[a] EXCEPT !.st = "INFERENCING"]]
    BY <1>1
  <2> QED
    BY <2>1, <2>2
<1> HIDE DEF new
<1>12. /\ slots' \in [Slot -> SlotRec] /\ slots'[a] = new
       /\ \A s \in Slot : s \in V => slots'[s] = Free
       /\ \A s \in Slot : s \notin V /\ s # a => slots'[s] = slots[s]
  <2> HIDE DEF V, a
  <2> QED
    BY <1>4, <1>5, <1>9, <1>10, <1>11
<1>13. ASSUME NEW s \in Slot, slots[s].st = "READY"
       PROVE  \E j \in 1..N : ready[j] = s
  BY <1>13 DEF Roles, InReady
\* The windows before, at and behind the one taken
<1>14. ASSUME NEW s \in Slot, slots[s].st = "READY"
       PROVE  /\ s \in V <=> slots[s].win < slots[a].win
              /\ s = a <=> slots[s].win = slots[a].win
  <2>1. PICK j \in 1..N : ready[j] = s
    BY <1>13, <1>14
  <2>2. CASE j < i
    <3>1. slots[s].win < slots[a].win /\ j \in 1..(i - 1)
      BY <1>4, <1>6, <2>1, <2>2
    <3> QED
      BY <1>4, <1>7, <2>1, <3>1
  <2>3. CASE j = i
    BY <1>4, <1>7, <1>9, <2>1, <2>3
  <2>4. CASE i < j
    <3>1. slots[a].win < slots[s].win
      BY <1>4, <1>6, <2>1, <2>4
    <3>2. s \notin V
      <4> SUFFICES ASSUME NEW k \in 1..(i - 1), ready[k] = s PROVE FALSE
        OBVIOUS
      <4>1. slots[s].win < slots[a].win
        BY <1>4, <1>6, <1>8
      <4> QED
        BY <1>4, <1>7, <3>1, <4>1
    <3> QED
      BY <1>4, <1>7, <3>1, <3>2
  <2> QED
    BY <1>4, <2>1, <2>2, <2>3, <2>4
<1>15. \A s \in Slot : s \in V \/ s = a => slots[s].st = "READY"
  BY <1>3, <1>4, <1>8
<1>16. /\ \A s \in Slot : slots'[s].st = "READY"
             <=> slots[s].st = "READY" /\ slots[a].win < slots[s].win
       /\ \A s \in Slot : slots'[s].st = "READY" => slots'[s] = slots[s]
  <2> SUFFICES ASSUME NEW s \in Slot
               PROVE  /\ slots'[s].st = "READY"
                            <=> slots[s].st = "READY" /\ slots[a].win < slots[s].win
                      /\ slots'[s].st = "READY" => slots'[s] = slots[s]
    OBVIOUS
  <2>1. CASE s \in V
    <3>1. slots'[s] = Free /\ slots[s].st = "READY"
      BY <1>12, <1>15, <2>1
    <3>2. slots[s].win < slots[a].win
      BY <1>14, <2>1, <3>1
    <3> QED
      BY <1>4, <1>7, <3>1, <3>2 DEF Free
  <2>2. CASE s = a
    <3>1. slots'[s].st = "INFERENCING"
      BY <1>10, <1>12, <2>2
    <3> QED
      BY <1>4, <1>7, <2>2, <3>1
  <2>3. CASE s \notin V /\ s # a
    <3>1. slots'[s] = slots[s]
      BY <1>12, <2>3
    <3>2. slots[s].st = "READY" => ~(slots[s].win < slots[a].win) /\ slots[s].win # slots[a].win
      BY <1>14, <2>3
    <3> QED
      BY <1>4, <1>7, <3>1, <3>2
  <2> QED
    BY <2>1, <2>2, <2>3
<1>17. \A s \in Slot : slots[s].st = "READY" /\ slots[s].win < slots[a].win
                        => slots[s].gen # stateGen
  <2> SUFFICES ASSUME NEW s \in Slot, slots[s].st = "READY", slots[s].win < slots[a].win
               PROVE  slots[s].gen # stateGen
    OBVIOUS
  <2>1. s \in V
    BY <1>14
  <2> QED
    BY <1>1, <2>1 DEF MatchAt
<1>18. /\ ready' \in Seq(Slot) /\ Len(ready') = N - i
       /\ \A k \in 1..(N - i) : ready'[k] = ready[i + k] /\ i + k \in 1..N
  <2>1. ready \in Seq(Slot)
    BY DEF TypeOK
  <2> QED
    BY <1>1, <2>1, Rest
<1>19. Sorted'
  <2> SUFFICES ASSUME NEW k \in 1..(N - i), NEW l \in 1..(N - i), k < l
               PROVE  slots'[ready'[k]].win < slots'[ready'[l]].win
    BY <1>18 DEF Sorted
  <2>1. i + k \in 1..N /\ i + l \in 1..N /\ i + k < i + l
    BY <1>4, <1>18
  <2>2. \A m \in 1..N : i < m => slots'[ready[m]] = slots[ready[m]]
    <3> SUFFICES ASSUME NEW m \in 1..N, i < m PROVE slots'[ready[m]] = slots[ready[m]]
      OBVIOUS
    <3>1. slots[a].win < slots[ready[m]].win
      BY <1>4, <1>6
    <3> QED
      BY <1>3, <1>16, <3>1
  <2>3. i < i + k /\ i < i + l
    BY <1>4
  <2>4. ready'[k] = ready[i + k] /\ ready'[l] = ready[i + l]
    BY <1>18
  <2>5. slots'[ready[i + k]] = slots[ready[i + k]] /\ slots'[ready[i + l]] = slots[ready[i + l]]
    BY <2>1, <2>2, <2>3
  <2>6. slots[ready[i + k]].win < slots[ready[i + l]].win
    BY <1>6, <2>1
  <2> QED
    BY <2>4, <2>5, <2>6
<1>20. TypeOK'
  <2>1. islot' \in 0..PoolSize /\ igen' \in Gens /\ stateReset' \in Nat /\ state' \in Windows
    <3>1. slots[a].gen \in Gens /\ slots[a].reset \in Nat
      BY <1>4, SlotTyped
    <3>2. a \in 0..PoolSize
      BY <1>4 DEF Slot
    <3>3. state \in Windows /\ 0 \in Windows
      BY DEF TypeOK, Windows
    <3> QED
      BY <1>1, <3>1, <3>2, <3>3
  <2>2. Len(ready') <= PoolSize
    BY <1>4, <1>18 DEF TypeOK
  <2> QED
    BY <1>2, <1>12, <1>18, <2>1, <2>2 DEF TypeOK, SlotRec, builderVars
<1>21. Roles'
  <2> SUFFICES ASSUME NEW s \in Slot
               PROVE  /\ slots'[s].st = "FILLING" <=> cur' = s
                      /\ slots'[s].st = "INFERENCING" <=> islot' = s
                      /\ slots'[s].st = "READY" <=> InReady(s)'
    BY DEF Roles
  <2>1. islot' = a /\ cur' = cur /\ islot = 0
    BY <1>1, <1>2 DEF ThreadInv
  <2>2. slots'[s].st = "FILLING" <=> cur' = s
    BY <1>10, <1>12, <1>15, <2>1 DEF Roles, Free
  <2>3. slots'[s].st = "INFERENCING" <=> islot' = s
    BY <1>10, <1>12, <1>9, <2>1 DEF Roles, Free, Slot
  <2>4. ASSUME slots'[s].st = "READY" PROVE InReady(s)'
    <3>1. slots[s].st = "READY" /\ slots[a].win < slots[s].win
      BY <1>16, <2>4
    <3>2. PICK j \in 1..N : ready[j] = s
      BY <1>13, <3>1
    <3>3. i < j
      <4>1. j # i /\ ~(j < i)
        BY <1>4, <1>6, <1>7, <3>1, <3>2
      <4> QED
        BY <1>4, <4>1
    <3>4. j - i \in 1..(N - i) /\ i + (j - i) = j
      BY <1>4, <3>3
    <3> QED
      BY <1>18, <3>2, <3>4 DEF InReady
  <2>5. ASSUME InReady(s)' PROVE slots'[s].st = "READY"
    <3>1. PICK k \in 1..(N - i) : ready'[k] = s
      BY <1>18, <2>5 DEF InReady
    <3>2. i + k \in 1..N /\ i < i + k /\ ready[i + k] = s
      BY <1>4, <1>18, <3>1
    <3>3. slots[a].win < slots[s].win /\ slots[s].st = "READY"
      BY <1>3, <1>4, <1>6, <3>2
    <3> QED
      BY <1>16, <3>3
  <2> QED
    BY <2>2, <2>3, <2>4, <2>5
<1>22. \A s \in Slot : slots[s].st = "READY" /\ slots[s].win = slots[a].win => s = a
  BY <1>14
<1>23. cur \in Slot => slots'[cur] = slots[cur]
  BY <1>12, <1>15 DEF Roles
<1> QED
  BY <1>1, <1>4, <1>10, <1>12, <1>16, <1>17, <1>19, <1>20, <1>21, <1>22, <1>23 DEF MatchAt

\* The slots ready_slots holds are the READY ones.
LEMMA ReadyRange ==
  ASSUME Pool
  PROVE  \A s \in Slot : s \in {ready[i] : i \in 1..Len(ready)} <=> slots[s].st = "READY"
BY DEF Pool, Roles, InReady

\* Everything READY is cleared.
LEMMA AcquireNonePool ==
  ASSUME Base, AcquireNone
  PROVE  /\ TypeOK' /\ Roles' /\ Sorted'
         /\ \A s \in Slot : slots'[s].st # "READY"
         /\ \A s \in Slot : slots[s].st = "READY" => slots[s].gen # stateGen
         /\ cur \in Slot => slots'[cur] = slots[cur]
<1> USE DEF Base
<1> DEFINE V == {ready[i] : i \in 1..Len(ready)}
<1>1. /\ slots' = Clear(V) /\ ready' = <<>> /\ ipc' \in {"acquire", "read"} /\ ipc = "acquire"
      /\ UNCHANGED <<procGen, cancelled, builderVars, cur, closed, stateVars,
                     islot, igen, job>>
  BY DEF AcquireNone
<1>2. /\ slots' \in [Slot -> SlotRec]
      /\ \A s \in Slot : s \in V => slots'[s] = Free
      /\ \A s \in Slot : s \notin V => slots'[s] = slots[s]
  <2> HIDE DEF V
  <2> QED
    BY <1>1, Cleared
<1>3. \A s \in Slot : s \in V <=> slots[s].st = "READY"
  BY ReadyRange DEF Pool
<1> HIDE DEF V
<1>4. \A s \in Slot : slots'[s].st # "READY"
  BY <1>2, <1>3 DEF Free
<1>5. \A s \in Slot : slots[s].st = "READY" => slots[s].gen # stateGen
  <2> DEFINE P(i) == slots[ready[i]].gen = stateGen
             T == {i \in 1..Len(ready) : P(i)}
  <2>1. \A i \in 1..Len(ready) : ~(P(i) /\ \A j \in 1..(i - 1) : ~P(j))
    BY DEF AcquireNone, MatchAt
  <2>2. Len(ready) \in Nat
    BY DEF TypeOK
  <2>3. T = {}
    <3> SUFFICES ASSUME T # {} PROVE FALSE
      OBVIOUS
    <3>1. PICK i \in T : \A j \in T : i <= j
      <4>1. T \in SUBSET Nat
        BY <2>2
      <4> HIDE DEF T
      <4> QED
        BY <4>1, LeastNatural
    <3>2. \A j \in 1..(i - 1) : ~P(j)
      BY <2>2, <3>1
    <3> QED
      BY <2>1, <3>1, <3>2
  <2> QED
    BY <2>3 DEF Roles, InReady
<1>6. Sorted'
  BY <1>1 DEF Sorted
<1>7. TypeOK'
  BY <1>1, <1>2 DEF TypeOK, SlotRec, builderVars, stateVars
<1>8. Roles'
  <2> SUFFICES ASSUME NEW s \in Slot
               PROVE  /\ slots'[s].st = "FILLING" <=> cur' = s
                      /\ slots'[s].st = "INFERENCING" <=> islot' = s
                      /\ slots'[s].st = "READY" <=> InReady(s)'
    BY DEF Roles
  <2>1. ~InReady(s)'
    BY <1>1 DEF InReady
  <2> QED
    BY <1>1, <1>2, <1>3, <1>4, <2>1 DEF Roles, Free
<1>9. cur \in Slot => slots'[cur] = slots[cur]
  BY <1>2, <1>3 DEF Roles
<1> QED
  BY <1>4, <1>5, <1>6, <1>7, <1>8, <1>9

\* The slot inferred goes back to the pool, whether or not the network failed.
LEMMA ReleasePool ==
  ASSUME Base, Release \/ ForwardRaises
  PROVE  /\ TypeOK' /\ Roles' /\ KeepsReady
         /\ cur \in Slot => slots'[cur] = slots[cur]
<1> USE DEF Base
<1>1. /\ slots' = Clear({islot}) /\ islot' = 0 /\ ipc' \in {"check", "closing"}
      /\ ipc \in {"forward", "release"} /\ cancelled' \in BOOLEAN
      /\ UNCHANGED <<procGen, builderVars, cur, ready, closed, stateVars, igen, job>>
  <2>1. CASE Release
    BY <2>1 DEF Release, TypeOK
  <2>2. CASE ForwardRaises
    BY <2>2 DEF ForwardRaises
  <2> QED
    BY <2>1, <2>2
<1>2. islot \in Slot
  BY <1>1 DEF ThreadInv, TypeOK, Slot
<1>3. slots[islot].st = "INFERENCING"
  BY <1>2 DEF Roles
<1>4. /\ slots' \in [Slot -> SlotRec]
      /\ \A s \in Slot : s = islot => slots'[s] = Free
      /\ \A s \in Slot : s # islot => slots'[s] = slots[s]
  BY <1>1, Cleared
<1>5. TypeOK'
  <2>1. /\ slots' \in [Slot -> SlotRec] /\ islot' \in 0..PoolSize
        /\ ipc' \in {"check", "closing"} /\ cancelled' \in BOOLEAN
    BY <1>1, <1>4
  <2>2. UNCHANGED <<procGen, bpc, tgt, ret, firstPending, active, router, cur, ready,
                    closed, stateGen, stateReset, state, igen, job>>
    BY <1>1 DEF builderVars, stateVars
  <2> QED
    BY ONLY TypeOK, <2>1, <2>2 DEF TypeOK, SlotRec
<1>6. Free.st = "FREE"
  BY DEF Free
<1>7. Roles'
  <2> SUFFICES ASSUME NEW s \in Slot
               PROVE  /\ slots'[s].st = "FILLING" <=> cur' = s
                      /\ slots'[s].st = "INFERENCING" <=> islot' = s
                      /\ slots'[s].st = "READY" <=> InReady(s)'
    BY DEF Roles
  <2>1. InReady(s)' <=> InReady(s)
    BY <1>1 DEF InReady
  <2>2. CASE s = islot
    <3>1. slots'[s].st = "FREE" /\ slots[s].st = "INFERENCING"
      BY <1>3, <1>4, <1>6, <2>2
    <3> QED
      BY <1>1, <2>1, <3>1 DEF Roles, Slot
  <2>3. CASE s # islot
    <3>1. slots'[s] = slots[s]
      BY <1>4, <2>3
    <3> QED
      BY <1>1, <2>1, <2>3, <3>1 DEF Roles, Slot
  <2> QED
    BY <2>2, <2>3
<1>8. KeepsReady
  BY <1>1, <1>3, <1>4, <1>6 DEF KeepsReady
<1>9. cur \in Slot => slots'[cur] = slots[cur]
  BY <1>3, <1>4 DEF Roles
<1> QED
  BY <1>5, <1>7, <1>8, <1>9

\* voxelizer.close clears every slot.
LEMMA ClosePoolPool ==
  ASSUME Base, ClosePool
  PROVE  /\ TypeOK' /\ Roles' /\ Sorted' /\ cur' = 0
         /\ \A s \in Slot : slots'[s].st # "READY"
<1> USE DEF Base
<1> DEFINE V == Current \cup {ready[i] : i \in 1..Len(ready)}
<1>1. /\ slots' = Clear(V) /\ cur' = 0 /\ ready' = <<>> /\ closed' = TRUE
      /\ ipc' = "closed" /\ ipc = "closing"
      /\ UNCHANGED <<procGen, cancelled, builderVars, stateVars, islot, igen, job>>
  BY DEF ClosePool
<1>2. /\ slots' \in [Slot -> SlotRec]
      /\ \A s \in Slot : s \in V => slots'[s] = Free
      /\ \A s \in Slot : s \notin V => slots'[s] = slots[s]
  <2> HIDE DEF V
  <2> QED
    BY <1>1, Cleared
<1>3. \A s \in Slot : s \in V <=> slots[s].st \in {"READY", "FILLING"}
  <2> SUFFICES ASSUME NEW s \in Slot PROVE s \in V <=> slots[s].st \in {"READY", "FILLING"}
    OBVIOUS
  <2>1. s \in Current <=> slots[s].st = "FILLING"
    BY DEF Roles, Current, Slot
  <2> QED
    BY <2>1, ReadyRange DEF Pool
<1> HIDE DEF V
<1>4. islot = 0 /\ islot' = 0
  BY <1>1 DEF ThreadInv
<1>5. \A s \in Slot : slots'[s].st = "FREE"
  <2> SUFFICES ASSUME NEW s \in Slot PROVE slots'[s].st = "FREE"
    OBVIOUS
  <2>1. slots[s].st # "INFERENCING"
    BY <1>4 DEF Roles, Slot
  <2>2. slots[s].st \in {"FREE", "FILLING", "READY", "INFERENCING"}
    BY SlotTyped
  <2> QED
    BY <1>2, <1>3, <2>1, <2>2 DEF Free
<1>6. Sorted'
  BY <1>1 DEF Sorted
<1>7. TypeOK'
  BY <1>1, <1>2 DEF TypeOK, SlotRec, builderVars, stateVars
<1>8. Roles'
  BY <1>1, <1>4, <1>5 DEF Roles, InReady, Slot
<1> QED
  BY <1>1, <1>5, <1>6, <1>7, <1>8

-----------------------------------------------------------------------------
(* The invariant without the GRU state is inductive                        *)

\* The windows that are READY after a step were before it, as they are.
Shrinks == \A s \in Slot : slots'[s].st = "READY"
                             => slots[s].st = "READY" /\ slots'[s] = slots[s]

\* The router goes on without a reset of it or the generation, or resets.
Onward ==
  /\ router'.win \in Nat /\ router'.win >= router.win
  /\ \/ router'.reset = router.reset /\ active' = active
     \/ router'.reset = router.reset + 1

\* ReadyInv holds on if no window becomes READY.
LEMMA ReadyShrinks ==
  ASSUME Base, Shrinks, Onward
  PROVE  ReadyInv'
<1> SUFFICES ASSUME NEW s \in Slot, slots'[s].st = "READY"
             PROVE  /\ slots'[s].win <= router'.win /\ slots'[s].reset <= router'.reset
                    /\ slots'[s].reset = router'.reset => slots'[s].gen = active'
                    /\ \A t \in Ready' : slots'[s].reset = slots'[t].reset
                                            => slots'[s].gen = slots'[t].gen
  BY DEF ReadyInv, Ready
<1>1. slots[s].st = "READY" /\ slots'[s] = slots[s]
  BY DEF Shrinks
<1>2. /\ slots[s].win <= router.win /\ slots[s].reset <= router.reset
      /\ slots[s].reset = router.reset => slots[s].gen = active
  BY <1>1 DEF Base, ReadyInv, Ready
<1>3. /\ slots[s].win \in Nat /\ slots[s].reset \in Nat
      /\ router.win \in Nat /\ router.reset \in Nat
  BY SlotTyped, RouterTyped DEF Base
<1>4. ASSUME NEW t \in Ready', slots'[s].reset = slots'[t].reset
      PROVE  slots'[s].gen = slots'[t].gen
  <2>1. t \in Slot /\ slots[t].st = "READY" /\ slots'[t] = slots[t]
    BY DEF Ready, Shrinks
  <2> QED
    BY <1>1, <1>4, <2>1 DEF Base, ReadyInv, Ready
<1> QED
  BY <1>1, <1>2, <1>3, <1>4 DEF Onward

\* An unchanged set of windows is a special case.
LEMMA KeepsShrinks ==
  ASSUME KeepsReady
  PROVE  Shrinks
BY DEF KeepsReady, Shrinks

\* Every step keeps ThreadInv.
LEMMA ThreadInvStep ==
  ASSUME Base, Next
  PROVE  ThreadInv'
<1> USE DEF Base
<1>0. procGen \in Nat /\ active \in Nat /\ tgt \in Nat /\ MaxGen \in Nat
  BY DEF TypeOK, Gens
<1>1. CASE Receiver \/ TakeJob
  BY <1>0, <1>1 DEF ThreadInv, Receiver, Drop, Cancel, TakeJob, builderVars, poolVars, inferVars
<1>2. CASE Top \/ ReadTarget \/ TakeItem
  BY <1>0, <1>2 DEF ThreadInv, Top, ReadTarget, TakeItem, poolVars, inferVars
<1>3. CASE DecideFresh \/ SkipItem
  BY <1>0, <1>3 DEF ThreadInv, DecideFresh, SkipItem, poolVars, inferVars
<1>4. CASE ResetGeneration
  <2>1. bpc' # "wait" /\ bpc' # "skip" /\ active' = tgt /\ tgt' = 0
    BY <1>4 DEF ResetGeneration, TypeOK
  <2>2. UNCHANGED <<procGen, ipc, islot>>
    BY <1>4 DEF ResetGeneration, inferVars
  <2> QED
    BY <1>0, <2>1, <2>2 DEF ThreadInv
<1>5. CASE AppendChunk
  <2>1. PICK n \in 1..2 :
        /\ router' = [router EXCEPT !.n = Sat(@ + n)]
        /\ IF cur = 0 THEN bpc' = "wait" /\ UNCHANGED slots
           ELSE slots' = [slots EXCEPT ![cur].n = Sat(@ + n)] /\ UNCHANGED bpc
    BY <1>5 DEF AppendChunk
  <2>2. router'.n > 0
    BY <2>1 DEF TypeOK, Sat
  <2>3. bpc = "push" /\ UNCHANGED <<procGen, tgt, active, cur, ipc, islot>>
    BY <1>5 DEF AppendChunk, inferVars
  <2>4. (bpc' = "wait" /\ cur' = 0) \/ bpc' = "push"
    BY <2>1, <2>3
  <2> QED
    BY <2>2, <2>3, <2>4 DEF ThreadInv
<1>6. CASE AcquireSlot \/ AcquireStops \/ EndPush
  BY <1>6 DEF ThreadInv, AcquireSlot, AcquireStops, EndPush, poolVars, inferVars
<1>7. CASE EndWindow \/ RouterGap
  BY <1>7 DEF ThreadInv, EndWindow, RouterGap, inferVars
<1>8. CASE ReadGeneration \/ Forward
  BY <1>8 DEF ThreadInv, ReadGeneration, Forward, builderVars, poolVars
<1>9. CASE Acquire
  <2>1. islot' \in Slot
    BY <1>9, AcquirePool
  <2>2. ipc' = "forward" /\ UNCHANGED <<procGen, bpc, active, tgt, router, cur>>
    BY <1>9 DEF Acquire, builderVars
  <2> QED
    BY <2>1, <2>2 DEF ThreadInv, Slot
<1>10. CASE AcquireNone \/ Release \/ ForwardRaises
  BY <1>10 DEF ThreadInv, AcquireNone, Release, ForwardRaises, builderVars
<1>11. CASE CheckWindow \/ Submit \/ ClosePool
  BY <1>11 DEF ThreadInv, CheckWindow, Submit, ClosePool, builderVars, poolVars
<1> QED
  BY <1>1, <1>2, <1>3, <1>4, <1>5, <1>6, <1>7, <1>8, <1>9, <1>10, <1>11
     DEF Next, Builder, Inference

\* Every step keeps SlotMatchesRouter: the four paths that reset the router or
\* the slot reset both.
LEMMA MatchesStep ==
  ASSUME Base, Next
  PROVE  SlotMatchesRouter'
<1> USE DEF Base
<1>1. CASE Quiet
  <2>1. UNCHANGED <<slots, cur, router>>
    BY <1>1, QuietLeaves
  <2>2. active' = active
    BY <1>1 DEF Quiet, Receiver, Drop, Cancel, TakeJob, Top, ReadTarget, TakeItem, DecideFresh,
       SkipItem, AcquireStops, EndPush, ReadGeneration, Forward, CheckWindow, Submit, builderVars
  <2>3. bpc' \notin {"wait", "ended"} => bpc \notin {"wait", "ended"}
    BY <1>1 DEF Quiet, Receiver, Drop, Cancel, TakeJob, Top, ReadTarget, TakeItem, DecideFresh,
       SkipItem, AcquireStops, EndPush, ReadGeneration, Forward, CheckWindow, Submit, builderVars
  <2> QED
    BY <2>1, <2>2, <2>3 DEF SlotMatchesRouter
<1>2. CASE ResetGeneration
  <2>1. cur' = 0 /\ router'.n = 0
    BY <1>2, ResetPool, ResetTyped DEF ResetGeneration
  <2> QED
    BY <2>1 DEF SlotMatchesRouter
<1>3. CASE AppendChunk
  <2>1. PICK n \in 1..2 :
        /\ router' = [router EXCEPT !.n = Sat(@ + n)]
        /\ IF cur = 0 THEN bpc' = "wait" /\ UNCHANGED slots
           ELSE slots' = [slots EXCEPT ![cur].n = Sat(@ + n)] /\ UNCHANGED bpc
    BY <1>3 DEF AppendChunk
  <2>2. bpc = "push" /\ cur' = cur /\ active' = active
    BY <1>3 DEF AppendChunk
  <2>3. CASE cur = 0
    BY <2>1, <2>3 DEF SlotMatchesRouter
  <2>4. CASE cur # 0
    <3>1. cur \in Slot /\ slots \in [Slot -> SlotRec]
      BY <2>4 DEF TypeOK, Slot, SlotRec
    <3>2. /\ slots[cur].gen = active /\ slots[cur].reset = router.reset
          /\ slots[cur].win = router.win + 1 /\ slots[cur].n = router.n
      BY <2>2, <2>4 DEF SlotMatchesRouter
    <3>3. /\ slots'[cur].gen = slots[cur].gen /\ slots'[cur].reset = slots[cur].reset
          /\ slots'[cur].win = slots[cur].win
          /\ slots'[cur].n = Sat(slots[cur].n + n)
      BY <2>1, <2>4, <3>1 DEF SlotRec
    <3>4. /\ router'.n = Sat(router.n + n) /\ router'.reset = router.reset
          /\ router'.win = router.win
      BY <2>1 DEF TypeOK
    <3>5. router'.n # 0
      BY <3>4, RouterTyped DEF Sat
    <3> QED
      BY <2>2, <2>4, <3>2, <3>3, <3>4, <3>5 DEF SlotMatchesRouter
  <2> QED
    BY <2>3, <2>4
<1>4. CASE AcquireSlot
  <2>1. /\ cur' \in Slot
        /\ slots'[cur'] = [st |-> "FILLING", gen |-> active, reset |-> router.reset,
                           win |-> router.win + 1, n |-> router.n, prev |-> 0]
    BY <1>4, AcquireSlotPool
  <2>2. router' = router /\ active' = active /\ router.n > 0
    BY <1>4 DEF AcquireSlot, ThreadInv
  <2>3. router.n # 0
    BY <2>2, RouterTyped
  <2> QED
    BY <2>1, <2>2, <2>3 DEF SlotMatchesRouter, Slot
<1>5. CASE EndWindow
  <2>1. cur' = 0 /\ router'.n = 0
    BY <1>5, EndWindowOutline, EndRouterTyped
  <2> QED
    BY <2>1 DEF SlotMatchesRouter
<1>6. CASE RouterGap
  <2>1. cur' = 0
    BY <1>6, RouterGapPool
  <2>2. router'.n = 0
    BY <1>6, ResetTyped DEF RouterGap
  <2> QED
    BY <2>1, <2>2 DEF SlotMatchesRouter
<1>7. CASE Acquire \/ AcquireNone \/ Release \/ ForwardRaises
  <2>1. UNCHANGED <<bpc, active, router, cur>>
    BY <1>7 DEF Acquire, AcquireNone, Release, ForwardRaises, builderVars
  <2>2. cur \in Slot => slots'[cur] = slots[cur]
    BY <1>7, AcquirePool, AcquireNonePool, ReleasePool
  <2>3. cur # 0 => cur \in Slot
    BY DEF TypeOK, Slot
  <2> QED
    BY <2>1, <2>2, <2>3 DEF SlotMatchesRouter
<1>8. CASE ClosePool
  BY <1>8 DEF SlotMatchesRouter, ClosePool, builderVars
<1> QED
  BY <1>1, <1>2, <1>3, <1>4, <1>5, <1>6, <1>7, <1>8
     DEF Next, Builder, Inference, Quiet

\* Every step but FinishWindow only takes windows from those that are READY.
LEMMA OnlyFinishAdds ==
  ASSUME Base, Next, ~(EndWindow /\ ~(router.n < 2))
  PROVE  Shrinks
<1>1. CASE Quiet
  BY <1>1, QuietLeaves DEF Shrinks
<1>2. CASE ResetGeneration
  BY <1>2, ResetPool DEF Shrinks, Free
<1>3. CASE AppendChunk
  BY <1>3, AppendPool, KeepsShrinks
<1>4. CASE AcquireSlot
  BY <1>4, AcquireSlotPool, KeepsShrinks
<1>5. CASE EndWindow
  BY <1>5, GiveUpPool, KeepsShrinks
<1>6. CASE RouterGap
  BY <1>6, RouterGapPool, KeepsShrinks
<1>7. CASE Acquire
  BY <1>7, AcquirePool DEF Shrinks
<1>8. CASE AcquireNone
  BY <1>8, AcquireNonePool DEF Shrinks
<1>9. CASE Release \/ ForwardRaises
  BY <1>9, ReleasePool, KeepsShrinks
<1>10. CASE ClosePool
  BY <1>10, ClosePoolPool DEF Shrinks
<1> QED
  BY <1>1, <1>2, <1>3, <1>4, <1>5, <1>6, <1>7, <1>8, <1>9, <1>10
     DEF Next, Builder, Inference, Quiet

\* The router never goes back.
LEMMA RouterOnward ==
  ASSUME Base, Next
  PROVE  Onward
<1> USE DEF Base
<1>0. router.win \in Nat /\ router.reset \in Nat
  BY RouterTyped
<1>1. CASE ResetGeneration \/ RouterGap
  <2>1. /\ router'.win = router.win /\ router'.reset = router.reset + 1
    BY <1>1, ResetTyped DEF ResetGeneration, RouterGap
  <2> QED
    BY <1>0, <2>1 DEF Onward
<1>2. CASE EndWindow
  <2>1. /\ router'.reset = router.reset /\ router'.win = router.win + 1 /\ active' = active
    BY <1>2, EndWindowOutline, EndRouterTyped
  <2> QED
    BY <1>0, <1>2, <2>1 DEF Onward
<1>3. CASE AppendChunk
  <2>1. router'.reset = router.reset /\ router'.win = router.win /\ router'.last = router.last
    BY <1>3 DEF AppendChunk, TypeOK
  <2>2. active' = active
    BY <1>3 DEF AppendChunk
  <2> QED
    BY <1>0, <2>1, <2>2 DEF Onward
<1>4. CASE Quiet
  <2>1. router' = router
    BY <1>4, QuietLeaves
  <2>2. active' = active
    BY <1>4 DEF Quiet, Receiver, Drop, Cancel, TakeJob, Top, ReadTarget, TakeItem, DecideFresh,
       SkipItem, AcquireStops, EndPush, ReadGeneration, Forward, CheckWindow, Submit, builderVars
  <2> QED
    BY <1>0, <2>1, <2>2 DEF Onward
<1>5. CASE AcquireSlot \/ Acquire \/ AcquireNone \/ Release \/ ForwardRaises \/ ClosePool
  <2>1. router' = router /\ active' = active
    BY <1>5 DEF AcquireSlot, Acquire, AcquireNone, Release, ForwardRaises, ClosePool, builderVars
  <2> QED
    BY <1>0, <2>1 DEF Onward
<1> QED
  BY <1>1, <1>2, <1>3, <1>4, <1>5 DEF Next, Builder, Inference, Quiet

\* Every step keeps ReadyInv.
LEMMA ReadyInvStep ==
  ASSUME Base, Next
  PROVE  ReadyInv'
<1>1. CASE EndWindow /\ ~(router.n < 2)
  <2> USE DEF Base
  <2>1. /\ slots'[cur].gen = active /\ slots'[cur].reset = router.reset
        /\ slots'[cur].win = router.win + 1
        /\ \A s \in Slot : s # cur => slots'[s] = slots[s]
    BY <1>1, FinishPool
  <2>2. router'.reset = router.reset /\ router'.win = router.win + 1 /\ active' = active
    BY <1>1, EndWindowOutline, EndRouterTyped
  <2>3. router.win \in Nat /\ router.reset \in Nat
    BY RouterTyped
  <2>4. ASSUME NEW s \in Ready', s # cur
        PROVE  /\ s \in Ready /\ slots'[s] = slots[s]
               /\ slots[s].win <= router.win /\ slots[s].win \in Nat
               /\ slots[s].reset <= router.reset
               /\ slots[s].reset = router.reset => slots[s].gen = active
    <3>1. s \in Ready /\ slots'[s] = slots[s]
      BY <2>1, <2>4 DEF Ready
    <3> QED
      BY <3>1, SlotTyped DEF ReadyInv, Ready
  <2> SUFFICES ASSUME NEW s \in Ready'
               PROVE  /\ slots'[s].win <= router'.win /\ slots'[s].reset <= router'.reset
                      /\ slots'[s].reset = router'.reset => slots'[s].gen = active'
                      /\ \A t \in Ready' : slots'[s].reset = slots'[t].reset
                                              => slots'[s].gen = slots'[t].gen
    BY DEF ReadyInv
  <2>5. slots'[s].win <= router'.win /\ slots'[s].reset <= router'.reset
    BY <2>1, <2>2, <2>3, <2>4
  <2>6. slots'[s].reset = router'.reset => slots'[s].gen = active'
    BY <2>1, <2>2, <2>4
  <2>7. ASSUME NEW t \in Ready', slots'[s].reset = slots'[t].reset
        PROVE  slots'[s].gen = slots'[t].gen
    <3>1. CASE s # cur /\ t # cur
      <4>1. s \in Ready /\ slots'[s] = slots[s] /\ t \in Ready /\ slots'[t] = slots[t]
        BY <2>4, <3>1
      <4> QED
        BY <2>7, <4>1 DEF ReadyInv
    <3>2. CASE s = cur
      BY <2>1, <2>4, <2>7, <3>2
    <3>3. CASE t = cur
      BY <2>1, <2>4, <2>7, <3>3
    <3> QED
      BY <3>1, <3>2, <3>3
  <2> QED
    BY <2>5, <2>6, <2>7
<1>2. CASE ~(EndWindow /\ ~(router.n < 2))
  BY <1>2, OnlyFinishAdds, RouterOnward, ReadyShrinks
<1> QED
  BY <1>1, <1>2

\* Every step keeps the pool's own part.
LEMMA PoolStep ==
  ASSUME Base, Next
  PROVE  TypeOK' /\ Roles' /\ Sorted'
<1> USE DEF Base
<1>1. CASE Quiet
  <2>1. UNCHANGED <<slots, cur, ready, islot>>
    BY <1>1, QuietLeaves
  <2> QED
    BY <1>1, <2>1, QuietTyped DEF Roles, Sorted, InReady
<1>2. CASE ResetGeneration
  BY <1>2, ResetPool
<1>3. CASE AppendChunk
  BY <1>3, AppendPool, KeepsSorted DEF Pool
<1>4. CASE AcquireSlot
  BY <1>4, AcquireSlotPool, KeepsSorted DEF Pool
<1>5. CASE EndWindow /\ router.n < 2
  BY <1>5, GiveUpPool, KeepsSorted DEF Pool
<1>6. CASE EndWindow /\ ~(router.n < 2)
  BY <1>6, FinishPool
<1>7. CASE RouterGap
  BY <1>7, RouterGapPool, KeepsSorted DEF Pool
<1>8. CASE Acquire
  BY <1>8, AcquirePool
<1>9. CASE AcquireNone
  BY <1>9, AcquireNonePool
<1>10. CASE Release \/ ForwardRaises
  BY <1>10, ReleasePool, KeepsSorted DEF Pool
<1>11. CASE ClosePool
  BY <1>11, ClosePoolPool
<1> QED
  BY <1>1, <1>2, <1>3, <1>4, <1>5, <1>6, <1>7, <1>8, <1>9, <1>10, <1>11
     DEF Next, Builder, Inference, Quiet

\* The pool is empty at the start.
LEMMA BaseInit ==
  ASSUME Init
  PROVE  Base
<1>1. TypeOK
  <2>1. Free \in SlotRec
    BY DEF Free, SlotRec, Gens, Windows
  <2>2. slots \in [Slot -> SlotRec]
    BY <2>1 DEF Init
  <2>3. router \in [reset : Nat, win : 0..MaxWindows, n : 0..2, last : 0..MaxWindows,
                   gaps : 0..MaxGaps]
    BY DEF Init
  <2>4. ready \in Seq(Slot) /\ Len(ready) <= PoolSize
    BY DEF Init
  <2>5. /\ procGen \in Gens /\ tgt \in Gens /\ active \in Gens /\ igen \in Gens
        /\ cur \in 0..PoolSize /\ islot \in 0..PoolSize /\ state \in Windows
        /\ stateGen \in Gens \cup {None} /\ stateReset \in Nat \cup {None}
    BY DEF Init, Gens, Windows
  <2>6. /\ bpc = "top" /\ ret = "top" /\ ipc = "read"
        /\ cancelled \in BOOLEAN /\ firstPending \in BOOLEAN /\ closed \in BOOLEAN
        /\ job \in BOOLEAN
    BY DEF Init
  <2> QED
    BY <2>2, <2>3, <2>4, <2>5, <2>6 DEF TypeOK, SlotRec
<1>2. \A s \in Slot : slots[s].st = "FREE"
  BY DEF Init, Free
<1>3. Roles /\ Sorted
  BY <1>2 DEF Init, Roles, Sorted, InReady, Slot
<1>4. SlotMatchesRouter /\ ThreadInv
  BY DEF Init, SlotMatchesRouter, ThreadInv
<1>5. ReadyInv
  BY <1>2 DEF ReadyInv, Ready
<1> QED
  BY <1>1, <1>3, <1>4, <1>5 DEF Base

\* The invariant without the GRU state is inductive.
LEMMA BaseStep ==
  ASSUME Base, [Next]_vars
  PROVE  Base'
<1>1. CASE Next
  BY <1>1, PoolStep, MatchesStep, ThreadInvStep, ReadyInvStep DEF Base
<1>2. CASE UNCHANGED vars
  BY <1>2 DEF Base, vars, builderVars, poolVars, stateVars, inferVars, TypeOK, Roles, Sorted,
              InReady, SlotMatchesRouter, ThreadInv, ReadyInv, Ready
<1> QED
  BY <1>1, <1>2

-----------------------------------------------------------------------------
(* The chain of windows                                                    *)

Full == Base /\ CarriedInv /\ ChainInv

\* A step that leaves the READY windows and the router's last one alone, and
\* carries the GRU state on or gives it up, keeps the chain.
LEMMA ChainKept ==
  ASSUME Full, KeepsReady,
         router'.reset = router.reset, router'.last = router.last, active' = active,
         Anchor' \in {0, Anchor},
         Anchor' # 0 => UNCHANGED <<stateReset, stateGen>>,
         stateReset' \in {stateReset, None},
         ipc' = "forward" => /\ ipc = "forward" /\ UNCHANGED <<stateReset, state, islot>>
                            /\ slots'[islot] = slots[islot]
  PROVE  CarriedInv' /\ ChainInv'
<1>1. /\ Ready' = Ready /\ \A s \in Ready : slots'[s] = slots[s]
  BY DEF KeepsReady, Ready
<1>2. router.reset \in Nat
  BY RouterTyped DEF Full, Base
<1>3. stateReset' <= router'.reset
  BY <1>2 DEF Full, CarriedInv, None
<1>4. ipc' = "forward" => stateReset' = slots'[islot'].reset
  BY DEF Full, CarriedInv
<1>5. Anchor' # 0 =>
        /\ \A s \in Ready' : slots'[s].reset = stateReset' => slots'[s].gen = stateGen'
        /\ router'.reset = stateReset' => active' = stateGen'
  BY <1>1 DEF Full, CarriedInv
<1>6. \A s, t \in Ready : Before(s, t)' <=> Before(s, t)
  BY <1>1 DEF Before
<1>7. \A s, t \in Ready' : Precedes(s, t)' => slots'[t].prev = slots'[s].win
  BY <1>1, <1>6 DEF Full, ChainInv, Precedes
<1>8. \A t \in Ready' : Anchor' # 0 /\ slots'[t].reset = stateReset' /\ Earliest(t)'
                        => slots'[t].prev = Anchor'
  BY <1>1, <1>6 DEF Full, ChainInv, Earliest
<1>9. \A t \in Ready' : slots'[t].reset = router'.reset /\ Latest(t)'
                        => router'.last = slots'[t].win
  BY <1>1, <1>6 DEF Full, ChainInv, Latest
<1>10. Anchor' # 0 /\ router'.reset = stateReset'
         /\ (\A t \in Ready' : slots'[t].reset # router'.reset)
         => router'.last = Anchor'
  BY <1>1 DEF Full, ChainInv
<1>11. ipc' = "forward" /\ state' # 0 => slots'[islot'].prev = state'
  BY DEF Full, ChainInv
<1> QED
  BY <1>3, <1>4, <1>5, <1>7, <1>8, <1>9, <1>10, <1>11 DEF CarriedInv, ChainInv

\* A reset of the router starts a chain of its own; those of before it are
\* cleared as a whole or not at all.
LEMMA ChainReset ==
  ASSUME Full, Shrinks, router'.reset = router.reset + 1,
         \A s, t \in Ready : slots[s].reset = slots[t].reset /\ s \in Ready' => t \in Ready',
         UNCHANGED <<ipc, state, stateReset, stateGen, islot>>,
         ipc = "forward" => slots'[islot] = slots[islot]
  PROVE  CarriedInv' /\ ChainInv'
<1>1. \A s \in Ready' : s \in Ready /\ slots'[s] = slots[s]
  BY DEF Shrinks, Ready
<1>2. router.reset \in Nat /\ stateReset \in Nat \cup {None} /\ stateReset <= router.reset
  BY RouterTyped DEF Full, Base, TypeOK, CarriedInv
<1>3. \A s \in Ready : slots[s].reset \in Nat /\ slots[s].reset <= router.reset
  BY SlotTyped DEF Full, Base, ReadyInv, Ready
<1>4. Anchor' = Anchor
  BY DEF Anchor
<1>5. stateReset' # router'.reset /\ stateReset' <= router'.reset
  BY <1>2 DEF None
<1>6. ipc' = "forward" => stateReset' = slots'[islot'].reset
  BY DEF Full, CarriedInv
<1>7. Anchor' # 0 =>
        /\ \A s \in Ready' : slots'[s].reset = stateReset' => slots'[s].gen = stateGen'
        /\ router'.reset = stateReset' => active' = stateGen'
  BY <1>1, <1>4, <1>5 DEF Full, CarriedInv
<1>8. \A s, t \in Ready' : Before(s, t)' <=> Before(s, t)
  BY <1>1 DEF Before
<1>9. ASSUME NEW s \in Ready', NEW t \in Ready', Precedes(s, t)'
      PROVE  slots'[t].prev = slots'[s].win
  <2>1. s \in Ready /\ t \in Ready /\ Before(s, t)
    BY <1>1, <1>8, <1>9 DEF Precedes
  <2>2. ASSUME NEW u \in Ready, Before(s, u), Before(u, t) PROVE FALSE
    <3>1. u \in Ready'
      BY <2>1, <2>2 DEF Before
    <3> QED
      BY <1>8, <1>9, <2>2, <3>1 DEF Precedes
  <2>3. Precedes(s, t)
    BY <2>1, <2>2 DEF Precedes
  <2> QED
    BY <1>1, <2>1, <2>3 DEF Full, ChainInv
<1>10. ASSUME NEW t \in Ready', Anchor' # 0, slots'[t].reset = stateReset', Earliest(t)'
       PROVE  slots'[t].prev = Anchor'
  <2>1. t \in Ready /\ slots[t].reset = stateReset
    BY <1>1, <1>10
  <2>2. ASSUME NEW u \in Ready, Before(u, t) PROVE FALSE
    <3>1. u \in Ready'
      BY <2>1, <2>2 DEF Before
    <3> QED
      BY <1>8, <1>10, <2>2, <3>1 DEF Earliest
  <2>3. Earliest(t)
    BY <2>2 DEF Earliest
  <2> QED
    BY <1>1, <1>4, <1>10, <2>1, <2>3 DEF Full, ChainInv
<1>11. \A t \in Ready' : slots'[t].reset # router'.reset
  BY <1>1, <1>2, <1>3
<1>12. ipc' = "forward" /\ state' # 0 => slots'[islot'].prev = state'
  BY DEF Full, ChainInv
<1> QED
  BY <1>5, <1>6, <1>7, <1>9, <1>10, <1>11, <1>12 DEF CarriedInv, ChainInv

\* A window that is finished is the last of its chain.
LEMMA ChainFinish ==
  ASSUME Full, EndWindow, ~(router.n < 2)
  PROVE  CarriedInv' /\ ChainInv'
<1> USE DEF Full, Base
<1>0. PICK c \in Slot : c = cur
  BY EndWindowOutline
<1>1. /\ slots'[c].st = "READY" /\ slots'[c].gen = active
      /\ slots'[c].reset = router.reset /\ slots'[c].win = router.win + 1
      /\ slots'[c].prev = router.last
      /\ \A s \in Slot : s # c => slots'[s] = slots[s]
  BY <1>0, FinishPool
<1>2. /\ c \in Slot /\ slots[c].st = "FILLING" /\ active' = active
      /\ UNCHANGED <<ipc, state, stateReset, stateGen, islot>>
  BY <1>0, EndWindowOutline DEF inferVars, stateVars
<1>3. router'.reset = router.reset /\ router'.last = router.win + 1
  BY EndWindowOutline, EndRouterTyped
<1>4. router.win \in Nat /\ router.reset \in Nat
  BY RouterTyped
<1>5. /\ c \in Ready' /\ c \notin Ready
      /\ \A s \in Slot : s # c => (s \in Ready' <=> s \in Ready)
      /\ \A s \in Ready : s # c /\ s \in Ready' /\ slots'[s] = slots[s]
      /\ \A s \in Ready' : s \in Slot
  BY <1>1, <1>2 DEF Ready
<1>6. \A s \in Ready : slots[s].win \in Nat /\ slots[s].win < router.win + 1
  BY <1>4, SlotTyped DEF ReadyInv, Ready
<1>7. ipc = "forward" => islot # c /\ slots'[islot] = slots[islot]
  <2>1. ipc = "forward" => islot \in Slot /\ slots[islot].st = "INFERENCING"
    BY DEF ThreadInv, TypeOK, Roles, Slot
  <2> QED
    BY <1>1, <1>2, <2>1
<1>8. Anchor' = Anchor
  BY <1>2, <1>7 DEF Anchor
<1>9. /\ \A s, t \in Ready : Before(s, t)' <=> Before(s, t)
      /\ \A s \in Ready : Before(s, c)' <=> slots[s].reset = router.reset
      /\ \A s \in Ready : ~Before(c, s)'
      /\ ~Before(c, c)'
  <2>1. \A s, t \in Ready : Before(s, t)' <=> Before(s, t)
    BY <1>5 DEF Before
  <2>2. \A s \in Ready : Before(s, c)' <=> slots[s].reset = router.reset
    BY <1>1, <1>5, <1>6 DEF Before
  <2>3. \A s \in Ready : ~Before(c, s)'
    BY <1>1, <1>4, <1>5, <1>6 DEF Before
  <2>4. ~Before(c, c)'
    BY <1>1, <1>4 DEF Before
  <2> QED
    BY <2>1, <2>2, <2>3, <2>4
<1>10. stateReset' <= router'.reset /\ (ipc' = "forward" => stateReset' = slots'[islot'].reset)
  BY <1>2, <1>3, <1>7 DEF CarriedInv
<1>11. Anchor' # 0 =>
        /\ \A s \in Ready' : slots'[s].reset = stateReset' => slots'[s].gen = stateGen'
        /\ router'.reset = stateReset' => active' = stateGen'
  BY <1>1, <1>2, <1>3, <1>5, <1>8 DEF CarriedInv
<1>12. ASSUME NEW s \in Ready', NEW t \in Ready', Precedes(s, t)'
       PROVE  slots'[t].prev = slots'[s].win
  <2>1. s # c
    BY <1>5, <1>9, <1>12 DEF Precedes
  <2>2. s \in Ready /\ slots'[s] = slots[s]
    BY <1>5, <2>1
  <2>3. CASE t = c
    <3>1. slots[s].reset = router.reset
      BY <1>9, <1>12, <2>2, <2>3 DEF Precedes
    <3>2. ASSUME NEW u \in Ready, Before(s, u) PROVE FALSE
      <4>1. Before(s, u)' /\ slots[u].reset = router.reset
        BY <1>9, <2>2, <3>1, <3>2 DEF Before
      <4>2. Before(u, c)'
        BY <1>9, <4>1
      <4> QED
        BY <1>5, <1>12, <2>3, <4>1, <4>2 DEF Precedes
    <3>3. router.last = slots[s].win
      BY <2>2, <3>1, <3>2 DEF ChainInv, Latest
    <3> QED
      BY <1>1, <2>2, <2>3, <3>3
  <2>4. CASE t # c
    <3>1. t \in Ready /\ slots'[t] = slots[t]
      BY <1>5, <2>4
    <3>2. Precedes(s, t)
      BY <1>5, <1>9, <1>12, <2>2, <3>1 DEF Precedes
    <3> QED
      BY <2>2, <3>1, <3>2 DEF ChainInv
  <2> QED
    BY <2>3, <2>4
<1>13. ASSUME NEW t \in Ready', Anchor' # 0, slots'[t].reset = stateReset', Earliest(t)'
       PROVE  slots'[t].prev = Anchor'
  <2>1. CASE t = c
    <3>1. router.reset = stateReset /\ Anchor # 0
      BY <1>1, <1>2, <1>8, <1>13, <2>1
    <3>2. \A u \in Ready : slots[u].reset # router.reset
      BY <1>5, <1>9, <1>13, <2>1 DEF Earliest
    <3>3. router.last = Anchor
      BY <3>1, <3>2 DEF ChainInv
    <3> QED
      BY <1>1, <1>8, <2>1, <3>3
  <2>2. CASE t # c
    <3>1. t \in Ready /\ slots'[t] = slots[t]
      BY <1>5, <2>2
    <3>2. Earliest(t)
      BY <1>5, <1>9, <1>13, <3>1 DEF Earliest
    <3> QED
      BY <1>2, <1>8, <1>13, <3>1, <3>2 DEF ChainInv
  <2> QED
    BY <2>1, <2>2
<1>14. ASSUME NEW t \in Ready', slots'[t].reset = router'.reset, Latest(t)'
       PROVE  router'.last = slots'[t].win
  <2>1. t = c
    <3> SUFFICES ASSUME t # c PROVE FALSE
      OBVIOUS
    <3>1. t \in Ready /\ slots[t].reset = router.reset
      BY <1>3, <1>5, <1>14
    <3>2. Before(t, c)'
      BY <1>9, <3>1
    <3> QED
      BY <1>5, <1>14, <3>2 DEF Latest
  <2> QED
    BY <1>1, <1>3, <2>1
<1>15. ~(\A t \in Ready' : slots'[t].reset # router'.reset)
  BY <1>1, <1>3, <1>5
<1>16. ipc' = "forward" /\ state' # 0 => slots'[islot'].prev = state'
  BY <1>2, <1>7 DEF ChainInv
<1> QED
  BY <1>10, <1>11, <1>12, <1>13, <1>14, <1>15, <1>16 DEF CarriedInv, ChainInv

\* The window that is taken is the next of its chain, or the state is forgotten.
LEMMA ChainAcquire ==
  ASSUME Full, Acquire
  PROVE  CarriedInv' /\ ChainInv'
<1> USE DEF Full, Base
<1> DEFINE a == islot'
<1>1. /\ a \in Slot /\ slots[a].st = "READY" /\ slots[a].gen = stateGen
      /\ slots'[a].win = slots[a].win /\ slots'[a].reset = slots[a].reset
      /\ slots'[a].prev = slots[a].prev
      /\ stateReset' = slots[a].reset
      /\ state' = IF slots[a].reset = stateReset THEN state ELSE 0
  BY AcquirePool
<1>2. /\ \A s \in Slot : slots'[s].st = "READY"
                <=> slots[s].st = "READY" /\ slots[a].win < slots[s].win
      /\ \A s \in Slot : slots'[s].st = "READY" => slots'[s] = slots[s]
      /\ \A s \in Slot : slots[s].st = "READY" /\ slots[s].win < slots[a].win
                => slots[s].gen # stateGen
      /\ \A s \in Slot : slots[s].st = "READY" /\ slots[s].win = slots[a].win => s = a
  BY AcquirePool
<1>3. /\ ipc' = "forward" /\ ipc = "acquire" /\ UNCHANGED <<router, active, stateGen>>
  BY DEF Acquire, builderVars
<1>4. Anchor' = slots[a].win /\ Anchor = state
  BY <1>1, <1>3 DEF Anchor
<1> HIDE DEF a
<1>5. /\ a \in Ready
      /\ \A s \in Ready' : s \in Ready /\ slots'[s] = slots[s] /\ slots[a].win < slots[s].win
      /\ \A s \in Ready : slots[a].win < slots[s].win => s \in Ready'
  BY <1>1, <1>2 DEF Ready
<1>6. \A s \in Ready : slots[s].win \in Nat /\ slots[s].reset \in Nat
  BY SlotTyped DEF Ready
<1>7. \A s, t \in Ready' : Before(s, t)' <=> Before(s, t)
  BY <1>5 DEF Before
<1>8. router.reset \in Nat
  BY RouterTyped
<1>9. stateReset' <= router'.reset
  BY <1>1, <1>3, <1>5 DEF ReadyInv
<1>10. stateReset' = slots'[islot'].reset
  BY <1>1 DEF a
<1>11. \A s \in Ready' : slots'[s].reset = stateReset' => slots'[s].gen = stateGen'
  BY <1>1, <1>3, <1>5 DEF ReadyInv
<1>12. router'.reset = stateReset' => active' = stateGen'
  BY <1>1, <1>3, <1>5 DEF ReadyInv
<1>13. ASSUME NEW s \in Ready', NEW t \in Ready', Precedes(s, t)'
       PROVE  slots'[t].prev = slots'[s].win
  <2>1. s \in Ready /\ t \in Ready /\ Before(s, t)
    BY <1>5, <1>7, <1>13 DEF Precedes
  <2>2. ASSUME NEW u \in Ready, Before(s, u), Before(u, t) PROVE FALSE
    <3>1. slots[a].win < slots[u].win
      BY <1>5, <1>6, <2>1, <2>2 DEF Before
    <3>2. u \in Ready'
      BY <1>5, <3>1
    <3> QED
      BY <1>7, <1>13, <2>2, <3>2 DEF Precedes
  <2>3. Precedes(s, t)
    BY <2>1, <2>2 DEF Precedes
  <2> QED
    BY <1>5, <2>1, <2>3 DEF ChainInv
<1>14. ASSUME NEW t \in Ready', slots'[t].reset = stateReset', Earliest(t)'
       PROVE  slots'[t].prev = Anchor'
  <2>1. t \in Ready /\ slots[t].reset = slots[a].reset /\ Before(a, t)
    BY <1>1, <1>5, <1>14 DEF Before
  <2>2. ASSUME NEW u \in Ready, Before(a, u), Before(u, t) PROVE FALSE
    <3>1. u \in Ready'
      BY <1>5, <2>2 DEF Before
    <3> QED
      BY <1>7, <1>14, <2>2, <3>1 DEF Earliest
  <2>3. slots[t].prev = slots[a].win
    BY <1>5, <2>1, <2>2 DEF ChainInv, Precedes
  <2> QED
    BY <1>4, <1>5, <2>3
<1>15. ASSUME NEW t \in Ready', slots'[t].reset = router'.reset, Latest(t)'
       PROVE  router'.last = slots'[t].win
  <2>1. t \in Ready /\ slots[t].reset = router.reset
    BY <1>3, <1>5, <1>15
  <2>2. ASSUME NEW u \in Ready, Before(t, u) PROVE FALSE
    <3>1. slots[a].win < slots[u].win
      BY <1>5, <1>6, <2>1, <2>2 DEF Before
    <3>2. u \in Ready'
      BY <1>5, <3>1
    <3> QED
      BY <1>7, <1>15, <2>2, <3>2 DEF Latest
  <2>3. router.last = slots[t].win
    BY <2>1, <2>2 DEF ChainInv, Latest
  <2> QED
    BY <1>3, <1>5, <2>3
<1>16. ASSUME router'.reset = stateReset', \A t \in Ready' : slots'[t].reset # router'.reset
       PROVE  router'.last = Anchor'
  <2>1. slots[a].reset = router.reset
    BY <1>1, <1>3, <1>16
  <2>2. ASSUME NEW u \in Ready, Before(a, u) PROVE FALSE
    <3>1. u \in Ready' /\ slots'[u].reset = router'.reset
      BY <1>3, <1>5, <2>1, <2>2 DEF Before
    <3> QED
      BY <1>16, <3>1
  <2>3. router.last = slots[a].win
    BY <1>5, <2>1, <2>2 DEF ChainInv, Latest
  <2> QED
    BY <1>3, <1>4, <2>3
<1>17. ASSUME state' # 0 PROVE slots'[islot'].prev = state'
  <2>1. slots[a].reset = stateReset /\ state' = state /\ Anchor # 0
    BY <1>1, <1>4, <1>17
  <2>2. ASSUME NEW u \in Ready, Before(u, a) PROVE FALSE
    <3>1. slots[u].gen # stateGen
      BY <1>2, <2>2 DEF Before, Ready
    <3>2. slots[u].gen = slots[a].gen
      BY <1>5, <2>2 DEF Before, ReadyInv
    <3> QED
      BY <1>1, <3>1, <3>2
  <2>3. slots[a].prev = Anchor
    BY <1>5, <2>1, <2>2 DEF ChainInv, Earliest
  <2> QED
    BY <1>1, <1>4, <2>1, <2>3 DEF a
<1> QED
  BY <1>9, <1>10, <1>11, <1>12, <1>13, <1>14, <1>15, <1>16, <1>17 DEF CarriedInv, ChainInv

\* Clearing every READY window of other generations breaks no chain that the
\* state is carried along.
LEMMA ChainNone ==
  ASSUME Full, AcquireNone
  PROVE  CarriedInv' /\ ChainInv'
<1> USE DEF Full, Base
<1>1. Ready' = {}
  BY AcquireNonePool DEF Ready
<1>2. \A s \in Ready : slots[s].gen # stateGen
  BY AcquireNonePool DEF Ready
<1>3. /\ ipc = "acquire" /\ ipc' \in {"acquire", "read"}
      /\ UNCHANGED <<router, active, state, stateReset, stateGen>>
  BY DEF AcquireNone, builderVars, stateVars
<1>4. Anchor' = Anchor
  BY <1>3 DEF Anchor
<1>5. CarriedInv'
  BY <1>1, <1>3, <1>4 DEF CarriedInv
<1>6. ASSUME Anchor' # 0, router'.reset = stateReset' PROVE router'.last = Anchor'
  <2>1. \A t \in Ready : slots[t].reset # router.reset
    BY <1>2, <1>3, <1>4, <1>6 DEF CarriedInv
  <2> QED
    BY <1>3, <1>4, <1>6, <2>1 DEF ChainInv
<1> QED
  BY <1>1, <1>3, <1>5, <1>6 DEF ChainInv

\* Closing leaves no window and no use for the state.
LEMMA ChainClose ==
  ASSUME Full, ClosePool
  PROVE  CarriedInv' /\ ChainInv'
<1>1. Ready' = {}
  BY ClosePoolPool DEF Full, Ready
<1>2. ipc' = "closed" /\ UNCHANGED <<router, stateReset>>
  BY DEF ClosePool, builderVars, stateVars
<1>3. Anchor' = 0
  BY <1>2 DEF Anchor
<1> QED
  BY <1>1, <1>2, <1>3 DEF Full, CarriedInv, ChainInv

\* Every step keeps the chain of windows.
LEMMA ChainStep ==
  ASSUME Full, Next
  PROVE  CarriedInv' /\ ChainInv'
<1> USE DEF Full
<1>1. CASE (Quiet /\ ~Inference) \/ AppendChunk \/ AcquireSlot
  <2>1. UNCHANGED <<ipc, state, stateReset, stateGen, islot, active>>
    BY <1>1 DEF Quiet, Inference, Receiver, Drop, Cancel, TakeJob, Top, ReadTarget, TakeItem,
       DecideFresh, SkipItem, AcquireStops, EndPush, AppendChunk, AcquireSlot,
       builderVars, stateVars, inferVars
  <2>2. router'.reset = router.reset /\ router'.last = router.last
    <3>1. CASE AppendChunk
      BY <3>1 DEF AppendChunk, Base, TypeOK
    <3>2. CASE Quiet
      BY <3>2, QuietLeaves
    <3>3. CASE AcquireSlot
      BY <3>3 DEF AcquireSlot
    <3> QED
      BY <1>1, <3>1, <3>2, <3>3
  <2>3. KeepsReady
    BY <1>1, AppendPool, AcquireSlotPool, QuietLeaves DEF KeepsReady
  <2>4. ipc = "forward" => slots'[islot] = slots[islot]
    <3>1. CASE Quiet
      BY <3>1, QuietLeaves
    <3>2. CASE AppendChunk \/ AcquireSlot
      <4>1. ipc = "forward" => islot \in Slot /\ slots[islot].st = "INFERENCING"
        BY DEF Base, ThreadInv, TypeOK, Roles, Slot
      <4>2. islot \in Slot /\ slots[islot].st = "INFERENCING" => cur # islot
        BY DEF Base, Roles
      <4>3. CASE AppendChunk
        BY <4>1, <4>2, <4>3, AppendPool
      <4>4. CASE AcquireSlot
        <5>1. PICK s \in Slot : slots[s].st = "FREE" /\ \A t \in Slot : t # s => slots'[t] = slots[t]
          BY <4>4 DEF AcquireSlot, Base, TypeOK
        <5> QED
          BY <4>1, <5>1
      <4> QED
        BY <3>2, <4>3, <4>4
    <3> QED
      BY <1>1, <3>1, <3>2
  <2>5. Anchor' = Anchor
    BY <2>1, <2>4 DEF Anchor
  <2> QED
    BY <2>1, <2>2, <2>3, <2>4, <2>5, ChainKept
<1>2. CASE EndWindow /\ router.n < 2
  <2>1. UNCHANGED <<ipc, state, stateReset, stateGen, islot, active>>
    BY <1>2, EndWindowOutline DEF inferVars, stateVars
  <2>2. router'.reset = router.reset /\ router'.last = router.last
    BY <1>2, EndWindowOutline, EndRouterTyped DEF Base
  <2>3. ipc = "forward" => slots'[islot] = slots[islot]
    <3>1. ASSUME ipc = "forward" PROVE slots'[islot] = slots[islot]
      <4>1. islot \in Slot /\ slots[islot].st = "INFERENCING"
        BY <3>1 DEF Base, ThreadInv, TypeOK, Roles, Slot
      <4>2. slots' = Clear(Current) /\ islot \notin Current
        BY <1>2, <4>1, EndWindowOutline DEF GiveUp, Current
      <4> QED
        BY <4>1, <4>2, Cleared DEF Base
    <3> QED
      BY <3>1
  <2>4. Anchor' = Anchor
    BY <2>1, <2>3 DEF Anchor
  <2> QED
    BY <1>2, <2>1, <2>2, <2>3, <2>4, GiveUpPool, ChainKept
<1>3. CASE EndWindow /\ ~(router.n < 2)
  BY <1>3, ChainFinish
<1>4. CASE ResetGeneration
  <2>1. Shrinks
    BY <1>4, ResetPool DEF Shrinks, Free
  <2>2. router'.reset = router.reset + 1
    BY <1>4, ResetTyped DEF ResetGeneration, Base
  <2>3. UNCHANGED <<ipc, state, stateReset, stateGen, islot>>
    BY <1>4 DEF ResetGeneration, inferVars, stateVars
  <2>4. ASSUME NEW s \in Ready, NEW t \in Ready, slots[s].reset = slots[t].reset, s \in Ready'
        PROVE  t \in Ready'
    <3>1. slots[s].gen = slots[t].gen
      BY <2>4 DEF Base, ReadyInv
    <3>2. slots[s].gen = tgt
      BY <1>4, <2>4, ResetPool DEF Ready
    <3> QED
      BY <1>4, <2>4, <3>1, <3>2, ResetPool DEF Ready
  <2>5. ipc = "forward" => slots'[islot] = slots[islot]
    <3>1. ipc = "forward" => islot \in Slot /\ slots[islot].st = "INFERENCING"
      BY DEF Base, ThreadInv, TypeOK, Roles, Slot
    <3>2. ipc = "forward" => slots'[islot].st = "INFERENCING"
      BY <1>4, <2>3, <3>1, ResetPool DEF Roles
    <3> QED
      BY <1>4, <3>1, <3>2, ResetPool DEF Free
  <2> QED
    BY <2>1, <2>2, <2>3, <2>4, <2>5, ChainReset
<1>5. CASE RouterGap
  <2>1. KeepsReady /\ Shrinks
    BY <1>5, RouterGapPool, KeepsShrinks
  <2>2. router'.reset = router.reset + 1
    BY <1>5, ResetTyped DEF RouterGap, Base
  <2>3. UNCHANGED <<ipc, state, stateReset, stateGen, islot>>
    BY <1>5 DEF RouterGap, inferVars, stateVars
  <2>4. Ready' = Ready
    BY <2>1 DEF KeepsReady, Ready
  <2>5. ipc = "forward" => slots'[islot] = slots[islot]
    <3>1. ASSUME ipc = "forward" PROVE slots'[islot] = slots[islot]
      <4>1. islot \in Slot /\ slots[islot].st = "INFERENCING"
        BY <3>1 DEF Base, ThreadInv, TypeOK, Roles, Slot
      <4>2. slots' = Clear(Partial) /\ islot \notin Partial
        BY <1>5, <4>1 DEF Base, Roles, RouterGap, Partial, Current
      <4> QED
        BY <4>1, <4>2, Cleared DEF Base
    <3> QED
      BY <3>1
  <2> QED
    BY <2>1, <2>2, <2>3, <2>4, <2>5, ChainReset
<1>6. CASE ReadGeneration
  <2>1. UNCHANGED <<slots, ready, router, active>>
    BY <1>6 DEF ReadGeneration, builderVars, poolVars
  <2>2. KeepsReady
    BY <2>1 DEF KeepsReady
  <2>3. Anchor' \in {0, Anchor} /\ (Anchor' # 0 => UNCHANGED <<stateReset, stateGen>>)
    BY <1>6 DEF ReadGeneration, Anchor, stateVars
  <2>4. stateReset' \in {stateReset, None} /\ ipc' # "forward"
    BY <1>6 DEF ReadGeneration, stateVars
  <2> QED
    BY <2>1, <2>2, <2>3, <2>4, ChainKept
<1>7. CASE Forward \/ CheckWindow \/ Submit
  <2>1. UNCHANGED <<slots, ready, router, active, stateReset, stateGen>>
    BY <1>7 DEF Forward, CheckWindow, Submit, builderVars, poolVars, stateVars
  <2>2. KeepsReady
    BY <2>1 DEF KeepsReady
  <2>3. Anchor' \in {0, Anchor} /\ ipc' # "forward"
    BY <1>7 DEF Forward, CheckWindow, Submit, Anchor, stateVars
  <2> QED
    BY <2>1, <2>2, <2>3, ChainKept
<1>8. CASE Release \/ ForwardRaises
  <2>1. UNCHANGED <<router, active, stateReset, stateGen, state>>
    BY <1>8 DEF Release, ForwardRaises, builderVars, stateVars
  <2>2. KeepsReady
    BY <1>8, ReleasePool
  <2>3. Anchor' \in {0, Anchor} /\ ipc' # "forward"
    BY <1>8, <2>1 DEF Release, ForwardRaises, Anchor
  <2> QED
    BY <2>1, <2>2, <2>3, ChainKept
<1>9. CASE Acquire
  BY <1>9, ChainAcquire
<1>10. CASE AcquireNone
  BY <1>10, ChainNone
<1>11. CASE ClosePool
  BY <1>11, ChainClose
<1> QED
  BY <1>1, <1>2, <1>3, <1>4, <1>5, <1>6, <1>7, <1>8, <1>9, <1>10, <1>11
     DEF Next, Builder, Inference, Quiet

\* The whole invariant is inductive.
LEMMA FullInvariant ==
  Spec => []Full
<1>1. Init => Full
  <2> SUFFICES ASSUME Init PROVE Full
    OBVIOUS
  <2>1. Base
    BY BaseInit
  <2>2. Ready = {} /\ ipc = "read" /\ state = 0 /\ router.reset = 0 /\ stateReset = -1
    BY DEF Init, Ready, Free, None
  <2> QED
    BY <2>1, <2>2 DEF Full, CarriedInv, ChainInv, Anchor
<1>2. Full /\ [Next]_vars => Full'
  <2> SUFFICES ASSUME Full, [Next]_vars PROVE Full'
    OBVIOUS
  <2>1. Base'
    BY BaseStep DEF Full
  <2>2. CASE Next
    BY <2>1, <2>2, ChainStep DEF Full
  <2>3. CASE UNCHANGED vars
    BY <2>1, <2>3 DEF Full, CarriedInv, ChainInv, Anchor, Ready, Before, Precedes, Earliest,
                      Latest, vars, builderVars, poolVars, stateVars, inferVars
  <2> QED
    BY <2>2, <2>3
<1> QED
  BY <1>1, <1>2, PTL DEF Spec

-----------------------------------------------------------------------------
\* The inductive invariant, of which the theorems below are consequences.
THEOREM Invariance ==
  Spec => []IInv
<1>1. Full => IInv
  BY RolesOfPool DEF Full, Base, IInv
<1> QED
  BY <1>1, FullInvariant, PTL

\* A slot plays one role at a time, in the eyes of the builder, of the inference
\* thread and of ready_slots, whose windows are in order
\* (IncrementalVoxelizer, for every number of slots).
THEOREM PoolKept ==
  Spec => []PoolConsistent
<1>1. IInv => PoolConsistent
  BY DEF IInv
<1> QED
  BY <1>1, Invariance, PTL

\* The voxelizer's current slot and the router's window are always the same:
\* the RuntimeErrors that guard append, flush and finish_window are unreachable.
THEOREM Matched ==
  Spec => []SlotMatchesRouter
<1>1. IInv => SlotMatchesRouter
  BY DEF IInv
<1> QED
  BY <1>1, Invariance, PTL

\* The GRU state is carried only from one window to the next one completed
\* (_run_incremental_session).
THEOREM Continuous ==
  Spec => StateContinuous
<1>1. IInv => (ipc = "forward" /\ state # 0 => slots[islot].prev = state)
  BY DEF IInv, ChainInv
<1>2. IInv /\ [Next]_vars
        => [ipc = "forward" /\ ipc' = "release" /\ state # 0
              => slots[islot].prev = state]_vars
  BY <1>1
<1> QED
  BY <1>2, Invariance, PTL DEF Spec, StateContinuous
=============================================================================
