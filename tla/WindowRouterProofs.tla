------------------------- MODULE WindowRouterProofs -------------------------
(***************************************************************************)
(* Theorems about modules WindowRouter and WindowBuffer: windows and       *)
(* losses, and that the two classes cut a stream alike, for any window     *)
(* length, any batches and any range of the publisher's count.             *)
(***************************************************************************)
EXTENDS WindowBuffer, WellFoundedInduction, SequenceTheorems, TLAPS

-----------------------------------------------------------------------------
(* Induction over the natural numbers for a set of them, rather than for a *)
(* predicate: proofs about recursive functions cite it.                    *)

\* A set of natural numbers that is not empty has a least element.
LEMMA LeastNatural ==
  ASSUME NEW T \in SUBSET Nat, T # {}
  PROVE  \E x \in T : \A y \in T : x <= y
<1> DEFINE Less == OpToRel(<, Nat)
<1>1. PICK x \in T : \A y \in T : ~ (<<y, x>> \in Less)
  BY NatLessThanWellFounded, WFMin, Zenon
<1>2. Less = {p \in Nat \X Nat : p[1] < p[2]}
  BY Zenon DEF OpToRel
<1> HIDE DEF Less
<1>3. ASSUME NEW y \in T, y < x PROVE FALSE
  <2>1. <<y, x>> \in Nat \X Nat /\ <<y, x>>[1] = y /\ <<y, x>>[2] = x
    OBVIOUS
  <2> QED
    BY <1>1, <1>2, <1>3, <2>1
<1> QED
  BY <1>3

\* A set of natural numbers that holds 0 and the successor of each of its
\* elements is all of Nat.
LEMMA SetInduction ==
  ASSUME NEW S \in SUBSET Nat, 0 \in S, \A n \in S : n + 1 \in S
  PROVE  S = Nat
<1> SUFFICES ASSUME Nat \ S # {} PROVE FALSE
  OBVIOUS
<1>1. PICK x \in Nat \ S : \A y \in Nat \ S : x <= y
  BY LeastNatural
<1>2. x - 1 \in S /\ x - 1 \in Nat
  BY <1>1
<1> QED
  BY <1>1, <1>2

-----------------------------------------------------------------------------
(* Arithmetic                                                              *)

LEMMA Division ==
  ASSUME NEW a \in Nat, NEW w \in Nat \ {0}
  PROVE  /\ a \div w \in Nat
         /\ w * (a \div w) <= a /\ a < w * (a \div w) + w
         /\ a >= w => a \div w \in Nat \ {0}
<1>1. a \div w \in Nat
  OBVIOUS
<1>2. w * (a \div w) <= a
  BY SMTT(30)
<1>3. a < w * (a \div w) + w
  BY SMTT(30)
<1>4. a >= w => a \div w # 0
  OBVIOUS
<1> QED
  BY <1>1, <1>2, <1>3, <1>4

LEMMA Multiple ==
  ASSUME NEW k \in Nat, NEW w \in Nat \ {0}
  PROVE  (w * k) % w = 0
  OBVIOUS

LEMMA Quotient ==
  ASSUME NEW w \in Nat \ {0}, NEW d \in Nat, d % w = 0
  PROVE  \E k \in Nat : d = w * k
<1>1. d = w * (d \div w) /\ d \div w \in Nat
  BY SMTT(30)
<1> QED
  BY <1>1

\* A number of windows, to a distance that is one already.
LEMMA MultipleAdded ==
  ASSUME NEW w \in Nat \ {0}, NEW d \in Nat, d % w = 0, NEW k \in Nat
  PROVE  (d + w * k) % w = 0
<1>1. PICK l \in Nat : d = w * l
  BY Quotient
<1>2. d + w * k = w * (l + k) /\ l + k \in Nat
  BY <1>1
<1>3. (w * (l + k)) % w = 0
  BY <1>2, Multiple
<1> QED
  BY <1>2, <1>3

\* k messages after x, a counter modulo n shows their number.
LEMMA Modular ==
  ASSUME NEW n \in Nat \ {0}, NEW x \in 0..(n - 1), NEW k \in Nat, k < n
  PROVE  /\ (x + k) % n \in 0..(n - 1)
         /\ (((x + k) % n) - x) % n = k
         /\ k # 0 => (x + k) % n # x
<1>1. CASE x + k < n
  <2>1. (x + k) % n = x + k
    BY <1>1
  <2>2. (x + k) - x = k /\ k % n = k
    OBVIOUS
  <2> QED
    BY <1>1, <2>1, <2>2
<1>2. CASE x + k >= n
  <2> DEFINE y == x + k - n
  <2>1. y \in Nat /\ y < n /\ x + k = y + n
    BY <1>2
  <2>2. (y + n) % n = y
    BY <2>1
  <2>3. y - x = k - n /\ (k - n) % n = k
    OBVIOUS
  <2> HIDE DEF y
  <2> QED
    BY <2>1, <2>2, <2>3
<1> QED
  BY <1>1, <1>2

-----------------------------------------------------------------------------
(* The recursive functions RouteAll and CountOf                             *)

\* f solves the recursive definition inside RouteAll(r, q) on 0..n.
Routes(f, r, q, n) == f = [i \in 0..n |-> IF i = 0 THEN r ELSE Route(f[i - 1], q[i])]

LEMMA RoutesExist ==
  ASSUME NEW r, NEW q
  PROVE  \A n \in Nat : \E f : Routes(f, r, q, n)
<1> DEFINE Step(f, i) == IF i = 0 THEN r ELSE Route(f[i - 1], q[i])
           S == {n \in Nat : \E f : f = [i \in 0..n |-> Step(f, i)]}
<1>1. 0 \in S
  <2> DEFINE f == [i \in 0..0 |-> r]
  <2>1. f = [i \in 0..0 |-> Step(f, i)]
    OBVIOUS
  <2> QED
    BY <2>1
<1>2. ASSUME NEW n \in S PROVE n + 1 \in S
  <2>1. PICK f : f = [i \in 0..n |-> Step(f, i)]
    OBVIOUS
  <2> DEFINE h == [i \in 0..n + 1 |-> Step(f, i)]
  <2>2. ASSUME NEW i \in 0..n + 1 PROVE h[i] = Step(h, i)
    <3>1. CASE i = 0
      BY <3>1
    <3>2. CASE i # 0
      <4>1. i - 1 \in 0..n /\ i - 1 \in 0..n + 1
        BY <3>2
      <4>2. f[i - 1] = Step(f, i - 1)
        BY <2>1, <4>1
      <4>3. h[i - 1] = Step(f, i - 1)
        BY <4>1
      <4>4. h[i - 1] = f[i - 1]
        BY <4>2, <4>3
      <4> QED
        BY <3>2, <4>4
    <3> QED
      BY <3>1, <3>2
  <2>3. h = [i \in 0..n + 1 |-> Step(h, i)]
    BY <2>2
  <2>4. \E k : k = [i \in 0..n + 1 |-> Step(k, i)]
    <3> HIDE DEF h, Step
    <3> QED
      BY <2>3, Zenon
  <2>5. n + 1 \in Nat
    OBVIOUS
  <2> HIDE DEF Step
  <2> QED
    BY <2>4, <2>5
<1>3. S = Nat
  <2> HIDE DEF Step
  <2> QED
    BY <1>1, <1>2, SetInduction
<1> QED
  BY <1>3 DEF Routes

\* RouteAll goes from one event to the next.
Chain(f, r, q) == f[0] = r /\ \A i \in 1..Len(q) : f[i] = Route(f[i - 1], q[i])

LEMMA RouteAllIs ==
  ASSUME NEW r, NEW q, Len(q) \in Nat
  PROVE  \E f : Chain(f, r, q) /\ RouteAll(r, q) = f[Len(q)]
<1> DEFINE K == CHOOSE f : Routes(f, r, q, Len(q))
<1>1. \E f : Routes(f, r, q, Len(q))
  BY RoutesExist
<1>2. Routes(K, r, q, Len(q))
  BY <1>1, Zenon
<1>3. RouteAll(r, q) = K[Len(q)]
  BY Zenon DEF RouteAll, Routes
<1> HIDE DEF K
<1>4. K = [i \in 0..Len(q) |-> IF i = 0 THEN r ELSE Route(K[i - 1], q[i])]
  BY <1>2 DEF Routes
<1>5. 0 \in 0..Len(q) /\ \A i \in 1..Len(q) : i \in 0..Len(q) /\ i # 0
  OBVIOUS
<1>6. K[0] = r
  BY <1>4, <1>5
<1>7. \A i \in 1..Len(q) : K[i] = Route(K[i - 1], q[i])
  BY <1>4, <1>5
<1>8. Chain(K, r, q)
  BY <1>6, <1>7 DEF Chain
<1> QED
  BY <1>3, <1>8

\* f solves the recursive definition inside CountOf(q) on 0..n.
Sums(f, q, n) == f = [i \in 0..n |-> IF i = 0 THEN 0 ELSE f[i - 1] + q[i].count]

LEMMA SumsExist ==
  ASSUME NEW q
  PROVE  \A n \in Nat : \E f : Sums(f, q, n)
<1> DEFINE Step(f, i) == IF i = 0 THEN 0 ELSE f[i - 1] + q[i].count
           S == {n \in Nat : \E f : f = [i \in 0..n |-> Step(f, i)]}
<1>1. 0 \in S
  <2> DEFINE f == [i \in 0..0 |-> 0]
  <2>1. f = [i \in 0..0 |-> Step(f, i)]
    OBVIOUS
  <2> QED
    BY <2>1
<1>2. ASSUME NEW n \in S PROVE n + 1 \in S
  <2>1. PICK f : f = [i \in 0..n |-> Step(f, i)]
    OBVIOUS
  <2> DEFINE h == [i \in 0..n + 1 |-> Step(f, i)]
  <2>2. ASSUME NEW i \in 0..n + 1 PROVE h[i] = Step(h, i)
    <3>1. CASE i = 0
      BY <3>1
    <3>2. CASE i # 0
      <4>1. i - 1 \in 0..n /\ i - 1 \in 0..n + 1
        BY <3>2
      <4>2. f[i - 1] = Step(f, i - 1)
        BY <2>1, <4>1
      <4>3. h[i - 1] = Step(f, i - 1)
        BY <4>1
      <4>4. h[i - 1] = f[i - 1]
        BY <4>2, <4>3
      <4> QED
        BY <3>2, <4>4
    <3> QED
      BY <3>1, <3>2
  <2>3. h = [i \in 0..n + 1 |-> Step(h, i)]
    BY <2>2
  <2>4. \E k : k = [i \in 0..n + 1 |-> Step(k, i)]
    <3> HIDE DEF h, Step
    <3> QED
      BY <2>3, Zenon
  <2>5. n + 1 \in Nat
    OBVIOUS
  <2> HIDE DEF Step
  <2> QED
    BY <2>4, <2>5
<1>3. S = Nat
  <2> HIDE DEF Step
  <2> QED
    BY <1>1, <1>2, SetInduction
<1> QED
  BY <1>3 DEF Sums

\* CountOf(q) is the last value of such a solution.
LEMMA CountOfIs ==
  ASSUME NEW q, Len(q) \in Nat
  PROVE  \E f : Sums(f, q, Len(q)) /\ CountOf(q) = f[Len(q)]
<1> DEFINE K == CHOOSE f : Sums(f, q, Len(q))
<1>1. \E f : Sums(f, q, Len(q))
  BY SumsExist
<1>2. Sums(K, q, Len(q))
  BY <1>1, Zenon
<1>3. CountOf(q) = K[Len(q)]
  BY Zenon DEF CountOf, Sums
<1> QED
  BY <1>2, <1>3

LEMMA CountOfEmpty == CountOf(<<>>) = 0
<1>1. Len(<<>>) = 0
  OBVIOUS
<1>2. PICK f : Sums(f, <<>>, 0) /\ CountOf(<<>>) = f[0]
  BY <1>1, CountOfIs
<1> QED
  BY <1>2 DEF Sums

LEMMA CountOfNatural ==
  ASSUME NEW q \in Seq(Finished)
  PROVE  CountOf(q) \in Nat
<1>1. PICK f : Sums(f, q, Len(q)) /\ CountOf(q) = f[Len(q)]
  BY CountOfIs
<1> DEFINE S == {i \in Nat : i <= Len(q) => f[i] \in Nat}
<1>2. \A i \in 0..Len(q) : f[i] = IF i = 0 THEN 0 ELSE f[i - 1] + q[i].count
  BY <1>1 DEF Sums
<1>3. 0 \in S
  BY <1>2
<1>4. ASSUME NEW i \in S PROVE i + 1 \in S
  <2> SUFFICES ASSUME i + 1 <= Len(q) PROVE f[i + 1] \in Nat
    OBVIOUS
  <2>1. f[i + 1] = f[i] + q[i + 1].count
    BY <1>2
  <2>2. q[i + 1].count \in Nat
    <3>1. i + 1 \in 1..Len(q)
      OBVIOUS
    <3>2. q[i + 1] \in Finished
      BY <3>1
    <3> QED
      BY <3>2 DEF Finished
  <2>3. f[i] \in Nat
    OBVIOUS
  <2> QED
    BY <2>1, <2>2, <2>3
<1>5. S = Nat
  <2> HIDE DEF S
  <2> QED
    BY <1>3, <1>4, SetInduction DEF S
<1> QED
  BY <1>1, <1>5

\* A window at the end adds its events.
LEMMA CountOfAppend ==
  ASSUME NEW q \in Seq(Finished), NEW b \in Finished
  PROVE  CountOf(Append(q, b)) = CountOf(q) + b.count
<1> DEFINE N == Len(q)
           r == Append(q, b)
<1>0. /\ r \in Seq(Finished) /\ Len(r) = N + 1 /\ r[N + 1] = b
      /\ \A i \in 1..N : r[i] = q[i]
  OBVIOUS
<1>1. PICK f : Sums(f, q, N) /\ CountOf(q) = f[N]
  BY CountOfIs
<1>2. PICK h : Sums(h, r, N + 1) /\ CountOf(r) = h[N + 1]
  <2>1. N + 1 \in Nat
    OBVIOUS
  <2> HIDE DEF r
  <2> QED
    BY ONLY <1>0, <2>1, CountOfIs
<1>3. \A i \in 0..N : f[i] = IF i = 0 THEN 0 ELSE f[i - 1] + q[i].count
  BY <1>1 DEF Sums
<1>4. \A i \in 0..N + 1 : h[i] = IF i = 0 THEN 0 ELSE h[i - 1] + r[i].count
  BY <1>2 DEF Sums
<1> DEFINE S == {i \in Nat : i <= N => h[i] = f[i]}
<1>5. 0 \in S
  BY <1>3, <1>4
<1>6. ASSUME NEW i \in S PROVE i + 1 \in S
  <2> SUFFICES ASSUME i + 1 <= N PROVE h[i + 1] = f[i + 1]
    OBVIOUS
  <2>1. f[i + 1] = f[i] + q[i + 1].count
    BY <1>3
  <2>2. h[i + 1] = h[i] + r[i + 1].count
    BY <1>4
  <2> QED
    BY <1>0, <2>1, <2>2
<1>7. S = Nat
  <2> HIDE DEF S
  <2> QED
    BY <1>5, <1>6, SetInduction DEF S
<1>8. h[N] = f[N]
  BY <1>7
<1>9. h[N + 1] = h[N] + b.count
  <2> HIDE DEF r
  <2> QED
    BY <1>0, <1>4
<1> QED
  BY <1>1, <1>2, <1>8, <1>9

-----------------------------------------------------------------------------
(* One event                                                               *)

LEMMA Constants ==
  /\ Window \in Nat /\ Window > 0 /\ MaxGap \in Nat /\ RosMod \in Nat /\ RosMod > 3
  /\ MaxLost \in Nat /\ 2 * (MaxLost + 1) < RosMod
  /\ MaxTime \in Nat /\ MaxLen \in Nat /\ MaxPushes \in Nat
BY WindowAssumption, RosModAssumption, LostAssumption, BoundsAssumption

\* What routing does not touch, and what a reset does not touch either
SameNumbers(r, d) ==
  /\ d.prevBatch = r.prevBatch /\ d.prevRos = r.prevRos /\ d.nonzero = r.nonzero
  /\ d.missing = r.missing /\ d.losses = r.losses

\* Events in the partial window and those given up
Rest(r) == r.win.count + r.discarded

LEMMA RestNatural ==
  ASSUME NEW r \in Router
  PROVE  Rest(r) \in Nat
<1>1. r.win \in RouterWindow /\ r.discarded \in Nat
  BY DEF Router
<1>2. r.win.count \in Nat
  BY <1>1 DEF RouterWindow
<1> QED
  BY <1>1, <1>2 DEF Rest

LEMMA NewWindowTyped ==
  NewWindow \in RouterWindow /\ NewWindow.count = 0 /\ NewWindow.last = None
<1>1. None \in None..MaxTime
  BY Constants DEF None
<1> QED
  BY <1>1 DEF NewWindow, RouterWindow

LEMMA ResetKeeps ==
  ASSUME NEW r \in Router, DoneInv(r)
  PROVE  LET a == Reset(r)
         IN /\ a \in Router /\ OpenInv(a) /\ DoneInv(a)
            /\ a.start = None /\ a.lastEvent = None /\ a.win = NewWindow
            /\ a.done = r.done /\ Rest(a) = Rest(r) /\ a.id = r.id
            /\ a.discarded = r.discarded + r.win.count
            /\ SameNumbers(r, a)
<1> DEFINE a == Reset(r)
<1>1. r.win \in RouterWindow /\ r.discarded \in Nat /\ r.resets \in Nat
  BY DEF Router
<1>2. r.win.count \in Nat
  BY <1>1 DEF RouterWindow
<1>3. /\ a.start = None /\ a.lastEvent = None /\ a.win = NewWindow
      /\ a.resets = r.resets + 1 /\ a.discarded = r.discarded + r.win.count
      /\ a.done = r.done /\ a.id = r.id
      /\ SameNumbers(r, a)
  BY DEF Reset, Router, SameNumbers
<1>4. a \in Router
  <2>1. None \in None..MaxTime /\ r.resets + 1 \in Nat /\ r.discarded + r.win.count \in Nat
    BY <1>1, <1>2, Constants DEF None
  <2>2. NewWindow \in RouterWindow
    BY NewWindowTyped
  <2> QED
    BY <2>1, <2>2 DEF Reset, Router
<1> HIDE DEF a
<1>5. OpenInv(a)
  BY <1>3, NewWindowTyped DEF OpenInv
<1>6. DoneInv(a)
  <2> SUFFICES ASSUME NEW i \in DOMAIN r.done
               PROVE  /\ Ends(r.done[i]) /\ r.done[i].end = r.done[i].start + Window
                      /\ r.done[i].id = r.id - Len(r.done) + i
                      /\ r.done[i].resets <= r.resets + 1
                      /\ r.done[i].resets # r.resets + 1
                      /\ \A j \in DOMAIN r.done :
                           i < j /\ r.done[j].resets = r.done[i].resets
                             => Behind(r.done[i].start, r.done[j].start)
    BY <1>3 DEF DoneInv
  <2>1. r.done[i].resets \in Nat
    <3>1. r.done \in Seq(Finished)
      BY DEF Router
    <3>2. r.done[i] \in Finished
      BY <3>1
    <3> QED
      BY <3>2 DEF Finished
  <2>2. r.done[i].resets <= r.resets
    BY DEF DoneInv
  <2>3. r.done[i].resets <= r.resets + 1 /\ r.done[i].resets # r.resets + 1
    BY <1>1, <2>1, <2>2
  <2> QED
    BY <2>3 DEF DoneInv
<1>7. Rest(a) = Rest(r)
  BY <1>1, <1>2, <1>3, NewWindowTyped DEF Rest
<1> QED
  BY <1>3, <1>4, <1>5, <1>6, <1>7 DEF a

\* A window is open for an event at t, and no later one has been seen.
OpenAt(a, t) ==
  /\ a.start \in 0..t
  /\ a.win.count = 0 => a.start = t
  /\ a.win.count > 0 => /\ a.start <= a.win.first /\ a.win.first <= a.win.last
                        /\ a.win.last < a.start + Window /\ a.win.last <= t
                        /\ a.win.lossFirst = a.losses

LEMMA OpenFor ==
  ASSUME NEW r \in Router, OpenInv(r), NEW t \in 0..MaxTime, ~TimeGap(r, t), r.start # None
  PROVE  OpenAt(r, t)
<1>1. r.start \in None..MaxTime /\ r.lastEvent \in None..MaxTime /\ r.win \in RouterWindow
  BY DEF Router
<1>2. /\ r.win.count \in Nat /\ r.win.first \in None..MaxTime /\ r.win.last \in None..MaxTime
  BY <1>1 DEF RouterWindow
<1>3. /\ r.win.count > 0
      /\ r.start <= r.win.first /\ r.win.first <= r.win.last
      /\ r.win.last < r.start + Window /\ r.win.lossFirst = r.losses
      /\ r.win.last = r.lastEvent
  BY <1>2 DEF OpenInv
<1>4. r.start \in Nat /\ r.win.last # None
  BY <1>1, <1>2, <1>3, Constants DEF None
<1>5. r.win.last <= t
  BY <1>1, <1>2, <1>3, <1>4, Constants DEF TimeGap
<1>6. r.start <= t
  BY <1>2, <1>3, <1>4, <1>5, Constants DEF None
<1> QED
  BY <1>3, <1>4, <1>5, <1>6 DEF OpenAt

LEMMA StartAt ==
  ASSUME NEW r \in Router, OpenInv(r), DoneInv(r), NEW t \in 0..MaxTime, r.start = None
  PROVE  LET a == [r EXCEPT !.start = t]
         IN /\ a \in Router /\ OpenAt(a, t) /\ DoneInv(a)
            /\ a.done = r.done /\ a.win = r.win /\ Rest(a) = Rest(r) /\ SameNumbers(r, a)
<1> DEFINE a == [r EXCEPT !.start = t]
<1>1. /\ a.start = t /\ a.win = r.win /\ a.done = r.done /\ a.id = r.id
      /\ a.resets = r.resets /\ a.discarded = r.discarded /\ SameNumbers(r, a)
  BY DEF Router, SameNumbers
<1>2. t \in None..MaxTime /\ t \in Nat /\ t # None
  BY Constants DEF None
<1>3. a \in Router
  BY <1>2 DEF Router
<1> HIDE DEF a
<1>4. r.win.count = 0
  BY DEF OpenInv
<1>5. OpenAt(a, t)
  BY <1>1, <1>2, <1>4 DEF OpenAt
<1>6. DoneInv(a)
  BY <1>1 DEF DoneInv
<1>7. Rest(a) = Rest(r)
  BY <1>1 DEF Rest
<1> QED
  BY <1>1, <1>3, <1>5, <1>6, <1>7 DEF a

LEMMA OpenKeeps ==
  ASSUME NEW r \in Router, OpenInv(r), DoneInv(r), NEW t \in 0..MaxTime
  PROVE  LET a == Open(r, t)
         IN /\ a \in Router /\ OpenAt(a, t) /\ DoneInv(a)
            /\ a.done = r.done /\ Rest(a) = Rest(r) /\ SameNumbers(r, a)
<1> DEFINE b == Reset(r)
<1>1. CASE TimeGap(r, t)
  <2>1. /\ b \in Router /\ OpenInv(b) /\ DoneInv(b) /\ b.start = None
        /\ b.done = r.done /\ Rest(b) = Rest(r) /\ SameNumbers(r, b)
    BY ResetKeeps
  <2>2. Open(r, t) = [b EXCEPT !.start = t]
    BY <1>1, <2>1 DEF Open
  <2> HIDE DEF b
  <2> QED
    BY <2>1, <2>2, StartAt DEF SameNumbers
<1>2. CASE ~TimeGap(r, t) /\ r.start = None
  <2>1. Open(r, t) = [r EXCEPT !.start = t]
    BY <1>2 DEF Open
  <2> QED
    BY <1>2, <2>1, StartAt
<1>3. CASE ~TimeGap(r, t) /\ r.start # None
  <2>1. Open(r, t) = r
    BY <1>3 DEF Open
  <2> QED
    BY <1>3, <2>1, OpenFor DEF SameNumbers
<1> QED
  BY <1>1, <1>2, <1>3

\* What is behind the start of a window is behind the start of any later one.
LEMMA BehindFurther ==
  ASSUME NEW a \in Nat, NEW b \in Nat, Behind(a, b), NEW k \in Nat
  PROVE  Behind(a, b + Window * k)
<1>1. b - a \in Nat /\ (b - a) % Window = 0 /\ b >= a + Window
  BY Constants DEF Behind
<1>2. ((b - a) + Window * k) % Window = 0
  <2> DEFINE d == b - a
  <2>1. Window \in Nat \ {0}
    BY Constants
  <2>2. d \in Nat /\ d % Window = 0
    BY <1>1
  <2> HIDE DEF d
  <2>3. (d + Window * k) % Window = 0
    BY ONLY <2>1, <2>2, k \in Nat, MultipleAdded
  <2> QED
    BY <2>3 DEF d
<1>3. Window * k \in Nat
  BY Constants
<1>4. (b - a) + Window * k = (b + Window * k) - a /\ b + Window * k >= a + Window
  BY <1>1, <1>3, Constants
<1> QED
  BY <1>2, <1>4 DEF Behind

LEMMA BehindNext ==
  ASSUME NEW a \in Nat, NEW k \in Nat \ {0}
  PROVE  Behind(a, a + Window * k)
<1>1. Window * k \in Nat /\ Window * k >= Window
  BY Constants
<1>2. (Window * k) % Window = 0
  BY Constants, Multiple
<1>3. (a + Window * k) - a = Window * k /\ a + Window * k >= a + Window
  BY <1>1, Constants
<1> QED
  BY <1>2, <1>3 DEF Behind

\* The window open for t has room for it.
RoomAt(c, t) ==
  /\ c.start \in 0..t /\ t < c.start + Window
  /\ c.win.count > 0 => /\ c.start <= c.win.first /\ c.win.first <= c.win.last
                        /\ c.win.last <= t /\ c.win.lossFirst = c.losses

LEMMA WindowTyped ==
  ASSUME NEW r \in Router
  PROVE  /\ r.win.count \in Nat /\ r.win.first \in None..MaxTime
         /\ r.win.last \in None..MaxTime /\ r.win.lossFirst \in Nat
<1>1. r.win \in RouterWindow
  BY DEF Router
<1> QED
  BY <1>1 DEF RouterWindow

LEMMA CompletedIs ==
  ASSUME NEW a \in Router, NEW t \in 0..MaxTime, OpenAt(a, t), t >= a.start + Window
  PROVE  LET w == Completed(a)
         IN /\ w \in Finished /\ Ends(w) /\ w.start = a.start /\ w.end = a.start + Window
            /\ w.id = a.id + 1 /\ w.resets = a.resets /\ w.count = a.win.count
<1> DEFINE w == Completed(a)
<1>1. w = [id |-> a.id + 1, start |-> a.start, end |-> a.start + Window,
           first |-> a.win.first, last |-> a.win.last, count |-> a.win.count,
           resets |-> a.resets, losses |-> a.losses - a.win.lossFirst]
  BY DEF Completed
<1>2. a.id \in Nat /\ a.resets \in Nat /\ a.losses \in Nat
  BY DEF Router
<1>3. a.start \in Nat /\ a.start <= t
  BY DEF OpenAt
<1>4. a.win.count \in Nat \ {0}
  <2>1. a.win.count # 0
    BY <1>3, Constants DEF OpenAt
  <2> QED
    BY <2>1, WindowTyped
<1>5. /\ a.start <= a.win.first /\ a.win.first <= a.win.last
      /\ a.win.last < a.start + Window /\ a.win.last <= t /\ a.win.lossFirst = a.losses
  BY <1>4 DEF OpenAt
<1>6. a.win.first \in 0..MaxTime /\ a.win.last \in 0..MaxTime
  BY <1>3, <1>5, WindowTyped, Constants DEF None
<1>7. a.losses - a.win.lossFirst = 0
  BY <1>2, <1>5
<1>8. a.start + Window \in Nat /\ a.id + 1 \in Nat
  BY <1>2, <1>3, Constants
<1> HIDE DEF w
<1>9. w \in Finished
  BY <1>1, <1>2, <1>3, <1>4, <1>6, <1>7, <1>8 DEF Finished
<1>10. Ends(w)
  BY <1>1, <1>5 DEF Ends
<1> QED
  BY <1>1, <1>9, <1>10 DEF w

LEMMA AdvanceKeeps ==
  ASSUME NEW a \in Router, NEW t \in 0..MaxTime, OpenAt(a, t), DoneInv(a)
  PROVE  LET c == Advance(a, t)
         IN /\ c \in Router /\ RoomAt(c, t) /\ DoneInv(c) /\ SameNumbers(a, c)
            /\ CountOf(c.done) + Rest(c) = CountOf(a.done) + Rest(a)
<1>1. a.start \in Nat /\ a.start <= t /\ t \in Nat
  BY DEF OpenAt
<1>2. CASE t < a.start + Window
  <2>1. Advance(a, t) = a
    BY <1>2 DEF Advance
  <2>2. RoomAt(a, t)
    BY <1>1, <1>2 DEF OpenAt, RoomAt
  <2> QED
    BY <2>1, <2>2 DEF SameNumbers
<1>3. CASE t >= a.start + Window
  <2> DEFINE q == (t - a.start) \div Window
             w == Completed(a)
             c == Advance(a, t)
             N == Len(a.done)
  <2>1. /\ q \in Nat \ {0} /\ Window * q \in Nat /\ a.start + Window * q <= t
        /\ t < (a.start + Window * q) + Window
    <3> DEFINE d == t - a.start
    <3>1. d \in Nat /\ d >= Window /\ a.start + d = t
      BY <1>1, <1>3, Constants
    <3>2. Window \in Nat \ {0}
      BY Constants
    <3> HIDE DEF d
    <3>3. /\ d \div Window \in Nat \ {0} /\ Window * (d \div Window) <= d
          /\ d < Window * (d \div Window) + Window
      BY ONLY <3>1, <3>2, Division
    <3>4. d \div Window = q
      BY DEF d
    <3>5. Window * q <= d /\ d < Window * q + Window /\ q \in Nat \ {0}
      BY <3>3, <3>4
    <3> HIDE DEF q
    <3>6. Window * q \in Nat
      BY <3>2, <3>5
    <3> QED
      BY <1>1, <3>1, <3>2, <3>5, <3>6
  <2>2. /\ w \in Finished /\ Ends(w) /\ w.start = a.start /\ w.end = a.start + Window
        /\ w.id = a.id + 1 /\ w.resets = a.resets /\ w.count = a.win.count
    BY <1>3, CompletedIs
  <2> HIDE DEF q, w
  <2>3. c = [a EXCEPT !.start = @ + Window * q, !.win = NewWindow, !.id = @ + 1,
                      !.done = Append(@, w)]
    BY <1>1, <1>3, Constants DEF Advance, q, w
  <2>4. a.done \in Seq(Finished) /\ a.id \in Nat /\ a.resets \in Nat /\ a.discarded \in Nat
    BY DEF Router
  <2>5. /\ c.start = a.start + Window * q /\ c.win = NewWindow /\ c.id = a.id + 1
        /\ c.done = Append(a.done, w) /\ c.resets = a.resets /\ c.discarded = a.discarded
        /\ SameNumbers(a, c)
    BY <2>3 DEF Router, SameNumbers
  <2>6. c \in Router
    <3>1. a.start + Window * q \in None..MaxTime /\ a.id + 1 \in Nat
      <4>1. a.start + Window * q \in Nat /\ a.start + Window * q <= MaxTime
        <5>1. t <= MaxTime /\ MaxTime \in Nat
          BY Constants
        <5> QED
          BY ONLY <1>1, <2>1, <5>1
      <4>2. a.id + 1 \in Nat
        BY <2>4
      <4> QED
        BY <4>1, <4>2, Constants DEF None
    <3>2. Append(a.done, w) \in Seq(Finished)
      BY <2>2, <2>4, AppendProperties
    <3> HIDE DEF c
    <3> QED
      BY <2>3, <3>1, <3>2, NewWindowTyped DEF Router
  <2> HIDE DEF c
  <2>7. RoomAt(c, t)
    BY <1>1, <2>1, <2>5, NewWindowTyped DEF RoomAt
  <2>8. /\ N \in Nat /\ Len(c.done) = N + 1 /\ DOMAIN c.done = 1..N + 1
        /\ DOMAIN a.done = 1..N
        /\ c.done[N + 1] = w /\ \A i \in 1..N : c.done[i] = a.done[i]
    BY <2>2, <2>4, <2>5, AppendProperties
  <2>9. \A i \in 1..N : a.done[i] \in Finished
    BY <2>4
  <2>10. c.start # None /\ Behind(a.start, c.start)
    <3>1. Behind(a.start, a.start + Window * q)
      BY <1>1, <2>1, BehindNext
    <3> QED
      BY <1>1, <2>1, <2>5, <3>1 DEF None
  <2>11. ASSUME NEW i \in 1..N
         PROVE  /\ Ends(a.done[i]) /\ a.done[i].end = a.done[i].start + Window
                /\ a.done[i].id = (a.id + 1) - (N + 1) + i
                /\ a.done[i].resets <= a.resets
                /\ a.done[i].resets = a.resets => /\ Behind(a.done[i].start, a.start)
                                                  /\ Behind(a.done[i].start, c.start)
                /\ \A j \in 1..N : i < j /\ a.done[j].resets = a.done[i].resets
                                     => Behind(a.done[i].start, a.done[j].start)
    <3>1. /\ Ends(a.done[i]) /\ a.done[i].end = a.done[i].start + Window
          /\ a.done[i].id = a.id - N + i
          /\ a.done[i].resets <= a.resets
          /\ a.done[i].resets = a.resets => Behind(a.done[i].start, a.start)
          /\ \A j \in 1..N : i < j /\ a.done[j].resets = a.done[i].resets
                               => Behind(a.done[i].start, a.done[j].start)
      BY <2>8 DEF DoneInv
    <3>2. a.id - N + i = (a.id + 1) - (N + 1) + i
      BY <2>4, <2>8
    <3>3. ASSUME a.done[i].resets = a.resets PROVE Behind(a.done[i].start, c.start)
      <4>1. a.done[i].start \in Nat
        BY <2>9 DEF Finished
      <4> QED
        BY <1>1, <2>1, <2>5, <3>1, <3>3, <4>1, BehindFurther
    <3> QED
      BY <3>1, <3>2, <3>3
  <2>12. DoneInv(c)
    <3> SUFFICES ASSUME NEW i \in 1..N + 1
                 PROVE  /\ Ends(c.done[i]) /\ c.done[i].end = c.done[i].start + Window
                        /\ c.done[i].id = (a.id + 1) - (N + 1) + i
                        /\ c.done[i].resets <= a.resets
                        /\ c.done[i].resets = a.resets => Behind(c.done[i].start, c.start)
                        /\ \A j \in 1..N + 1 :
                             i < j /\ c.done[j].resets = c.done[i].resets
                               => Behind(c.done[i].start, c.done[j].start)
      BY <2>5, <2>8, <2>10 DEF DoneInv
    <3>1. CASE i \in 1..N
      <4>1. \A j \in 1..N + 1 : j \in 1..N \/ j = N + 1
        BY <2>8
      <4>2. c.done[i] = a.done[i]
        BY <2>8, <3>1
      <4>3. ASSUME NEW j \in 1..N + 1, i < j, c.done[j].resets = c.done[i].resets
            PROVE  Behind(c.done[i].start, c.done[j].start)
        <5>1. CASE j \in 1..N
          BY <2>8, <2>11, <3>1, <4>2, <4>3, <5>1
        <5>2. CASE j = N + 1
          BY <2>2, <2>8, <2>11, <3>1, <4>2, <4>3, <5>2
        <5> QED
          BY <4>1, <5>1, <5>2
      <4> QED
        BY <2>11, <3>1, <4>2, <4>3
    <3>2. CASE i = N + 1
      <4>1. (a.id + 1) - (N + 1) + i = a.id + 1
        BY <2>4, <2>8, <3>2
      <4>2. \A j \in 1..N + 1 : ~(i < j)
        BY <2>8, <3>2
      <4>3. c.done[i] = w /\ w.resets <= a.resets
        BY <2>2, <2>4, <2>8, <3>2
      <4>4. Behind(w.start, c.start)
        BY <2>2, <2>10
      <4> QED
        BY <2>2, <4>1, <4>2, <4>3, <4>4
    <3>3. i \in 1..N \/ i = N + 1
      <4>1. N \in Nat
        BY <2>8
      <4> HIDE DEF N
      <4> QED
        BY ONLY <4>1, i \in 1..N + 1
    <3> QED
      BY <3>1, <3>2, <3>3
  <2>13. CountOf(c.done) + Rest(c) = CountOf(a.done) + Rest(a)
    <3>1. CountOf(c.done) = CountOf(a.done) + a.win.count
      BY <2>2, <2>4, <2>5, CountOfAppend
    <3>2. Rest(c) = a.discarded /\ Rest(a) = a.win.count + a.discarded
      BY <2>4, <2>5, NewWindowTyped DEF Rest
    <3>3. CountOf(a.done) \in Nat /\ a.win.count \in Nat
      BY <2>4, CountOfNatural, WindowTyped
    <3> QED
      BY <2>4, <3>1, <3>2, <3>3
  <2> QED
    BY <2>5, <2>6, <2>7, <2>12, <2>13 DEF c
<1> QED
  BY <1>1, <1>2, <1>3, Constants

LEMMA PutKeeps ==
  ASSUME NEW c \in Router, NEW t \in 0..MaxTime, RoomAt(c, t), DoneInv(c)
  PROVE  LET d == Put(c, t)
         IN /\ d \in Router /\ OpenInv(d) /\ DoneInv(d) /\ SameNumbers(c, d)
            /\ d.done = c.done /\ Rest(d) = Rest(c) + 1
<1> DEFINE d == Put(c, t)
           first == c.win.count = 0
           w == [count |-> c.win.count + 1, first |-> IF first THEN t ELSE c.win.first,
                 last |-> t, lossFirst |-> IF first THEN c.losses ELSE c.win.lossFirst]
<1>1. c.start \in Nat /\ c.start <= t /\ t \in Nat /\ t < c.start + Window
  BY DEF RoomAt
<1>2. /\ c.win.count \in Nat /\ c.win.first \in None..MaxTime /\ c.win.lossFirst \in Nat
      /\ c.losses \in Nat /\ c.discarded \in Nat
  BY WindowTyped DEF Router
<1>3. t \in None..MaxTime
  BY Constants DEF None
<1>4. w \in RouterWindow
  BY <1>2, <1>3 DEF RouterWindow
<1>5. /\ w.count = c.win.count + 1 /\ w.last = t /\ w.lossFirst = c.losses
      /\ c.start <= w.first /\ w.first <= t
  <2>1. CASE first
    BY <1>1, <2>1
  <2>2. CASE ~first
    <3>1. /\ c.win.count > 0
          /\ w.first = c.win.first /\ w.lossFirst = c.win.lossFirst
      BY <1>2, <2>2
    <3>2. c.start <= c.win.first /\ c.win.first <= c.win.last /\ c.win.last <= t
          /\ c.win.lossFirst = c.losses
      BY <3>1 DEF RoomAt
    <3>3. c.win.first <= t
      BY <1>1, <1>2, <3>2, WindowTyped, Constants DEF None
    <3> QED
      BY <3>1, <3>2, <3>3
  <2> QED
    BY <2>1, <2>2
<1> HIDE DEF w
<1>6. d = [c EXCEPT !.lastEvent = t, !.win = w]
  BY DEF Put, w
<1>7. /\ d.start = c.start /\ d.win = w /\ d.lastEvent = t /\ d.done = c.done /\ d.id = c.id
      /\ d.resets = c.resets /\ d.discarded = c.discarded /\ SameNumbers(c, d)
  BY <1>6 DEF Router, SameNumbers
<1>8. d \in Router
  <2> HIDE DEF d
  <2> QED
    BY <1>3, <1>4, <1>6 DEF Router
<1> HIDE DEF d
<1>9. OpenInv(d)
  <2>1. d.start # None /\ d.win.count # 0 /\ d.losses = c.losses
    BY <1>1, <1>2, <1>5, <1>7 DEF None, SameNumbers
  <2> QED
    BY <1>1, <1>5, <1>7, <2>1 DEF OpenInv
<1>10. DoneInv(d)
  BY <1>7 DEF DoneInv
<1>11. Rest(d) = Rest(c) + 1
  BY <1>2, <1>5, <1>7 DEF Rest
<1> QED
  BY <1>7, <1>8, <1>9, <1>10, <1>11 DEF d

\* What a router keeps from event to event
Good(r) == r \in Router /\ OpenInv(r) /\ DoneInv(r)

LEMMA RouteKeeps ==
  ASSUME NEW r, Good(r), NEW t \in 0..MaxTime
  PROVE  /\ Good(Route(r, t)) /\ SameNumbers(r, Route(r, t))
         /\ CountOf(Route(r, t).done) + Rest(Route(r, t)) = CountOf(r.done) + Rest(r) + 1
<1> DEFINE a == Open(r, t)
           c == Advance(a, t)
           d == Put(c, t)
<1>0. r \in Router /\ OpenInv(r) /\ DoneInv(r)
  BY DEF Good
<1>1. /\ a \in Router /\ OpenAt(a, t) /\ DoneInv(a)
      /\ a.done = r.done /\ Rest(a) = Rest(r) /\ SameNumbers(r, a)
  BY <1>0, OpenKeeps
<1> HIDE DEF a
<1>2. /\ c \in Router /\ RoomAt(c, t) /\ DoneInv(c) /\ SameNumbers(a, c)
      /\ CountOf(c.done) + Rest(c) = CountOf(a.done) + Rest(a)
  BY <1>1, AdvanceKeeps
<1> HIDE DEF c
<1>3. /\ d \in Router /\ OpenInv(d) /\ DoneInv(d) /\ SameNumbers(c, d)
      /\ d.done = c.done /\ Rest(d) = Rest(c) + 1
  BY <1>2, PutKeeps
<1> HIDE DEF d
<1>4. CountOf(d.done) + Rest(d) = CountOf(r.done) + Rest(r) + 1
  <2>1. c.done \in Seq(Finished) /\ r.done \in Seq(Finished)
    BY <1>0, <1>2 DEF Router
  <2>2. CountOf(c.done) \in Nat /\ CountOf(r.done) \in Nat
    BY <2>1, CountOfNatural
  <2>3. Rest(c) \in Nat /\ Rest(r) \in Nat
    BY <1>0, <1>2, RestNatural
  <2>4. CountOf(d.done) = CountOf(c.done) /\ CountOf(a.done) = CountOf(r.done)
    BY <1>1, <1>3
  <2> QED
    BY <1>1, <1>2, <1>3, <2>2, <2>3, <2>4
<1>5. SameNumbers(r, d)
  BY <1>1, <1>2, <1>3 DEF SameNumbers
<1>6. Route(r, t) = d
  BY DEF Route, a, c, d
<1> QED
  BY <1>3, <1>4, <1>5, <1>6 DEF Good

LEMMA RouteAllKeeps ==
  ASSUME NEW r, Good(r), NEW n \in Nat, NEW q \in [1..n -> 0..MaxTime]
  PROVE  /\ Good(RouteAll(r, q)) /\ SameNumbers(r, RouteAll(r, q))
         /\ CountOf(RouteAll(r, q).done) + Rest(RouteAll(r, q))
              = CountOf(r.done) + Rest(r) + Len(q)
<1>1. Len(q) = n
  OBVIOUS
<1>2. PICK f : Chain(f, r, q) /\ RouteAll(r, q) = f[Len(q)]
  BY <1>1, RouteAllIs
<1> DEFINE Total(d) == CountOf(d.done) + Rest(d)
           Kept(i) == Good(f[i]) /\ SameNumbers(r, f[i]) /\ Total(f[i]) = Total(r) + i
           S == {i \in Nat : i <= n => Kept(i)}
<1>3. Total(r) \in Nat
  <2>1. r \in Router /\ r.done \in Seq(Finished)
    BY DEF Good, Router
  <2> QED
    BY <2>1, CountOfNatural, RestNatural
<1>4. 0 \in S
  BY <1>2, <1>3 DEF SameNumbers, Chain
<1>5. ASSUME NEW i \in S PROVE i + 1 \in S
  <2> SUFFICES ASSUME i + 1 <= n PROVE Kept(i + 1)
    OBVIOUS
  <2>1. Kept(i) /\ i \in Nat /\ i + 1 \in 1..n /\ (i + 1) - 1 = i
    OBVIOUS
  <2>2. f[i + 1] = Route(f[i], q[i + 1]) /\ q[i + 1] \in 0..MaxTime
    BY <1>1, <1>2, <2>1 DEF Chain
  <2> HIDE DEF S
  <2>3. /\ Good(f[i + 1]) /\ SameNumbers(f[i], f[i + 1])
        /\ Total(f[i + 1]) = Total(f[i]) + 1
    BY <2>1, <2>2, RouteKeeps
  <2>4. Total(f[i + 1]) = Total(r) + (i + 1)
    <3> HIDE DEF Total
    <3> QED
      BY <1>3, <2>1, <2>3
  <2>5. SameNumbers(r, f[i + 1])
    BY <2>1, <2>3 DEF SameNumbers
  <2> QED
    BY <2>3, <2>4, <2>5
<1>6. S = Nat
  <2> HIDE DEF S
  <2>1. S \in SUBSET Nat
    BY DEF S
  <2> QED
    BY <1>4, <1>5, <2>1, SetInduction
<1>7. Kept(n)
  BY <1>6
<1> QED
  BY <1>1, <1>2, <1>7

-----------------------------------------------------------------------------
(* The numbers of a batch                                                  *)

\* A publisher that counts, after l lost messages: the distance shows them, and
\* the message before is not mistaken for one of value zero.
LEMMA Observed ==
  ASSUME IInv, NEW l \in Nat, l <= MaxLost, NEW s, s = NextRos(l)
  PROVE  /\ s \in 0..(RosMod - 1)
         /\ counting # "counted" => s = 0
         /\ counting = "counted" /\ router.prevRos # None =>
              /\ l > 0 => RosGap(router, s)
              /\ Missing(router, s) = l
         /\ counting # "counted" \/ router.prevRos = None => Missing(router, s) = 0
<1>1. /\ ros \in 0..(RosMod - 1) /\ NumbersInv
  BY DEF IInv, TypeOK
<1>2. CASE counting # "counted"
  <2>1. s = 0 /\ 0 \in 0..(RosMod - 1)
    BY <1>2, Constants DEF NextRos
  <2>2. ~RosGap(router, s)
    BY <1>1, <1>2, <2>1 DEF RosGap, NumbersInv
  <2> QED
    BY <1>2, <2>1, <2>2 DEF Missing
<1>3. CASE counting = "counted"
  <2> DEFINE k == l + 1
             x == (ros + 1) % RosMod
  <2>0. RosMod \in Nat \ {0} /\ k \in Nat \ {0} /\ k < RosMod /\ 1 < RosMod /\ 2 * k < RosMod
        /\ 1 \in Nat /\ (k = 1 <=> l = 0) /\ (k > 1 <=> l > 0) /\ k - 1 = l
    BY Constants
  <2>1. s = (ros + k) % RosMod
    <3>1. ros + l + 1 = ros + k
      BY <1>1, Constants
    <3> QED
      BY <1>3, <3>1 DEF NextRos
  <2> HIDE DEF k
  <2>2. s \in 0..(RosMod - 1) /\ (s - ros) % RosMod = k /\ s # ros
    <3>1. ros \in 0..(RosMod - 1)
      BY <1>1
    <3>2. /\ (ros + k) % RosMod \in 0..(RosMod - 1)
          /\ (((ros + k) % RosMod) - ros) % RosMod = k
          /\ k # 0 => (ros + k) % RosMod # ros
      BY ONLY <2>0, <3>1, Modular
    <3> QED
      BY <2>0, <2>1, <3>2
  <2>3. (x - ros) % RosMod = 1
    BY <1>1, <2>0, Modular
  <2>4. ASSUME router.prevRos # None
        PROVE  (l > 0 => RosGap(router, s)) /\ Missing(router, s) = l
    <3>1. router.prevRos = ros
      BY <1>1, <1>3, <2>4 DEF NumbersInv
    <3>2. Distance(router, s) = k
      BY <2>2, <3>1 DEF Distance
    <3>3. router.nonzero \/ s # 0
      <4>1. CASE ~router.nonzero
        BY <1>1, <2>2, <2>4, <3>1, <4>1 DEF NumbersInv
      <4> QED
        BY <4>1
    <3>4. RosGap(router, s) <=> s # x
      BY <1>3, <2>4, <3>1, <3>3 DEF RosGap
    <3> HIDE DEF x
    <3>5. CASE l = 0
      <4>1. k = 1
        BY <2>0, <3>5
      <4>2. Missing(router, s) = 0
        BY <3>2, <4>1 DEF Missing
      <4> QED
        BY <3>5, <4>2
    <3>6. CASE l > 0
      <4>1. k > 1 /\ k # 1
        BY <2>0, <3>6
      <4>2. s # x
        BY <2>2, <2>3, <4>1
      <4>3. Missing(router, s) = k - 1
        BY <2>0, <3>2, <3>4, <4>1, <4>2 DEF Missing
      <4> QED
        BY <2>0, <3>4, <4>2, <4>3
    <3> QED
      BY <3>5, <3>6
  <2>5. router.prevRos = None => Missing(router, s) = 0
    BY DEF Missing, RosGap
  <2> QED
    BY <1>3, <2>2, <2>4, <2>5
<1> QED
  BY <1>2, <1>3

\* The router once the numbers of a batch are seen
Seen(lost, gone, s) ==
  Observe([router EXCEPT !.done = <<>>, !.losses = @ + Shown(lost, gone)], s)

LEMMA SeenIs ==
  ASSUME IInv, NEW lost \in 0..MaxLost, NEW gone \in 0..MaxLost, lost + gone <= MaxLost,
         NEW s, s = NextRos(lost + gone)
  PROVE  LET a == Seen(lost, gone, s)
         IN /\ a \in Router /\ DoneInv(a) /\ a.done = <<>> /\ a.win = router.win
            /\ a.start = router.start /\ a.lastEvent = router.lastEvent
            /\ a.losses = router.losses + Shown(lost, gone) /\ Rest(a) = Rest(router)
            /\ a.prevRos = (IF counting = "unknown" THEN None ELSE s)
            /\ a.nonzero = (router.nonzero \/ (counting # "unknown" /\ s # 0))
            /\ a.missing = router.missing + (IF counting = "unknown" THEN 0
                                             ELSE Missing(router, s))
<1> DEFINE a == Seen(lost, gone, s)
           n == router.losses + Shown(lost, gone)
           m == router.missing + Missing(router, s)
           r == [router EXCEPT !.done = <<>>, !.losses = n]
<1>1. router \in Router /\ router.losses \in Nat /\ router.missing \in Nat
      /\ router.nonzero \in BOOLEAN /\ router.prevRos \in None..(RosMod - 1)
  BY DEF IInv, Router
<1>2. lost \in Nat /\ gone \in Nat /\ lost + gone \in Nat
  BY Constants
<1>3. n \in Nat
  BY <1>1, <1>2 DEF Shown
<1>4. /\ s \in 0..(RosMod - 1)
      /\ counting # "counted" => s = 0
      /\ Missing(router, s) \in Nat
  <2>1. /\ s \in 0..(RosMod - 1)
        /\ counting # "counted" => s = 0
        /\ counting = "counted" /\ router.prevRos # None => Missing(router, s) = lost + gone
        /\ counting # "counted" \/ router.prevRos = None => Missing(router, s) = 0
    BY <1>2, Observed
  <2> QED
    BY <1>2, <2>1
<1>5. s \in None..(RosMod - 1) /\ None \in None..(RosMod - 1) /\ m \in Nat
  <2>1. s \in None..(RosMod - 1) /\ None \in None..(RosMod - 1)
    BY <1>4, Constants DEF None
  <2>2. m \in Nat
    BY <1>1, <1>4
  <2> QED
    BY <2>1, <2>2
<1>6. r.prevRos = router.prevRos /\ r.nonzero = router.nonzero /\ r.missing = router.missing
  BY <1>1 DEF Router
<1>7. Missing(r, s) = Missing(router, s)
  BY <1>6 DEF Missing, RosGap, Distance
<1> DEFINE z == router.nonzero \/ s # 0
<1>8. a = IF counting = "unknown" THEN [r EXCEPT !.prevRos = None]
          ELSE [r EXCEPT !.prevRos = s, !.nonzero = z, !.missing = m]
  <2> DEFINE p == [router EXCEPT !.done = <<>>, !.losses = @ + Shown(lost, gone)]
  <2>1. p = r
    BY <1>1 DEF Router
  <2>2. a = Observe(r, s)
    BY <2>1 DEF Seen
  <2> HIDE DEF r, p
  <2>3. [r EXCEPT !.prevRos = s, !.nonzero = @ \/ s # 0, !.missing = @ + Missing(r, s)]
          = [r EXCEPT !.prevRos = s, !.nonzero = z, !.missing = m]
    BY <1>6, <1>7
  <2> QED
    BY <2>2, <2>3 DEF Observe
<1>9. r \in Router /\ r.done = <<>>
  <2>1. <<>> \in Seq(Finished)
    OBVIOUS
  <2> HIDE DEF n
  <2> QED
    BY <1>1, <1>3, <2>1 DEF Router
<1>10. /\ r.win = router.win /\ r.start = router.start /\ r.lastEvent = router.lastEvent
       /\ r.losses = n /\ r.discarded = router.discarded
  BY <1>1 DEF Router
<1> HIDE DEF r, m, n
<1>11. z \in BOOLEAN
  OBVIOUS
<1> HIDE DEF a
<1>12. /\ a \in Router /\ a.done = <<>> /\ a.win = router.win
       /\ a.start = router.start /\ a.lastEvent = router.lastEvent
       /\ a.losses = n /\ a.discarded = router.discarded
       /\ a.prevRos = (IF counting = "unknown" THEN None ELSE s)
       /\ a.missing = (IF counting = "unknown" THEN router.missing ELSE m)
  <2> HIDE DEF z
  <2>1. CASE counting = "unknown"
    BY <1>5, <1>6, <1>8, <1>9, <1>10, <2>1 DEF Router
  <2>2. CASE counting # "unknown"
    BY <1>5, <1>8, <1>9, <1>10, <1>11, <2>2 DEF Router
  <2> QED
    BY <2>1, <2>2
<1>13. a.nonzero = (router.nonzero \/ (counting # "unknown" /\ s # 0))
  <2>1. CASE counting = "unknown"
    <3>1. a.nonzero = router.nonzero
      BY <1>6, <1>8, <1>9, <2>1 DEF Router
    <3> QED
      BY <1>1, <2>1, <3>1
  <2>2. CASE counting # "unknown"
    <3>1. a.nonzero = z
      <4> HIDE DEF z
      <4> QED
        BY <1>8, <1>9, <2>2 DEF Router
    <3> QED
      BY <2>2, <3>1
  <2> QED
    BY <2>1, <2>2
<1>14. DoneInv(a)
  BY <1>12 DEF DoneInv
<1>15. Rest(a) = Rest(router)
  BY <1>12 DEF Rest
<1>16. router.missing = router.missing + 0
  BY <1>1
<1> QED
  BY <1>12, <1>13, <1>14, <1>15, <1>16 DEF a, m, n

-----------------------------------------------------------------------------
(* A push                                                                  *)

\* A loss that the numbers can show, between two batches, resets the router.
LEMMA LossResets ==
  ASSUME IInv, NEW lost \in 0..MaxLost, NEW gone \in 0..MaxLost, lost + gone <= MaxLost,
         NEW s, s = NextRos(lost + gone), Shown(lost, gone) # 0, router.win.count # 0
  PROVE  RosGap(router, s) \/ BatchGap(router, seq + gone + 1)
<1>1. lost \in Nat /\ gone \in Nat /\ seq \in Nat
  BY Constants DEF IInv, TypeOK
<1>2. router.prevBatch = seq /\ seq # None
  BY <1>1 DEF IInv, NumbersInv, None
<1>3. CASE gone # 0
  <2>1. seq + gone + 1 # seq + 1
    BY <1>1, <1>3
  <2> QED
    BY <1>2, <2>1 DEF BatchGap
<1>4. CASE gone = 0
  <2>1. counting = "counted" /\ lost # 0
    BY <1>1, <1>4 DEF Shown
  <2>2. router.prevRos = ros /\ ros \in Nat /\ router.prevRos # None
    BY <1>2, <2>1, Constants DEF IInv, NumbersInv, TypeOK, None
  <2>3. lost + gone \in Nat /\ lost + gone > 0
    BY <1>1, <1>4, <2>1
  <2> QED
    BY <2>1, <2>2, <2>3, Observed
<1> QED
  BY <1>3, <1>4

\* The router before the first event of a batch
Base(lost, gone, s, n) ==
  LET a == Seen(lost, gone, s)
      b == IF RosGap(router, s) \/ BatchGap(router, n) THEN Reset(a) ELSE a
  IN [b EXCEPT !.prevBatch = n]

LEMMA BaseGood ==
  ASSUME IInv, NEW lost \in 0..MaxLost, NEW gone \in 0..MaxLost, lost + gone <= MaxLost,
         NEW s, s = NextRos(lost + gone), NEW n \in 0..MaxPushes, n = seq + gone + 1
  PROVE  LET c == Base(lost, gone, s, n)
         IN /\ Good(c) /\ c.done = <<>> /\ Rest(c) = Rest(router) /\ c.prevBatch = n
            /\ c.prevRos = (IF counting = "unknown" THEN None ELSE s)
            /\ c.nonzero = (router.nonzero \/ (counting # "unknown" /\ s # 0))
            /\ c.missing = router.missing + (IF counting = "unknown" THEN 0
                                             ELSE Missing(router, s))
<1> DEFINE a == Seen(lost, gone, s)
           gap == RosGap(router, s) \/ BatchGap(router, n)
           b == IF gap THEN Reset(a) ELSE a
           c == [b EXCEPT !.prevBatch = n]
<1>1. /\ a \in Router /\ DoneInv(a) /\ a.done = <<>> /\ a.win = router.win
      /\ a.start = router.start /\ a.lastEvent = router.lastEvent
      /\ a.losses = router.losses + Shown(lost, gone) /\ Rest(a) = Rest(router)
      /\ a.prevRos = (IF counting = "unknown" THEN None ELSE s)
      /\ a.nonzero = (router.nonzero \/ (counting # "unknown" /\ s # 0))
      /\ a.missing = router.missing + (IF counting = "unknown" THEN 0
                                       ELSE Missing(router, s))
  BY SeenIs
<1> HIDE DEF a
<1>2. /\ b \in Router /\ OpenInv(b) /\ DoneInv(b) /\ b.done = <<>> /\ Rest(b) = Rest(a)
      /\ SameNumbers(a, b)
  <2>1. CASE gap
    <3>1. b = Reset(a)
      BY <2>1
    <3> HIDE DEF b, gap
    <3> QED
      BY <1>1, <3>1, ResetKeeps
  <2>2. CASE ~gap
    <3>1. b = a
      BY <2>2
    <3>2. router.win.count = 0 \/ Shown(lost, gone) = 0
      BY <2>2, LossResets
    <3>3. OpenInv(router) /\ router.losses \in Nat /\ router.win.count \in Nat
      BY WindowTyped DEF IInv, Router
    <3>4. a.losses = router.losses \/ router.win.count = 0
      BY <1>1, <3>2, <3>3
    <3>5. OpenInv(a)
      BY <1>1, <3>3, <3>4 DEF OpenInv
    <3> HIDE DEF b, gap
    <3> QED
      BY <1>1, <3>1, <3>5 DEF SameNumbers
  <2> QED
    BY <2>1, <2>2
<1> HIDE DEF b
<1>3. /\ c.start = b.start /\ c.win = b.win /\ c.lastEvent = b.lastEvent /\ c.id = b.id
      /\ c.resets = b.resets /\ c.discarded = b.discarded /\ c.done = b.done
      /\ c.prevRos = b.prevRos /\ c.nonzero = b.nonzero /\ c.missing = b.missing
      /\ c.losses = b.losses /\ c.prevBatch = n
  BY <1>2 DEF Router
<1>4. c \in Router
  <2>1. n \in None..MaxPushes
    BY Constants DEF None
  <2> QED
    BY <1>2, <2>1 DEF Router
<1> HIDE DEF c
<1>5. OpenInv(c)
  BY <1>2, <1>3 DEF OpenInv
<1>6. DoneInv(c)
  BY <1>2, <1>3 DEF DoneInv
<1>7. Rest(c) = Rest(router)
  BY <1>1, <1>2, <1>3 DEF Rest
<1>8. c.prevRos = a.prevRos /\ c.nonzero = a.nonzero /\ c.missing = a.missing
  BY <1>2, <1>3 DEF SameNumbers
<1>9. Base(lost, gone, s, n) = c
  BY DEF Base, a, b, c
<1>10. Good(c) /\ c.done = <<>>
  BY <1>2, <1>3, <1>4, <1>5, <1>6 DEF Good
<1> QED
  BY <1>1, <1>3, <1>7, <1>8, <1>9, <1>10

\* The type invariant asks for nothing else of the router.
LEMMA RouterTypeOK ==
  ASSUME NEW r \in Router, OpenInv(r)
  PROVE  /\ r.start \in None..MaxTime /\ r.lastEvent \in None..MaxTime
         /\ r.prevRos \in None..(RosMod - 1) /\ r.prevBatch \in None..MaxPushes
         /\ {r.id, r.resets, r.discarded, r.missing, r.losses, r.win.count} \subseteq Nat
         /\ r.win.last = r.lastEvent
         /\ (r.start = None) <=> (r.win.count = 0)
         /\ \A i \in DOMAIN r.done : r.done[i].count > 0
<1>1. r.done \in Seq(Finished)
  BY DEF Router
<1>2. \A i \in DOMAIN r.done : r.done[i] \in Finished
  BY <1>1
<1>3. \A i \in DOMAIN r.done : r.done[i].count > 0
  BY <1>2 DEF Finished
<1>4. r.win.count \in Nat
  BY WindowTyped
<1> QED
  BY <1>3, <1>4 DEF Router, OpenInv

LEMMA Initially == Init => IInv
<1> SUFFICES ASSUME Init PROVE IInv
  OBVIOUS
<1>1. /\ router.start = None /\ router.lastEvent = None /\ router.win = NewWindow
      /\ router.id = 0 /\ router.resets = 0 /\ router.discarded = 0
      /\ router.prevBatch = None /\ router.prevRos = None /\ router.nonzero = FALSE
      /\ router.missing = 0 /\ router.losses = 0 /\ router.done = <<>>
  BY DEF Init
<1>2. router \in Router
  <2>1. /\ None \in None..MaxTime /\ None \in None..MaxPushes /\ None \in None..(RosMod - 1)
        /\ 0 \in Nat /\ <<>> \in Seq(Finished)
    BY Constants DEF None
  <2> QED
    BY <2>1, NewWindowTyped DEF Init, Router
<1>3. OpenInv(router)
  BY <1>1, NewWindowTyped DEF OpenInv
<1>4. DoneInv(router)
  BY <1>1 DEF DoneInv
<1>5. ros \in 0..(RosMod - 1) /\ (counting # "counted" => ros = 0)
  BY Constants DEF Init
<1>6. TypeOK
  <2>1. out = router.done
    BY <1>1 DEF Init
  <2>2. seq \in 0..MaxPushes /\ {skipped, pushed, finished, seen} \subseteq Nat
    BY Constants DEF Init
  <2>3. counting \in {"counted", "zero", "unknown"}
    BY DEF Init
  <2> QED
    BY <1>2, <1>3, <1>5, <2>1, <2>2, <2>3, RouterTypeOK DEF TypeOK
<1>7. NumbersInv
  BY <1>1, <1>5, NewWindowTyped DEF NumbersInv
<1>8. EventsConserved
  BY <1>1, NewWindowTyped DEF Init, EventsConserved
<1>9. MissingExact /\ out = router.done
  BY <1>1 DEF Init, MissingExact
<1> QED
  BY <1>2, <1>3, <1>4, <1>6, <1>7, <1>8, <1>9 DEF IInv

LEMMA PushKeeps ==
  ASSUME IInv, NEW lost \in 0..MaxLost, NEW gone \in 0..MaxLost, NEW events \in Batches,
         PushBatch(lost, gone, events)
  PROVE  IInv'
<1> DEFINE b == Base(lost, gone, ros', seq')
<1>1. /\ lost \in Nat /\ gone \in Nat /\ lost + gone <= MaxLost /\ lost + gone \in Nat
      /\ seq \in Nat /\ seq' = seq + gone + 1 /\ seq' \in 0..MaxPushes /\ seq' # None
  <2>1. lost + gone <= MaxLost /\ seq + gone < MaxPushes /\ seq' = seq + gone + 1
    BY DEF PushBatch
  <2>2. seq \in Nat
    BY DEF IInv, TypeOK
  <2>3. lost \in Nat /\ gone \in Nat
    BY Constants
  <2> QED
    BY <2>1, <2>2, <2>3, Constants DEF None
<1>2. /\ ros' = NextRos(lost + gone) /\ counting' = counting /\ skipped' = skipped
      /\ seen' = (IF router.prevRos = None THEN seen ELSE seen + Shown(lost, gone))
      /\ router' = RouteAll(b, events) /\ out' = router'.done
      /\ finished' = finished + CountOf(router'.done) /\ pushed' = pushed + Len(events)
  BY DEF PushBatch, Base, Seen
<1>3. /\ Good(b) /\ b.done = <<>> /\ Rest(b) = Rest(router) /\ b.prevBatch = seq'
      /\ b.prevRos = (IF counting = "unknown" THEN None ELSE ros')
      /\ b.nonzero = (router.nonzero \/ (counting # "unknown" /\ ros' # 0))
      /\ b.missing = router.missing + (IF counting = "unknown" THEN 0
                                       ELSE Missing(router, ros'))
  BY <1>1, <1>2, BaseGood
<1> HIDE DEF b
<1>4. PICK n \in 0..MaxLen : events \in [1..n -> 0..MaxTime]
  BY DEF Batches
<1>5. Len(events) = n /\ n \in Nat
  BY <1>4, Constants
<1>6. /\ Good(router') /\ SameNumbers(b, router')
      /\ CountOf(router'.done) + Rest(router') = CountOf(b.done) + Rest(b) + Len(events)
  BY <1>2, <1>3, <1>4, <1>5, RouteAllKeeps
<1>7. router' \in Router /\ OpenInv(router') /\ DoneInv(router') /\ router \in Router
  BY <1>6 DEF Good, IInv
<1>8. /\ ros' \in 0..(RosMod - 1)
      /\ counting # "counted" => ros' = 0
      /\ counting = "counted" /\ router.prevRos # None => Missing(router, ros') = lost + gone
      /\ counting # "counted" \/ router.prevRos = None => Missing(router, ros') = 0
  BY <1>1, <1>2, Observed
<1>9. /\ CountOf(router'.done) \in Nat /\ Rest(router') \in Nat /\ Rest(router) \in Nat
      /\ CountOf(b.done) = 0
  <2>1. router'.done \in Seq(Finished)
    BY <1>7 DEF Router
  <2> QED
    BY <1>3, <1>7, <2>1, CountOfNatural, CountOfEmpty, RestNatural
<1>10. /\ {skipped, pushed, finished, seen} \subseteq Nat
       /\ counting \in {"counted", "zero", "unknown"}
  BY DEF IInv, TypeOK
<1>11. TypeOK'
  <2>1. Shown(lost, gone) \in Nat
    BY <1>1 DEF Shown
  <2>2. {skipped', pushed', finished', seen'} \subseteq Nat
    <3>1. skipped' \in Nat /\ pushed' \in Nat
      BY <1>2, <1>5, <1>10
    <3>2. finished' \in Nat
      <4>1. finished \in Nat /\ finished' = finished + CountOf(router'.done)
        BY <1>2, <1>10
      <4> QED
        BY ONLY <1>9, <4>1
    <3>3. seen' \in Nat
      BY <1>2, <1>10, <2>1
    <3> QED
      BY <3>1, <3>2, <3>3
  <2>3. \A i \in DOMAIN out' : out'[i].count > 0
    BY <1>2, <1>7, RouterTypeOK
  <2>4. /\ router'.start \in None..MaxTime /\ router'.lastEvent \in None..MaxTime
        /\ router'.prevRos \in None..(RosMod - 1) /\ router'.prevBatch \in None..MaxPushes
        /\ {router'.id, router'.resets, router'.discarded, router'.missing, router'.losses,
            router'.win.count} \subseteq Nat
        /\ router'.win.last = router'.lastEvent
        /\ (router'.start = None) <=> (router'.win.count = 0)
    BY <1>7, RouterTypeOK
  <2>5. counting' \in {"counted", "zero", "unknown"} /\ ros' \in 0..(RosMod - 1)
    BY <1>2, <1>8, <1>10
  <2> QED
    BY <1>1, <2>2, <2>3, <2>4, <2>5 DEF TypeOK
<1>12. NumbersInv'
  <2>1. /\ router'.prevBatch = seq' /\ router'.nonzero = b.nonzero
        /\ router'.prevRos = (IF counting = "unknown" THEN None ELSE ros')
    BY <1>3, <1>6 DEF SameNumbers
  <2>2. counting # "counted" => ~router'.nonzero
    BY <1>3, <1>8, <2>1 DEF IInv, NumbersInv
  <2>3. router'.prevRos # None /\ ~router'.nonzero => router'.prevRos = 0
    BY <1>3, <2>1
  <2> QED
    BY <1>1, <1>2, <1>8, <2>1, <2>2, <2>3 DEF NumbersInv
<1>13. EventsConserved'
  <2>1. pushed = finished + router.win.count + router.discarded + skipped
    BY DEF IInv, EventsConserved
  <2>2. /\ router.win.count \in Nat /\ router.discarded \in Nat
        /\ router'.win.count \in Nat /\ router'.discarded \in Nat
    BY <1>7, WindowTyped DEF Router
  <2>3. CountOf(router'.done) + router'.win.count + router'.discarded
          = router.win.count + router.discarded + n
    <3>1. CountOf(router'.done) + Rest(router') = Rest(router) + n
      BY <1>3, <1>5, <1>6, <1>9
    <3>2. /\ Rest(router') = router'.win.count + router'.discarded
          /\ Rest(router) = router.win.count + router.discarded
      BY DEF Rest
    <3>3. CountOf(router'.done) \in Nat /\ n \in Nat
      BY <1>5, <1>9
    <3> QED
      BY ONLY <2>2, <3>1, <3>2, <3>3
  <2>4. pushed' = finished' + router'.win.count + router'.discarded + skipped'
    <3>1. pushed' = pushed + n /\ finished' = finished + CountOf(router'.done)
          /\ skipped' = skipped
      BY <1>2, <1>5
    <3>2. /\ finished \in Nat /\ skipped \in Nat /\ pushed \in Nat /\ n \in Nat
          /\ CountOf(router'.done) \in Nat
      BY <1>5, <1>9, <1>10
    <3> QED
      BY ONLY <2>1, <2>2, <2>3, <3>1, <3>2
  <2> QED
    BY <2>4 DEF EventsConserved
<1>14. MissingExact'
  <2> SUFFICES ASSUME counting = "counted" PROVE router'.missing = seen'
    BY <1>2 DEF MissingExact
  <2>1. router.missing = seen /\ router.missing \in Nat
    BY <1>7 DEF IInv, MissingExact, Router
  <2>2. router'.missing = router.missing + Missing(router, ros')
    BY <1>3, <1>6 DEF SameNumbers
  <2>3. Shown(lost, gone) = lost + gone
    BY DEF Shown
  <2> QED
    BY <1>1, <1>2, <1>8, <2>1, <2>2, <2>3
<1> QED
  BY <1>2, <1>7, <1>11, <1>12, <1>13, <1>14 DEF IInv

LEMMA ResetGenerationKeeps ==
  ASSUME IInv, ResetGeneration
  PROVE  IInv'
<1>1. PICK gone \in 0..MaxLost :
        /\ seq + gone < MaxPushes
        /\ ros' = (IF counting = "counted" THEN (ros + gone) % RosMod ELSE 0)
        /\ seq' = seq + gone
        /\ router' = [Reset(router) EXCEPT !.discarded = router.discarded,
                        !.prevBatch = None, !.prevRos = None,
                        !.losses = @ + gone, !.done = <<>>]
  BY DEF ResetGeneration
<1>2. /\ skipped' = skipped + router.win.count /\ out' = <<>>
      /\ UNCHANGED <<counting, pushed, finished, seen>>
  BY DEF ResetGeneration
<1> DEFINE a == Reset(router)
<1>3. router \in Router /\ DoneInv(router) /\ router.win.count \in Nat
      /\ router.discarded \in Nat
  BY WindowTyped DEF IInv, Router
<1>4. /\ a \in Router /\ a.start = None /\ a.lastEvent = None /\ a.win = NewWindow
      /\ SameNumbers(router, a)
  BY <1>3, ResetKeeps
<1> HIDE DEF a
<1>5. /\ gone \in Nat /\ a.losses \in Nat /\ a.losses + gone \in Nat
      /\ None \in None..MaxPushes /\ None \in None..(RosMod - 1) /\ <<>> \in Seq(Finished)
  BY <1>4, Constants DEF Router, None
<1>6. /\ router'.start = None /\ router'.lastEvent = None /\ router'.win = NewWindow
      /\ router'.discarded = router.discarded /\ router'.prevBatch = None
      /\ router'.prevRos = None /\ router'.done = <<>>
      /\ router'.nonzero = router.nonzero /\ router'.missing = router.missing
  BY <1>1, <1>4 DEF Router, SameNumbers, a
<1>7. router' \in Router
  <2>1. router' = [a EXCEPT !.discarded = router.discarded, !.prevBatch = None,
                            !.prevRos = None, !.losses = a.losses + gone, !.done = <<>>]
    BY <1>1, <1>4 DEF a, Router
  <2> QED
    BY <1>3, <1>4, <1>5, <2>1 DEF Router
<1>8. OpenInv(router')
  BY <1>6, NewWindowTyped DEF OpenInv
<1>9. DoneInv(router')
  BY <1>6 DEF DoneInv
<1>10. /\ ros' \in 0..(RosMod - 1)
       /\ counting # "counted" => ros' = 0
  <2>1. CASE counting = "counted"
    <3>1. ros \in 0..(RosMod - 1) /\ RosMod \in Nat \ {0} /\ gone < RosMod
      BY <1>5, Constants DEF IInv, TypeOK
    <3>2. (ros + gone) % RosMod \in 0..(RosMod - 1)
      BY <1>5, <3>1, Modular
    <3> QED
      BY <1>1, <2>1, <3>2
  <2>2. CASE counting # "counted"
    BY <1>1, <2>2, Constants
  <2> QED
    BY <2>1, <2>2
<1>11. /\ {skipped, pushed, finished, seen} \subseteq Nat
       /\ counting \in {"counted", "zero", "unknown"}
  BY DEF IInv, TypeOK
<1>12. TypeOK'
  <2>1. seq' \in 0..MaxPushes
    <3>1. seq \in Nat
      BY DEF IInv, TypeOK
    <3> QED
      BY <1>1, <1>5, <3>1, Constants
  <2>2. {skipped', pushed', finished', seen'} \subseteq Nat
    BY <1>2, <1>3, <1>11
  <2>3. \A i \in DOMAIN out' : out'[i].count > 0
    BY <1>2
  <2>4. /\ router'.start \in None..MaxTime /\ router'.lastEvent \in None..MaxTime
        /\ router'.prevRos \in None..(RosMod - 1) /\ router'.prevBatch \in None..MaxPushes
        /\ {router'.id, router'.resets, router'.discarded, router'.missing, router'.losses,
            router'.win.count} \subseteq Nat
        /\ router'.win.last = router'.lastEvent
        /\ (router'.start = None) <=> (router'.win.count = 0)
    BY <1>7, <1>8, RouterTypeOK
  <2>5. counting' \in {"counted", "zero", "unknown"} /\ ros' \in 0..(RosMod - 1)
    BY <1>2, <1>10, <1>11
  <2> QED
    BY <2>1, <2>2, <2>3, <2>4, <2>5 DEF TypeOK
<1>13. NumbersInv'
  <2>1. counting # "counted" => ~router.nonzero
    BY DEF IInv, NumbersInv
  <2> QED
    BY <1>2, <1>6, <1>10, <2>1, NewWindowTyped DEF NumbersInv
<1>14. EventsConserved'
  <2>1. pushed = finished + router.win.count + router.discarded + skipped
    BY DEF IInv, EventsConserved
  <2> QED
    <3>1. /\ pushed' = pushed /\ finished' = finished
          /\ skipped' = skipped + router.win.count
          /\ router'.win.count = 0 /\ router'.discarded = router.discarded
      BY <1>2, <1>6, NewWindowTyped
    <3>2. pushed \in Nat /\ finished \in Nat /\ skipped \in Nat
      BY <1>11
    <3>3. router.win.count \in Nat /\ router.discarded \in Nat
      BY <1>3
    <3>4. pushed' = finished' + router'.win.count + router'.discarded + skipped'
      BY ONLY <2>1, <3>1, <3>2, <3>3
    <3> QED
      BY <3>4 DEF EventsConserved
<1>15. MissingExact'
  BY <1>2, <1>6 DEF IInv, MissingExact
<1>16. out' = router'.done
  BY <1>2, <1>6
<1> QED
  BY <1>7, <1>8, <1>9, <1>12, <1>13, <1>14, <1>15, <1>16 DEF IInv

LEMMA Unchanged ==
  ASSUME IInv, UNCHANGED vars
  PROVE  IInv'
BY DEF IInv, vars, TypeOK, OpenInv, DoneInv, Ends, Behind, NumbersInv, EventsConserved,
       MissingExact

-----------------------------------------------------------------------------
(* Theorems                                                                *)

\* The invariant of IncrementalWindowRouter, of which the others are
\* consequences.
THEOREM Invariance == Spec => []IInv
<1>1. ASSUME IInv, [Next]_vars PROVE IInv'
  <2>1. CASE Push
    BY <1>1, <2>1, PushKeeps DEF Push
  <2>2. CASE ResetGeneration
    BY <1>1, <2>2, ResetGenerationKeeps
  <2>3. CASE UNCHANGED vars
    BY <1>1, <2>3, Unchanged
  <2> QED
    BY <1>1, <2>1, <2>2, <2>3 DEF Next
<1> QED
  BY <1>1, Initially, PTL DEF Spec

\* Every event a batch brought is in one finished window, in the one being
\* filled, or counted as discarded or skipped, once.
THEOREM Conserved == Spec => []EventsConserved
<1>1. IInv => EventsConserved
  BY DEF IInv
<1> QED
  BY <1>1, Invariance, PTL

LEMMA OnGrid ==
  ASSUME IInv
  PROVE  WindowsOnGrid
<1>1. /\ TypeOK /\ router \in Router /\ OpenInv(router) /\ DoneInv(router)
      /\ out = router.done
  BY DEF IInv
<1>2. out \in Seq(Finished)
  BY <1>1 DEF Router
<1>3. \A i \in DOMAIN out : out[i] \in Finished /\ i \in Int
  BY <1>2
<1>4. ASSUME NEW i \in DOMAIN out
      PROVE  /\ Ends(out[i]) /\ out[i].end = out[i].start + Window
             /\ out[i].id = router.id - Len(out) + i
             /\ out[i].resets = router.resets => Behind(out[i].start, router.start)
             /\ \A j \in DOMAIN out :
                  i < j /\ out[j].resets = out[i].resets => Behind(out[i].start, out[j].start)
  BY <1>1 DEF DoneInv
<1>5. ASSUME NEW i \in DOMAIN out, NEW j \in DOMAIN out, i < j
      PROVE  /\ out[j].id = out[i].id + (j - i)
             /\ out[i].resets = out[j].resets =>
                  /\ out[j].start >= out[i].end
                  /\ (out[j].start - out[i].start) % Window = 0
  <2>1. out[j].id = out[i].id + (j - i)
    <3>1. router.id \in Int /\ Len(out) \in Int /\ i \in Int /\ j \in Int
      BY <1>1, <1>2, <1>3 DEF Router
    <3>2. out[i].id = router.id - Len(out) + i /\ out[j].id = router.id - Len(out) + j
      BY <1>4
    <3> QED
      BY ONLY <3>1, <3>2
  <2>2. ASSUME out[i].resets = out[j].resets PROVE Behind(out[i].start, out[j].start)
    BY <1>4, <1>5, <2>2
  <2> QED
    BY <1>4, <2>1, <2>2 DEF Behind
<1>6. ASSUME router.win.count > 0
      PROVE  /\ router.win.first >= router.start /\ router.win.last < router.start + Window
             /\ out # <<>> /\ Last(out).resets = router.resets =>
                  /\ router.start >= Last(out).end
                  /\ (router.start - Last(out).start) % Window = 0
  <2>1. router.win.first >= router.start /\ router.win.last < router.start + Window
    <3>1. router.start <= router.win.first /\ router.win.last < router.start + Window
      BY <1>1, <1>6 DEF OpenInv
    <3> QED
      BY <3>1
  <2>2. ASSUME out # <<>>, Last(out).resets = router.resets
        PROVE  /\ router.start >= Last(out).end
               /\ (router.start - Last(out).start) % Window = 0
    <3>1. Len(out) \in DOMAIN out /\ Last(out) = out[Len(out)]
      BY <1>2, <2>2, EmptySeq DEF Last
    <3>2. Behind(Last(out).start, router.start) /\ Last(out).end = Last(out).start + Window
      BY <1>4, <2>2, <3>1
    <3> QED
      BY <3>2 DEF Behind
  <2> QED
    BY <2>1, <2>2
<1> QED
  BY <1>1, <1>4, <1>5, <1>6 DEF WindowsOnGrid

\* A window holds the events of its interval, and between two resets windows
\* follow each other on one grid without overlap.
THEOREM OnTheGrid == Spec => []WindowsOnGrid
BY Invariance, OnGrid, PTL

LEMMA Noticed ==
  ASSUME IInv
  PROVE  LossesNoticed
<1>1. out \in Seq(Finished)
  BY DEF IInv, Router
<1>2. \A i \in DOMAIN out : out[i] \in Finished
  BY <1>1
<1>3. WindowSpansNoLoss
  BY <1>2 DEF WindowSpansNoLoss, Finished
<1> QED
  BY <1>3 DEF LossesNoticed, IInv

\* No window spans a loss that the numbers of its batches could show, and what
\* the publisher's count shows to be missing is what was lost.
THEOREM LossesAreNoticed == Spec => []LossesNoticed
BY Invariance, Noticed, PTL

-----------------------------------------------------------------------------
(* The loops of EventWindowBuffer                                           *)

\* f solves the recursive definition inside CutAll(b) on 0..n.
Cuts(f, b, n) == f = [k \in 0..n |-> IF k = 0 THEN b ELSE CutWindow(f[k - 1])]

LEMMA CutsExist ==
  ASSUME NEW b
  PROVE  \A n \in Nat : \E f : Cuts(f, b, n)
<1> DEFINE Step(f, k) == IF k = 0 THEN b ELSE CutWindow(f[k - 1])
           S == {n \in Nat : \E f : f = [k \in 0..n |-> Step(f, k)]}
<1>1. 0 \in S
  <2> DEFINE f == [k \in 0..0 |-> b]
  <2>1. f = [k \in 0..0 |-> Step(f, k)]
    OBVIOUS
  <2> QED
    BY <2>1
<1>2. ASSUME NEW n \in S PROVE n + 1 \in S
  <2>1. PICK f : f = [k \in 0..n |-> Step(f, k)]
    OBVIOUS
  <2> DEFINE h == [k \in 0..n + 1 |-> Step(f, k)]
  <2>2. ASSUME NEW k \in 0..n + 1 PROVE h[k] = Step(h, k)
    <3>1. CASE k = 0
      BY <3>1
    <3>2. CASE k # 0
      <4>1. k - 1 \in 0..n /\ k - 1 \in 0..n + 1
        BY <3>2
      <4>2. f[k - 1] = Step(f, k - 1)
        BY <2>1, <4>1
      <4>3. h[k - 1] = Step(f, k - 1)
        BY <4>1
      <4>4. h[k - 1] = f[k - 1]
        BY <4>2, <4>3
      <4> QED
        BY <3>2, <4>4
    <3> QED
      BY <3>1, <3>2
  <2>3. h = [k \in 0..n + 1 |-> Step(h, k)]
    BY <2>2
  <2>4. \E k : k = [j \in 0..n + 1 |-> Step(k, j)]
    <3> HIDE DEF h, Step
    <3> QED
      BY <2>3, Zenon
  <2>5. n + 1 \in Nat
    OBVIOUS
  <2> HIDE DEF Step
  <2> QED
    BY <2>4, <2>5
<1>3. S = Nat
  <2> HIDE DEF Step
  <2> QED
    BY <1>1, <1>2, SetInduction
<1> QED
  BY <1>3 DEF Cuts

\* CutAll cuts one window after the other.
LEMMA CutAllIs ==
  ASSUME NEW b, NEW n \in Nat, n = (b.lastEvent - b.start) \div Window
  PROVE  \E f : /\ f[0] = b /\ \A k \in 1..n : f[k] = CutWindow(f[k - 1])
                /\ CutAll(b) = f[n]
<1> DEFINE K == CHOOSE f : Cuts(f, b, n)
<1>1. \E f : Cuts(f, b, n)
  BY CutsExist
<1>2. Cuts(K, b, n)
  BY <1>1, Zenon
<1>3. CutAll(b) = K[n]
  BY Zenon DEF CutAll, Cuts
<1> HIDE DEF K
<1>4. K = [k \in 0..n |-> IF k = 0 THEN b ELSE CutWindow(K[k - 1])]
  BY <1>2 DEF Cuts
<1>5. 0 \in 0..n /\ \A k \in 1..n : k \in 0..n /\ k # 0
  OBVIOUS
<1>6. K[0] = b
  BY <1>4, <1>5
<1>7. \A k \in 1..n : K[k] = CutWindow(K[k - 1])
  BY <1>4, <1>5
<1> QED
  BY <1>3, <1>6, <1>7

\* f solves the recursive definition inside AppendAll(b, q) on 0..n.
Appended(f, b, q, k) ==
  IF k = 0 THEN b
  ELSE IF k \in SegmentEnds(q) THEN AppendSegment(f[k - 1], Segment(q, k))
  ELSE f[k - 1]
Appends(f, b, q, n) == f = [k \in 0..n |-> Appended(f, b, q, k)]

LEMMA AppendsExist ==
  ASSUME NEW b, NEW q
  PROVE  \A n \in Nat : \E f : Appends(f, b, q, n)
<1> DEFINE S == {n \in Nat : \E f : f = [k \in 0..n |-> Appended(f, b, q, k)]}
<1>1. 0 \in S
  <2> DEFINE f == [k \in 0..0 |-> b]
  <2>1. f = [k \in 0..0 |-> Appended(f, b, q, k)]
    BY DEF Appended
  <2> QED
    BY <2>1
<1>2. ASSUME NEW n \in S PROVE n + 1 \in S
  <2>1. PICK f : f = [k \in 0..n |-> Appended(f, b, q, k)]
    OBVIOUS
  <2> DEFINE h == [k \in 0..n + 1 |-> Appended(f, b, q, k)]
  <2>2. ASSUME NEW k \in 0..n + 1 PROVE h[k] = Appended(h, b, q, k)
    <3>1. CASE k = 0
      BY <3>1 DEF Appended
    <3>2. CASE k # 0
      <4>1. k - 1 \in 0..n /\ k - 1 \in 0..n + 1
        BY <3>2
      <4>2. f[k - 1] = Appended(f, b, q, k - 1)
        BY <2>1, <4>1
      <4>3. h[k - 1] = Appended(f, b, q, k - 1)
        BY <4>1
      <4>4. h[k - 1] = f[k - 1]
        BY <4>2, <4>3
      <4> QED
        BY <3>2, <4>4 DEF Appended
    <3> QED
      BY <3>1, <3>2
  <2>3. h = [k \in 0..n + 1 |-> Appended(h, b, q, k)]
    BY <2>2
  <2>4. \E k : k = [j \in 0..n + 1 |-> Appended(k, b, q, j)]
    <3> HIDE DEF h
    <3> QED
      BY <2>3, Zenon
  <2>5. n + 1 \in Nat
    OBVIOUS
  <2> QED
    BY <2>4, <2>5
<1>3. S = Nat
  BY <1>1, <1>2, SetInduction
<1> QED
  BY <1>3 DEF Appends

\* AppendAll appends one segment after the other.
LEMMA AppendAllIs ==
  ASSUME NEW b, NEW q, Len(q) \in Nat
  PROVE  \E f : /\ f[0] = b /\ \A k \in 1..Len(q) : f[k] = Appended(f, b, q, k)
                /\ AppendAll(b, q) = f[Len(q)]
<1> DEFINE K == CHOOSE f : Appends(f, b, q, Len(q))
<1>1. \E f : Appends(f, b, q, Len(q))
  BY AppendsExist
<1>2. Appends(K, b, q, Len(q))
  BY <1>1, Zenon
<1>3. AppendAll(b, q) = K[Len(q)]
  BY Zenon DEF AppendAll, Appends, Appended
<1> HIDE DEF K
<1>4. K = [k \in 0..Len(q) |-> Appended(K, b, q, k)]
  BY <1>2 DEF Appends
<1>5. 0 \in 0..Len(q) /\ \A k \in 1..Len(q) : k \in 0..Len(q)
  OBVIOUS
<1>6. K[0] = b
  BY <1>4, <1>5 DEF Appended
<1>7. \A k \in 1..Len(q) : K[k] = Appended(K, b, q, k)
  BY <1>4, <1>5
<1> QED
  BY <1>3, <1>6, <1>7

\* The events before the end of the window
LEMMA CutIs ==
  ASSUME NEW b \in Buffer
  PROVE  LET n == Cut(b)
         IN /\ n \in 0..Len(b.events)
            /\ \A i \in 1..n : InWindow(b, b.events[i])
            /\ n < Len(b.events) => ~InWindow(b, b.events[n + 1])
<1> DEFINE l == Len(b.events)
           T == {j \in 0..l : j < l => ~InWindow(b, b.events[j + 1])}
           Leads(n) == /\ \A i \in 1..n : InWindow(b, b.events[i])
                       /\ n < l => ~InWindow(b, b.events[n + 1])
<1>1. l \in Nat
  BY DEF Buffer
<1> HIDE DEF l
<1>2. T \in SUBSET Nat /\ l \in T
  BY <1>1
<1>3. PICK n \in T : \A j \in T : n <= j
  <2> HIDE DEF T
  <2> QED
    BY <1>2, LeastNatural
<1>4. ASSUME NEW i \in 1..n PROVE InWindow(b, b.events[i])
  <2>1. i - 1 \in 0..l /\ i - 1 < n /\ i - 1 < l /\ (i - 1) + 1 = i
    BY <1>1, <1>3
  <2>2. i - 1 \notin T
    BY <1>3, <2>1
  <2> QED
    BY <2>1, <2>2
<1>5. n \in 0..l /\ Leads(n)
  BY <1>3, <1>4
<1> HIDE DEF Leads
<1>6. Cut(b) = CHOOSE k \in 0..l : Leads(k)
  BY DEF Cut, Leads, l
<1>7. Cut(b) \in 0..l /\ Leads(Cut(b))
  BY <1>5, <1>6, Zenon
<1> QED
  BY <1>7 DEF Leads, l

-----------------------------------------------------------------------------
(* One event of a segment, in the router and behind what is cut             *)

\* What the router does with an event that opens nothing new
Step(g, t) == Put(Advance(g, t), t)

\* The buffer's first i events are those of the window the router is filling.
Filling(x, g, i) ==
  /\ x \in Buffer /\ Remain(x) /\ SameCounts(x, g)
  /\ x.id = g.id /\ x.start = g.start /\ x.done = Outlines(g.done)
  /\ i = g.win.count /\ i \in 0..Len(x.events)
  /\ \A j \in 1..i : InWindow(x, x.events[j])
  /\ i > 0 => g.win.first = x.events[1] /\ g.win.last = x.events[i]

\* The buffer has cut off the window that the router is filling, and perhaps
\* empty ones behind it; the router will when the next event comes.
Pending(x, g) ==
  /\ x \in Buffer /\ Remain(x) /\ SameCounts(x, g)
  /\ x.id = g.id + 1 /\ x.done = Append(Outlines(g.done), Outline(Completed(g)))
  /\ \E m \in Nat \ {0} : x.start = g.start + Window * m

LEMMA BufferTyped ==
  ASSUME NEW x \in Buffer
  PROVE  /\ x.events \in Seq(0..MaxTime) /\ Len(x.events) \in Nat
         /\ DOMAIN x.events = 1..Len(x.events)
         /\ \A i \in 1..Len(x.events) : x.events[i] \in 0..MaxTime /\ x.events[i] \in Nat
         /\ x.id \in Nat /\ x.resets \in Nat /\ x.done \in Seq(Outlined)
         /\ x.start \in Nat \cup {None} /\ x.lastEvent \in None..MaxTime
<1>1. x.events \in Seq(0..MaxTime) /\ x.id \in Nat /\ x.resets \in Nat
      /\ x.done \in Seq(Outlined) /\ x.start \in Nat \cup {None}
      /\ x.lastEvent \in None..MaxTime
  BY DEF Buffer
<1>2. \A i \in 1..Len(x.events) : x.events[i] \in 0..MaxTime
  BY <1>1, ElementOfSeq
<1>3. MaxTime \in Nat
  BY Constants
<1> QED
  BY <1>1, <1>2, <1>3

LEMMA OutlinesAppend ==
  ASSUME NEW ws \in Seq(Finished), NEW w \in Finished
  PROVE  Outlines(Append(ws, w)) = Append(Outlines(ws), Outline(w))
<1> DEFINE l == Len(ws)
<1>1. l \in Nat /\ DOMAIN ws = 1..l /\ DOMAIN Append(ws, w) = 1..(l + 1)
  OBVIOUS
<1>2. Outlines(ws) = [i \in 1..l |-> Outline(ws[i])]
  BY <1>1 DEF Outlines
<1>3. Append(Outlines(ws), Outline(w))
        = [i \in 1..(l + 1) |-> IF i = l + 1 THEN Outline(w) ELSE Outlines(ws)[i]]
  <2>1. PICK o, e, T : o = Outlines(ws) /\ e = Outline(w)
                       /\ T = {Outline(ws[i]) : i \in 1..l} \cup {e}
    OBVIOUS
  <2>2. o \in Seq(T) /\ Len(o) = l /\ e \in T
    <3>1. \A i \in 1..l : Outline(ws[i]) \in T
      BY <2>1
    <3>2. o = [i \in 1..l |-> Outline(ws[i])]
      BY <1>2, <2>1
    <3> HIDE DEF l
    <3> QED
      BY <1>1, <2>1, <3>1, <3>2
  <2> HIDE DEF l
  <2>3. /\ Append(o, e) \in Seq(T) /\ Len(Append(o, e)) = l + 1
        /\ \A i \in 1..l : Append(o, e)[i] = o[i]
        /\ Append(o, e)[l + 1] = e
    BY <2>2, AppendProperties
  <2>4. Append(o, e) = [i \in 1..(l + 1) |-> IF i = l + 1 THEN e ELSE o[i]]
    <3>1. \A i \in 1..(l + 1) : i = l + 1 \/ i \in 1..l
      BY <1>1
    <3>2. PICK a : a = Append(o, e)
      OBVIOUS
    <3>3. a \in [1..(l + 1) -> T]
      BY <2>3, <3>2, LenProperties
    <3>4. \A i \in 1..(l + 1) : a[i] = IF i = l + 1 THEN e ELSE o[i]
      BY <1>1, <2>3, <3>1, <3>2
    <3> QED
      BY <3>2, <3>3, <3>4
  <2> QED
    BY <2>1, <2>4
<1>4. \A i \in 1..(l + 1) : Append(ws, w)[i] = IF i = l + 1 THEN w ELSE ws[i]
  BY <1>1
<1>5. Outlines(Append(ws, w)) = [i \in 1..(l + 1) |-> Outline(Append(ws, w)[i])]
  BY <1>1 DEF Outlines
<1> HIDE DEF l
<1>6. \A i \in 1..(l + 1) :
        Outline(Append(ws, w)[i]) = IF i = l + 1 THEN Outline(w) ELSE Outlines(ws)[i]
  <2> SUFFICES ASSUME NEW i \in 1..(l + 1)
               PROVE  Outline(Append(ws, w)[i])
                        = IF i = l + 1 THEN Outline(w) ELSE Outlines(ws)[i]
    OBVIOUS
  <2>1. CASE i = l + 1
    BY <1>4, <2>1
  <2>2. CASE i # l + 1
    <3>1. i \in 1..l
      BY <1>1, <2>2
    <3> QED
      BY <1>2, <1>4, <2>2, <3>1
  <2> QED
    BY <2>1, <2>2
<1> QED
  BY <1>3, <1>5, <1>6

\* The window an event at t ends, when it ends one
LEMMA AdvanceIs ==
  ASSUME NEW g \in Router, NEW t
  PROVE  /\ t < g.start + Window => Advance(g, t) = g
         /\ ~(t < g.start + Window) =>
              LET c == Advance(g, t)
              IN /\ c.start = g.start + Window * ((t - g.start) \div Window)
                 /\ c.win = NewWindow /\ c.id = g.id + 1
                 /\ c.done = Append(g.done, Completed(g))
                 /\ c.resets = g.resets /\ c.discarded = g.discarded
                 /\ c.missing = g.missing /\ c.prevBatch = g.prevBatch
                 /\ c.prevRos = g.prevRos /\ c.nonzero = g.nonzero
BY DEF Advance, Router

LEMMA PutIs ==
  ASSUME NEW c, c = [start |-> c.start, lastEvent |-> c.lastEvent, win |-> c.win,
                     id |-> c.id, resets |-> c.resets, discarded |-> c.discarded,
                     prevBatch |-> c.prevBatch, prevRos |-> c.prevRos,
                     nonzero |-> c.nonzero, missing |-> c.missing, losses |-> c.losses,
                     done |-> c.done],
         NEW t
  PROVE  LET d == Put(c, t)
         IN /\ d.start = c.start /\ d.id = c.id /\ d.done = c.done /\ d.lastEvent = t
            /\ d.resets = c.resets /\ d.discarded = c.discarded
            /\ d.missing = c.missing /\ d.prevBatch = c.prevBatch
            /\ d.prevRos = c.prevRos /\ d.nonzero = c.nonzero
            /\ d.win.count = c.win.count + 1 /\ d.win.last = t
            /\ d.win.first = IF c.win.count = 0 THEN t ELSE c.win.first
BY DEF Put

LEMMA RouterRecord ==
  ASSUME NEW c \in Router
  PROVE  c = [start |-> c.start, lastEvent |-> c.lastEvent, win |-> c.win,
              id |-> c.id, resets |-> c.resets, discarded |-> c.discarded,
              prevBatch |-> c.prevBatch, prevRos |-> c.prevRos,
              nonzero |-> c.nonzero, missing |-> c.missing, losses |-> c.losses,
              done |-> c.done]
BY DEF Router

\* The next event of the window
LEMMA FillNext ==
  ASSUME NEW x, NEW g \in Router, NEW i, Filling(x, g, i), i < Len(x.events),
         NEW t, t = x.events[i + 1], InWindow(x, t)
  PROVE  Filling(x, Step(g, t), i + 1)
<1> DEFINE d == Step(g, t)
<1>1. Advance(g, t) = g
  BY AdvanceIs DEF Filling, InWindow
<1>2. /\ d.start = g.start /\ d.id = g.id /\ d.done = g.done
      /\ d.resets = g.resets /\ d.discarded = g.discarded
      /\ d.missing = g.missing /\ d.prevBatch = g.prevBatch
      /\ d.prevRos = g.prevRos /\ d.nonzero = g.nonzero
      /\ d.win.count = g.win.count + 1 /\ d.win.last = t
      /\ d.win.first = IF g.win.count = 0 THEN t ELSE g.win.first
  BY <1>1, RouterRecord, PutIs DEF Step
<1> HIDE DEF d
<1>3. /\ x \in Buffer /\ i = g.win.count /\ i \in Nat /\ Len(x.events) \in Nat
  BY BufferTyped DEF Filling
<1>4. i + 1 \in 0..Len(x.events)
  BY <1>3
<1>5. \A j \in 1..(i + 1) : InWindow(x, x.events[j])
  <2> SUFFICES ASSUME NEW j \in 1..(i + 1) PROVE InWindow(x, x.events[j])
    OBVIOUS
  <2>1. j = i + 1 \/ j \in 1..i
    BY <1>3
  <2> QED
    BY <2>1 DEF Filling
<1>6. d.win.first = x.events[1] /\ d.win.last = x.events[i + 1]
  <2>1. CASE i = 0
    BY <1>2, <1>3, <2>1
  <2>2. CASE i > 0
    BY <1>2, <1>3, <2>2 DEF Filling
  <2> QED
    BY <1>3, <2>1, <2>2
<1>7. SameCounts(x, d)
  BY <1>2 DEF Filling, SameCounts
<1>8. x.id = d.id /\ x.start = d.start /\ x.done = Outlines(d.done) /\ Remain(x)
  BY <1>2 DEF Filling
<1> QED
  BY <1>2, <1>3, <1>4, <1>5, <1>6, <1>7, <1>8 DEF Filling, d

\* m whole windows lie between start and t.
LEMMA DivisionIs ==
  ASSUME NEW w \in Nat \ {0}, NEW a \in Nat, NEW m \in Nat, w * m <= a, a < w * m + w
  PROVE  a \div w = m
<1>1. PICK q : q = a \div w
  OBVIOUS
<1>2. q \in Nat /\ w * q <= a /\ a < w * q + w
  BY <1>1, Division
<1>3. \A k, l \in Nat : k < l => w * k + w <= w * l
  <2> SUFFICES ASSUME NEW k \in Nat, NEW l \in Nat, k < l PROVE w * k + w <= w * l
    OBVIOUS
  <2>1. PICK d \in Nat : l = k + 1 + d
    <3>1. l - k - 1 \in Nat /\ l = k + 1 + (l - k - 1)
      OBVIOUS
    <3> QED
      BY <3>1
  <2>2. w * l = w * k + w + w * d
    BY <2>1
  <2>3. w * d \in Nat /\ w * k \in Nat
    OBVIOUS
  <2> QED
    BY <2>2, <2>3
<1>4. w * q \in Nat /\ w * m \in Nat
  BY <1>2
<1>5. ~(q < m) /\ ~(m < q)
  BY <1>2, <1>3, <1>4
<1> QED
  BY <1>1, <1>2, <1>5

\* The event that ends the window already cut off
LEMMA PendNext ==
  ASSUME NEW x, NEW g \in Router, g.start \in Nat, Pending(x, g),
         Completed(g) \in Finished, Len(x.events) > 0,
         NEW t, t = x.events[1], InWindow(x, t)
  PROVE  Filling(x, Step(g, t), 1)
<1> DEFINE c == Advance(g, t)
           d == Step(g, t)
<1>1. PICK m \in Nat \ {0} : x.start = g.start + Window * m
  BY DEF Pending
<1>2. x \in Buffer /\ Len(x.events) \in Nat /\ 1 \in 1..Len(x.events) /\ t \in 0..MaxTime
      /\ t \in Nat
  <2>1. x \in Buffer
    BY DEF Pending
  <2>2. Len(x.events) \in Nat /\ 1 \in 1..Len(x.events)
    BY <2>1, BufferTyped
  <2> QED
    BY <2>1, <2>2, BufferTyped
<1>3. x.start <= t /\ t < x.start + Window
  <2>1. 1 \in DOMAIN x.events
    BY <1>2, BufferTyped
  <2> QED
    BY <2>1 DEF Pending, Remain, InWindow
<1>4. PICK w, s, p : w = Window /\ s = g.start /\ p = w * m
  OBVIOUS
<1>5. w \in Nat \ {0} /\ s \in Nat /\ p \in Nat /\ p >= w
  BY <1>4, Constants
<1>6. p <= t - s /\ t - s < p + w /\ t - s \in Nat /\ ~(t < s + w)
  <2>1. s + p <= t /\ t < s + p + w /\ t \in Nat
    BY <1>1, <1>2, <1>3, <1>4
  <2> QED
    BY ONLY <1>5, <2>1
<1>7. (t - s) \div w = m
  BY <1>4, <1>5, <1>6, DivisionIs
<1>8. /\ c.start = x.start /\ c.win = NewWindow /\ c.id = g.id + 1
      /\ c.done = Append(g.done, Completed(g))
      /\ c.resets = g.resets /\ c.discarded = g.discarded
      /\ c.missing = g.missing /\ c.prevBatch = g.prevBatch
      /\ c.prevRos = g.prevRos /\ c.nonzero = g.nonzero
  BY <1>1, <1>4, <1>6, <1>7, AdvanceIs
<1>9. c = [start |-> c.start, lastEvent |-> c.lastEvent, win |-> c.win,
           id |-> c.id, resets |-> c.resets, discarded |-> c.discarded,
           prevBatch |-> c.prevBatch, prevRos |-> c.prevRos,
           nonzero |-> c.nonzero, missing |-> c.missing, losses |-> c.losses,
           done |-> c.done]
  BY RouterRecord DEF Advance, Router
<1>10. d = Put(c, t)
  BY DEF Step
<1> HIDE DEF c, d
<1>11. /\ d.start = c.start /\ d.id = c.id /\ d.done = c.done
       /\ d.resets = c.resets /\ d.discarded = c.discarded
       /\ d.missing = c.missing /\ d.prevBatch = c.prevBatch
       /\ d.prevRos = c.prevRos /\ d.nonzero = c.nonzero
       /\ d.win.count = c.win.count + 1 /\ d.win.last = t
       /\ d.win.first = IF c.win.count = 0 THEN t ELSE c.win.first
  BY <1>9, <1>10, PutIs
<1>12. d.win.count = 1 /\ d.win.first = t
  BY <1>8, <1>11, NewWindowTyped
<1>13. x.done = Outlines(d.done)
  <2>1. g.done \in Seq(Finished)
    BY DEF Router
  <2> QED
    BY <1>8, <1>11, <2>1, OutlinesAppend DEF Pending
<1>14. SameCounts(x, d)
  BY <1>8, <1>11 DEF Pending, SameCounts
<1>15. x.id = d.id /\ x.start = d.start /\ Remain(x)
  BY <1>8, <1>11 DEF Pending
<1>16. \A j \in 1..1 : InWindow(x, x.events[j])
  BY <1>3 DEF InWindow
<1>17. 1 \in 0..Len(x.events)
  BY <1>2
<1> QED
  BY <1>2, <1>11, <1>12, <1>13, <1>14, <1>15, <1>16, <1>17 DEF Filling, d

-----------------------------------------------------------------------------
(* A segment, window by window                                              *)

\* The events of x behind its first i are those of seg behind its first k.
Left(x, i, seg, k) ==
  /\ Len(x.events) - i = Len(seg) - k
  /\ \A q \in 1..(Len(seg) - k) : x.events[i + q] = seg[k + q]

\* The router's states while it takes the segment, its window opened
Steps(h, seg) ==
  /\ \A k \in 0..Len(seg) :
       /\ h[k] \in Router /\ h[k].start \in Nat
       /\ h[k].win.count > 0 => Completed(h[k]) \in Finished
  /\ \A k \in 1..Len(seg) : h[k] = Step(h[k - 1], seg[k])

Fill(x, h, seg, k, i) ==
  k \in 0..Len(seg) /\ i \in Nat /\ Filling(x, h[k], i) /\ Left(x, i, seg, k)
Pend(x, h, seg, k) ==
  k \in 0..Len(seg) /\ Pending(x, h[k]) /\ h[k].win.count > 0 /\ Left(x, 0, seg, k)

LEMMA FillOne ==
  ASSUME NEW x, NEW h, NEW seg, Len(seg) \in Nat, Steps(h, seg), NEW k, NEW i,
         Fill(x, h, seg, k, i), i < Len(x.events), InWindow(x, x.events[i + 1])
  PROVE  Fill(x, h, seg, k + 1, i + 1)
<1>1. /\ k \in 0..Len(seg) /\ i \in Nat /\ Filling(x, h[k], i) /\ h[k] \in Router
      /\ Len(x.events) - i = Len(seg) - k /\ Len(x.events) \in Nat
      /\ \A q \in 1..(Len(seg) - k) : x.events[i + q] = seg[k + q]
  <2>1. x \in Buffer
    BY DEF Fill, Filling
  <2> QED
    BY <2>1, BufferTyped DEF Fill, Left, Steps
<1>2. k + 1 \in 1..Len(seg) /\ k + 1 \in 0..Len(seg) /\ (k + 1) - 1 = k
      /\ 1 \in 1..(Len(seg) - k)
  BY <1>1
<1>3. x.events[i + 1] = seg[k + 1]
  BY <1>1, <1>2
<1>4. h[k + 1] = Step(h[k], x.events[i + 1])
  BY <1>2, <1>3 DEF Steps
<1>5. Filling(x, h[k + 1], i + 1)
  BY <1>1, <1>4, FillNext
<1>6. Left(x, i + 1, seg, k + 1)
  <2>1. Len(x.events) - (i + 1) = Len(seg) - (k + 1)
    BY <1>1
  <2>2. \A q \in 1..(Len(seg) - (k + 1)) : x.events[(i + 1) + q] = seg[(k + 1) + q]
    <3> SUFFICES ASSUME NEW q \in 1..(Len(seg) - (k + 1))
                 PROVE  x.events[(i + 1) + q] = seg[(k + 1) + q]
      OBVIOUS
    <3>1. q + 1 \in 1..(Len(seg) - k) /\ (i + 1) + q = i + (q + 1)
          /\ (k + 1) + q = k + (q + 1)
      BY <1>1
    <3>2. x.events[i + (q + 1)] = seg[k + (q + 1)]
      BY <1>1, <3>1, Zenon
    <3> QED
      BY <3>1, <3>2, Zenon
  <2> QED
    BY <2>1, <2>2 DEF Left
<1>7. i + 1 \in Nat
  BY <1>1
<1> QED
  BY <1>2, <1>5, <1>6, <1>7 DEF Fill

LEMMA FillAll ==
  ASSUME NEW x, NEW h, NEW seg, Len(seg) \in Nat, Steps(h, seg), NEW k, NEW i,
         Fill(x, h, seg, k, i), NEW n \in Nat, i <= n, n <= Len(x.events),
         \A j \in 1..n : InWindow(x, x.events[j])
  PROVE  Fill(x, h, seg, k + (n - i), n)
<1> DEFINE S == {d \in Nat : i + d <= n => Fill(x, h, seg, k + d, i + d)}
<1>1. k \in Nat /\ i \in Nat /\ Len(x.events) \in Nat
  <2>1. x \in Buffer
    BY DEF Fill, Filling
  <2> QED
    BY <2>1, BufferTyped DEF Fill
<1>2. 0 \in S
  BY <1>1
<1>3. ASSUME NEW d \in S PROVE d + 1 \in S
  <2> SUFFICES ASSUME i + (d + 1) <= n PROVE Fill(x, h, seg, k + (d + 1), i + (d + 1))
    OBVIOUS
  <2>1. /\ d \in Nat /\ i + d <= n /\ i + d < Len(x.events) /\ (i + d) + 1 \in 1..n
        /\ (k + d) + 1 = k + (d + 1) /\ (i + d) + 1 = i + (d + 1)
    BY <1>1
  <2>2. Fill(x, h, seg, k + d, i + d)
    BY <2>1
  <2>3. PICK kd, id : kd = k + d /\ id = i + d
    OBVIOUS
  <2>4. Fill(x, h, seg, kd, id) /\ id < Len(x.events) /\ InWindow(x, x.events[id + 1])
    BY <2>1, <2>2, <2>3
  <2>5. Fill(x, h, seg, kd + 1, id + 1)
    BY <2>4, FillOne
  <2> QED
    BY <2>1, <2>3, <2>5
<1>4. S = Nat
  <2> HIDE DEF S
  <2>1. S \in SUBSET Nat
    BY DEF S
  <2> QED
    BY <1>2, <1>3, <2>1, SetInduction
<1>5. n - i \in Nat /\ i + (n - i) = n
  BY <1>1
<1>6. n - i \in S
  BY <1>4, <1>5
<1> QED
  BY <1>5, <1>6

\* One round of the loop: a window without an event
LEMMA CutEmpty ==
  ASSUME NEW x \in Buffer, Cut(x) = 0, NEW y, y = CutWindow(x)
  PROVE  /\ y = [x EXCEPT !.start = x.start + Window]
         /\ y.start = x.start + Window /\ y.lastEvent = x.lastEvent
         /\ y.resets = x.resets /\ y.discarded = x.discarded /\ y.missing = x.missing
         /\ y.prevBatch = x.prevBatch /\ y.prevRos = x.prevRos /\ y.nonzero = x.nonzero
         /\ y.events = x.events /\ y.id = x.id /\ y.done = x.done
<1>1. y = [x EXCEPT !.start = x.start + Window]
  BY DEF CutWindow, Buffer
<1> QED
  BY <1>1 DEF Buffer

\* One round of the loop: a window with its n events
FirstWindow(x, n) ==
  [id |-> x.id + 1, start |-> x.start, first |-> x.events[1], last |-> x.events[n],
   count |-> n, resets |-> x.resets]
CutOff(x, y, e, w) ==
  /\ y = [x EXCEPT !.start = x.start + Window, !.events = e, !.id = x.id + 1,
                   !.done = Append(x.done, w)]
  /\ y.start = x.start + Window /\ y.lastEvent = x.lastEvent
  /\ y.resets = x.resets /\ y.discarded = x.discarded /\ y.missing = x.missing
  /\ y.prevBatch = x.prevBatch /\ y.prevRos = x.prevRos /\ y.nonzero = x.nonzero
  /\ y.events = e /\ y.id = x.id + 1 /\ y.done = Append(x.done, w)

LEMMA CutFull ==
  ASSUME NEW x \in Buffer, Cut(x) # 0
  PROVE  CutOff(x, CutWindow(x), SubSeq(x.events, Cut(x) + 1, Len(x.events)),
                FirstWindow(x, Cut(x)))
<1>0. PICK n, y, e, w : /\ n = Cut(x) /\ y = CutWindow(x)
                        /\ e = SubSeq(x.events, n + 1, Len(x.events))
                        /\ w = FirstWindow(x, n)
  OBVIOUS
<1>1. PICK d : d = Append(x.done, w)
  OBVIOUS
<1>2. y = [x EXCEPT !.start = x.start + Window, !.events = e, !.id = x.id + 1, !.done = d]
  BY <1>0, <1>1 DEF CutWindow, Buffer, FirstWindow
<1>3. /\ y.start = x.start + Window /\ y.lastEvent = x.lastEvent
      /\ y.resets = x.resets /\ y.discarded = x.discarded /\ y.missing = x.missing
      /\ y.prevBatch = x.prevBatch /\ y.prevRos = x.prevRos /\ y.nonzero = x.nonzero
      /\ y.events = e /\ y.id = x.id + 1 /\ y.done = d
  BY <1>2 DEF Buffer
<1>4. CutOff(x, y, e, w)
  BY <1>1, <1>2, <1>3 DEF CutOff
<1> QED
  BY <1>0, <1>4

\* What a round leaves of the events
Behindhand(x, y) ==
  /\ y.start = x.start + Window /\ y.lastEvent = x.lastEvent
  /\ Len(y.events) > 0 /\ y.events[Len(y.events)] = x.events[Len(x.events)]

\* A window without an event is passed over.
LEMMA RoundEmpty ==
  ASSUME NEW x, NEW h, NEW seg, Len(seg) \in Nat, Steps(h, seg), NEW k,
         Pend(x, h, seg, k), Cut(x) = 0, Len(x.events) > 0, x.start \in Nat,
         NEW y, y = CutWindow(x)
  PROVE  Pend(y, h, seg, k) /\ Behindhand(x, y)
<1>1. x \in Buffer /\ Remain(x)
  BY DEF Pend, Pending
<1>2. /\ y = [x EXCEPT !.start = x.start + Window]
      /\ y.start = x.start + Window /\ y.lastEvent = x.lastEvent
      /\ y.resets = x.resets /\ y.discarded = x.discarded /\ y.missing = x.missing
      /\ y.prevBatch = x.prevBatch /\ y.prevRos = x.prevRos /\ y.nonzero = x.nonzero
      /\ y.events = x.events /\ y.id = x.id /\ y.done = x.done
  BY <1>1, CutEmpty
<1>3. Len(x.events) \in Nat /\ DOMAIN x.events = 1..Len(x.events)
      /\ \A i \in 1..Len(x.events) : x.events[i] \in Nat
  BY <1>1, BufferTyped
<1>4. y \in Buffer
  <2>1. x.start + Window \in Nat
    BY Constants
  <2> QED
    BY <1>1, <1>2, <2>1 DEF Buffer
<1>5. ~InWindow(x, x.events[1])
  <2>1. 0 < Len(x.events) /\ 0 + 1 = 1
    OBVIOUS
  <2> QED
    BY <1>1, <2>1, CutIs
<1>6. Remain(y)
  <2>1. ASSUME NEW i \in DOMAIN x.events PROVE x.start + Window <= x.events[i]
    <3>1. x.start + Window <= x.events[1] /\ 1 \in DOMAIN x.events
      BY <1>3, <1>5, Constants DEF InWindow
    <3>2. x.events[1] <= x.events[i]
      <4>1. CASE i = 1
        BY <1>3, <2>1, <4>1
      <4>2. CASE i # 1
        <5>1. 1 < i
          BY <1>3, <2>1, <4>2
        <5> QED
          BY <1>1, <2>1, <3>1, <5>1 DEF Remain
      <4> QED
        BY <4>1, <4>2
    <3> QED
      BY <1>3, <2>1, <3>1, <3>2, Constants
  <2> QED
    BY <1>1, <1>2, <2>1 DEF Remain
<1>7. \E m \in Nat \ {0} : y.start = h[k].start + Window * m
  <2>1. PICK m \in Nat \ {0} : x.start = h[k].start + Window * m
    BY DEF Pend, Pending
  <2>2. h[k].start \in Nat
    BY DEF Pend, Steps
  <2>3. PICK w, s : w = Window /\ s = h[k].start
    OBVIOUS
  <2>4. w \in Nat /\ s \in Nat
    BY <2>2, <2>3, Constants
  <2>5. w * (m + 1) = w * m + w /\ w * m \in Nat /\ m + 1 \in Nat \ {0}
    BY <2>4
  <2>6. s + w * m + w = s + w * (m + 1)
    BY <2>4, <2>5
  <2> QED
    BY <1>2, <2>1, <2>3, <2>5, <2>6
<1>8. Pending(y, h[k]) /\ Left(y, 0, seg, k)
  BY <1>2, <1>4, <1>6, <1>7 DEF Pend, Pending, SameCounts, Left
<1> QED
  BY <1>2, <1>8 DEF Pend, Behindhand

\* The window is cut off when all its events have been routed.
LEMMA RoundFilled ==
  ASSUME NEW x, NEW h, NEW seg, Len(seg) \in Nat, Steps(h, seg), NEW k, NEW n,
         Fill(x, h, seg, k, n), n = Cut(x), n > 0, n < Len(x.events), x.start \in Nat,
         NEW y, y = CutWindow(x)
  PROVE  Pend(y, h, seg, k) /\ Behindhand(x, y)
<1>1. PICK g, l, e, w : /\ g = h[k] /\ l = Len(x.events) /\ w = FirstWindow(x, n)
                        /\ e = SubSeq(x.events, n + 1, Len(x.events))
  OBVIOUS
<1>2. /\ x \in Buffer /\ Remain(x) /\ g \in Router /\ g.start \in Nat /\ n = g.win.count
      /\ Filling(x, g, n) /\ n \in Nat /\ n # 0 /\ k \in 0..Len(seg)
      /\ Completed(g) \in Finished
  <2>1. Filling(x, g, n) /\ k \in 0..Len(seg) /\ n \in Nat
    BY <1>1 DEF Fill
  <2>2. n = g.win.count
    BY <2>1 DEF Filling
  <2>3. g \in Router /\ g.start \in Nat /\ Completed(g) \in Finished
    BY <1>1, <2>1, <2>2 DEF Steps
  <2> QED
    BY <2>1, <2>2, <2>3 DEF Filling
<1>3. /\ y = [x EXCEPT !.start = x.start + Window, !.events = e, !.id = x.id + 1,
                       !.done = Append(x.done, w)]
      /\ y.start = x.start + Window /\ y.lastEvent = x.lastEvent
      /\ y.resets = x.resets /\ y.discarded = x.discarded /\ y.missing = x.missing
      /\ y.prevBatch = x.prevBatch /\ y.prevRos = x.prevRos /\ y.nonzero = x.nonzero
      /\ y.events = e /\ y.id = x.id + 1 /\ y.done = Append(x.done, w)
  <2>1. CutOff(x, y, e, w)
    BY <1>1, <1>2, CutFull
  <2> QED
    BY <2>1 DEF CutOff
<1>4. /\ l \in Nat /\ DOMAIN x.events = 1..l /\ x.done \in Seq(Outlined)
      /\ \A i \in 1..l : x.events[i] \in 0..MaxTime /\ x.events[i] \in Nat
      /\ x.id \in Nat /\ x.resets \in Nat /\ n < l
  BY <1>1, <1>2, BufferTyped
<1>5. w = Outline(Completed(g)) /\ w \in Outlined
  <2>1. /\ x.id = g.id /\ x.start = g.start /\ x.resets = g.resets
        /\ g.win.first = x.events[1] /\ g.win.last = x.events[n]
    BY <1>2 DEF Filling, SameCounts
  <2>2. w = Outline(Completed(g))
    BY <1>1, <1>2, <2>1 DEF Outline, Completed, FirstWindow
  <2>3. x.events[1] \in 0..MaxTime /\ x.events[n] \in 0..MaxTime /\ x.id + 1 \in Nat
    <3>1. 1 \in 1..l /\ n \in 1..l
      BY <1>2, <1>4
    <3> QED
      BY <1>4, <3>1
  <2>4. w \in Outlined
    BY ONLY <1>1, <1>2, <1>4, <2>3, x.start \in Nat DEF Outlined, FirstWindow
  <2> QED
    BY <2>2, <2>4
<1>6. /\ e \in Seq(0..MaxTime) /\ Len(e) = l - n
      /\ \A i \in 1..(l - n) : e[i] = x.events[n + i]
  <2>1. \A i \in (n + 1)..l : i \in 1..l
    BY <1>2, <1>4
  <2>2. \A i \in (n + 1)..l : x.events[i] \in 0..MaxTime
    BY <1>4, <2>1
  <2>3. PICK m, d : m = n + 1 /\ d = l - n
    OBVIOUS
  <2>4. m \in Int /\ l \in Int /\ m <= l /\ l - m + 1 = d
        /\ \A i \in 1..d : m + i - 1 = n + i
    <3>1. n \in Nat /\ l \in Nat /\ n < l
      BY <1>2, <1>4
    <3>2. m \in Int /\ l \in Int /\ d \in Int /\ n \in Int
      BY ONLY <2>3, <3>1
    <3>3. m <= l /\ l - m + 1 = d
      BY ONLY <2>3, <3>1
    <3>4. \A i \in 1..d : m + i - 1 = n + i
      BY ONLY <2>3, <3>1
    <3> QED
      BY ONLY <3>2, <3>3, <3>4
  <2>5. e = SubSeq(x.events, m, l) /\ \A i \in m..l : x.events[i] \in 0..MaxTime
    BY <1>1, <2>2, <2>3
  <2>6. /\ e \in Seq(0..MaxTime) /\ Len(e) = l - m + 1
        /\ \A i \in 1..(l - m + 1) : e[i] = x.events[m + i - 1]
    BY <2>4, <2>5, SubSeqProperties
  <2> QED
    BY <2>3, <2>4, <2>6
<1>7. y \in Buffer
  <2>1. x.start + Window \in Nat /\ x.id + 1 \in Nat /\ Append(x.done, w) \in Seq(Outlined)
    BY <1>4, <1>5, Constants, AppendProperties
  <2> QED
    BY <1>2, <1>3, <1>6, <2>1 DEF Buffer
<1>8. Remain(y)
  <2>1. DOMAIN e = 1..(l - n) /\ y.events = e
    BY <1>3, <1>6, LenProperties
  <2>2. x.start + Window <= x.events[n + 1] /\ n + 1 \in 1..l
    <3>1. ~InWindow(x, x.events[n + 1])
      BY <1>1, <1>2, <1>4, CutIs
    <3>2. n + 1 \in 1..l
      BY <1>2, <1>4
    <3> QED
      BY <1>4, <3>1, <3>2, Constants DEF InWindow
  <2>3. ASSUME NEW i \in 1..(l - n)
        PROVE  x.start + Window <= e[i] /\ n + i \in 1..l /\ e[i] = x.events[n + i]
    <3>1. n + i \in 1..l /\ i \in Nat
      BY <1>2, <1>4, <2>3
    <3>2. x.events[n + 1] <= x.events[n + i]
      <4>1. CASE i = 1
        BY <1>4, <2>2, <4>1
      <4>2. CASE i # 1
        <5>1. n + 1 < n + i
          BY <1>2, <2>3, <4>2
        <5> QED
          BY <1>2, <1>4, <2>2, <3>1, <5>1 DEF Remain
      <4> QED
        BY <4>1, <4>2
    <3>3. e[i] = x.events[n + i] /\ x.events[n + 1] \in Nat /\ x.events[n + i] \in Nat
      BY <1>4, <1>6, <2>2, <2>3, <3>1
    <3> QED
      BY <2>2, <3>1, <3>2, <3>3, Constants
  <2>4. ASSUME NEW i \in 1..(l - n), NEW j \in 1..(l - n), i < j PROVE e[i] <= e[j]
    <3>1. n + i < n + j
      BY <1>2, <1>4, <2>4
    <3> QED
      BY <1>2, <1>4, <2>3, <2>4, <3>1 DEF Remain
  <2> QED
    BY <1>3, <2>1, <2>3, <2>4 DEF Remain
<1>9. \E m \in Nat \ {0} : y.start = g.start + Window * m
  <2>1. Window * 1 = Window /\ x.start = g.start /\ 1 \in Nat \ {0}
    BY <1>2, Constants DEF Filling
  <2> QED
    BY <1>3, <2>1
<1>10. Pending(y, g)
  BY <1>2, <1>3, <1>5, <1>7, <1>8, <1>9 DEF Pending, Filling, SameCounts
<1>11. Left(y, 0, seg, k)
  <2>1. l - n = Len(seg) - k /\ \A q \in 1..(l - n) : x.events[n + q] = seg[k + q]
    BY <1>1 DEF Fill, Left
  <2>2. \A q \in 1..(l - n) : 0 + q = q
    BY <1>2, <1>4
  <2>3. \A q \in 1..(l - n) : e[0 + q] = seg[k + q]
    BY <1>6, <2>1, <2>2
  <2>4. Len(e) - 0 = Len(seg) - k
    BY <1>2, <1>4, <1>6, <2>1
  <2> QED
    BY <1>3, <2>1, <2>3, <2>4 DEF Left
<1>12. Behindhand(x, y)
  <2>1. l - n \in 1..(l - n) /\ n + (l - n) = l /\ l - n > 0
    BY <1>2, <1>4
  <2>2. e[l - n] = x.events[l]
    BY <1>6, <2>1
  <2> QED
    BY <1>1, <1>3, <1>6, <2>1, <2>2 DEF Behindhand
<1> QED
  BY <1>1, <1>2, <1>10, <1>11, <1>12 DEF Pend

\* The first event behind the window cut off opens the next one.
LEMMA FillFirst ==
  ASSUME NEW x, NEW h, NEW seg, Len(seg) \in Nat, Steps(h, seg), NEW k,
         Pend(x, h, seg, k), Len(x.events) > 0, InWindow(x, x.events[1])
  PROVE  Fill(x, h, seg, k + 1, 1)
<1>1. PICK g : g = h[k]
  OBVIOUS
<1>2. /\ x \in Buffer /\ Len(x.events) \in Nat /\ k \in 0..Len(seg)
      /\ Len(x.events) - 0 = Len(seg) - k
      /\ \A q \in 1..(Len(seg) - k) : x.events[0 + q] = seg[k + q]
      /\ Pending(x, g) /\ g.win.count > 0
      /\ g \in Router /\ g.start \in Nat /\ Completed(g) \in Finished
  <2>1. x \in Buffer /\ k \in 0..Len(seg) /\ Pending(x, g) /\ g.win.count > 0
    BY <1>1 DEF Pend, Pending
  <2>2. g \in Router /\ g.start \in Nat /\ Completed(g) \in Finished
    BY <1>1, <2>1 DEF Steps
  <2> QED
    BY <2>1, <2>2, BufferTyped DEF Pend, Left
<1>3. k + 1 \in 1..Len(seg) /\ k + 1 \in 0..Len(seg) /\ (k + 1) - 1 = k
      /\ 1 \in 1..(Len(seg) - k) /\ 0 + 1 = 1 /\ 1 \in Nat
  BY <1>2
<1>4. x.events[1] = seg[k + 1]
  BY <1>2, <1>3
<1>5. h[k + 1] = Step(g, x.events[1])
  BY <1>1, <1>3, <1>4 DEF Steps
<1>6. Filling(x, h[k + 1], 1)
  BY <1>2, <1>5, PendNext
<1>7. Left(x, 1, seg, k + 1)
  <2>1. Len(x.events) - 1 = Len(seg) - (k + 1)
    BY <1>2
  <2>2. \A q \in 1..(Len(seg) - (k + 1)) : x.events[1 + q] = seg[(k + 1) + q]
    <3> SUFFICES ASSUME NEW q \in 1..(Len(seg) - (k + 1))
                 PROVE  x.events[1 + q] = seg[(k + 1) + q]
      OBVIOUS
    <3>1. q + 1 \in 1..(Len(seg) - k) /\ 1 + q = 0 + (q + 1)
          /\ (k + 1) + q = k + (q + 1)
      <4>1. k \in Nat /\ Len(seg) \in Nat /\ q \in Nat /\ q <= Len(seg) - (k + 1)
        BY <1>2
      <4> QED
        BY ONLY <4>1
    <3>2. x.events[0 + (q + 1)] = seg[k + (q + 1)]
      BY <1>2, <3>1, Zenon
    <3> QED
      BY <3>1, <3>2, Zenon
  <2> QED
    BY <2>1, <2>2 DEF Left
<1> QED
  BY <1>3, <1>6, <1>7 DEF Fill

\* Where the two stand before a round
Top(x, h, seg) ==
  \/ \E k, i : Fill(x, h, seg, k, i) /\ (i = 0 => InWindow(x, x.events[1]))
  \/ \E k : Pend(x, h, seg, k)

\* The events in the buffer end with the last one seen.
Ended(x) ==
  x.start \in Nat /\ Len(x.events) > 0 /\ x.events[Len(x.events)] = x.lastEvent

\* As many events as the window holds can be routed.
LEMMA FillTo ==
  ASSUME NEW x, NEW h, NEW seg, Len(seg) \in Nat, Steps(h, seg), Top(x, h, seg),
         NEW n \in Nat \ {0}, n <= Len(x.events),
         \A j \in 1..n : InWindow(x, x.events[j]),
         n < Len(x.events) => ~InWindow(x, x.events[n + 1])
  PROVE  \E k : Fill(x, h, seg, k, n)
<1>1. 1 \in 1..n /\ n \in Nat /\ 1 <= n
  OBVIOUS
<1>2. CASE \E k, i : Fill(x, h, seg, k, i)
  <2>1. PICK k, i : Fill(x, h, seg, k, i)
    BY <1>2
  <2>2. i \in Nat /\ i <= Len(x.events) /\ \A j \in 1..i : InWindow(x, x.events[j])
        /\ Len(x.events) \in Nat
    <3>1. x \in Buffer
      BY <2>1 DEF Fill, Filling
    <3> QED
      BY <2>1, <3>1, BufferTyped DEF Fill, Filling
  <2>3. i <= n
    <3> SUFFICES ASSUME n < i PROVE FALSE
      BY <1>1, <2>2
    <3>1. n + 1 \in 1..i /\ n < Len(x.events)
      BY <1>1, <2>2
    <3> QED
      BY <2>2, <3>1
  <2> QED
    BY <1>1, <2>1, <2>3, FillAll
<1>3. CASE \E k : Pend(x, h, seg, k)
  <2>1. PICK k : Pend(x, h, seg, k)
    BY <1>3
  <2>2. Len(x.events) > 0 /\ InWindow(x, x.events[1])
    <3>1. x \in Buffer
      BY <2>1 DEF Pend, Pending
    <3>2. Len(x.events) \in Nat
      BY <3>1, BufferTyped
    <3> QED
      BY <1>1, <3>2
  <2>3. PICK k1 : k1 = k + 1
    OBVIOUS
  <2>4. Fill(x, h, seg, k1, 1)
    BY <2>1, <2>2, <2>3, FillFirst
  <2> QED
    BY <1>1, <2>4, FillAll
<1> QED
  BY <1>2, <1>3 DEF Top

LEMMA TopTyped ==
  ASSUME NEW x, NEW h, NEW seg, Top(x, h, seg)
  PROVE  x \in Buffer /\ Remain(x)
BY DEF Top, Fill, Pend, Filling, Pending

\* A round of the loop, while the last event is behind the window
LEMMA Round ==
  ASSUME NEW x, NEW h, NEW seg, Len(seg) \in Nat, Steps(h, seg), Top(x, h, seg),
         Ended(x), x.lastEvent >= x.start + Window, NEW y, y = CutWindow(x)
  PROVE  Top(y, h, seg) /\ Ended(y) /\ y.start = x.start + Window
         /\ y.lastEvent = x.lastEvent
<1>1. PICK n, l : n = Cut(x) /\ l = Len(x.events)
  OBVIOUS
<1>2. x \in Buffer
  BY TopTyped
<1>3. /\ n \in 0..l /\ l \in Nat /\ \A j \in 1..n : InWindow(x, x.events[j])
      /\ n < l => ~InWindow(x, x.events[n + 1])
  BY <1>1, <1>2, CutIs, BufferTyped
<1>4. /\ x.start \in Nat /\ l > 0 /\ x.events[l] = x.lastEvent /\ ~InWindow(x, x.events[l])
  <2>1. x.start \in Nat /\ l > 0 /\ x.events[l] = x.lastEvent
    BY <1>1 DEF Ended
  <2>2. l \in 1..l
    BY <1>3, <2>1
  <2>3. x.events[l] \in Nat
    BY <1>1, <1>2, <2>2, BufferTyped
  <2> QED
    BY <2>1, <2>3, Constants DEF InWindow
<1>5. n < l
  <2>1. n # l \/ ~(l \in 1..n)
    BY <1>3, <1>4
  <2> QED
    BY <1>3, <1>4, <2>1
<1>6. (\E k : Pend(y, h, seg, k)) /\ Behindhand(x, y)
  <2>1. CASE n = 0
    <3>1. ~InWindow(x, x.events[1])
      <4>1. n + 1 = 1
        BY <2>1
      <4> QED
        BY <1>3, <1>5, <4>1
    <3>2. ~\E k, i : Fill(x, h, seg, k, i) /\ (i = 0 => InWindow(x, x.events[1]))
      <4> SUFFICES ASSUME NEW k, NEW i, Fill(x, h, seg, k, i), i # 0 PROVE FALSE
        BY <3>1
      <4>1. i \in Nat /\ \A j \in 1..i : InWindow(x, x.events[j])
        BY DEF Fill, Filling
      <4>2. 1 \in 1..i
        BY <4>1
      <4> QED
        BY <3>1, <4>1, <4>2
    <3>3. PICK k : Pend(x, h, seg, k)
      BY <3>2 DEF Top
    <3>4. Cut(x) = 0 /\ Len(x.events) > 0 /\ x.start \in Nat
      BY <1>1, <1>4, <2>1
    <3>5. Pend(y, h, seg, k) /\ Behindhand(x, y)
      BY <3>3, <3>4, RoundEmpty
    <3> QED
      BY <3>5
  <2>2. CASE n # 0
    <3>1. n \in Nat \ {0} /\ n <= Len(x.events) /\ n < Len(x.events) /\ n > 0
      BY <1>1, <1>3, <1>5, <2>2
    <3>2. PICK k : Fill(x, h, seg, k, n)
      BY <1>1, <1>3, <3>1, FillTo
    <3>3. Pend(y, h, seg, k) /\ Behindhand(x, y)
      BY <1>1, <1>4, <3>1, <3>2, RoundFilled
    <3> QED
      BY <3>3
  <2> QED
    BY <2>1, <2>2
<1>7. Top(y, h, seg)
  BY <1>6 DEF Top
<1>8. x.start + Window \in Nat
  BY <1>4, Constants
<1> QED
  BY <1>1, <1>4, <1>6, <1>7, <1>8 DEF Ended, Behindhand

\* Then all events are routed.
LEMMA LastRound ==
  ASSUME NEW x, NEW h, NEW seg, Len(seg) \in Nat, Steps(h, seg), Top(x, h, seg),
         Ended(x), x.lastEvent < x.start + Window
  PROVE  Filling(x, h[Len(seg)], Len(x.events))
<1>1. PICK l : l = Len(x.events)
  OBVIOUS
<1>2. x \in Buffer /\ Remain(x)
  BY TopTyped
<1>3. /\ l \in Nat \ {0} /\ x.start \in Nat /\ x.events[l] = x.lastEvent /\ l \in 1..l
      /\ DOMAIN x.events = 1..l /\ \A i \in 1..l : x.events[i] \in Nat
  <2>1. l > 0 /\ x.start \in Nat /\ x.events[l] = x.lastEvent
    BY <1>1 DEF Ended
  <2>2. l \in Nat /\ DOMAIN x.events = 1..l /\ \A i \in 1..l : x.events[i] \in Nat
    BY <1>1, <1>2, BufferTyped
  <2> QED
    BY <2>1, <2>2
<1>4. ASSUME NEW j \in 1..l PROVE InWindow(x, x.events[j])
  <2>1. x.events[j] <= x.events[l]
    <3>1. CASE j = l
      BY <1>3, <3>1
    <3>2. CASE j # l
      <4>1. j < l
        BY <1>3, <1>4, <3>2
      <4> QED
        BY <1>2, <1>3, <1>4, <4>1 DEF Remain
    <3> QED
      BY <3>1, <3>2
  <2>2. x.events[j] \in Nat /\ x.events[l] \in Nat /\ x.events[l] < x.start + Window
    BY <1>3, <1>4
  <2> QED
    BY <1>3, <2>1, <2>2, Constants DEF InWindow
<1>5. l <= Len(x.events) /\ ~(l < Len(x.events))
  BY <1>1, <1>3
<1>6. PICK k : Fill(x, h, seg, k, l)
  BY <1>3, <1>4, <1>5, FillTo
<1>7. k \in 0..Len(seg) /\ l - l = Len(seg) - k
  BY <1>1, <1>6 DEF Fill, Left
<1>8. k = Len(seg)
  BY <1>3, <1>7
<1> QED
  BY <1>1, <1>6, <1>8 DEF Fill


\* All rounds of the loop: every event of the segment is routed.
LEMMA AllRounds ==
  ASSUME NEW b, NEW h, NEW seg, Len(seg) \in Nat, Steps(h, seg), Top(b, h, seg), Ended(b),
         b.start <= b.lastEvent, b.lastEvent \in Nat
  PROVE  LET c == CutAll(b)
         IN /\ Filling(c, h[Len(seg)], Len(c.events))
            /\ Ended(c) /\ c.lastEvent = b.lastEvent
<1>1. PICK d, n, w, s : /\ d = b.lastEvent - b.start /\ n = d \div Window
                        /\ w = Window /\ s = b.start
  OBVIOUS
<1>2. d \in Nat /\ w \in Nat \ {0} /\ s \in Nat /\ b.lastEvent = s + d
  BY <1>1, Constants DEF Ended
<1>3. n \in Nat /\ w * n <= d /\ d < w * n + w
  BY <1>1, <1>2, Division
<1>4. PICK f : /\ f[0] = b /\ \A k \in 1..n : f[k] = CutWindow(f[k - 1])
               /\ CutAll(b) = f[n]
  <2>1. n = (b.lastEvent - b.start) \div Window
    BY <1>1
  <2> QED
    BY <1>3, <2>1, CutAllIs
<1> DEFINE At(x, k) == /\ Top(x, h, seg) /\ Ended(x) /\ x.lastEvent = b.lastEvent
                       /\ x.start = s + w * k
           S == {k \in Nat : k <= n => At(f[k], k)}
<1>5. 0 \in S
  <2>1. s + w * 0 = s
    BY <1>2
  <2> QED
    BY <1>1, <1>4, <2>1
<1>6. ASSUME NEW k \in S PROVE k + 1 \in S
  <2> SUFFICES ASSUME k + 1 <= n PROVE At(f[k + 1], k + 1)
    OBVIOUS
  <2>1. k \in Nat /\ k + 1 \in 1..n /\ (k + 1) - 1 = k /\ k <= n
    BY <1>3
  <2>2. At(f[k], k)
    BY <2>1
  <2>3. PICK x, y : x = f[k] /\ y = f[k + 1]
    OBVIOUS
  <2>4. y = CutWindow(x)
    BY <1>4, <2>1, <2>3
  <2>5. w * k + w <= w * n /\ w * (k + 1) = w * k + w /\ w * k \in Nat /\ w * n \in Nat
    <3>1. PICK j : j = n - (k + 1)
      OBVIOUS
    <3>2. j \in Nat /\ n = k + 1 + j
      BY <1>3, <2>1, <3>1
    <3>3. w * n = w * k + w + w * j /\ w * j \in Nat /\ w * k \in Nat
          /\ w * (k + 1) = w * k + w
      BY ONLY <1>2, <2>1, <3>2
    <3> QED
      BY <1>2, <3>3
  <2>6. x.lastEvent >= x.start + Window
    <3>1. x.lastEvent = s + d /\ x.start = s + w * k /\ Window = w
      BY <1>1, <1>2, <2>2, <2>3
    <3>2. s + d >= s + w * k + w
      BY ONLY <1>2, <1>3, <2>5
    <3> QED
      BY <3>1, <3>2
  <2>7. Top(x, h, seg) /\ Ended(x) /\ x.lastEvent = b.lastEvent /\ x.start = s + w * k
    BY <2>2, <2>3
  <2>8. Top(y, h, seg) /\ Ended(y) /\ y.start = x.start + Window
        /\ y.lastEvent = x.lastEvent
    BY <2>4, <2>6, <2>7, Round
  <2>9. y.start = s + w * (k + 1)
    <3>1. y.start = s + w * k + w
      BY <1>1, <2>7, <2>8
    <3> QED
      BY <1>2, <2>5, <3>1
  <2> QED
    BY <2>3, <2>7, <2>8, <2>9
<1>7. S = Nat
  <2> HIDE DEF S
  <2>1. S \in SUBSET Nat
    BY DEF S
  <2> QED
    BY <1>5, <1>6, <2>1, SetInduction
<1>8. At(f[n], n)
  BY <1>3, <1>7
<1>9. PICK c : c = f[n]
  OBVIOUS
<1>10. Top(c, h, seg) /\ Ended(c) /\ c.lastEvent = b.lastEvent /\ c.start = s + w * n
  BY <1>8, <1>9
<1>11. c.lastEvent < c.start + Window
  <2>0. w * n \in Nat
    BY ONLY <1>2, <1>3
  <2>1. c.lastEvent = s + d /\ c.start = s + w * n /\ Window = w /\ w * n \in Nat
    BY <1>1, <1>2, <1>10, <2>0, Zenon
  <2>2. s + d < s + w * n + w
    BY ONLY <1>2, <1>3, <2>1
  <2> QED
    BY <2>1, <2>2
<1>12. Filling(c, h[Len(seg)], Len(c.events))
  BY <1>10, <1>11, LastRound
<1> QED
  BY <1>4, <1>9, <1>10, <1>12

-----------------------------------------------------------------------------
(* A segment                                                                *)

LEMMA BufResetIs ==
  ASSUME NEW b \in Buffer, NEW a, a = BufReset(b)
  PROVE  /\ a \in Buffer /\ a.events = <<>> /\ a.start = None /\ a.lastEvent = None
         /\ a.id = b.id /\ a.resets = b.resets + 1
         /\ a.discarded = b.discarded + Len(b.events) /\ a.missing = b.missing
         /\ a.prevBatch = b.prevBatch /\ a.prevRos = b.prevRos /\ a.nonzero = b.nonzero
         /\ a.done = b.done
<1>1. PICK n, m : n = b.discarded + Len(b.events) /\ m = b.resets + 1
  OBVIOUS
<1>2. a = [b EXCEPT !.discarded = n, !.events = <<>>, !.start = None, !.lastEvent = None,
                    !.resets = m]
  BY <1>1 DEF BufReset, Buffer
<1>3. n \in Nat /\ m \in Nat /\ <<>> \in Seq(0..MaxTime) /\ None \in None..MaxTime
  <2>1. Len(b.events) \in Nat /\ b.discarded \in Nat /\ b.resets \in Nat
    BY BufferTyped DEF Buffer
  <2> QED
    BY <1>1, <2>1, Constants DEF None
<1> QED
  BY <1>1, <1>2, <1>3 DEF Buffer

\* The router and the buffer after a reset
LEMMA ResetBetween ==
  ASSUME NEW b, NEW r, Between(b, r), r \in Router
  PROVE  Between(BufReset(b), Reset(r))
<1>1. PICK a, g : a = BufReset(b) /\ g = Reset(r)
  OBVIOUS
<1>2. b \in Buffer
  BY DEF Between
<1>3. /\ a \in Buffer /\ a.events = <<>> /\ a.start = None /\ a.lastEvent = None
      /\ a.id = b.id /\ a.resets = b.resets + 1
      /\ a.discarded = b.discarded + Len(b.events) /\ a.missing = b.missing
      /\ a.prevBatch = b.prevBatch /\ a.prevRos = b.prevRos /\ a.nonzero = b.nonzero
      /\ a.done = b.done
  BY <1>1, <1>2, BufResetIs
<1>4. /\ g.start = None /\ g.lastEvent = None /\ g.win = NewWindow /\ g.resets = r.resets + 1
      /\ g.discarded = r.discarded + r.win.count /\ g.done = r.done /\ g.id = r.id
      /\ g.missing = r.missing /\ g.prevBatch = r.prevBatch /\ g.prevRos = r.prevRos
      /\ g.nonzero = r.nonzero
  BY <1>1, <1>2 DEF Reset, Router
<1>5. Remain(a)
  BY <1>3 DEF Remain
<1>6. SameCounts(a, g)
  BY <1>3, <1>4 DEF Between, SameCounts
<1>7. Len(a.events) = g.win.count
  BY <1>3, <1>4, NewWindowTyped
<1>8. \A i \in DOMAIN a.events : InWindow(a, a.events[i])
  BY <1>3
<1>9. a.id = g.id /\ a.lastEvent = g.lastEvent /\ a.done = Outlines(g.done)
  BY <1>3, <1>4 DEF Between
<1> QED
  BY <1>1, <1>3, <1>5, <1>6, <1>7, <1>8, <1>9 DEF Between

\* The two once a window is open for an event at t
Opened(a, g, t) ==
  /\ a \in Buffer /\ Remain(a) /\ SameCounts(a, g) /\ a.id = g.id
  /\ a.start = g.start /\ a.start \in 0..t /\ a.done = Outlines(g.done)
  /\ Len(a.events) = g.win.count
  /\ \A i \in DOMAIN a.events : InWindow(a, a.events[i])
  /\ IF a.events = <<>> THEN a.start = t
     ELSE /\ a.events[1] = g.win.first /\ a.events[Len(a.events)] = g.win.last
          /\ a.events[Len(a.events)] <= t

LEMMA OpenedStart ==
  ASSUME NEW b, NEW r, Between(b, r), Good(r), NEW t \in 0..MaxTime, r.start = None,
         NEW a, a = [b EXCEPT !.start = t], NEW g, g = [r EXCEPT !.start = t]
  PROVE  Opened(a, g, t)
<1>1. b \in Buffer /\ r \in Router /\ OpenInv(r)
  BY DEF Between, Good
<1>2. /\ a.events = b.events /\ a.start = t /\ a.id = b.id /\ a.resets = b.resets
      /\ a.discarded = b.discarded /\ a.missing = b.missing
      /\ a.prevBatch = b.prevBatch /\ a.prevRos = b.prevRos /\ a.nonzero = b.nonzero
      /\ a.done = b.done
  BY <1>1 DEF Buffer
<1>3. /\ g.win = r.win /\ g.start = t /\ g.id = r.id /\ g.resets = r.resets
      /\ g.discarded = r.discarded /\ g.missing = r.missing
      /\ g.prevBatch = r.prevBatch /\ g.prevRos = r.prevRos /\ g.nonzero = r.nonzero
      /\ g.done = r.done
  BY <1>1 DEF Router
<1>4. r.win.count = 0 /\ b.events = <<>>
  <2>1. r.win.count = 0 /\ Len(b.events) = 0
    BY <1>1 DEF OpenInv, Between
  <2>2. b.events \in Seq(0..MaxTime)
    BY <1>1, BufferTyped
  <2> QED
    BY <2>1, <2>2, EmptySeq
<1>5. t \in Nat /\ t \in 0..t
  OBVIOUS
<1>6. a \in Buffer
  BY <1>1, <1>5 DEF Buffer
<1>7. Remain(a) /\ SameCounts(a, g)
  BY <1>2, <1>3, <1>4 DEF Remain, Between, SameCounts
<1>8. a.done = Outlines(g.done) /\ Len(a.events) = g.win.count /\ a.id = g.id
  BY <1>2, <1>3 DEF Between
<1>9. \A i \in DOMAIN a.events : InWindow(a, a.events[i])
  BY <1>2, <1>4
<1> QED
  BY <1>2, <1>3, <1>4, <1>5, <1>6, <1>7, <1>8, <1>9 DEF Opened

\* _append_segment opens a window as the router does.
LEMMA OpenBoth ==
  ASSUME NEW b, NEW r, Between(b, r), Good(r), NEW t \in 0..MaxTime
  PROVE  Opened(BufOpen(b, t), Open(r, t), t)
<1>1. b \in Buffer /\ r \in Router /\ OpenInv(r) /\ DoneInv(r) /\ b.lastEvent = r.lastEvent
  BY DEF Between, Good
<1>2. TimeGap(b, t) <=> TimeGap(r, t)
  BY <1>1 DEF TimeGap
<1>3. CASE TimeGap(r, t)
  <2>1. PICK a, g : a = BufReset(b) /\ g = Reset(r)
    OBVIOUS
  <2>2. Between(a, g) /\ a.start = None
    BY <1>1, <2>1, ResetBetween, BufResetIs
  <2>3. Good(g) /\ g.start = None
    BY <1>1, <2>1, ResetKeeps DEF Good
  <2>4. BufOpen(b, t) = [a EXCEPT !.start = t] /\ Open(r, t) = [g EXCEPT !.start = t]
    BY <1>2, <1>3, <2>1, <2>2, <2>3 DEF BufOpen, Open
  <2> QED
    BY <2>2, <2>3, <2>4, OpenedStart
<1>4. CASE ~TimeGap(r, t) /\ r.start = None
  <2>1. b.start = None
    <3>1. r.win.count = 0 /\ Len(b.events) = 0
      BY <1>1, <1>4 DEF OpenInv, Between
    <3>2. b.events \in Seq(0..MaxTime)
      BY <1>1, BufferTyped
    <3>3. b.events = <<>>
      BY <3>1, <3>2, EmptySeq
    <3> QED
      BY <3>3 DEF Between
  <2>2. BufOpen(b, t) = [b EXCEPT !.start = t] /\ Open(r, t) = [r EXCEPT !.start = t]
    BY <1>2, <1>4, <2>1 DEF BufOpen, Open
  <2> QED
    BY <1>4, <2>2, OpenedStart
<1>5. CASE ~TimeGap(r, t) /\ r.start # None
  <2>1. r.win.count # 0 /\ r.win.count = Len(b.events) /\ Open(r, t) = r
    BY <1>1, <1>5 DEF OpenInv, Between, Open
  <2>2. b.events # <<>>
    BY <2>1
  <2>3. /\ b.start = r.start /\ b.events[1] = r.win.first
        /\ b.events[Len(b.events)] = b.lastEvent /\ r.win.last = r.lastEvent
    BY <1>1, <2>2 DEF Between, OpenInv
  <2>4. BufOpen(b, t) = b
    BY <1>2, <1>5, <2>3 DEF BufOpen
  <2>5. OpenAt(r, t)
    BY <1>1, <2>1, OpenKeeps
  <2>6. r.win.last <= t /\ r.start \in 0..t
    <3>1. r.win.count > 0
      BY <1>1, <2>1, WindowTyped
    <3> QED
      BY <2>5, <3>1 DEF OpenAt
  <2>7. /\ Remain(b) /\ SameCounts(b, r) /\ b.id = r.id /\ b.done = Outlines(r.done)
        /\ \A i \in DOMAIN b.events : InWindow(b, b.events[i])
    BY DEF Between
  <2> QED
    BY <1>1, <2>1, <2>2, <2>3, <2>4, <2>6, <2>7 DEF Opened
<1> QED
  BY <1>3, <1>4, <1>5


\* A segment as the code cuts it: in order and without a gap
Segmented(seg) ==
  /\ seg \in Seq(0..MaxTime) /\ Len(seg) > 0
  /\ \A k \in 1..(Len(seg) - 1) : seg[k] <= seg[k + 1] /\ seg[k + 1] - seg[k] <= MaxGap

LEMMA SegmentedTyped ==
  ASSUME NEW seg, Segmented(seg)
  PROVE  /\ Len(seg) \in Nat /\ 1 \in 1..Len(seg) /\ Len(seg) \in 1..Len(seg)
         /\ \A k \in 1..Len(seg) : seg[k] \in 0..MaxTime /\ seg[k] \in Nat
<1>1. seg \in Seq(0..MaxTime) /\ Len(seg) > 0
  BY DEF Segmented
<1>2. Len(seg) \in Nat /\ \A k \in 1..Len(seg) : seg[k] \in 0..MaxTime
  <2>1. Len(seg) \in Nat
    BY <1>1, LenProperties
  <2>2. \A k \in 1..Len(seg) : seg[k] \in 0..MaxTime
    BY ONLY <1>1, ElementOfSeq
  <2> QED
    BY <2>1, <2>2
<1>3. 1 \in 1..Len(seg) /\ Len(seg) \in 1..Len(seg)
  BY <1>1, <1>2
<1> QED
  BY <1>2, <1>3

LEMMA SegmentSorted ==
  ASSUME NEW seg, Segmented(seg)
  PROVE  \A i, j \in 1..Len(seg) : i < j => seg[i] <= seg[j]
<1>1. PICK l : l = Len(seg)
  OBVIOUS
<1>2. /\ l \in Nat /\ \A k \in 1..l : seg[k] \in Nat
      /\ \A k \in 1..(l - 1) : seg[k] <= seg[k + 1]
  BY <1>1, SegmentedTyped DEF Segmented
<1> DEFINE Up(d) == \A i \in 1..l : i + d <= l => seg[i] <= seg[i + d]
           S == {d \in Nat : Up(d)}
<1>3. 0 \in S
  <2>1. \A i \in 1..l : i + 0 = i /\ seg[i] <= seg[i]
    BY <1>2
  <2> QED
    BY <2>1
<1>4. ASSUME NEW d \in S PROVE d + 1 \in S
  <2> SUFFICES ASSUME NEW i \in 1..l, i + (d + 1) <= l PROVE seg[i] <= seg[i + (d + 1)]
    OBVIOUS
  <2>1. PICK j : j = i + d
    OBVIOUS
  <2>2. /\ d \in Nat /\ j \in 1..(l - 1) /\ j \in 1..l /\ j + 1 \in 1..l
        /\ i + (d + 1) = j + 1 /\ j <= l
    BY <1>2, <2>1
  <2>3. seg[i] <= seg[j]
    BY <2>1, <2>2
  <2>4. seg[j] <= seg[j + 1]
    BY <1>2, <2>2
  <2>5. seg[i] \in Nat /\ seg[j] \in Nat /\ seg[j + 1] \in Nat
    BY <1>2, <2>2
  <2> QED
    BY <2>2, <2>3, <2>4, <2>5
<1>5. S = Nat
  <2> HIDE DEF S
  <2>1. S \in SUBSET Nat
    BY DEF S
  <2> QED
    BY <1>3, <1>4, <2>1, SetInduction
<1>6. ASSUME NEW i \in 1..l, NEW j \in 1..l, i < j PROVE seg[i] <= seg[j]
  <2>1. j - i \in Nat /\ i + (j - i) = j
    BY <1>2, <1>6
  <2>2. Up(j - i)
    BY <1>5, <2>1
  <2> QED
    BY <1>2, <2>1, <2>2
<1> QED
  BY <1>1, <1>6

\* The router goes through the segment, starting with r.
Through(f, r, seg) ==
  /\ f[0] = r /\ \A k \in 0..Len(seg) : Good(f[k])
  /\ \A k \in 1..Len(seg) : f[k] = Route(f[k - 1], seg[k])

\* Its states once the window of the first event is open
Under(f, seg) ==
  [k \in 0..Len(seg) |-> IF k = 0 THEN Open(f[0], seg[1]) ELSE f[k]]

\* A window that can be finished
LEMMA CompletedTyped ==
  ASSUME NEW g \in Router, g.start \in Nat, g.win.count > 0, g.start <= g.win.first,
         g.win.first <= g.win.last, g.win.lossFirst = g.losses
  PROVE  Completed(g) \in Finished
<1>1. g.id \in Nat /\ g.resets \in Nat /\ g.losses \in Nat
  BY DEF Router
<1>2. g.win.count \in Nat \ {0} /\ g.win.first \in 0..MaxTime /\ g.win.last \in 0..MaxTime
  BY WindowTyped, Constants DEF None
<1>3. g.losses - g.win.lossFirst = 0
  BY <1>1
<1>4. g.start + Window \in Nat /\ g.id + 1 \in Nat
  BY <1>1, Constants
<1> QED
  BY <1>1, <1>2, <1>3, <1>4 DEF Completed, Finished

\* After an event the router's window is open.
LEMMA RouteLast ==
  ASSUME NEW r, Good(r), NEW t \in 0..MaxTime, NEW g, g = Route(r, t)
  PROVE  /\ g \in Router /\ g.lastEvent = t /\ g.win.count > 0 /\ g.start \in Nat
         /\ Completed(g) \in Finished
<1>1. Good(g)
  BY RouteKeeps
<1>2. g \in Router /\ OpenInv(g)
  BY <1>1 DEF Good
<1>3. PICK c : c = Advance(Open(r, t), t)
  OBVIOUS
<1>4. g = Put(c, t)
  BY <1>3 DEF Route
<1>5. c \in Router
  <2>1. r \in Router /\ OpenInv(r) /\ DoneInv(r)
    BY DEF Good
  <2>2. Open(r, t) \in Router /\ OpenAt(Open(r, t), t) /\ DoneInv(Open(r, t))
    BY <2>1, OpenKeeps
  <2> QED
    BY <1>3, <2>2, AdvanceKeeps
<1>6. g.lastEvent = t /\ g.win.count = c.win.count + 1
  BY <1>4, <1>5, RouterRecord, PutIs
<1>7. g.win.count > 0
  BY <1>5, <1>6, WindowTyped
<1>8. /\ g.start # None /\ g.start <= g.win.first /\ g.win.first <= g.win.last
      /\ g.win.lossFirst = g.losses
  BY <1>2, <1>7 DEF OpenInv
<1>9. g.start \in Nat
  BY <1>2, <1>8, Constants DEF Router, None
<1> QED
  BY <1>2, <1>6, <1>7, <1>8, <1>9, CompletedTyped

\* Within a segment no window is opened anew.
LEMMA StepsThrough ==
  ASSUME NEW f, NEW r, NEW seg, Segmented(seg), Through(f, r, seg)
  PROVE  Steps(Under(f, seg), seg)
<1>1. PICK h, l : h = Under(f, seg) /\ l = Len(seg)
  OBVIOUS
<1>2. /\ l \in Nat /\ 1 \in 1..l /\ \A k \in 1..l : seg[k] \in 0..MaxTime /\ seg[k] \in Nat
      /\ \A k \in 1..(l - 1) : seg[k] <= seg[k + 1] /\ seg[k + 1] - seg[k] <= MaxGap
      /\ \A k \in 0..l : Good(f[k])
      /\ \A k \in 1..l : f[k] = Route(f[k - 1], seg[k])
  BY <1>1, SegmentedTyped DEF Segmented, Through
<1>3. /\ 0 \in 0..l /\ h[0] = Open(f[0], seg[1])
      /\ \A k \in 1..l : k \in 0..l /\ h[k] = f[k] /\ k - 1 \in 0..l
  BY <1>1, <1>2 DEF Under
<1>4. /\ h[0] \in Router /\ h[0].start \in Nat
      /\ h[0].win.count > 0 => Completed(h[0]) \in Finished
  <2>1. f[0] \in Router /\ OpenInv(f[0]) /\ DoneInv(f[0])
    BY <1>2, <1>3 DEF Good
  <2>2. h[0] \in Router /\ OpenAt(h[0], seg[1])
    BY <1>2, <1>3, <2>1, OpenKeeps
  <2>3. h[0].start \in Nat
    BY <2>2 DEF OpenAt
  <2>4. h[0].win.count > 0 => Completed(h[0]) \in Finished
    BY <2>2, <2>3, CompletedTyped DEF OpenAt
  <2> QED
    BY <2>2, <2>3, <2>4
<1>5. ASSUME NEW k \in 1..l
      PROVE  /\ h[k] \in Router /\ h[k].lastEvent = seg[k] /\ h[k].win.count > 0
             /\ h[k].start \in Nat /\ Completed(h[k]) \in Finished
  <2>1. PICK r1, t, g : r1 = f[k - 1] /\ t = seg[k] /\ g = f[k]
    OBVIOUS
  <2>2. Good(r1) /\ t \in 0..MaxTime /\ g = Route(r1, t) /\ h[k] = g
    BY <1>2, <1>3, <1>5, <2>1
  <2>3. /\ g \in Router /\ g.lastEvent = t /\ g.win.count > 0 /\ g.start \in Nat
        /\ Completed(g) \in Finished
    BY <2>2, RouteLast
  <2> QED
    BY <2>1, <2>2, <2>3
<1>6. ASSUME NEW k \in 1..l PROVE h[k] = Step(h[k - 1], seg[k])
  <2>1. CASE k = 1
    <3>1. k - 1 = 0
      BY <2>1
    <3>2. f[1] = Route(f[0], seg[1])
      BY <1>2, <2>1, <3>1
    <3> QED
      BY <1>3, <2>1, <3>1, <3>2 DEF Route, Step
  <2>2. CASE k # 1
    <3>1. PICK j : j = k - 1
      OBVIOUS
    <3>2. j \in 1..l /\ j \in 1..(l - 1) /\ j + 1 = k
      BY <1>2, <1>6, <2>2, <3>1
    <3>3. PICK g, t : g = h[j] /\ t = seg[k]
      OBVIOUS
    <3>4. g.lastEvent = seg[j] /\ g.start \in Nat
      BY <1>5, <3>2, <3>3
    <3>5. ~(t < seg[j]) /\ ~(t - seg[j] > MaxGap) /\ g.start # None
      <4>1. seg[j] <= seg[k] /\ seg[k] - seg[j] <= MaxGap /\ seg[j] \in Nat /\ seg[k] \in Nat
        BY <1>2, <1>6, <3>2
      <4> QED
        BY <3>3, <3>4, <4>1, Constants DEF None
    <3>6. Open(g, t) = g
      BY <3>4, <3>5 DEF Open, TimeGap
    <3>7. h[k] = Route(g, t)
      BY <1>2, <1>3, <1>6, <3>1, <3>2, <3>3
    <3> QED
      BY <3>1, <3>3, <3>6, <3>7 DEF Route, Step
  <2> QED
    BY <2>1, <2>2
<1>7. \A k \in 0..l : k = 0 \/ k \in 1..l
  BY <1>2
<1> QED
  BY <1>1, <1>4, <1>5, <1>6, <1>7 DEF Steps


\* The segment behind the events of the open window
SegmentAt(x, g, m, seg) ==
  /\ x \in Buffer /\ Remain(x) /\ Ended(x) /\ Filling(x, g, m) /\ Left(x, m, seg, 0)
  /\ m = 0 => InWindow(x, x.events[1])
  /\ x.lastEvent = seg[Len(seg)] /\ x.start <= x.lastEvent

LEMMA SegmentBehind ==
  ASSUME NEW a, NEW g, NEW seg, Segmented(seg), Opened(a, g, seg[1]),
         NEW x, x = [a EXCEPT !.events = a.events \o seg, !.lastEvent = seg[Len(seg)]],
         NEW m, m = Len(a.events)
  PROVE  SegmentAt(x, g, m, seg)
<1>1. PICK l, e, t, v : l = Len(seg) /\ e = a.events \o seg /\ t = seg[1] /\ v = seg[l]
  OBVIOUS
<1>2. /\ l \in Nat /\ l > 0 /\ 1 \in 1..l /\ l \in 1..l
      /\ \A k \in 1..l : seg[k] \in 0..MaxTime /\ seg[k] \in Nat
      /\ \A i, j \in 1..l : i < j => seg[i] <= seg[j]
      /\ seg \in Seq(0..MaxTime)
  BY <1>1, SegmentedTyped, SegmentSorted DEF Segmented
<1>3. /\ a \in Buffer /\ m \in Nat /\ a.events \in Seq(0..MaxTime)
      /\ DOMAIN a.events = 1..m
      /\ \A i \in 1..m : a.events[i] \in 0..MaxTime /\ a.events[i] \in Nat
      /\ a.start \in 0..t /\ a.start \in Nat
  <2>1. a \in Buffer /\ a.start \in 0..t
    BY <1>1 DEF Opened
  <2>2. t \in Nat
    BY <1>1, <1>2
  <2> QED
    BY <2>1, <2>2, BufferTyped
<1>4. /\ e \in Seq(0..MaxTime) /\ Len(e) = m + l /\ DOMAIN e = 1..(m + l)
      /\ \A i \in 1..m : e[i] = a.events[i]
      /\ \A q \in 1..l : e[m + q] = seg[q]
  <2>1. /\ e \in Seq(0..MaxTime) /\ Len(e) = m + l
        /\ \A i \in 1..(m + l) : e[i] = IF i <= m THEN a.events[i] ELSE seg[i - m]
    BY <1>1, <1>2, <1>3, ConcatProperties
  <2>2. \A i \in 1..m : i \in 1..(m + l) /\ i <= m
    BY <1>2, <1>3
  <2>3. \A q \in 1..l : m + q \in 1..(m + l) /\ ~(m + q <= m) /\ (m + q) - m = q
    BY <1>2, <1>3
  <2> QED
    BY <2>1, <2>2, <2>3, LenProperties
<1>5. x = [a EXCEPT !.events = e, !.lastEvent = v]
  BY <1>1
<1>6. /\ x.events = e /\ x.lastEvent = v /\ x.start = a.start /\ x.id = a.id
      /\ x.resets = a.resets /\ x.discarded = a.discarded /\ x.missing = a.missing
      /\ x.prevBatch = a.prevBatch /\ x.prevRos = a.prevRos /\ x.nonzero = a.nonzero
      /\ x.done = a.done
  BY <1>3, <1>5 DEF Buffer
<1>7. x \in Buffer
  <2>1. v \in None..MaxTime
    BY <1>1, <1>2, Constants DEF None
  <2> QED
    BY <1>3, <1>4, <1>5, <2>1 DEF Buffer
<1>8. \A i \in 1..(m + l) : i \in 1..m \/ \E q \in 1..l : i = m + q
  <2> SUFFICES ASSUME NEW i \in 1..(m + l), i \notin 1..m PROVE \E q \in 1..l : i = m + q
    OBVIOUS
  <2>1. i - m \in 1..l /\ i = m + (i - m)
    BY <1>2, <1>3
  <2> QED
    BY <2>1
<1>9. \A i \in 1..m : e[i] <= t /\ a.start <= e[i]
  <2> SUFFICES ASSUME NEW i \in 1..m PROVE e[i] <= t /\ a.start <= e[i]
    OBVIOUS
  <2>1. a.events # <<>> /\ m \in 1..m
    BY <1>3
  <2>2. a.events[m] <= t
    BY <1>1, <2>1 DEF Opened
  <2>3. a.events[i] <= a.events[m]
    <3>1. CASE i = m
      BY <1>3, <3>1
    <3>2. CASE i # m
      <4>1. i < m
        BY <1>3, <3>2
      <4> QED
        BY <1>3, <2>1, <4>1 DEF Opened, Remain
    <3> QED
      BY <3>1, <3>2
  <2>4. a.start <= a.events[i]
    BY <1>3 DEF Opened, Remain
  <2>5. t \in Nat /\ a.events[i] \in Nat /\ a.events[m] \in Nat
    BY <1>1, <1>2, <1>3, <2>1
  <2> QED
    BY <1>4, <2>2, <2>3, <2>4, <2>5
<1>10. \A q \in 1..l : t <= seg[q]
  <2> SUFFICES ASSUME NEW q \in 1..l PROVE t <= seg[q]
    OBVIOUS
  <2>1. CASE q = 1
    BY <1>1, <1>2, <2>1
  <2>2. CASE q # 1
    <3>1. 1 < q
      BY <1>2, <2>2
    <3> QED
      BY <1>1, <1>2, <3>1
  <2> QED
    BY <2>1, <2>2
<1>11. t \in Nat /\ v \in Nat /\ t <= v /\ a.start <= t
  BY <1>1, <1>2, <1>3, <1>10
<1>12. \A i \in 1..(m + l) : e[i] \in Nat
  <2>1. \A i \in 1..Len(e) : e[i] \in 0..MaxTime
    BY ONLY <1>4, ElementOfSeq
  <2> QED
    BY <1>4, <2>1
<1>13. Remain(x)
  <2>1. ASSUME NEW i \in 1..(m + l) PROVE x.start <= e[i]
    <3>1. CASE i \in 1..m
      BY <1>6, <1>9, <3>1
    <3>2. CASE \E q \in 1..l : i = m + q
      <4>1. PICK q \in 1..l : i = m + q
        BY <3>2
      <4>2. e[i] = seg[q] /\ t <= seg[q] /\ seg[q] \in Nat
        BY <1>2, <1>4, <1>10, <4>1
      <4> QED
        BY <1>3, <1>6, <1>11, <4>2
    <3> QED
      BY <1>8, <3>1, <3>2
  <2>2. ASSUME NEW i \in 1..(m + l), NEW j \in 1..(m + l), i < j PROVE e[i] <= e[j]
    <3>1. CASE i \in 1..m /\ j \in 1..m
      BY <1>3, <1>4, <2>2, <3>1 DEF Opened, Remain
    <3>2. CASE i \in 1..m /\ \E q \in 1..l : j = m + q
      <4>1. PICK q \in 1..l : j = m + q
        BY <3>2
      <4>2. e[j] = seg[q] /\ t <= seg[q] /\ e[i] <= t
        BY <1>4, <1>9, <1>10, <3>2, <4>1
      <4> QED
        BY <1>11, <1>12, <4>2
    <3>3. CASE (\E p \in 1..l : i = m + p) /\ \E q \in 1..l : j = m + q
      <4>1. PICK p \in 1..l, q \in 1..l : i = m + p /\ j = m + q
        BY <3>3
      <4>2. p < q
        BY <1>2, <1>3, <2>2, <4>1
      <4> QED
        BY <1>2, <1>4, <4>1, <4>2
    <3>4. ~(j \in 1..m /\ \E p \in 1..l : i = m + p)
      BY <1>2, <1>3, <2>2
    <3> QED
      BY <1>8, <3>1, <3>2, <3>3, <3>4
  <2> QED
    BY <1>4, <1>6, <2>1, <2>2 DEF Remain
<1>14. Ended(x)
  <2>1. e[m + l] = v /\ m + l > 0
    BY <1>1, <1>2, <1>3, <1>4
  <2> QED
    BY <1>3, <1>4, <1>6, <2>1 DEF Ended
<1>15. m = 0 => InWindow(x, x.events[1])
  <2> SUFFICES ASSUME m = 0 PROVE InWindow(x, x.events[1])
    OBVIOUS
  <2>1. e[1] = t
    <3>1. m + 1 = 1
      OBVIOUS
    <3> QED
      BY <1>1, <1>2, <1>4, <3>1
  <2>2. a.events = <<>>
    BY <1>3, EmptySeq
  <2>3. a.start = t
    BY <1>1, <2>2 DEF Opened
  <2>4. x.events[1] = t /\ x.start = t
    BY <1>6, <2>1, <2>3
  <2>5. t < t + Window
    BY <1>11, Constants
  <2> QED
    BY <2>4, <2>5 DEF InWindow
<1>16. Filling(x, g, m)
  <2>1. m = g.win.count /\ m \in 0..Len(x.events)
    <3>1. m = g.win.count
      BY DEF Opened
    <3>2. m \in 0..(m + l)
      BY <1>2, <1>3
    <3> QED
      BY <1>4, <1>6, <3>1, <3>2
  <2>2. \A j \in 1..m : InWindow(x, x.events[j])
    BY <1>3, <1>4, <1>6 DEF Opened, InWindow
  <2>3. m > 0 => g.win.first = x.events[1] /\ g.win.last = x.events[m]
    <3> SUFFICES ASSUME m > 0 PROVE g.win.first = x.events[1] /\ g.win.last = x.events[m]
      OBVIOUS
    <3>1. 1 \in 1..m /\ m \in 1..m /\ a.events # <<>>
      BY <1>3
    <3> QED
      BY <1>4, <1>6, <3>1 DEF Opened
  <2>4. SameCounts(x, g) /\ x.id = g.id /\ x.start = g.start /\ x.done = Outlines(g.done)
    BY <1>6 DEF Opened, SameCounts
  <2> QED
    BY <1>7, <1>13, <2>1, <2>2, <2>3, <2>4 DEF Filling
<1>17. Left(x, m, seg, 0)
  <2>1. (m + l) - m = l - 0 /\ \A q \in 1..(l - 0) : q \in 1..l /\ 0 + q = q
    BY <1>2, <1>3
  <2> QED
    BY <1>1, <1>4, <1>6, <2>1 DEF Left
<1>18. x.lastEvent = seg[Len(seg)]
  BY <1>1, <1>6
<1>19. x.start <= x.lastEvent
  <2>1. a.start <= v
    BY ONLY <1>3, <1>11
  <2> QED
    BY <1>6, <2>1
<1> QED
  BY <1>7, <1>13, <1>14, <1>15, <1>16, <1>17, <1>18, <1>19 DEF SegmentAt

\* When the loop is done the two agree again.
LEMMA FilledBetween ==
  ASSUME NEW c, NEW g, Filling(c, g, Len(c.events)), Ended(c), c.lastEvent = g.lastEvent
  PROVE  Between(c, g)
<1>1. /\ c \in Buffer /\ Remain(c) /\ SameCounts(c, g) /\ c.id = g.id /\ c.start = g.start
      /\ c.done = Outlines(g.done) /\ Len(c.events) = g.win.count
      /\ \A j \in 1..Len(c.events) : InWindow(c, c.events[j])
      /\ Len(c.events) > 0 => g.win.first = c.events[1]
  BY DEF Filling
<1>2. Len(c.events) > 0 /\ c.events[Len(c.events)] = c.lastEvent
  BY DEF Ended
<1>3. DOMAIN c.events = 1..Len(c.events) /\ Len(c.events) \in Nat
  BY <1>1, BufferTyped
<1>4. c.events # <<>>
  BY <1>2
<1> QED
  BY <1>1, <1>2, <1>3, <1>4 DEF Between

\* Appending a segment and routing its events come to the same.
LEMMA SegmentBoth ==
  ASSUME NEW b, NEW r, Between(b, r), NEW seg, Segmented(seg), NEW f, Through(f, r, seg)
  PROVE  Between(AppendSegment(b, seg), f[Len(seg)])
<1>1. PICK l, t, h, a, x, m :
        /\ l = Len(seg) /\ t = seg[1] /\ h = Under(f, seg) /\ a = BufOpen(b, t)
        /\ x = [a EXCEPT !.events = a.events \o seg, !.lastEvent = seg[Len(seg)]]
        /\ m = Len(a.events)
  OBVIOUS
<1>2. /\ l \in Nat /\ 1 \in 1..l /\ l \in 1..l /\ 0 \in 0..l /\ t \in 0..MaxTime
      /\ seg[l] \in 0..MaxTime /\ seg[l] \in Nat /\ l - 1 \in 0..l /\ l # 0 /\ l \in 0..l
  BY <1>1, SegmentedTyped
<1>3. f[0] = r /\ Good(r) /\ Good(f[l - 1]) /\ f[l] = Route(f[l - 1], seg[l])
  BY <1>1, <1>2 DEF Through
<1>4. Opened(a, h[0], t)
  <2>1. h[0] = Open(r, t)
    BY <1>1, <1>2, <1>3 DEF Under
  <2> QED
    BY <1>1, <1>2, <1>3, <2>1, OpenBoth
<1>5. /\ x \in Buffer /\ Remain(x) /\ Ended(x) /\ Filling(x, h[0], m) /\ Left(x, m, seg, 0)
      /\ m = 0 => InWindow(x, x.events[1])
      /\ x.lastEvent = seg[l] /\ x.start <= x.lastEvent
  <2>1. SegmentAt(x, h[0], m, seg)
    BY <1>1, <1>4, SegmentBehind
  <2> QED
    BY <1>1, <2>1 DEF SegmentAt
<1>6. Top(x, h, seg)
  <2>1. m \in Nat
    BY <1>1, <1>4, BufferTyped DEF Opened
  <2>2. Fill(x, h, seg, 0, m)
    BY <1>1, <1>2, <1>5, <2>1 DEF Fill
  <2> QED
    BY <1>5, <2>2 DEF Top
<1>7. Steps(h, seg)
  BY <1>1, StepsThrough
<1>8. PICK c : c = CutAll(x)
  OBVIOUS
<1>9. Filling(c, h[l], Len(c.events)) /\ Ended(c) /\ c.lastEvent = seg[l]
  BY <1>1, <1>2, <1>5, <1>6, <1>7, <1>8, AllRounds
<1>10. h[l] = f[l] /\ f[l].lastEvent = seg[l]
  BY <1>1, <1>2, <1>3, RouteLast DEF Under
<1>11. Between(c, f[l])
  BY <1>9, <1>10, FilledBetween
<1>12. AppendSegment(b, seg) = c
  <2>1. x = [BufOpen(b, seg[1]) EXCEPT !.events = @ \o seg, !.lastEvent = seg[Len(seg)]]
    BY <1>1
  <2> QED
    BY <1>8, <2>1 DEF AppendSegment
<1> QED
  BY <1>1, <1>11, <1>12


-----------------------------------------------------------------------------
(* A batch                                                                  *)

\* The segment that ends with event n begins behind the end before it.
LEMMA SegmentIs ==
  ASSUME NEW q, NEW n \in Nat \ {0}, NEW e \in Nat, e < n,
         e = 0 \/ e \in SegmentEnds(q), \A k \in (e + 1)..(n - 1) : k \notin SegmentEnds(q)
  PROVE  Segment(q, n) = SubSeq(q, e + 1, n)
<1> DEFINE Begins(m) == /\ m > 1 => m - 1 \in SegmentEnds(q)
                        /\ \A k \in m..(n - 1) : k \notin SegmentEnds(q)
           first == CHOOSE m \in 1..n : Begins(m)
<1>1. e + 1 \in 1..n /\ Begins(e + 1)
  <2>1. e + 1 \in 1..n /\ (e + 1) - 1 = e /\ (e + 1 > 1 => e # 0)
    OBVIOUS
  <2> QED
    BY <2>1
<1>2. ASSUME NEW m \in 1..n, Begins(m) PROVE m = e + 1
  <2>1. CASE m > e + 1
    <3>1. m - 1 \in (e + 1)..(n - 1) /\ m > 1
      BY <2>1
    <3> QED
      BY <1>2, <3>1
  <2>2. CASE m < e + 1
    <3>1. e \in m..(n - 1) /\ e # 0
      BY <2>2
    <3> QED
      BY <1>2, <3>1
  <2> QED
    BY <2>1, <2>2
<1>3. first \in 1..n /\ Begins(first)
  <2>1. \E m \in 1..n : Begins(m)
    BY <1>1
  <2> HIDE DEF Begins
  <2> QED
    BY <2>1, Zenon
<1>4. first = e + 1
  <2> HIDE DEF first
  <2> QED
    BY <1>2, <1>3
<1>5. Segment(q, n) = SubSeq(q, first, n)
  BY Zenon DEF Segment
<1> QED
  BY <1>4, <1>5

\* It is in order and without a gap.
Uncut(q, e, n) ==
  e \in Nat /\ e < n /\ \A k \in (e + 1)..(n - 1) : k \notin SegmentEnds(q)
Taken(seg, q, e, n) ==
  /\ Segmented(seg) /\ Len(seg) = n - e
  /\ \A k \in 1..(n - e) : seg[k] = q[e + k]

LEMMA SegmentedBetween ==
  ASSUME NEW l \in Nat, NEW q \in [1..l -> 0..MaxTime], NEW n \in 1..l, NEW e,
         Uncut(q, e, n)
  PROVE  Taken(SubSeq(q, e + 1, n), q, e, n)
<1>0. e \in Nat /\ e < n /\ \A k \in (e + 1)..(n - 1) : k \notin SegmentEnds(q)
  BY DEF Uncut
<1>1. PICK d, m, seg : d = n - e /\ m = e + 1 /\ seg = SubSeq(q, m, n)
  OBVIOUS
<1>2. d \in Nat \ {0} /\ m \in Int /\ n \in Int /\ m <= n /\ n - m + 1 = d
      /\ DOMAIN q = 1..l /\ Len(q) = l
  BY <1>0, <1>1
<1>3. \A k \in m..n : k \in 1..l /\ q[k] \in 0..MaxTime
  <2>1. \A k \in m..n : k \in 1..l
    BY <1>0, <1>1
  <2> QED
    BY <2>1
<1>4. /\ seg \in Seq(0..MaxTime) /\ Len(seg) = d
      /\ \A k \in 1..d : seg[k] = q[m + k - 1]
  <2>1. /\ SubSeq(q, m, n) \in Seq(0..MaxTime) /\ Len(SubSeq(q, m, n)) = n - m + 1
        /\ \A k \in 1..(n - m + 1) : SubSeq(q, m, n)[k] = q[m + k - 1]
    BY ONLY <1>2, <1>3, SubSeqProperties
  <2> QED
    BY <1>1, <1>2, <2>1
<1>5. \A k \in 1..d : m + k - 1 = e + k /\ seg[k] = q[e + k]
  BY <1>0, <1>1, <1>2, <1>4
<1>6. ASSUME NEW k \in 1..(d - 1) PROVE seg[k] <= seg[k + 1] /\ seg[k + 1] - seg[k] <= MaxGap
  <2>1. PICK j : j = e + k
    OBVIOUS
  <2>2. /\ j \in 1..l /\ j + 1 \in 1..l /\ j < l /\ j \in (e + 1)..(n - 1)
        /\ k \in 1..d /\ k + 1 \in 1..d /\ e + (k + 1) = j + 1
    BY <1>0, <1>1, <1>2, <2>1
  <2>3. j \notin SegmentEnds(q)
    BY <1>0, <2>2
  <2>4. ~(q[j + 1] < q[j]) /\ ~(q[j + 1] - q[j] > MaxGap)
    BY <1>2, <2>2, <2>3 DEF SegmentEnds
  <2>5. seg[k] = q[j] /\ seg[k + 1] = q[j + 1]
    BY <1>5, <2>1, <2>2
  <2>6. q[j] \in Nat /\ q[j + 1] \in Nat
    BY <2>2
  <2>7. PICK u, v : u = q[j] /\ v = q[j + 1]
    OBVIOUS
  <2>8. u \in Nat /\ v \in Nat /\ ~(v < u) /\ ~(v - u > MaxGap) /\ MaxGap \in Nat
    BY <2>4, <2>6, <2>7, Constants
  <2>9. u <= v /\ v - u <= MaxGap
    BY ONLY <2>8
  <2> QED
    BY <2>5, <2>7, <2>9
<1>7. Segmented(seg)
  <2>1. Len(seg) > 0 /\ Len(seg) - 1 = d - 1
    BY <1>2, <1>4
  <2> QED
    BY <1>4, <1>6, <2>1 DEF Segmented
<1>8. Taken(seg, q, e, n)
  BY <1>1, <1>4, <1>5, <1>7 DEF Taken
<1> QED
  BY <1>1, <1>8

\* The router's states are what it needs from event to event.
LEMMA ChainGood ==
  ASSUME NEW r, Good(r), NEW n \in Nat, NEW q \in [1..n -> 0..MaxTime], NEW f, Chain(f, r, q)
  PROVE  \A k \in 0..n : Good(f[k])
<1> DEFINE S == {k \in Nat : k <= n => Good(f[k])}
<1>1. Len(q) = n
  OBVIOUS
<1>2. 0 \in S
  BY DEF Chain
<1>3. ASSUME NEW k \in S PROVE k + 1 \in S
  <2> SUFFICES ASSUME k + 1 <= n PROVE Good(f[k + 1])
    OBVIOUS
  <2>1. k \in Nat /\ k + 1 \in 1..n /\ (k + 1) - 1 = k /\ k <= n
    OBVIOUS
  <2>2. PICK g, t : g = f[k] /\ t = q[k + 1]
    OBVIOUS
  <2>3. Good(g) /\ t \in 0..MaxTime /\ f[k + 1] = Route(g, t)
    BY <1>1, <2>1, <2>2 DEF Chain
  <2> QED
    BY <2>3, RouteKeeps
<1>4. S = Nat
  <2> HIDE DEF S
  <2>1. S \in SUBSET Nat
    BY DEF S
  <2> QED
    BY <1>2, <1>3, <2>1, SetInduction
<1> QED
  BY <1>4

\* One batch, whatever its segments
LEMMA BatchBoth ==
  ASSUME NEW b, NEW r, Between(b, r), Good(r), NEW l \in Nat, NEW q \in [1..l -> 0..MaxTime]
  PROVE  Between(AppendAll(b, q), RouteAll(r, q))
<1>1. Len(q) = l /\ Len(q) \in Nat /\ DOMAIN q = 1..l
  OBVIOUS
<1>2. PICK f : Chain(f, r, q) /\ RouteAll(r, q) = f[l]
  BY <1>1, RouteAllIs
<1>3. \A k \in 0..l : Good(f[k])
  BY <1>2, ChainGood
<1>4. PICK B : /\ B[0] = b /\ \A k \in 1..l : B[k] = Appended(B, b, q, k)
               /\ AppendAll(b, q) = B[l]
  <2>1. PICK B : /\ B[0] = b /\ \A k \in 1..Len(q) : B[k] = Appended(B, b, q, k)
                 /\ AppendAll(b, q) = B[Len(q)]
    BY ONLY <1>1, AppendAllIs
  <2> QED
    BY <1>1, <2>1
<1> DEFINE Upto(n, e) == /\ e \in 0..n /\ (e = 0 \/ e \in SegmentEnds(q))
                         /\ \A k \in (e + 1)..n : k \notin SegmentEnds(q)
                         /\ Between(B[n], f[e])
           S == {n \in Nat : n <= l => \E e : Upto(n, e)}
<1>5. 0 \in S
  <2>1. 0 \in 0..0 /\ \A k \in (0 + 1)..0 : k \notin SegmentEnds(q)
    OBVIOUS
  <2>2. Between(B[0], f[0])
    BY <1>2, <1>4 DEF Chain
  <2> QED
    BY <2>1, <2>2
<1>6. ASSUME NEW n \in S PROVE n + 1 \in S
  <2> SUFFICES ASSUME n + 1 <= l PROVE \E e : Upto(n + 1, e)
    OBVIOUS
  <2>1. PICK j : j = n + 1
    OBVIOUS
  <2>2. n \in Nat /\ n <= l /\ j \in 1..l /\ j \in Nat \ {0} /\ j # 0 /\ j - 1 = n
        /\ n < j
    BY <2>1
  <2>3. PICK e : Upto(n, e)
    BY <2>2
  <2>4. /\ e \in Nat /\ e <= n /\ e < j /\ e \in 0..n /\ e \in 0..j
        /\ (e = 0 \/ e \in SegmentEnds(q))
        /\ \A k \in (e + 1)..(j - 1) : k \notin SegmentEnds(q)
        /\ Between(B[n], f[e])
    BY <2>1, <2>2, <2>3
  <2> HIDE DEF Upto
  <2>5. CASE j \notin SegmentEnds(q)
    <3>1. B[j] = B[n]
      BY <1>4, <2>2, <2>5 DEF Appended
    <3>2. \A k \in (e + 1)..j : k \in (e + 1)..(j - 1) \/ k = j
      BY <2>2, <2>4
    <3>3. Upto(j, e)
      BY <2>4, <2>5, <3>1, <3>2 DEF Upto
    <3> QED
      BY <2>1, <3>3
  <2>6. CASE j \in SegmentEnds(q)
    <3>1. PICK seg, d : seg = SubSeq(q, e + 1, j) /\ d = j - e
      OBVIOUS
    <3>2. Segment(q, j) = seg
      BY <2>2, <2>4, <3>1, SegmentIs
    <3>3. B[j] = AppendSegment(B[n], seg)
      BY <1>4, <2>2, <2>6, <3>2 DEF Appended
    <3>4. Segmented(seg) /\ Len(seg) = d /\ \A k \in 1..d : seg[k] = q[e + k]
      <4>1. j \in 1..l /\ Uncut(q, e, j)
        BY <2>2, <2>4 DEF Uncut
      <4>2. Taken(seg, q, e, j)
        BY <3>1, <4>1, SegmentedBetween
      <4> QED
        BY <3>1, <4>2 DEF Taken
    <3>5. PICK g : g = [k \in 0..d |-> f[e + k]]
      OBVIOUS
    <3>6. /\ d \in Nat /\ e + d = j /\ e + 0 = e /\ 0 \in 0..d /\ d \in 0..d
          /\ \A k \in 0..d : e + k \in 0..l
          /\ \A k \in 1..d : /\ k \in 0..d /\ k - 1 \in 0..d /\ e + k \in 1..l
                             /\ (e + k) - 1 = e + (k - 1)
      BY <2>2, <2>4, <3>1
    <3>7. Through(g, f[e], seg)
      <4>1. g[0] = f[e] /\ \A k \in 0..d : Good(g[k])
        BY <1>3, <3>5, <3>6
      <4>2. ASSUME NEW k \in 1..d PROVE g[k] = Route(g[k - 1], seg[k])
        <5>1. f[e + k] = Route(f[(e + k) - 1], q[e + k])
          BY <1>1, <1>2, <3>6, <4>2 DEF Chain
        <5>2. g[k] = f[e + k] /\ g[k - 1] = f[e + (k - 1)]
          BY <3>5, <3>6, <4>2
        <5> QED
          BY <3>4, <3>6, <4>2, <5>1, <5>2
      <4> QED
        BY <3>4, <4>1, <4>2 DEF Through
    <3>8. g[d] = f[j]
      BY <3>5, <3>6
    <3>9. Between(B[j], f[j])
      BY <2>4, <3>3, <3>4, <3>7, <3>8, SegmentBoth
    <3>10. j \in 0..j /\ \A k \in (j + 1)..j : k \notin SegmentEnds(q)
      BY <2>2
    <3>11. Upto(j, j)
      BY <2>6, <3>9, <3>10 DEF Upto
    <3> QED
      BY <2>1, <3>11
  <2> QED
    BY <2>5, <2>6
<1>7. S = Nat
  <2> HIDE DEF S
  <2>1. S \in SUBSET Nat
    BY DEF S
  <2> QED
    BY <1>5, <1>6, <2>1, SetInduction
<1>8. PICK e : Upto(l, e)
  BY <1>7
<1>9. e = l
  <2> SUFFICES ASSUME e # l PROVE FALSE
    OBVIOUS
  <2>1. l \in (e + 1)..l /\ l \in DOMAIN q /\ ~(l < Len(q))
    BY <1>1, <1>8
  <2>2. l \in SegmentEnds(q)
    BY <2>1 DEF SegmentEnds
  <2> QED
    BY <1>8, <2>1, <2>2
<1> QED
  BY <1>2, <1>4, <1>8, <1>9


-----------------------------------------------------------------------------
(* A push                                                                   *)

\* The fields that Seen does not touch
Carried(a, r) ==
  /\ a.id = r.id /\ a.resets = r.resets /\ a.discarded = r.discarded
  /\ a.prevBatch = r.prevBatch

LEMMA SeenRest ==
  ASSUME IInv, NEW lost, NEW gone, NEW s
  PROVE  Carried(Seen(lost, gone, s), router)
<1> SUFFICES ASSUME NEW r \in Router, NEW n, NEW a,
                    a = Observe([r EXCEPT !.done = <<>>, !.losses = n], s)
             PROVE  Carried(a, r)
  <2>1. PICK r, n, a : /\ r = router /\ n = router.losses + Shown(lost, gone)
                       /\ a = Seen(lost, gone, s)
    OBVIOUS
  <2>2. r \in Router
    BY <2>1 DEF IInv
  <2>3. [r EXCEPT !.done = <<>>, !.losses = n]
          = [router EXCEPT !.done = <<>>, !.losses = @ + Shown(lost, gone)]
    BY <2>1, <2>2 DEF Router
  <2>4. a = Observe([r EXCEPT !.done = <<>>, !.losses = n], s)
    BY <2>1, <2>3 DEF Seen
  <2> QED
    BY <2>1, <2>2, <2>4
<1> USE DEF Carried
<1>1. CASE counting = "unknown"
  BY <1>1 DEF Observe, Router
<1>2. CASE counting # "unknown"
  <2>1. PICK c, z, m : /\ c = [r EXCEPT !.done = <<>>, !.losses = n]
                       /\ z = (c.nonzero \/ s # 0) /\ m = c.missing + Missing(c, s)
    OBVIOUS
  <2>2. a = [c EXCEPT !.prevRos = s, !.nonzero = z, !.missing = m]
    BY <1>2, <2>1 DEF Observe
  <2>3. /\ a.id = c.id /\ a.resets = c.resets /\ a.discarded = c.discarded
        /\ a.prevBatch = c.prevBatch
    BY <2>1, <2>2 DEF Router
  <2> QED
    BY <2>1, <2>3 DEF Router
<1> QED
  BY <1>1, <1>2

\* What the buffer sees of the numbers of a batch
BufSeen(b, s) == Observe([b EXCEPT !.done = <<>>], s)

LEMMA SeenBuf ==
  ASSUME NEW b \in Buffer, NEW s, s \in 0..(RosMod - 1), Missing(b, s) \in Nat,
         NEW a, a = BufSeen(b, s)
  PROVE  /\ a \in Buffer /\ a.events = b.events /\ a.start = b.start
         /\ a.lastEvent = b.lastEvent /\ a.id = b.id /\ a.resets = b.resets
         /\ a.discarded = b.discarded /\ a.prevBatch = b.prevBatch /\ a.done = <<>>
         /\ a.prevRos = (IF counting = "unknown" THEN None ELSE s)
         /\ a.nonzero = (b.nonzero \/ (counting # "unknown" /\ s # 0))
         /\ a.missing = b.missing + (IF counting = "unknown" THEN 0 ELSE Missing(b, s))
<1>1. PICK c : c = [b EXCEPT !.done = <<>>]
  OBVIOUS
<1>2. /\ c \in Buffer /\ c.events = b.events /\ c.start = b.start
      /\ c.lastEvent = b.lastEvent /\ c.id = b.id /\ c.resets = b.resets
      /\ c.discarded = b.discarded /\ c.prevBatch = b.prevBatch /\ c.done = <<>>
      /\ c.prevRos = b.prevRos /\ c.nonzero = b.nonzero /\ c.missing = b.missing
  <2>1. <<>> \in Seq(Outlined)
    OBVIOUS
  <2> QED
    BY <1>1, <2>1 DEF Buffer
<1>3. Missing(c, s) = Missing(b, s)
  BY <1>2 DEF Missing, RosGap, Distance
<1>4. /\ s \in None..(RosMod - 1) /\ None \in None..(RosMod - 1)
      /\ b.missing \in Nat /\ b.nonzero \in BOOLEAN /\ b.missing + Missing(b, s) \in Nat
  <2>1. b.missing \in Nat /\ b.nonzero \in BOOLEAN
    BY DEF Buffer
  <2> QED
    BY <2>1, Constants DEF None
<1>5. CASE counting = "unknown"
  <2>1. a = [c EXCEPT !.prevRos = None]
    BY <1>1, <1>5 DEF BufSeen, Observe
  <2>2. /\ a \in Buffer /\ a.events = c.events /\ a.start = c.start
        /\ a.lastEvent = c.lastEvent /\ a.id = c.id /\ a.resets = c.resets
        /\ a.discarded = c.discarded /\ a.prevBatch = c.prevBatch /\ a.done = c.done
        /\ a.prevRos = None /\ a.nonzero = c.nonzero /\ a.missing = c.missing
    BY <1>2, <1>4, <2>1 DEF Buffer
  <2>3. b.missing = b.missing + 0
    BY <1>4
  <2>4. b.nonzero = (b.nonzero \/ (counting # "unknown" /\ s # 0))
    BY <1>4, <1>5
  <2> QED
    BY <1>2, <1>5, <2>2, <2>3, <2>4
<1>6. CASE counting # "unknown"
  <2>1. PICK z, m : z = (b.nonzero \/ s # 0) /\ m = b.missing + Missing(b, s)
    OBVIOUS
  <2>2. a = [c EXCEPT !.prevRos = s, !.nonzero = z, !.missing = m]
    <3>1. a = [c EXCEPT !.prevRos = s, !.nonzero = c.nonzero \/ s # 0,
                        !.missing = c.missing + Missing(c, s)]
      BY <1>1, <1>6 DEF BufSeen, Observe
    <3> QED
      BY <1>2, <1>3, <2>1, <3>1
  <2>3. z \in BOOLEAN /\ m \in Nat
    BY <1>4, <2>1
  <2>4. /\ a \in Buffer /\ a.events = c.events /\ a.start = c.start
        /\ a.lastEvent = c.lastEvent /\ a.id = c.id /\ a.resets = c.resets
        /\ a.discarded = c.discarded /\ a.prevBatch = c.prevBatch /\ a.done = c.done
        /\ a.prevRos = s /\ a.nonzero = z /\ a.missing = m
    BY <1>2, <1>4, <2>2, <2>3 DEF Buffer
  <2> QED
    BY <1>2, <1>6, <2>1, <2>4
<1> QED
  BY <1>5, <1>6

LEMMA OutlinesEmpty == Outlines(<<>>) = <<>>
BY DEF Outlines

\* Both see the same of a batch's numbers.
LEMMA SeenBoth ==
  ASSUME IInv, NEW b, Between(b, router),
         NEW lost \in 0..MaxLost, NEW gone \in 0..MaxLost, lost + gone <= MaxLost,
         NEW s, s = NextRos(lost + gone)
  PROVE  Between(BufSeen(b, s), Seen(lost, gone, s))
<1>1. PICK r, a, g : r = router /\ a = BufSeen(b, s) /\ g = Seen(lost, gone, s)
  OBVIOUS
<1>2. /\ r \in Router /\ b \in Buffer /\ SameCounts(b, r) /\ Between(b, r)
      /\ b.prevRos = r.prevRos /\ b.nonzero = r.nonzero
  BY <1>1 DEF IInv, Between, SameCounts
<1>3. Missing(b, s) = Missing(r, s)
  BY <1>2 DEF Missing, RosGap, Distance
<1>4. s \in 0..(RosMod - 1) /\ Missing(b, s) \in Nat
  <2>1. lost + gone \in Nat
    BY Constants
  <2>2. /\ s \in 0..(RosMod - 1)
        /\ counting = "counted" /\ router.prevRos # None => Missing(router, s) = lost + gone
        /\ counting # "counted" \/ router.prevRos = None => Missing(router, s) = 0
    BY <2>1, Observed
  <2> QED
    BY <1>1, <1>3, <2>1, <2>2
<1>5. /\ a \in Buffer /\ a.events = b.events /\ a.start = b.start
      /\ a.lastEvent = b.lastEvent /\ a.id = b.id /\ a.resets = b.resets
      /\ a.discarded = b.discarded /\ a.prevBatch = b.prevBatch /\ a.done = <<>>
      /\ a.prevRos = (IF counting = "unknown" THEN None ELSE s)
      /\ a.nonzero = (b.nonzero \/ (counting # "unknown" /\ s # 0))
      /\ a.missing = b.missing + (IF counting = "unknown" THEN 0 ELSE Missing(b, s))
  BY <1>1, <1>2, <1>4, SeenBuf
<1>6. /\ g.done = <<>> /\ g.win = r.win /\ g.start = r.start /\ g.lastEvent = r.lastEvent
      /\ g.prevRos = (IF counting = "unknown" THEN None ELSE s)
      /\ g.nonzero = (r.nonzero \/ (counting # "unknown" /\ s # 0))
      /\ g.missing = r.missing + (IF counting = "unknown" THEN 0 ELSE Missing(r, s))
  BY <1>1, SeenIs
<1>7. /\ g.id = r.id /\ g.resets = r.resets /\ g.discarded = r.discarded
      /\ g.prevBatch = r.prevBatch
  <2>1. Carried(g, r)
    BY <1>1, SeenRest
  <2> QED
    BY <2>1 DEF Carried
<1>8. SameCounts(a, g)
  BY <1>2, <1>3, <1>5, <1>6, <1>7 DEF SameCounts
<1>9. a.done = Outlines(g.done)
  BY <1>5, <1>6, OutlinesEmpty
<1>10. Remain(a) /\ \A i \in DOMAIN a.events : InWindow(a, a.events[i])
  BY <1>2, <1>5 DEF Between, Remain, InWindow
<1>11. Between(a, g)
  BY <1>2, <1>5, <1>6, <1>7, <1>8, <1>9, <1>10 DEF Between
<1> QED
  BY <1>1, <1>11

LEMMA NumberBoth ==
  ASSUME NEW b, NEW r \in Router, Between(b, r), NEW n \in 0..MaxPushes
  PROVE  Between([b EXCEPT !.prevBatch = n], [r EXCEPT !.prevBatch = n])
<1>1. PICK a, g : a = [b EXCEPT !.prevBatch = n] /\ g = [r EXCEPT !.prevBatch = n]
  OBVIOUS
<1>2. b \in Buffer
  BY DEF Between
<1>3. n \in None..MaxPushes
  BY Constants DEF None
<1>4. /\ a \in Buffer /\ a.events = b.events /\ a.start = b.start
      /\ a.lastEvent = b.lastEvent /\ a.id = b.id /\ a.resets = b.resets
      /\ a.discarded = b.discarded /\ a.prevBatch = n /\ a.done = b.done
      /\ a.prevRos = b.prevRos /\ a.nonzero = b.nonzero /\ a.missing = b.missing
  BY <1>1, <1>2, <1>3 DEF Buffer
<1>5. /\ g.start = r.start /\ g.lastEvent = r.lastEvent /\ g.id = r.id
      /\ g.resets = r.resets /\ g.discarded = r.discarded /\ g.prevBatch = n
      /\ g.done = r.done /\ g.prevRos = r.prevRos /\ g.nonzero = r.nonzero
      /\ g.missing = r.missing /\ g.win = r.win
  BY <1>1 DEF Router
<1>6. SameCounts(a, g)
  BY <1>4, <1>5 DEF Between, SameCounts
<1>7. Remain(a) /\ \A i \in DOMAIN a.events : InWindow(a, a.events[i])
  BY <1>4 DEF Between, Remain, InWindow
<1>8. Between(a, g)
  BY <1>4, <1>5, <1>6, <1>7 DEF Between
<1> QED
  BY <1>1, <1>8

\* The buffer before the first event of a batch
BufBase(b, s, n) ==
  LET a == BufSeen(b, s)
      c == IF RosGap(b, s) \/ BatchGap(b, n) THEN BufReset(a) ELSE a
  IN [c EXCEPT !.prevBatch = n]

LEMMA BaseBoth ==
  ASSUME IInv, NEW b, Between(b, router),
         NEW lost \in 0..MaxLost, NEW gone \in 0..MaxLost, lost + gone <= MaxLost,
         NEW s, s = NextRos(lost + gone), NEW n \in 0..MaxPushes
  PROVE  Between(BufBase(b, s, n), Base(lost, gone, s, n))
<1>1. PICK r, a, g : r = router /\ a = BufSeen(b, s) /\ g = Seen(lost, gone, s)
  OBVIOUS
<1>2. Between(a, g) /\ g \in Router
  BY <1>1, SeenBoth, SeenIs
<1>3. (RosGap(b, s) \/ BatchGap(b, n)) <=> (RosGap(router, s) \/ BatchGap(router, n))
  BY DEF RosGap, BatchGap, Between, SameCounts
<1>4. CASE RosGap(b, s) \/ BatchGap(b, n)
  <2>1. PICK c, d : c = BufReset(a) /\ d = Reset(g)
    OBVIOUS
  <2>2. Between(c, d)
    BY <1>2, <2>1, ResetBetween
  <2>3. d \in Router
    BY <1>1, <1>2, <2>1, SeenIs, ResetKeeps
  <2>4. Between([c EXCEPT !.prevBatch = n], [d EXCEPT !.prevBatch = n])
    BY <2>2, <2>3, NumberBoth
  <2> QED
    BY <1>1, <1>3, <1>4, <2>1, <2>4 DEF BufBase, Base
<1>5. CASE ~(RosGap(b, s) \/ BatchGap(b, n))
  <2>1. Between([a EXCEPT !.prevBatch = n], [g EXCEPT !.prevBatch = n])
    BY <1>2, NumberBoth
  <2> QED
    BY <1>1, <1>3, <1>5, <2>1 DEF BufBase, Base
<1> QED
  BY <1>4, <1>5

LEMMA PushBothKeeps ==
  ASSUME BufInv, PushBoth
  PROVE  BufInv'
<1>1. PICK lost \in 0..MaxLost, gone \in 0..MaxLost, events \in Batches :
        /\ PushBatch(lost, gone, events)
        /\ buf' = BufPush(buf, ros', seq', events)
  BY DEF PushBoth
<1>2. IInv /\ Between(buf, router)
  BY DEF BufInv
<1>3. IInv'
  BY <1>1, <1>2, PushKeeps
<1>4. PICK b, s, n, c, d :
        /\ b = buf /\ s = ros' /\ n = seq' /\ c = BufBase(b, s, n)
        /\ d = Base(lost, gone, s, n)
  OBVIOUS
<1>5. /\ lost + gone <= MaxLost /\ s = NextRos(lost + gone) /\ n = seq + gone + 1
      /\ n \in 0..MaxPushes
  <2>1. /\ lost + gone <= MaxLost /\ s = NextRos(lost + gone) /\ n = seq + gone + 1
        /\ seq + gone < MaxPushes
    BY <1>1, <1>4 DEF PushBatch
  <2>2. seq \in Nat /\ gone \in Nat
    BY <1>2, Constants DEF IInv, TypeOK
  <2> QED
    BY <2>1, <2>2, Constants
<1>6. Between(c, d)
  BY <1>2, <1>4, <1>5, BaseBoth
<1>7. Good(d)
  BY <1>2, <1>4, <1>5, BaseGood
<1>8. PICK l \in 0..MaxLen : events \in [1..l -> 0..MaxTime]
  BY DEF Batches
<1>9. l \in Nat
  BY Constants
<1>10. Between(AppendAll(c, events), RouteAll(d, events))
  BY <1>6, <1>7, <1>8, <1>9, BatchBoth
<1>11. router' = RouteAll(d, events)
  BY <1>1, <1>4 DEF PushBatch, Base, Seen
<1>12. buf' = AppendAll(c, events)
  <2>1. buf' = BufPush(b, s, n, events)
    BY <1>1, <1>4
  <2> QED
    BY <1>4, <2>1 DEF BufPush, BufBase, BufSeen
<1>13. Between(buf, router)'
  <2>1. PICK x, y : x = buf' /\ y = router'
    OBVIOUS
  <2>2. Between(x, y)
    BY <1>10, <1>11, <1>12, <2>1
  <2> QED
    BY <2>1, <2>2 DEF Between, Remain, SameCounts, InWindow
<1> QED
  BY <1>3, <1>13 DEF BufInv


LEMMA ResetBothKeeps ==
  ASSUME BufInv, ResetBoth
  PROVE  BufInv'
<1>1. /\ ResetGeneration
      /\ buf' = [BufReset(buf) EXCEPT !.discarded = buf.discarded, !.prevBatch = None,
                   !.prevRos = None, !.done = <<>>]
  BY DEF ResetBoth
<1>2. IInv /\ Between(buf, router) /\ router \in Router
  BY DEF BufInv, IInv
<1>3. IInv'
  BY <1>1, <1>2, ResetGenerationKeeps
<1>4. PICK b, r, c, d, x, y :
        /\ b = buf /\ r = router /\ c = BufReset(b) /\ d = Reset(r)
        /\ x = buf' /\ y = router'
  OBVIOUS
<1>5. Between(b, r) /\ r \in Router /\ b \in Buffer /\ b.discarded = r.discarded
  BY <1>2, <1>4 DEF Between, SameCounts
<1>6. Between(c, d) /\ c \in Buffer
  <2>1. Between(c, d)
    BY <1>4, <1>5, ResetBetween
  <2> QED
    BY <2>1 DEF Between
<1>7. d \in Router
  BY <1>2, <1>4, ResetKeeps DEF IInv
<1>8. c.events = <<>> /\ c.start = None /\ c.lastEvent = None
  BY <1>4, <1>5, BufResetIs
<1>9. PICK gone : y = [d EXCEPT !.discarded = r.discarded, !.prevBatch = None,
                                !.prevRos = None, !.losses = @ + gone, !.done = <<>>]
  BY <1>1, <1>4 DEF ResetGeneration
<1>10. x = [c EXCEPT !.discarded = b.discarded, !.prevBatch = None,
                     !.prevRos = None, !.done = <<>>]
  BY <1>1, <1>4
<1>11. /\ x \in Buffer /\ x.events = c.events /\ x.start = c.start
       /\ x.lastEvent = c.lastEvent /\ x.id = c.id /\ x.resets = c.resets
       /\ x.discarded = b.discarded /\ x.prevBatch = None /\ x.prevRos = None
       /\ x.nonzero = c.nonzero /\ x.missing = c.missing /\ x.done = <<>>
  <2>1. /\ b.discarded \in Nat /\ None \in None..MaxPushes /\ None \in None..(RosMod - 1)
        /\ <<>> \in Seq(Outlined)
    BY <1>5, Constants DEF Buffer, None
  <2> QED
    BY <1>6, <1>10, <2>1 DEF Buffer
<1>12. /\ y.start = d.start /\ y.lastEvent = d.lastEvent /\ y.id = d.id
       /\ y.resets = d.resets /\ y.discarded = r.discarded /\ y.prevBatch = None
       /\ y.prevRos = None /\ y.nonzero = d.nonzero /\ y.missing = d.missing
       /\ y.done = <<>> /\ y.win = d.win
  BY <1>7, <1>9 DEF Router
<1>13. SameCounts(x, y)
  BY <1>5, <1>6, <1>11, <1>12 DEF Between, SameCounts
<1>14. x.done = Outlines(y.done)
  BY <1>11, <1>12, OutlinesEmpty
<1>15. Remain(x) /\ \A i \in DOMAIN x.events : InWindow(x, x.events[i])
  BY <1>8, <1>11 DEF Remain
<1>16. Between(x, y)
  BY <1>6, <1>8, <1>11, <1>12, <1>13, <1>14, <1>15 DEF Between
<1>17. Between(buf, router)'
  BY <1>4, <1>16 DEF Between, Remain, SameCounts, InWindow
<1> QED
  BY <1>3, <1>17 DEF BufInv

LEMMA BufInitially == BufInit => BufInv
<1> SUFFICES ASSUME BufInit PROVE BufInv
  OBVIOUS
<1>1. IInv
  BY Initially DEF BufInit
<1>2. /\ buf.events = <<>> /\ buf.start = None /\ buf.lastEvent = None /\ buf.id = 0
      /\ buf.resets = 0 /\ buf.discarded = 0 /\ buf.prevBatch = None
      /\ buf.prevRos = None /\ buf.nonzero = FALSE /\ buf.missing = 0 /\ buf.done = <<>>
  BY DEF BufInit
<1>3. buf \in Buffer
  <2>1. /\ None \in None..MaxTime /\ None \in None..MaxPushes /\ None \in None..(RosMod - 1)
        /\ 0 \in Nat /\ <<>> \in Seq(Outlined) /\ <<>> \in Seq(0..MaxTime)
    BY Constants DEF None
  <2> QED
    BY <2>1 DEF BufInit, Buffer
<1>4. /\ router.lastEvent = None /\ router.win = NewWindow /\ router.id = 0
      /\ router.resets = 0 /\ router.discarded = 0 /\ router.prevBatch = None
      /\ router.prevRos = None /\ router.nonzero = FALSE /\ router.missing = 0
      /\ router.done = <<>>
  BY DEF BufInit, Init
<1>5. SameCounts(buf, router)
  BY <1>2, <1>4 DEF SameCounts
<1>6. Remain(buf) /\ \A i \in DOMAIN buf.events : InWindow(buf, buf.events[i])
  BY <1>2 DEF Remain
<1>7. Len(buf.events) = router.win.count
  BY <1>2, <1>4, NewWindowTyped
<1>8. Between(buf, router)
  BY <1>2, <1>3, <1>4, <1>5, <1>6, <1>7, OutlinesEmpty DEF Between
<1> QED
  BY <1>1, <1>8 DEF BufInv

LEMMA BufUnchanged ==
  ASSUME BufInv, UNCHANGED bufVars
  PROVE  BufInv'
<1>1. IInv' /\ buf' = buf /\ router' = router
  <2>1. UNCHANGED vars
    BY DEF bufVars
  <2> QED
    BY <2>1, Unchanged DEF BufInv, bufVars, vars
<1>2. Between(buf, router)'
  BY <1>1 DEF BufInv, Between, Remain, SameCounts, InWindow
<1> QED
  BY <1>1, <1>2 DEF BufInv

\* The invariant that relates the two ways of cutting a stream
THEOREM BufInvariance == BufSpec => []BufInv
<1>1. ASSUME BufInv, [BufNext]_bufVars PROVE BufInv'
  <2>1. CASE PushBoth
    BY <1>1, <2>1, PushBothKeeps
  <2>2. CASE ResetBoth
    BY <1>1, <2>2, ResetBothKeeps
  <2>3. CASE UNCHANGED bufVars
    BY <1>1, <2>3, BufUnchanged
  <2> QED
    BY <1>1, <2>1, <2>2, <2>3 DEF BufNext
<1> QED
  BY <1>1, BufInitially, PTL DEF BufSpec

\* EventWindowBuffer, which keeps the events, and IncrementalWindowRouter, which
\* does not, make the same windows of every stream and give up the same events.
THEOREM SameCuts == BufSpec => []SameWindows
<1>1. ASSUME BufInv PROVE SameWindows
  <2>1. PICK b, r : b = buf /\ r = router
    OBVIOUS
  <2>2. Between(b, r)
    BY <1>1, <2>1 DEF BufInv
  <2>3. Matches(b, r)
    BY <2>2 DEF Between, SameCounts, Matches
  <2>4. out = router.done
    BY <1>1 DEF BufInv, IInv
  <2> QED
    BY <2>1, <2>3, <2>4 DEF SameWindows
<1> QED
  BY <1>1, BufInvariance, PTL

=============================================================================
