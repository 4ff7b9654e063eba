--------------------------- MODULE EventSpanProofs ---------------------------
(***************************************************************************)
(* Theorems about module EventSpan: no event is lost sight of, no window   *)
(* mixes generations and no GRU state is carried over a gap, for batches   *)
(* of any length, any number of generations and any bound on the events.   *)
(***************************************************************************)
EXTENDS EventSpan, WellFoundedInduction, SequenceTheorems, TLAPS

-----------------------------------------------------------------------------
(* Induction over the natural numbers for a set of them, rather than for a *)
(* predicate: proofs about recursive functions cite it.                    *)

\* A set of natural numbers that is not empty has a least element.
LEMMA LeastNatural ==
  ASSUME NEW T \in SUBSET Nat, T # {}
  PROVE  \E x \in T : \A y \in T : x <= y
<1> DEFINE Less == OpToRel(<, Nat)
<1>1. PICK x \in T : \A y \in T : ~ (<<y, x>> \in Less)
  BY NatLessThanWellFounded, WFMin, Zenon
<1>2. Less = {p \in Nat \X Nat : p[1] < p[2]}
  BY Zenon DEF OpToRel
<1> HIDE DEF Less
<1>3. ASSUME NEW y \in T, y < x PROVE FALSE
  <2>1. <<y, x>> \in Nat \X Nat /\ <<y, x>>[1] = y /\ <<y, x>>[2] = x
    OBVIOUS
  <2> QED
    BY <1>1, <1>2, <1>3, <2>1
<1> QED
  BY <1>3

\* A set of natural numbers that holds 0 and the successor of each of its
\* elements is all of Nat.
LEMMA SetInduction ==
  ASSUME NEW S \in SUBSET Nat, 0 \in S, \A n \in S : n + 1 \in S
  PROVE  S = Nat
<1> SUFFICES ASSUME Nat \ S # {} PROVE FALSE
  OBVIOUS
<1>1. PICK x \in Nat \ S : \A y \in Nat \ S : x <= y
  BY LeastNatural
<1>2. x - 1 \in S /\ x - 1 \in Nat
  BY <1>1
<1> QED
  BY <1>1, <1>2

-----------------------------------------------------------------------------
(* The recursive functions Pushed and EventsOf                             *)

\* f solves the recursive definition inside Pushed, which starts from r, on 0..n.
Routes(f, r, q, n) == f = [i \in 0..n |-> IF i = 0 THEN r ELSE Route(f[i - 1], q[i])]

LEMMA RoutesExist ==
  ASSUME NEW r, NEW q
  PROVE  \A n \in Nat : \E f : Routes(f, r, q, n)
<1> DEFINE Step(f, i) == IF i = 0 THEN r ELSE Route(f[i - 1], q[i])
           S == {n \in Nat : \E f : f = [i \in 0..n |-> Step(f, i)]}
<1>1. 0 \in S
  <2> DEFINE f == [i \in 0..0 |-> r]
  <2>1. f = [i \in 0..0 |-> Step(f, i)]
    OBVIOUS
  <2> QED
    BY <2>1
<1>2. ASSUME NEW n \in S PROVE n + 1 \in S
  <2>1. PICK f : f = [i \in 0..n |-> Step(f, i)]
    OBVIOUS
  <2> DEFINE h == [i \in 0..n + 1 |-> Step(f, i)]
  <2>2. ASSUME NEW i \in 0..n + 1 PROVE h[i] = Step(h, i)
    <3>1. CASE i = 0
      BY <3>1
    <3>2. CASE i # 0
      <4>1. i - 1 \in 0..n /\ i - 1 \in 0..n + 1
        BY <3>2
      <4>2. f[i - 1] = Step(f, i - 1)
        BY <2>1, <4>1
      <4>3. h[i - 1] = Step(f, i - 1)
        BY <4>1
      <4>4. h[i - 1] = f[i - 1]
        BY <4>2, <4>3
      <4> QED
        BY <3>2, <4>4
    <3> QED
      BY <3>1, <3>2
  <2>3. h = [i \in 0..n + 1 |-> Step(h, i)]
    BY <2>2
  <2>4. \E k : k = [i \in 0..n + 1 |-> Step(k, i)]
    <3> HIDE DEF h, Step
    <3> QED
      BY <2>3, Zenon
  <2>5. n + 1 \in Nat
    OBVIOUS
  <2> HIDE DEF Step
  <2> QED
    BY <2>4, <2>5
<1>3. S = Nat
  <2> HIDE DEF Step
  <2> QED
    BY <1>1, <1>2, SetInduction
<1> QED
  BY <1>3 DEF Routes

\* What Pushed starts from
Base(b, gen) == [buf |-> b, gen |-> gen, windows |-> <<>>]

\* Pushed goes from one event to the next.
Chain(f, r, q) == f[0] = r /\ \A i \in 1..Len(q) : f[i] = Route(f[i - 1], q[i])

LEMMA PushedIs ==
  ASSUME NEW b, NEW gen, NEW q, Len(q) \in Nat
  PROVE  \E f : Chain(f, Base(b, gen), q) /\ Pushed(b, q, gen) = f[Len(q)]
<1> DEFINE r == [buf |-> b, gen |-> gen, windows |-> <<>>]
           K == CHOOSE f : Routes(f, r, q, Len(q))
<1>1. \E f : Routes(f, r, q, Len(q))
  BY RoutesExist
<1>2. Routes(K, r, q, Len(q))
  BY <1>1, Zenon
<1>3. Pushed(b, q, gen) = K[Len(q)]
  BY Zenon DEF Pushed, Routes
<1>4. r = Base(b, gen)
  BY DEF Base
<1> HIDE DEF K, r
<1>5. K = [i \in 0..Len(q) |-> IF i = 0 THEN r ELSE Route(K[i - 1], q[i])]
  BY <1>2 DEF Routes
<1>6. 0 \in 0..Len(q) /\ \A i \in 1..Len(q) : i \in 0..Len(q) /\ i # 0
  OBVIOUS
<1>7. K[0] = r
  BY <1>5, <1>6
<1>8. \A i \in 1..Len(q) : K[i] = Route(K[i - 1], q[i])
  BY <1>5, <1>6
<1>9. Chain(K, r, q)
  BY <1>7, <1>8 DEF Chain
<1> QED
  BY <1>3, <1>4, <1>9

\* f solves the recursive definition inside EventsOf(q) on 0..n.
Sums(f, q, n) == f = [i \in 0..n |-> IF i = 0 THEN 0 ELSE f[i - 1] + q[i].n]

LEMMA SumsExist ==
  ASSUME NEW q
  PROVE  \A n \in Nat : \E f : Sums(f, q, n)
<1> DEFINE Step(f, i) == IF i = 0 THEN 0 ELSE f[i - 1] + q[i].n
           S == {n \in Nat : \E f : f = [i \in 0..n |-> Step(f, i)]}
<1>1. 0 \in S
  <2> DEFINE f == [i \in 0..0 |-> 0]
  <2>1. f = [i \in 0..0 |-> Step(f, i)]
    OBVIOUS
  <2> QED
    BY <2>1
<1>2. ASSUME NEW n \in S PROVE n + 1 \in S
  <2>1. PICK f : f = [i \in 0..n |-> Step(f, i)]
    OBVIOUS
  <2> DEFINE h == [i \in 0..n + 1 |-> Step(f, i)]
  <2>2. ASSUME NEW i \in 0..n + 1 PROVE h[i] = Step(h, i)
    <3>1. CASE i = 0
      BY <3>1
    <3>2. CASE i # 0
      <4>1. i - 1 \in 0..n /\ i - 1 \in 0..n + 1
        BY <3>2
      <4>2. f[i - 1] = Step(f, i - 1)
        BY <2>1, <4>1
      <4>3. h[i - 1] = Step(f, i - 1)
        BY <4>1
      <4>4. h[i - 1] = f[i - 1]
        BY <4>2, <4>3
      <4> QED
        BY <3>2, <4>4
    <3> QED
      BY <3>1, <3>2
  <2>3. h = [i \in 0..n + 1 |-> Step(h, i)]
    BY <2>2
  <2>4. \E k : k = [i \in 0..n + 1 |-> Step(k, i)]
    <3> HIDE DEF h, Step
    <3> QED
      BY <2>3, Zenon
  <2>5. n + 1 \in Nat
    OBVIOUS
  <2> HIDE DEF Step
  <2> QED
    BY <2>4, <2>5
<1>3. S = Nat
  <2> HIDE DEF Step
  <2> QED
    BY <1>1, <1>2, SetInduction
<1> QED
  BY <1>3 DEF Sums

\* EventsOf(q) is the last value of such a solution.
LEMMA EventsOfIs ==
  ASSUME NEW q, Len(q) \in Nat
  PROVE  \E f : Sums(f, q, Len(q)) /\ EventsOf(q) = f[Len(q)]
<1> DEFINE K == CHOOSE f : Sums(f, q, Len(q))
<1>1. \E f : Sums(f, q, Len(q))
  BY SumsExist
<1>2. Sums(K, q, Len(q))
  BY <1>1, Zenon
<1>3. EventsOf(q) = K[Len(q)]
  BY Zenon DEF EventsOf, Sums
<1> QED
  BY <1>2, <1>3

LEMMA EventsOfEmpty == EventsOf(<<>>) = 0
<1>1. Len(<<>>) = 0
  OBVIOUS
<1>2. PICK f : Sums(f, <<>>, 0) /\ EventsOf(<<>>) = f[0]
  BY <1>1, EventsOfIs
<1> QED
  BY <1>2 DEF Sums

LEMMA EventsOfNatural ==
  ASSUME NEW q \in Seq(Windows)
  PROVE  EventsOf(q) \in Nat
<1>1. PICK f : Sums(f, q, Len(q)) /\ EventsOf(q) = f[Len(q)]
  BY EventsOfIs
<1> DEFINE S == {i \in Nat : i <= Len(q) => f[i] \in Nat}
<1>2. \A i \in 0..Len(q) : f[i] = IF i = 0 THEN 0 ELSE f[i - 1] + q[i].n
  BY <1>1 DEF Sums
<1>3. 0 \in S
  BY <1>2
<1>4. ASSUME NEW i \in S PROVE i + 1 \in S
  <2> SUFFICES ASSUME i + 1 <= Len(q) PROVE f[i + 1] \in Nat
    OBVIOUS
  <2>1. f[i + 1] = f[i] + q[i + 1].n
    BY <1>2
  <2>2. q[i + 1].n \in Nat
    <3>1. i + 1 \in 1..Len(q)
      OBVIOUS
    <3>2. q[i + 1] \in Windows
      BY <3>1
    <3> QED
      BY <3>2 DEF Windows
  <2>3. f[i] \in Nat
    OBVIOUS
  <2> QED
    BY <2>1, <2>2, <2>3
<1>5. S = Nat
  <2> HIDE DEF S
  <2> QED
    BY <1>3, <1>4, SetInduction DEF S
<1> QED
  BY <1>1, <1>5

\* A window at the end adds its events.
LEMMA EventsOfAppend ==
  ASSUME NEW q \in Seq(Windows), NEW b \in Windows
  PROVE  EventsOf(Append(q, b)) = EventsOf(q) + b.n
<1> DEFINE N == Len(q)
           r == Append(q, b)
<1>0. /\ r \in Seq(Windows) /\ Len(r) = N + 1 /\ r[N + 1] = b
      /\ \A i \in 1..N : r[i] = q[i]
  OBVIOUS
<1>1. PICK f : Sums(f, q, N) /\ EventsOf(q) = f[N]
  BY EventsOfIs
<1>2. PICK h : Sums(h, r, N + 1) /\ EventsOf(r) = h[N + 1]
  <2>1. N + 1 \in Nat
    OBVIOUS
  <2> HIDE DEF r
  <2> QED
    BY ONLY <1>0, <2>1, EventsOfIs
<1>3. \A i \in 0..N : f[i] = IF i = 0 THEN 0 ELSE f[i - 1] + q[i].n
  BY <1>1 DEF Sums
<1>4. \A i \in 0..N + 1 : h[i] = IF i = 0 THEN 0 ELSE h[i - 1] + r[i].n
  BY <1>2 DEF Sums
<1> DEFINE S == {i \in Nat : i <= N => h[i] = f[i]}
<1>5. 0 \in S
  BY <1>3, <1>4
<1>6. ASSUME NEW i \in S PROVE i + 1 \in S
  <2> SUFFICES ASSUME i + 1 <= N PROVE h[i + 1] = f[i + 1]
    OBVIOUS
  <2>1. f[i + 1] = f[i] + q[i + 1].n
    BY <1>3
  <2>2. h[i + 1] = h[i] + r[i + 1].n
    BY <1>4
  <2> QED
    BY <1>0, <2>1, <2>2
<1>7. S = Nat
  <2> HIDE DEF S
  <2> QED
    BY <1>5, <1>6, SetInduction DEF S
<1>8. h[N] = f[N]
  BY <1>7
<1>9. h[N + 1] = h[N] + b.n
  <2> HIDE DEF r
  <2> QED
    BY <1>0, <1>4
<1> QED
  BY <1>1, <1>2, <1>8, <1>9

\* The first window taken away takes its events.
LEMMA TailOf ==
  ASSUME NEW q \in Seq(Windows), q # <<>>
  PROVE  /\ Tail(q) \in Seq(Windows) /\ Len(Tail(q)) = Len(q) - 1 /\ Len(q) \in Nat \ {0}
         /\ \A i \in 1..(Len(q) - 1) : Tail(q)[i] = q[i + 1]
         /\ Head(q) = q[1] /\ Head(q) \in Windows
OBVIOUS

LEMMA EventsOfTail ==
  ASSUME NEW q \in Seq(Windows), q # <<>>
  PROVE  EventsOf(q) = Head(q).n + EventsOf(Tail(q))
<1> DEFINE N == Len(q)
           M == N - 1
           t == Tail(q)
<1>0. /\ t \in Seq(Windows) /\ Len(t) = M /\ M \in Nat /\ N \in Nat /\ N = M + 1
      /\ \A i \in 1..M : t[i] = q[i + 1]
      /\ Head(q) = q[1] /\ q[1] \in Windows
  BY TailOf
<1>1. PICK f : Sums(f, q, N) /\ EventsOf(q) = f[N]
  BY EventsOfIs
<1> HIDE DEF t, N, M
<1>2. PICK h : Sums(h, t, M) /\ EventsOf(t) = h[M]
  BY ONLY <1>0, EventsOfIs
<1>3. \A i \in 0..N : f[i] = IF i = 0 THEN 0 ELSE f[i - 1] + q[i].n
  BY <1>1 DEF Sums
<1>4. \A i \in 0..M : h[i] = IF i = 0 THEN 0 ELSE h[i - 1] + t[i].n
  BY <1>2 DEF Sums
<1>5. q[1].n \in Nat
  BY <1>0 DEF Windows
<1> DEFINE S == {i \in Nat : i <= M => h[i] \in Nat /\ f[i + 1] = q[1].n + h[i]}
<1>6. 0 \in S
  <2>1. f[1] = f[0] + q[1].n /\ f[0] = 0 /\ h[0] = 0
    BY <1>0, <1>3, <1>4
  <2> QED
    BY <1>5, <2>1
<1>7. ASSUME NEW i \in S PROVE i + 1 \in S
  <2> SUFFICES ASSUME i + 1 <= M
               PROVE  h[i + 1] \in Nat /\ f[(i + 1) + 1] = q[1].n + h[i + 1]
    OBVIOUS
  <2>1. f[(i + 1) + 1] = f[i + 1] + q[(i + 1) + 1].n
    <3>1. (i + 1) + 1 \in 0..N /\ (i + 1) + 1 # 0 /\ ((i + 1) + 1) - 1 = i + 1
      BY <1>0
    <3> QED
      BY <1>3, <3>1
  <2>2. h[i + 1] = h[i] + t[i + 1].n
    BY <1>0, <1>4
  <2>3. t[i + 1] = q[(i + 1) + 1] /\ t[i + 1].n \in Nat
    <3>1. i + 1 \in 1..M
      BY <1>0
    <3>2. t[i + 1] \in Windows
      BY <1>0, <3>1
    <3> QED
      BY <1>0, <3>1, <3>2 DEF Windows
  <2>4. h[i] \in Nat /\ f[i + 1] = q[1].n + h[i]
    BY <1>0
  <2> QED
    <3>1. PICK a, b, c \in Nat : a = q[1].n /\ b = h[i] /\ c = t[i + 1].n
      BY <1>5, <2>3, <2>4
    <3>2. h[i + 1] = b + c /\ f[(i + 1) + 1] = (a + b) + c
      BY <2>1, <2>2, <2>3, <2>4, <3>1
    <3>3. b + c \in Nat /\ (a + b) + c = a + (b + c)
      BY ONLY a \in Nat, b \in Nat, c \in Nat
    <3> QED
      BY <3>1, <3>2, <3>3
<1>8. S = Nat
  <2> HIDE DEF S
  <2> QED
    BY <1>6, <1>7, SetInduction DEF S
<1>9. f[M + 1] = q[1].n + h[M]
  BY <1>0, <1>8
<1> QED
  BY <1>0, <1>1, <1>2, <1>9 DEF t
-----------------------------------------------------------------------------
(* One event                                                               *)

\* Events in the buffer and those given up
Rest(b) == b.n + b.discarded

LEMMA BufferFields ==
  ASSUME NEW b \in Buffers
  PROVE  /\ b.n \in Nat /\ b.gens \in SUBSET Nat /\ b.resets \in Nat
         /\ b.discarded \in Nat /\ b.id \in Nat /\ b.last \in Nat /\ Rest(b) \in Nat
BY DEF Buffers, Rest

LEMMA WindowFields ==
  ASSUME NEW ws \in Seq(Windows), NEW i \in DOMAIN ws
  PROVE  ws[i].id \in Nat /\ ws[i].n \in Nat /\ ws[i].reset \in Nat /\ ws[i].prev \in Nat
<1>1. ws[i] \in Windows
  OBVIOUS
<1> QED
  BY <1>1 DEF Windows

\* A reset, of a gap or of a recovery, leaves nothing for later windows to go on
\* from.
LEMMA ResetKeeps ==
  ASSUME NEW b, NEW ws, NEW gen, Good(b, ws, gen)
  PROVE  /\ Reset(b) \in Buffers /\ Reset(b).n = 0 /\ Reset(b).discarded = b.n + b.discarded
         /\ Reset(b).gens = {} /\ Reset(b).resets = b.resets + 1
         /\ Good(Reset(b), ws, gen) /\ Rest(Reset(b)) = Rest(b)
         /\ \A s, reset : Carried(s, reset, b, ws) => Carried(s, reset, Reset(b), ws)
<1> DEFINE d == Reset(b)
<1>1. b \in Buffers /\ ws \in Seq(Windows)
  BY DEF Good
<1>2. /\ b.n \in Nat /\ b.resets \in Nat /\ b.discarded \in Nat /\ b.id \in Nat
  BY <1>1, BufferFields
<1>3. /\ d.n = 0 /\ d.discarded = b.discarded + b.n /\ d.gens = {}
      /\ d.resets = b.resets + 1 /\ d.last = 0 /\ d.id = b.id /\ d \in Buffers
  <2>1. /\ d.n = 0 /\ d.discarded = b.discarded + b.n /\ d.gens = {}
        /\ d.resets = b.resets + 1 /\ d.last = 0 /\ d.id = b.id
    BY <1>1 DEF Reset, Buffers
  <2>2. d \in Buffers
    <3>1. {} \in SUBSET Nat /\ b.resets + 1 \in Nat /\ b.discarded + b.n \in Nat
      BY <1>2
    <3> QED
      BY <1>1, <1>2, <3>1 DEF Reset, Buffers
  <2> QED
    BY <2>1, <2>2
<1> HIDE DEF d
<1>4. \A i \in DOMAIN ws : ws[i].reset <= b.resets
  BY DEF Good
<1>5. \A i \in DOMAIN ws : ws[i].reset <= d.resets /\ ws[i].reset # d.resets
  <2> SUFFICES ASSUME NEW i \in DOMAIN ws
               PROVE  ws[i].reset <= d.resets /\ ws[i].reset # d.resets
    OBVIOUS
  <2>1. ws[i].reset \in Nat /\ ws[i].reset <= b.resets
    BY <1>1, <1>4, WindowFields
  <2> QED
    BY <1>2, <1>3, <2>1
<1>6. OneGeneration(d, ws, gen)
  BY <1>3 DEF Good, OneGeneration
<1>7. Linked(d, ws)
  BY <1>5 DEF Good, Linked
<1>8. Good(d, ws, gen)
  BY <1>1, <1>3, <1>5, <1>6, <1>7 DEF Good
<1>9. Rest(d) = Rest(b)
  BY <1>2, <1>3 DEF Rest
<1>10. ASSUME NEW s, NEW reset, Carried(s, reset, b, ws)
       PROVE  Carried(s, reset, d, ws)
  <2> SUFFICES ASSUME s # 0
               PROVE  /\ reset \in 0..d.resets
                      /\ \A i \in DOMAIN ws : Follows(ws, 0, i) /\ ws[i].reset = reset
                                              => ws[i].prev = s
                      /\ LastOf(ws, 0) /\ d.resets = reset => d.last = s
    BY DEF Carried
  <2>1. reset \in 0..b.resets
    BY <1>10 DEF Carried
  <2>2. reset \in 0..d.resets /\ d.resets # reset
    BY <1>2, <1>3, <2>1
  <2> QED
    BY <1>10, <2>2 DEF Carried
<1> QED
  BY <1>2, <1>3, <1>8, <1>9, <1>10 DEF d

\* The order of the windows, once another is behind them
LEMMA AppendFollows ==
  ASSUME NEW ws \in Seq(Windows), NEW w \in Windows
  PROVE  LET v == Append(ws, w)
         IN /\ v \in Seq(Windows) /\ Len(v) = Len(ws) + 1 /\ Len(ws) \in Nat
            /\ v[Len(ws) + 1] = w /\ \A i \in 1..Len(ws) : v[i] = ws[i]
            /\ \A h \in 0..Len(ws) :
                 /\ \A i \in 1..Len(ws) : Follows(v, h, i) => Follows(ws, h, i)
                 /\ Follows(v, h, Len(ws) + 1) => LastOf(ws, h)
                 /\ LastOf(v, h) => LastOf(ws, h) /\ w.n < 2
<1> DEFINE v == Append(ws, w)
           N == Len(ws)
<1>1. /\ v \in Seq(Windows) /\ Len(v) = N + 1 /\ N \in Nat
      /\ v[N + 1] = w /\ \A i \in 1..N : v[i] = ws[i]
  OBVIOUS
<1> HIDE DEF v
<1>2. ASSUME NEW h \in 0..N, NEW i \in 1..N, Follows(v, h, i)
      PROVE  Follows(ws, h, i)
  <2>1. \A k \in (h + 1)..(i - 1) : v[k] = ws[k]
    BY <1>1
  <2> QED
    BY <1>1, <1>2, <2>1 DEF Follows
<1>3. ASSUME NEW h \in 0..N, Follows(v, h, N + 1)
      PROVE  LastOf(ws, h)
  <2>1. \A k \in (h + 1)..N : k \in (h + 1)..((N + 1) - 1) /\ v[k] = ws[k]
    BY <1>1
  <2> QED
    BY <1>3, <2>1 DEF Follows, LastOf
<1>4. ASSUME NEW h \in 0..N, LastOf(v, h)
      PROVE  LastOf(ws, h) /\ w.n < 2
  <2>1. \A k \in (h + 1)..N : k \in (h + 1)..(N + 1) /\ v[k] = ws[k]
    BY <1>1
  <2>2. N + 1 \in (h + 1)..(N + 1)
    BY <1>1
  <2> QED
    BY <1>1, <1>4, <2>1, <2>2 DEF LastOf
<1> QED
  BY <1>1, <1>2, <1>3, <1>4 DEF v
\* An event that the window being filled takes
LEMMA AddKeeps ==
  ASSUME NEW b, NEW ws, NEW gen, Good(b, ws, gen), NEW c \in Buffers,
         c.n = b.n + 1, c.gens = {gen}, c.resets = b.resets,
         c.discarded = b.discarded, c.last = b.last
  PROVE  /\ Good(c, ws, gen) /\ Rest(c) = Rest(b) + 1
         /\ \A s, reset : Carried(s, reset, b, ws) => Carried(s, reset, c, ws)
<1>1. b \in Buffers /\ b.n \in Nat /\ b.discarded \in Nat
  BY BufferFields DEF Good
<1>2. Rest(c) = Rest(b) + 1
  BY <1>1 DEF Rest
<1>3. OneGeneration(c, ws, gen)
  <2>1. c.n > 0
    BY <1>1
  <2> QED
    BY <2>1 DEF Good, OneGeneration
<1>4. Linked(c, ws)
  BY DEF Good, Linked
<1>5. Good(c, ws, gen)
  BY <1>3, <1>4 DEF Good
<1>6. \A s, reset : Carried(s, reset, b, ws) => Carried(s, reset, c, ws)
  BY DEF Carried
<1> QED
  BY <1>2, <1>5, <1>6

\* An event beyond the window being filled ends it: window w.
LEMMA EndKeeps ==
  ASSUME NEW b, NEW ws, NEW gen, Good(b, ws, gen), b.n > 0, NEW c \in Buffers,
         c.n = 1, c.gens = {gen}, c.resets = b.resets, c.discarded = b.discarded,
         c.last = IF b.n > 1 THEN b.id + 1 ELSE b.last,
         NEW w \in Windows, w.id = b.id + 1, w.n = b.n, w.gens = b.gens,
         w.reset = b.resets, w.prev = b.last
  PROVE  /\ Good(c, Append(ws, w), gen)
         /\ EventsOf(Append(ws, w)) + Rest(c) = EventsOf(ws) + Rest(b) + 1
         /\ \A s, reset : Carried(s, reset, b, ws) => Carried(s, reset, c, Append(ws, w))
<1> DEFINE v == Append(ws, w)
           N == Len(ws)
<1>1. b \in Buffers /\ ws \in Seq(Windows) /\ b.n \in Nat /\ b.discarded \in Nat
      /\ b.resets \in Nat
  BY BufferFields DEF Good
<1>2. /\ v \in Seq(Windows) /\ Len(v) = N + 1 /\ N \in Nat
      /\ v[N + 1] = w /\ \A i \in 1..N : v[i] = ws[i]
  BY <1>1, AppendFollows
<1>3. \A h \in 0..N :
        /\ \A i \in 1..N : Follows(v, h, i) => Follows(ws, h, i)
        /\ Follows(v, h, N + 1) => LastOf(ws, h)
        /\ LastOf(v, h) => LastOf(ws, h) /\ w.n < 2
  BY <1>1, AppendFollows
<1>4. EventsOf(v) + Rest(c) = EventsOf(ws) + Rest(b) + 1
  <2>1. EventsOf(v) = EventsOf(ws) + b.n /\ EventsOf(ws) \in Nat
    BY <1>1, EventsOfAppend, EventsOfNatural
  <2> HIDE DEF v
  <2> QED
    BY <1>1, <2>1 DEF Rest
<1> HIDE DEF v
<1>5. DOMAIN v = 1..(N + 1) /\ DOMAIN ws = 1..N
  BY <1>1, <1>2
<1>6. OneGeneration(c, v, gen)
  <2>1. w.gens = {gen} /\ \A i \in 1..N : ws[i].gens = {gen}
    BY <1>5 DEF Good, OneGeneration
  <2>2. \A i \in 1..(N + 1) : v[i].gens = {gen}
    <3> SUFFICES ASSUME NEW i \in 1..(N + 1) PROVE v[i].gens = {gen}
      OBVIOUS
    <3>1. CASE i = N + 1 BY <1>2, <2>1, <3>1
    <3>2. CASE i \in 1..N BY <1>2, <2>1, <3>2
    <3> QED BY <1>2, <3>1, <3>2
  <2> QED
    BY <1>5, <2>2 DEF OneGeneration
<1>7. \A i \in DOMAIN v : v[i].reset <= c.resets
  <2>1. \A i \in 1..N : ws[i].reset <= b.resets
    BY <1>5 DEF Good
  <2> SUFFICES ASSUME NEW i \in 1..(N + 1) PROVE v[i].reset <= c.resets
    BY <1>5
  <2>2. CASE i = N + 1 BY <1>1, <1>2, <2>2
  <2>3. CASE i \in 1..N BY <1>2, <2>1, <2>3
  <2> QED BY <1>2, <2>2, <2>3
<1>8. Linked(c, v)
  <2> SUFFICES ASSUME NEW h \in 1..(N + 1), v[h].n > 1
               PROVE  /\ \A i \in 1..(N + 1) : Follows(v, h, i) /\ v[i].reset = v[h].reset
                                               => v[i].prev = v[h].id
                      /\ LastOf(v, h) /\ c.resets = v[h].reset => c.last = v[h].id
    BY <1>5 DEF Linked
  <2>1. CASE h = N + 1
    <3>1. v[h].id = c.last
      BY <1>2, <2>1
    <3>2. \A i \in 1..(N + 1) : ~Follows(v, h, i)
      BY <1>2, <2>1 DEF Follows
    <3> QED
      BY <3>1, <3>2
  <2>2. CASE h \in 1..N
    <3>1. v[h] = ws[h] /\ h \in 0..N /\ h \in DOMAIN ws
      BY <1>2, <1>5, <2>2
    <3>2. /\ \A i \in 1..N : Follows(ws, h, i) /\ ws[i].reset = ws[h].reset
                             => ws[i].prev = ws[h].id
          /\ LastOf(ws, h) /\ b.resets = ws[h].reset => b.last = ws[h].id
      BY <1>5, <3>1 DEF Good, Linked
    <3>3. ASSUME NEW i \in 1..(N + 1), Follows(v, h, i), v[i].reset = v[h].reset
          PROVE  v[i].prev = v[h].id
      <4>1. CASE i = N + 1 BY <1>2, <1>3, <3>1, <3>2, <3>3, <4>1
      <4>2. CASE i \in 1..N BY <1>2, <1>3, <3>1, <3>2, <3>3, <4>2
      <4> QED BY <1>2, <4>1, <4>2
    <3>4. ASSUME LastOf(v, h), c.resets = v[h].reset
          PROVE  c.last = v[h].id
      <4>1. LastOf(ws, h) /\ b.n < 2
        BY <1>3, <3>1, <3>4
      <4>2. c.last = b.last
        BY <1>1, <4>1
      <4> QED
        BY <3>1, <3>2, <3>4, <4>1, <4>2
    <3> QED
      BY <3>3, <3>4
  <2> QED
    BY <1>2, <2>1, <2>2
<1>9. ASSUME NEW s, NEW reset, Carried(s, reset, b, ws)
      PROVE  Carried(s, reset, c, v)
  <2> SUFFICES ASSUME s # 0
               PROVE  /\ reset \in 0..c.resets
                      /\ \A i \in 1..(N + 1) : Follows(v, 0, i) /\ v[i].reset = reset
                                               => v[i].prev = s
                      /\ LastOf(v, 0) /\ c.resets = reset => c.last = s
    BY <1>5 DEF Carried
  <2>1. /\ reset \in 0..b.resets
        /\ \A i \in 1..N : Follows(ws, 0, i) /\ ws[i].reset = reset => ws[i].prev = s
        /\ LastOf(ws, 0) /\ b.resets = reset => b.last = s
    BY <1>5, <1>9 DEF Carried
  <2>2. 0 \in 0..N
    BY <1>2
  <2>3. ASSUME NEW i \in 1..(N + 1), Follows(v, 0, i), v[i].reset = reset
        PROVE  v[i].prev = s
    <3>1. CASE i = N + 1 BY <1>2, <1>3, <2>1, <2>2, <2>3, <3>1
    <3>2. CASE i \in 1..N BY <1>2, <1>3, <2>1, <2>2, <2>3, <3>2
    <3> QED BY <1>2, <3>1, <3>2
  <2>4. ASSUME LastOf(v, 0), c.resets = reset
        PROVE  c.last = s
    <3>1. LastOf(ws, 0) /\ b.n < 2
      BY <1>3, <2>2, <2>4
    <3>2. c.last = b.last
      BY <1>1, <3>1
    <3> QED
      BY <2>1, <2>4, <3>1, <3>2
  <2> QED
    BY <2>1, <2>3, <2>4
<1> QED
  BY <1>2, <1>4, <1>6, <1>7, <1>8, <1>9 DEF Good, v

\* What routing keeps of a route r: the invariant, and the GRU state's chain.
GoodRoute(r, gen) ==
  /\ r = [buf |-> r.buf, gen |-> gen, windows |-> r.windows]
  /\ Good(r.buf, r.windows, gen)

Total(r) == EventsOf(r.windows) + Rest(r.buf)

LEMMA RouteKeeps ==
  ASSUME NEW gen \in Nat, NEW r, GoodRoute(r, gen),
         NEW event \in {"same", "beyond", "gap"}
  PROVE  /\ GoodRoute(Route(r, event), gen)
         /\ Total(Route(r, event)) = Total(r) + 1
         /\ \A s, reset : Carried(s, reset, r.buf, r.windows)
              => Carried(s, reset, Route(r, event).buf, Route(r, event).windows)
<1> DEFINE ws == r.windows
           b == IF event = "gap" THEN Reset(r.buf) ELSE r.buf
           ends == event = "beyond" /\ b.n > 0
           c == [b EXCEPT !.n = IF ends THEN 1 ELSE @ + 1,
                          !.gens = (IF ends THEN {} ELSE @) \cup {gen},
                          !.id = IF ends THEN @ + 1 ELSE @,
                          !.last = IF ends /\ b.n > 1 THEN b.id + 1 ELSE @]
           w == [id |-> b.id + 1, n |-> b.n, gens |-> b.gens, reset |-> b.resets,
                 prev |-> b.last]
           d == Route(r, event)
<1>1. r.gen = gen
  BY DEF GoodRoute
<1>2. d = [buf |-> c, gen |-> gen, windows |-> IF ends THEN Append(ws, w) ELSE ws]
  BY <1>1 DEF Route
<1>3. /\ Good(b, ws, gen) /\ Rest(b) = Rest(r.buf)
      /\ \A s, reset : Carried(s, reset, r.buf, ws) => Carried(s, reset, b, ws)
  <2>1. CASE event = "gap"
    BY <2>1, ResetKeeps DEF GoodRoute
  <2>2. CASE event # "gap"
    BY <2>2 DEF GoodRoute
  <2> QED
    BY <2>1, <2>2
<1>4. EventsOf(ws) \in Nat
  BY EventsOfNatural DEF GoodRoute, Good
<1> HIDE DEF b, d
<1>5. /\ b \in Buffers /\ b.n \in Nat /\ b.gens \in SUBSET Nat /\ b.resets \in Nat
      /\ b.discarded \in Nat /\ b.id \in Nat /\ b.last \in Nat /\ Rest(b) \in Nat
  BY <1>3, BufferFields DEF Good
<1>6. b.gens = IF b.n > 0 THEN {gen} ELSE {}
  BY <1>3 DEF Good, OneGeneration
<1>7. /\ c.n = IF ends THEN 1 ELSE b.n + 1
      /\ c.gens = {gen} /\ c.resets = b.resets /\ c.discarded = b.discarded
      /\ c.last = IF ends /\ b.n > 1 THEN b.id + 1 ELSE b.last
      /\ c \in Buffers
  <2>1. /\ c.n = IF ends THEN 1 ELSE b.n + 1
        /\ c.resets = b.resets /\ c.discarded = b.discarded
        /\ c.last = IF ends /\ b.n > 1 THEN b.id + 1 ELSE b.last
    BY <1>5 DEF Buffers
  <2>2. c.gens = (IF ends THEN {} ELSE b.gens) \cup {gen}
    BY <1>5 DEF Buffers
  <2>3. c.gens = {gen}
    BY <1>6, <2>2
  <2>4. c \in Buffers
    <3> HIDE DEF ends
    <3>1. (IF ends THEN {} ELSE b.gens) \cup {gen} \in SUBSET Nat
      BY <1>5
    <3>2. (IF ends THEN 1 ELSE b.n + 1) \in Nat /\ (IF ends THEN b.id + 1 ELSE b.id) \in Nat
          /\ (IF ends /\ b.n > 1 THEN b.id + 1 ELSE b.last) \in Nat
      BY <1>5
    <3> QED
      BY <1>5, <3>1, <3>2 DEF Buffers
  <2> QED
    BY <2>1, <2>3, <2>4
<1>8. /\ w.id = b.id + 1 /\ w.n = b.n /\ w.gens = b.gens /\ w.reset = b.resets
      /\ w.prev = b.last /\ w \in Windows
  BY <1>5 DEF Windows
<1> HIDE DEF c, w
<1>9. CASE ends
  <2>1. b.n > 0 /\ c.n = 1 /\ c.last = IF b.n > 1 THEN b.id + 1 ELSE b.last
    BY <1>7, <1>9
  <2>2. /\ Good(c, Append(ws, w), gen)
        /\ EventsOf(Append(ws, w)) + Rest(c) = EventsOf(ws) + Rest(b) + 1
        /\ \A s, reset : Carried(s, reset, b, ws) => Carried(s, reset, c, Append(ws, w))
    <3> HIDE DEF ends, ws
    <3> QED
      BY <1>3, <1>7, <1>8, <2>1, EndKeeps
  <2>3. d = [buf |-> c, gen |-> gen, windows |-> Append(ws, w)]
    BY <1>2, <1>9
  <2>4. GoodRoute(d, gen)
    BY <2>2, <2>3 DEF GoodRoute
  <2>5. d.buf = c /\ d.windows = Append(ws, w)
    BY <2>3
  <2>6. Total(d) = Total(r) + 1
    BY <1>3, <2>2, <2>5 DEF Total
  <2> QED
    BY <1>3, <2>2, <2>4, <2>5, <2>6 DEF d
<1>10. CASE ~ends
  <2>1. c.n = b.n + 1 /\ c.last = b.last
    BY <1>7, <1>10
  <2>2. /\ Good(c, ws, gen) /\ Rest(c) = Rest(b) + 1
        /\ \A s, reset : Carried(s, reset, b, ws) => Carried(s, reset, c, ws)
    <3> HIDE DEF ends, ws
    <3> QED
      BY <1>3, <1>7, <2>1, AddKeeps
  <2>3. d = [buf |-> c, gen |-> gen, windows |-> ws]
    BY <1>2, <1>10
  <2>4. GoodRoute(d, gen)
    BY <2>2, <2>3 DEF GoodRoute
  <2>5. d.buf = c /\ d.windows = ws
    BY <2>3
  <2>6. Total(d) = Total(r) + 1
    BY <1>3, <1>4, <1>5, <2>2, <2>5 DEF Total
  <2> QED
    BY <1>3, <2>2, <2>4, <2>5, <2>6 DEF d
<1> QED
  BY <1>9, <1>10
-----------------------------------------------------------------------------
(* A batch                                                                 *)

Events == {"same", "beyond", "gap"}

LEMMA PushedKeeps ==
  ASSUME NEW gen \in Nat, NEW b, Good(b, <<>>, gen), NEW n \in Nat,
         NEW q \in [1..n -> Events]
  PROVE  /\ GoodRoute(Pushed(b, q, gen), gen) /\ Len(q) = n
         /\ Total(Pushed(b, q, gen)) = Rest(b) + n
         /\ \A s, reset : Carried(s, reset, b, <<>>)
              => Carried(s, reset, Pushed(b, q, gen).buf, Pushed(b, q, gen).windows)
<1> DEFINE r == Base(b, gen)
<1>1. Len(q) = n
  OBVIOUS
<1>2. PICK f : Chain(f, r, q) /\ Pushed(b, q, gen) = f[Len(q)]
  BY <1>1, PushedIs
<1>3. r.buf = b /\ r.windows = <<>> /\ GoodRoute(r, gen)
  BY DEF Base, GoodRoute
<1>4. Total(r) = Rest(b) /\ Total(r) \in Nat
  <2>1. Rest(b) \in Nat
    BY BufferFields DEF Good
  <2> QED
    BY <1>3, <2>1, EventsOfEmpty DEF Total
<1> HIDE DEF r
<1> DEFINE Kept(i) == /\ GoodRoute(f[i], gen) /\ Total(f[i]) = Total(r) + i
                      /\ \A s, reset : Carried(s, reset, r.buf, r.windows)
                           => Carried(s, reset, f[i].buf, f[i].windows)
           S == {i \in Nat : i <= n => Kept(i)}
<1>5. 0 \in S
  BY <1>2, <1>3, <1>4 DEF Chain
<1>6. ASSUME NEW i \in S PROVE i + 1 \in S
  <2> SUFFICES ASSUME i + 1 <= n PROVE Kept(i + 1)
    OBVIOUS
  <2>1. Kept(i) /\ i \in Nat /\ i + 1 \in 1..n /\ (i + 1) - 1 = i
    OBVIOUS
  <2>2. f[i + 1] = Route(f[i], q[i + 1]) /\ q[i + 1] \in {"same", "beyond", "gap"}
    BY <1>1, <1>2, <2>1 DEF Chain, Events
  <2> HIDE DEF S
  <2>3. /\ GoodRoute(f[i + 1], gen) /\ Total(f[i + 1]) = Total(f[i]) + 1
        /\ \A s, reset : Carried(s, reset, f[i].buf, f[i].windows)
             => Carried(s, reset, f[i + 1].buf, f[i + 1].windows)
    BY <2>1, <2>2, RouteKeeps
  <2>4. Total(f[i + 1]) = Total(r) + (i + 1)
    BY <1>4, <2>1, <2>3
  <2> QED
    BY <2>1, <2>3, <2>4
<1>7. S = Nat
  <2> HIDE DEF S
  <2>1. S \in SUBSET Nat
    BY DEF S
  <2> QED
    BY <1>5, <1>6, <2>1, SetInduction
<1>8. Kept(n)
  BY <1>7
<1> QED
  BY <1>1, <1>2, <1>3, <1>4, <1>8

\* The part of a batch that was routed before the buffer was full
LEMMA BatchCut ==
  ASSUME NEW n \in Nat, NEW q \in [1..n -> Events], NEW k \in 0..(n - 1)
  PROVE  SubSeq(q, 1, k) \in [1..k -> Events]
<1>1. k \in Nat /\ k <= n
  OBVIOUS
<1>2. SubSeq(q, 1, k) = [i \in 1..k |-> q[i]]
  BY <1>1
<1>3. \A i \in 1..k : q[i] \in Events
  BY <1>1
<1> QED
  BY <1>2, <1>3

\* reset_catchup_state takes what is buffered out of the buffer's account.
LEMMA ResetBufferKeeps ==
  ASSUME NEW b, NEW ws, NEW gen, Good(b, ws, gen), NEW g
  PROVE  /\ ResetBuffer(b) \in Buffers /\ ResetBuffer(b).n = 0
         /\ ResetBuffer(b).discarded = b.discarded /\ Rest(ResetBuffer(b)) = b.discarded
         /\ Good(ResetBuffer(b), <<>>, g)
<1> DEFINE d == ResetBuffer(b)
<1>1. /\ Reset(b) \in Buffers /\ Reset(b).n = 0 /\ Reset(b).gens = {}
  BY ResetKeeps
<1>2. b \in Buffers /\ b.discarded \in Nat
  BY BufferFields DEF Good
<1>3. d.n = 0 /\ d.gens = {} /\ d.discarded = b.discarded /\ d \in Buffers
  BY <1>1, <1>2 DEF ResetBuffer, Buffers
<1> HIDE DEF d
<1>4. Rest(d) = b.discarded
  BY <1>2, <1>3 DEF Rest
<1>5. DOMAIN <<>> = {} /\ <<>> \in Seq(Windows)
  OBVIOUS
<1>6. OneGeneration(d, <<>>, g) /\ Linked(d, <<>>)
  BY <1>3, <1>5 DEF OneGeneration, Linked
<1>7. Good(d, <<>>, g)
  BY <1>3, <1>5, <1>6 DEF Good
<1> QED
  BY <1>3, <1>4, <1>7 DEF d
-----------------------------------------------------------------------------
(* The windows, one after another                                          *)

LEMMA GoodEmpty ==
  ASSUME NEW b, NEW ws, NEW gen, Good(b, ws, gen)
  PROVE  Good(b, <<>>, gen)
<1>1. DOMAIN <<>> = {} /\ <<>> \in Seq(Windows)
  OBVIOUS
<1>2. OneGeneration(b, <<>>, gen) /\ Linked(b, <<>>)
  BY <1>1 DEF Good, OneGeneration, Linked
<1> QED
  BY <1>1, <1>2 DEF Good

\* The order of the windows, once the first is taken away
LEMMA TailFollows ==
  ASSUME NEW ws \in Seq(Windows), ws # <<>>
  PROVE  /\ \A h \in 0..(Len(ws) - 1), i \in 1..(Len(ws) - 1) :
              Follows(Tail(ws), h, i) => Follows(ws, h + 1, i + 1)
         /\ \A h \in 0..(Len(ws) - 1) : LastOf(Tail(ws), h) => LastOf(ws, h + 1)
         /\ Head(ws).n < 2 =>
              /\ \A i \in 1..(Len(ws) - 1) : Follows(Tail(ws), 0, i) => Follows(ws, 0, i + 1)
              /\ LastOf(Tail(ws), 0) => LastOf(ws, 0)
<1> DEFINE t == Tail(ws)
           N == Len(ws)
           M == N - 1
<1>1. /\ Len(t) = M /\ N \in Nat \ {0} /\ M \in Nat /\ N = M + 1 /\ Head(ws) = ws[1]
      /\ \A i \in 1..M : t[i] = ws[i + 1]
  BY TailOf
<1>2. \A k \in 2..N : k - 1 \in 1..M /\ t[k - 1] = ws[k]
  <2> HIDE DEF t
  <2> SUFFICES ASSUME NEW k \in 2..N PROVE k - 1 \in 1..M /\ t[k - 1] = ws[k]
    OBVIOUS
  <2>1. k - 1 \in 1..M /\ (k - 1) + 1 = k
    BY <1>1
  <2> QED
    BY <1>1, <2>1
<1> HIDE DEF t, N, M
<1>3. ASSUME NEW h \in 0..M, NEW i \in 1..M, Follows(t, h, i)
      PROVE  Follows(ws, h + 1, i + 1)
  <2>1. h < i /\ t[i].n > 1 /\ \A k \in (h + 1)..(i - 1) : t[k].n < 2
    BY <1>3 DEF Follows
  <2>2. ASSUME NEW k \in ((h + 1) + 1)..((i + 1) - 1)
        PROVE  ws[k].n < 2
    <3>1. k \in 2..N /\ k - 1 \in (h + 1)..(i - 1)
      BY <1>1
    <3> QED
      BY <1>2, <2>1, <3>1
  <2>3. h + 1 < i + 1 /\ ws[i + 1].n > 1
    BY <1>1, <2>1
  <2> QED
    BY <2>2, <2>3 DEF Follows
<1>4. ASSUME NEW h \in 0..M, LastOf(t, h)
      PROVE  LastOf(ws, h + 1)
  <2>1. ASSUME NEW k \in ((h + 1) + 1)..N PROVE ws[k].n < 2
    <3>1. k \in 2..N /\ k - 1 \in (h + 1)..M
      BY <1>1
    <3> QED
      BY <1>1, <1>2, <1>4, <3>1 DEF LastOf
  <2> QED
    BY <2>1 DEF LastOf, N
<1>5. ASSUME Head(ws).n < 2, NEW i \in 1..M, Follows(t, 0, i)
      PROVE  Follows(ws, 0, i + 1)
  <2>1. i + 1 > 0 /\ ws[i + 1].n > 1 /\ \A k \in 2..i : ws[k].n < 2
    <3>1. Follows(ws, 0 + 1, i + 1) /\ 0 + 1 = 1 /\ (i + 1) - 1 = i /\ 1 + 1 = 2
      BY <1>1, <1>3, <1>5
    <3> QED
      BY <3>1 DEF Follows
  <2>2. \A k \in (0 + 1)..((i + 1) - 1) : k = 1 \/ k \in 2..i
    OBVIOUS
  <2> QED
    BY <1>1, <1>5, <2>1, <2>2 DEF Follows
<1>6. ASSUME Head(ws).n < 2, LastOf(t, 0)
      PROVE  LastOf(ws, 0)
  <2>1. LastOf(ws, 0 + 1)
    BY <1>1, <1>4, <1>6
  <2>2. \A k \in (0 + 1)..Len(ws) : k = 1 \/ k \in ((0 + 1) + 1)..Len(ws)
    OBVIOUS
  <2> QED
    BY <1>1, <1>6, <2>1, <2>2 DEF LastOf
<1> QED
  BY <1>3, <1>4, <1>5, <1>6 DEF t, N, M

LEMMA GoodTail ==
  ASSUME NEW b, NEW ws, NEW gen, Good(b, ws, gen), ws # <<>>
  PROVE  Good(b, Tail(ws), gen)
<1> DEFINE t == Tail(ws)
           M == Len(ws) - 1
<1>1. ws \in Seq(Windows) /\ b \in Buffers
  BY DEF Good
<1>2. /\ t \in Seq(Windows) /\ Len(t) = M /\ M \in Nat
      /\ \A i \in 1..M : t[i] = ws[i + 1] /\ i + 1 \in 1..Len(ws)
  BY <1>1, TailOf
<1>3. DOMAIN t = 1..M /\ DOMAIN ws = 1..Len(ws)
  BY <1>1, <1>2
<1>4. /\ \A h \in 0..M, i \in 1..M : Follows(t, h, i) => Follows(ws, h + 1, i + 1)
      /\ \A h \in 0..M : LastOf(t, h) => LastOf(ws, h + 1)
  BY <1>1, TailFollows
<1> HIDE DEF t, M
<1>5. OneGeneration(b, t, gen)
  BY <1>2, <1>3 DEF Good, OneGeneration
<1>6. \A i \in DOMAIN t : t[i].reset <= b.resets
  BY <1>2, <1>3 DEF Good
<1>7. Linked(b, t)
  <2> SUFFICES ASSUME NEW h \in 1..M, t[h].n > 1
               PROVE  /\ \A i \in 1..M : Follows(t, h, i) /\ t[i].reset = t[h].reset
                                         => t[i].prev = t[h].id
                      /\ LastOf(t, h) /\ b.resets = t[h].reset => b.last = t[h].id
    BY <1>3 DEF Linked
  <2>1. t[h] = ws[h + 1] /\ h + 1 \in DOMAIN ws /\ h \in 0..M
    BY <1>2, <1>3
  <2>2. /\ \A i \in DOMAIN ws : Follows(ws, h + 1, i) /\ ws[i].reset = ws[h + 1].reset
                                => ws[i].prev = ws[h + 1].id
        /\ LastOf(ws, h + 1) /\ b.resets = ws[h + 1].reset => b.last = ws[h + 1].id
    BY <2>1 DEF Good, Linked
  <2>3. ASSUME NEW i \in 1..M, Follows(t, h, i), t[i].reset = t[h].reset
        PROVE  t[i].prev = t[h].id
    <3>1. t[i] = ws[i + 1] /\ i + 1 \in DOMAIN ws /\ Follows(ws, h + 1, i + 1)
      BY <1>2, <1>3, <1>4, <2>1, <2>3
    <3> QED
      BY <2>1, <2>2, <2>3, <3>1
  <2> QED
    BY <1>4, <2>1, <2>2, <2>3
<1> QED
  BY <1>1, <1>2, <1>5, <1>6, <1>7 DEF Good, t

\* A window too small is passed over: the state goes on to the next.
LEMMA CarriedPast ==
  ASSUME NEW b, NEW ws, NEW gen, Good(b, ws, gen), ws # <<>>, Head(ws).n < 2,
         NEW s, NEW reset, Carried(s, reset, b, ws)
  PROVE  Carried(s, reset, b, Tail(ws))
<1> DEFINE t == Tail(ws)
           M == Len(ws) - 1
<1>1. ws \in Seq(Windows)
  BY DEF Good
<1>2. /\ t \in Seq(Windows) /\ Len(t) = M /\ M \in Nat
      /\ \A i \in 1..M : t[i] = ws[i + 1] /\ i + 1 \in 1..Len(ws)
  BY <1>1, TailOf
<1>3. DOMAIN t = 1..M /\ DOMAIN ws = 1..Len(ws)
  BY <1>1, <1>2
<1>4. /\ \A i \in 1..M : Follows(t, 0, i) => Follows(ws, 0, i + 1)
      /\ LastOf(t, 0) => LastOf(ws, 0)
  BY <1>1, TailFollows
<1> HIDE DEF t, M
<1>5. Carried(s, reset, b, t)
  BY <1>2, <1>3, <1>4 DEF Carried
<1> QED
  BY <1>5 DEF t

\* After its inference the state of the first window goes on to the next.
LEMMA CarriedOn ==
  ASSUME NEW b, NEW ws, NEW gen, Good(b, ws, gen), ws # <<>>, Head(ws).n > 1
  PROVE  Carried(Head(ws).id, Head(ws).reset, b, Tail(ws))
<1> DEFINE t == Tail(ws)
           M == Len(ws) - 1
           w == Head(ws)
<1>1. ws \in Seq(Windows) /\ b.resets \in Nat
  BY BufferFields DEF Good
<1>2. /\ t \in Seq(Windows) /\ Len(t) = M /\ M \in Nat /\ w = ws[1] /\ 1 \in 1..Len(ws)
      /\ \A i \in 1..M : t[i] = ws[i + 1] /\ i + 1 \in 1..Len(ws)
  BY <1>1, TailOf
<1>3. DOMAIN t = 1..M /\ DOMAIN ws = 1..Len(ws)
  BY <1>1, <1>2
<1>4. /\ \A i \in 1..M : Follows(t, 0, i) => Follows(ws, 1, i + 1)
      /\ LastOf(t, 0) => LastOf(ws, 1)
  <2>1. 0 \in 0..M /\ 0 + 1 = 1
    BY <1>2
  <2> QED
    BY <1>1, <2>1, TailFollows
<1> HIDE DEF t, M, w
<1>5. /\ \A i \in DOMAIN ws : Follows(ws, 1, i) /\ ws[i].reset = w.reset
                              => ws[i].prev = w.id
      /\ LastOf(ws, 1) /\ b.resets = w.reset => b.last = w.id
  BY <1>2, <1>3 DEF Good, Linked, w
<1>6. w.reset \in 0..b.resets
  <2>1. w.reset \in Nat /\ w.reset <= b.resets
    BY <1>1, <1>2, <1>3, WindowFields DEF Good
  <2> QED
    BY <1>1, <2>1
<1>7. Carried(w.id, w.reset, b, t)
  <2>1. ASSUME NEW i \in DOMAIN t, Follows(t, 0, i), t[i].reset = w.reset
        PROVE  t[i].prev = w.id
    <3>1. i + 1 \in DOMAIN ws /\ ws[i + 1] = t[i]
      BY <1>2, <1>3
    <3>2. Follows(ws, 1, i + 1)
      BY <1>3, <1>4, <2>1
    <3> QED
      BY <1>5, <2>1, <3>1, <3>2
  <2>2. LastOf(t, 0) /\ b.resets = w.reset => b.last = w.id
    BY <1>4, <1>5
  <2> QED
    BY <1>6, <2>1, <2>2 DEF Carried
<1> QED
  BY <1>7 DEF t, w

\* The state that is carried to the first window is that of the one before it.
LEMMA CarriedTo ==
  ASSUME NEW b, NEW ws \in Seq(Windows), ws # <<>>, Head(ws).n > 1,
         NEW s, s # 0, Carried(s, Head(ws).reset, b, ws)
  PROVE  Head(ws).prev = s
<1>1. Head(ws) = ws[1] /\ 1 \in DOMAIN ws
  OBVIOUS
<1>2. Follows(ws, 0, 1)
  BY <1>1 DEF Follows
<1> QED
  BY <1>1, <1>2 DEF Carried
-----------------------------------------------------------------------------
(* The invariant, step by step                                             *)

\* Events counted as done with
Spent(s) == s.inferred + s.small + s.window + s.partial

LEMMA Accounting ==
  ASSUME NEW s \in Counts, NEW b \in Buffers, NEW p \in Nat
  PROVE  s.inferred + s.small + s.window + s.partial + p + b.discarded + b.n
           = Spent(s) + p + Rest(b)
<1>1. /\ s.inferred \in Nat /\ s.small \in Nat /\ s.window \in Nat /\ s.partial \in Nat
  BY DEF Counts
<1>2. b.n \in Nat /\ b.discarded \in Nat
  BY BufferFields
<1> QED
  BY <1>1, <1>2 DEF Spent, Rest

\* EventsAccounted in these terms, before a step and after it
Accounts == ~failed => taken + stale = Spent(sum) + pending + Rest(buffer)

LEMMA Accounted ==
  ASSUME IInv
  PROVE  /\ Accounts /\ Spent(sum) \in Nat /\ Rest(buffer) \in Nat
         /\ pending \in Nat /\ taken \in Nat /\ stale \in Nat
<1>1. sum \in Counts /\ buffer \in Buffers /\ pending \in Nat /\ taken \in Nat /\ stale \in Nat
  BY DEF IInv, TypeOK, Good
<1>2. Spent(sum) \in Nat
  BY <1>1 DEF Spent, Counts
<1> QED
  BY <1>1, <1>2, Accounting, BufferFields DEF IInv, EventsAccounted, Accounts

LEMMA AccountedNext ==
  ASSUME TypeOK', Good(buffer, assembled, active)', Accounts'
  PROVE  EventsAccounted'
<1>1. sum' \in Counts /\ buffer' \in Buffers /\ pending' \in Nat
  BY DEF TypeOK, Good
<1> QED
  BY <1>1, Accounting DEF EventsAccounted, Accounts

\* What a count raised does to the total
LEMMA SmallCounted ==
  ASSUME NEW s \in Counts, NEW a \in Nat, NEW t, t = [s EXCEPT !.small = s.small + a]
  PROVE  t \in Counts /\ Spent(t) = Spent(s) + a
<1>1. /\ t.inferred = s.inferred /\ t.small = s.small + a /\ t.window = s.window
      /\ t.partial = s.partial
  BY DEF Counts
<1>2. /\ s.inferred \in Nat /\ s.small \in Nat /\ s.window \in Nat /\ s.partial \in Nat
  BY DEF Counts
<1>3. s.small + a \in Nat
  BY <1>2
<1>4. t \in Counts
  BY <1>3 DEF Counts
<1>5. Spent(t) = Spent(s) + a
  BY ONLY <1>1, <1>2, a \in Nat DEF Spent
<1> QED
  BY <1>4, <1>5

LEMMA WindowCounted ==
  ASSUME NEW s \in Counts, NEW a \in Nat, NEW t, t = [s EXCEPT !.window = s.window + a]
  PROVE  t \in Counts /\ Spent(t) = Spent(s) + a
<1>1. /\ t.inferred = s.inferred /\ t.small = s.small /\ t.window = s.window + a
      /\ t.partial = s.partial
  BY DEF Counts
<1>2. /\ s.inferred \in Nat /\ s.small \in Nat /\ s.window \in Nat /\ s.partial \in Nat
  BY DEF Counts
<1>3. s.window + a \in Nat
  BY <1>2
<1>4. t \in Counts
  BY <1>3 DEF Counts
<1>5. Spent(t) = Spent(s) + a
  BY ONLY <1>1, <1>2, a \in Nat DEF Spent
<1> QED
  BY <1>4, <1>5

LEMMA Fields ==
  ASSUME TypeOK
  PROVE  /\ sum.inferred \in Nat /\ sum.small \in Nat /\ sum.window \in Nat
         /\ sum.partial \in Nat /\ pending \in Nat /\ taken \in Nat /\ stale \in Nat
         /\ procGen \in Nat /\ item \in Nat /\ active \in Nat
BY DEF TypeOK, Counts

\* Nothing is carried without a state.
LEMMA NoState ==
  ASSUME NEW reset, NEW b, NEW ws
  PROVE  Carried(0, reset, b, ws)
BY DEF Carried

LEMMA Initially == Init => IInv
<1> SUFFICES ASSUME Init PROVE IInv
  OBVIOUS
<1> USE DEF Init
<1>1. procGen \in Nat /\ procGen \in 0..procGen /\ 0 \in 0..procGen
  BY BoundsAssumption
<1>2. TypeOK
  <2>1. sum \in Counts
    BY DEF Counts
  <2> QED
    BY <1>1, <2>1 DEF TypeOK
<1>3. Good(buffer, assembled, active)
  <2>1. /\ buffer.n = 0 /\ buffer.gens = {} /\ buffer \in Buffers
    BY DEF Buffers
  <2>2. assembled \in Seq(Windows) /\ DOMAIN assembled = {}
    OBVIOUS
  <2>3. OneGeneration(buffer, assembled, active) /\ Linked(buffer, assembled)
    BY <2>1, <2>2 DEF OneGeneration, Linked
  <2> QED
    BY <2>1, <2>2, <2>3 DEF Good
<1>4. EventsAccounted
  BY DEF EventsAccounted
<1>5. AtPc
  <2>1. Carried(state, stateReset, buffer, Left)
    BY NoState
  <2> QED
    BY <2>1 DEF AtPc
<1> QED
  BY <1>2, <1>3, <1>4, <1>5 DEF IInv

\* The receiver and the result thread
LEMMA OthersKeep ==
  ASSUME IInv, Drop \/ Fail \/ TakeJob
  PROVE  IInv'
<1>1. UNCHANGED <<pc, claimVars, active, buffer, assembled, gruVars, counters>>
  BY DEF Drop, Fail, TakeJob
<1>2. UNCHANGED <<pc, firstItem, item, active, buffer, assembled, state, stateReset,
                  pending, sum, taken, stale>>
  BY <1>1 DEF claimVars, gruVars, counters
<1>3. procGen \in Nat /\ item \in 0..procGen /\ active \in 0..procGen
  BY DEF IInv, TypeOK
<1>4. \/ procGen' = procGen + 1 /\ failed' = failed /\ done' = done
      \/ procGen' = procGen /\ (failed => failed') /\ (done => done')
  BY DEF Drop, Fail, TakeJob, receiverVars
<1>5. TypeOK'
  <2>1. procGen' \in Nat /\ item' \in 0..procGen' /\ active' \in 0..procGen'
    BY <1>2, <1>3, <1>4
  <2>2. failed' \in BOOLEAN /\ done' \in BOOLEAN /\ job' \in BOOLEAN
    BY DEF IInv, TypeOK, Drop, Fail, TakeJob, receiverVars
  <2> QED
    BY <1>2, <2>1, <2>2 DEF IInv, TypeOK
<1>6. EventsAccounted'
  BY <1>2, <1>4 DEF IInv, EventsAccounted
<1>7. Good(buffer, assembled, active)'
  BY <1>2 DEF IInv
<1>8. AtPc'
  <2>1. Left' = Left
    BY <1>2 DEF Left
  <2>2. GoesOn' => GoesOn
    BY <1>2, <1>3, <1>4 DEF GoesOn
  <2>3. AtPc
    BY DEF IInv
  <2>4. Carried(state, stateReset, buffer, Left)' = Carried(state, stateReset, buffer, Left)
    BY <1>2, <2>1
  <2>5. EventsOf(Left)' = EventsOf(Left)
    BY <2>1
  <2> QED
    BY <1>2, <1>4, <2>2, <2>3, <2>4, <2>5 DEF AtPc
<1> QED
  BY <1>5, <1>6, <1>7, <1>8 DEF IInv

LEMMA TakeKeeps ==
  ASSUME IInv, Take
  PROVE  IInv'
<1>1. /\ pc = "top" /\ ~done /\ pc' = "push" /\ firstItem' = FALSE
      /\ item' = (IF firstItem THEN item ELSE procGen)
      /\ UNCHANGED <<procGen, failed, done, active, buffer, assembled, state,
                     stateReset, pending, sum, taken, stale, job>>
  BY DEF Take, receiverVars, gruVars, counters
<1>2. TypeOK'
  <2>1. item' \in 0..procGen'
    BY <1>1 DEF IInv, TypeOK
  <2> QED
    BY <1>1, <2>1 DEF IInv, TypeOK
<1>3. EventsAccounted'
  BY <1>1 DEF IInv, EventsAccounted
<1>4. Good(buffer, assembled, active)'
  BY <1>1 DEF IInv
<1>5. AtPc'
  <2>1. /\ assembled = <<>> /\ (~failed => pending = 0)
        /\ firstItem => state = 0
        /\ GoesOn => Carried(state, stateReset, buffer, Left)
    BY <1>1 DEF IInv, AtPc
  <2>2. Left = assembled /\ Left' = assembled
    BY <1>1 DEF Left
  <2>3. ASSUME GoesOn' PROVE Carried(state, stateReset, buffer, Left)'
    <3>1. CASE firstItem
      BY <1>1, <2>1, <3>1, NoState
    <3>2. CASE ~firstItem
      <4>1. GoesOn
        BY <1>1, <2>3, <3>2 DEF GoesOn
      <4> QED
        BY <1>1, <2>1, <2>2, <4>1
    <3> QED
      BY <3>1, <3>2
  <2> QED
    BY <1>1, <2>1, <2>3 DEF AtPc
<1> QED
  BY <1>2, <1>3, <1>4, <1>5 DEF IInv

LEMMA IdleResetKeeps ==
  ASSUME IInv, IdleReset
  PROVE  IInv'
<1>1. /\ pc = "top" /\ ~firstItem
      /\ buffer' = ResetBuffer(buffer)
      /\ sum' = [sum EXCEPT !.partial = @ + buffer.n]
      /\ state' = 0 /\ stateReset' = None /\ active' = procGen
      /\ UNCHANGED <<procGen, failed, done, pc, firstItem, item, assembled, pending,
                     taken, stale, job>>
  BY DEF IdleReset, receiverVars, claimVars
<1>2. Good(buffer, assembled, active) /\ TypeOK
  BY DEF IInv
<1>3. buffer \in Buffers /\ buffer.n \in Nat /\ buffer.discarded \in Nat
  BY <1>2, BufferFields DEF Good
<1>4. assembled = <<>> /\ assembled' = <<>>
  BY <1>1 DEF IInv, AtPc
<1>5. /\ Good(buffer', <<>>, active')
      /\ buffer'.n = 0 /\ buffer'.discarded = buffer.discarded
  BY <1>1, <1>2, ResetBufferKeeps
<1>6. /\ sum'.partial = sum.partial + buffer.n /\ sum'.inferred = sum.inferred
      /\ sum'.small = sum.small /\ sum'.window = sum.window
      /\ sum' \in Counts
  BY <1>1, <1>2, <1>3 DEF TypeOK, Counts
<1>7. TypeOK'
  <2>1. active' \in 0..procGen' /\ state' \in Nat /\ stateReset' \in Nat \cup {None}
    BY <1>1, <1>2 DEF TypeOK
  <2> QED
    BY <1>1, <1>2, <1>6, <2>1 DEF TypeOK
<1>8. EventsAccounted'
  <2>1. Spent(sum') = Spent(sum) + buffer.n
    BY <1>2, <1>3, <1>6, Fields DEF Spent
  <2>2. Rest(buffer') = buffer.discarded /\ Rest(buffer) = buffer.n + buffer.discarded
    BY <1>3, <1>5 DEF Rest
  <2>3. Accounts'
    BY <1>1, <1>3, <2>1, <2>2, Accounted DEF Accounts
  <2> QED
    BY <1>4, <1>5, <1>7, <2>3, AccountedNext
<1>9. AtPc'
  <2>1. Carried(state, stateReset, buffer, Left)'
    BY <1>1, NoState
  <2>2. AtPc
    BY DEF IInv
  <2> QED
    BY <1>1, <1>4, <2>1, <2>2 DEF AtPc
<1> QED
  BY <1>4, <1>5, <1>7, <1>8, <1>9 DEF IInv

\* Entered and Partial, before a batch is routed
Moved == IF New THEN buffer.n ELSE 0

LEMMA EnteredIs ==
  ASSUME IInv, pc = "push"
  PROVE  /\ Good(Entered, <<>>, item) /\ Moved \in Nat /\ Rest(Entered) \in Nat
         /\ Partial = sum.partial + Moved /\ Rest(Entered) + Moved = Rest(buffer)
         /\ Entered.discarded = buffer.discarded /\ Entered.n \in Nat
         /\ buffer.discarded \in Nat /\ buffer.n \in Nat
         /\ ~failed => Carried(IF New THEN 0 ELSE state, IF New THEN None ELSE stateReset,
                               Entered, <<>>)
<1>1. Good(buffer, assembled, active) /\ TypeOK /\ assembled = <<>>
  BY DEF IInv, AtPc
<1>2. /\ buffer.n \in Nat /\ buffer.discarded \in Nat /\ Rest(buffer) \in Nat
      /\ Rest(buffer) = buffer.n + buffer.discarded /\ sum.partial \in Nat
  BY <1>1, BufferFields, Fields DEF Good, Rest
<1>3. CASE New
  <2>1. /\ Good(Entered, <<>>, item) /\ Entered.n = 0 /\ Rest(Entered) = buffer.discarded
        /\ Entered.discarded = buffer.discarded
    BY <1>1, <1>3, ResetBufferKeeps DEF Entered
  <2>2. Partial = sum.partial + buffer.n /\ Moved = buffer.n
    BY <1>3 DEF Partial, Moved
  <2> QED
    BY <1>2, <1>3, <2>1, <2>2, NoState
<1>4. CASE ~New
  <2>1. Entered = buffer /\ Partial = sum.partial /\ item = active /\ Moved = 0
    BY <1>2, <1>4 DEF Entered, Partial, New, Moved
  <2>2. ~failed => Carried(state, stateReset, buffer, <<>>)
    <3>1. ~failed => GoesOn
      BY <2>1 DEF GoesOn
    <3>2. Left = <<>>
      BY <1>1 DEF Left
    <3> QED
      BY <3>1, <3>2 DEF IInv, AtPc
  <2> QED
    BY <1>1, <1>2, <1>4, <2>1, <2>2
<1> QED
  BY <1>3, <1>4

LEMMA PushKeeps ==
  ASSUME IInv, Push
  PROVE  IInv'
<1>1. PICK events \in Batches :
        /\ LET r == Pushed(Entered, events, item)
           IN buffer' = r.buf /\ assembled' = r.windows /\ pending' = EventsOf(r.windows)
        /\ taken' = taken + Len(events)
  BY DEF Push
<1>2. /\ pc = "push" /\ pc' = "window" /\ active' = item
      /\ sum' = [sum EXCEPT !.partial = Partial]
      /\ state' = (IF New THEN 0 ELSE state)
      /\ stateReset' = (IF New THEN None ELSE stateReset)
      /\ UNCHANGED <<procGen, failed, done, firstItem, item, stale, job>>
  BY DEF Push, receiverVars, claimVars
<1>3. TypeOK /\ item \in Nat
  BY Fields DEF IInv
<1>4. PICK n \in Nat : events \in [1..n -> Events]
  BY BoundsAssumption DEF Batches, Events
<1>5. /\ Good(Entered, <<>>, item) /\ Moved \in Nat /\ Rest(Entered) \in Nat
      /\ Partial = sum.partial + Moved /\ Rest(Entered) + Moved = Rest(buffer)
      /\ ~failed => Carried(state', stateReset', Entered, <<>>)
  BY <1>2, EnteredIs
<1> DEFINE r == Pushed(Entered, events, item)
<1>6. /\ GoodRoute(r, item) /\ Len(events) = n /\ Total(r) = Rest(Entered) + n
      /\ \A s, reset : Carried(s, reset, Entered, <<>>) => Carried(s, reset, r.buf, r.windows)
  <2>1. PICK e, g : e = Entered /\ g = item
    OBVIOUS
  <2>2. g \in Nat /\ Good(e, <<>>, g)
    BY <1>3, <1>5, <2>1
  <2> QED
    BY <1>4, <2>1, <2>2, PushedKeeps
<1>7. buffer' = r.buf /\ assembled' = r.windows /\ pending' = EventsOf(r.windows)
  BY <1>1
<1> HIDE DEF r
<1>8. Good(buffer', assembled', active')
  BY <1>2, <1>6, <1>7 DEF GoodRoute
<1>9. /\ pending' + Rest(buffer') = Rest(Entered) + n /\ pending' \in Nat
      /\ pending' = EventsOf(assembled')
      /\ ~failed => Carried(state', stateReset', buffer', assembled')
  <2>1. assembled' \in Seq(Windows)
    BY <1>8 DEF Good
  <2> QED
    BY <1>5, <1>6, <1>7, <2>1, EventsOfNatural DEF Total
<1>10. /\ sum'.partial = Partial /\ sum'.inferred = sum.inferred
       /\ sum'.small = sum.small /\ sum'.window = sum.window
       /\ sum' \in Counts
  <2>1. Partial \in Nat
    <3>1. sum.partial \in Nat
      BY <1>3, Fields
    <3>2. PICK x, m \in Nat : x = sum.partial /\ m = Moved
      BY <1>5, <3>1
    <3>3. Partial = x + m
      BY <1>5, <3>2
    <3> QED
      BY ONLY <3>2, <3>3
  <2> HIDE DEF Partial
  <2> QED
    BY <1>2, <1>3, <2>1 DEF TypeOK, Counts
<1>11. TypeOK'
  <2>1. /\ active' \in 0..procGen' /\ state' \in Nat /\ stateReset' \in Nat \cup {None}
        /\ taken' \in Nat
    BY <1>1, <1>2, <1>3, <1>6 DEF TypeOK
  <2> QED
    BY <1>2, <1>3, <1>9, <1>10, <2>1 DEF TypeOK
<1>12. EventsAccounted'
  <2>1. Spent(sum') = Spent(sum) + Moved
    <3>1. sum'.partial = sum.partial + Moved /\ Moved \in Nat
      BY <1>5, <1>10
    <3>2. /\ sum.inferred \in Nat /\ sum.small \in Nat /\ sum.window \in Nat
          /\ sum.partial \in Nat
      BY <1>3, Fields
    <3> QED
      BY ONLY <1>10, <3>1, <3>2 DEF Spent
  <2>2. ~failed => pending = 0
    BY <1>2 DEF IInv, AtPc
  <2>3. taken' = taken + n /\ stale' = stale /\ failed' = failed
    BY <1>1, <1>2, <1>6
  <2>4. Accounts'
    <3> SUFFICES ASSUME ~failed'
                 PROVE  taken' + stale' = Spent(sum') + pending' + Rest(buffer')
      BY DEF Accounts
    <3>1. Rest(buffer') \in Nat /\ Rest(Entered) \in Nat /\ Moved \in Nat
      BY <1>5, <1>8, BufferFields DEF Good
    <3>2. pending' + Rest(buffer') = Rest(Entered) + n /\ pending' \in Nat
      BY <1>9
    <3>3. Rest(Entered) + Moved = Rest(buffer)
      BY <1>5
    <3>4. /\ taken + stale = Spent(sum) + pending + Rest(buffer) /\ Spent(sum) \in Nat
          /\ pending = 0 /\ taken \in Nat /\ stale \in Nat /\ Rest(buffer) \in Nat
      BY <2>2, <2>3, Accounted DEF Accounts
    <3>5. taken' + stale' = Spent(sum) + Rest(buffer) + n
      BY <2>3, <3>4
    <3>6. Spent(sum') + pending' + Rest(buffer') = Spent(sum) + Moved + Rest(Entered) + n
      BY <2>1, <3>1, <3>2, <3>4
    <3> QED
      BY <3>1, <3>3, <3>4, <3>5, <3>6
  <2> QED
    BY <1>8, <1>11, <2>4, AccountedNext
<1>13. AtPc'
  <2>1. Left' = assembled'
    BY <1>2 DEF Left
  <2>2. firstItem' = FALSE
    BY <1>2 DEF IInv, AtPc, TypeOK
  <2> QED
    BY <1>2, <1>9, <2>1, <2>2 DEF AtPc, GoesOn
<1> QED
  BY <1>8, <1>11, <1>12, <1>13 DEF IInv
LEMMA OverflowKeeps ==
  ASSUME IInv, Overflow
  PROVE  IInv'
<1>1. /\ pc = "push" /\ pc' = "top" /\ active' = item /\ Recover(item)
      /\ state' = (IF New THEN 0 ELSE state)
      /\ stateReset' = (IF New THEN None ELSE stateReset)
      /\ UNCHANGED <<failed, done, firstItem, item, assembled, pending, stale, job>>
  BY DEF Overflow, claimVars
<1>2. PICK events \in Batches : \E k \in 0..(Len(events) - 1) :
        /\ buffer' = [Pushed(Entered, SubSeq(events, 1, k), item).buf EXCEPT
                        !.n = 0, !.gens = {}, !.discarded = Entered.discarded]
        /\ sum' = [sum EXCEPT !.partial = Partial + Entered.n,
                              !.window = @ + Skipped(events, k)]
        /\ taken' = taken + Len(events)
  BY DEF Overflow
<1>3. PICK k \in 0..(Len(events) - 1) :
        /\ buffer' = [Pushed(Entered, SubSeq(events, 1, k), item).buf EXCEPT
                        !.n = 0, !.gens = {}, !.discarded = Entered.discarded]
        /\ sum' = [sum EXCEPT !.partial = Partial + Entered.n,
                              !.window = @ + Skipped(events, k)]
        /\ taken' = taken + Len(events)
  BY <1>2
<1>4. PICK n \in Nat : events \in [1..n -> Events]
  BY BoundsAssumption DEF Batches, Events
<1>5. Len(events) = n /\ k \in Nat /\ k \in 0..(n - 1)
  BY <1>4
<1>6. SubSeq(events, 1, k) \in [1..k -> Events]
  BY <1>4, <1>5, BatchCut
<1>7. TypeOK /\ assembled = <<>> /\ (~failed => pending = 0)
  BY <1>1 DEF IInv, AtPc
<1>8. /\ Good(Entered, <<>>, item) /\ Moved \in Nat /\ Rest(Entered) \in Nat
      /\ Partial = sum.partial + Moved /\ Rest(Entered) + Moved = Rest(buffer)
      /\ Entered.n \in Nat /\ Entered.discarded \in Nat
      /\ Rest(Entered) = Entered.n + Entered.discarded
  <2>1. /\ Good(Entered, <<>>, item) /\ Moved \in Nat /\ Rest(Entered) \in Nat
        /\ Partial = sum.partial + Moved /\ Rest(Entered) + Moved = Rest(buffer)
    BY <1>1, EnteredIs
  <2>2. Entered \in Buffers
    BY <2>1 DEF Good
  <2> QED
    BY <2>1, <2>2, BufferFields DEF Rest
<1> DEFINE r == Pushed(Entered, SubSeq(events, 1, k), item)
<1>9. GoodRoute(r, item)
  <2>1. PICK e, g, q : e = Entered /\ g = item /\ q = SubSeq(events, 1, k)
    OBVIOUS
  <2>2. g \in Nat /\ Good(e, <<>>, g) /\ q \in [1..k -> Events]
    BY <1>6, <1>7, <1>8, <2>1, Fields
  <2> QED
    BY <1>5, <2>1, <2>2, PushedKeeps
<1>10. buffer' = [r.buf EXCEPT !.n = 0, !.gens = {}, !.discarded = Entered.discarded]
  BY <1>3
<1> HIDE DEF r
<1>11. /\ buffer' \in Buffers /\ buffer'.n = 0 /\ buffer'.gens = {}
       /\ buffer'.discarded = Entered.discarded
  <2>1. r.buf \in Buffers
    BY <1>9 DEF GoodRoute, Good
  <2> QED
    BY <1>8, <1>10, <2>1 DEF Buffers
<1>12. Good(buffer', <<>>, active')
  <2>1. DOMAIN <<>> = {} /\ <<>> \in Seq(Windows)
    OBVIOUS
  <2>2. OneGeneration(buffer', <<>>, active') /\ Linked(buffer', <<>>)
    BY <1>11, <2>1 DEF OneGeneration, Linked
  <2> QED
    BY <1>11, <2>1, <2>2 DEF Good
<1>13. sum' \in Counts /\ Spent(sum') = Spent(sum) + n + Moved + Entered.n
  <2>1. PICK m, v \in Nat : m = Moved /\ v = Entered.n
    BY <1>8
  <2>2. /\ sum.partial \in Nat /\ sum.window \in Nat /\ sum \in Counts
        /\ Spent(sum) \in Nat
    <3>1. /\ sum.inferred \in Nat /\ sum.small \in Nat /\ sum.window \in Nat
          /\ sum.partial \in Nat
      BY <1>7, Fields
    <3>2. Spent(sum) \in Nat
      <4>1. PICK a, b, c, d \in Nat : /\ a = sum.inferred /\ b = sum.small
                                      /\ c = sum.window /\ d = sum.partial
        BY <3>1
      <4>2. a + b + c + d \in Nat
        OBVIOUS
      <4> QED
        BY ONLY <4>1, <4>2 DEF Spent
    <3> QED
      BY <1>7, <3>1, <3>2 DEF TypeOK
  <2>3. /\ Partial + Entered.n = sum.partial + (m + v)
        /\ sum.window + Skipped(events, k) = sum.window + n
    <3>1. Partial = sum.partial + m /\ Entered.n = v
      BY <1>8, <2>1
    <3>2. (sum.partial + m) + v = sum.partial + (m + v)
      BY ONLY <2>1, <2>2
    <3> QED
      BY <1>5, <3>1, <3>2 DEF Skipped
  <2>4. sum' = [sum EXCEPT !.partial = sum.partial + (m + v), !.window = sum.window + n]
    BY <1>3, <2>3
  <2>5. PICK d \in Nat : d = m + v
    BY ONLY <2>1
  <2>6. sum' \in Counts /\ Spent(sum') = Spent(sum) + n + (m + v)
    <3>1. sum' = [sum EXCEPT !.partial = sum.partial + d, !.window = sum.window + n]
      BY <2>4, <2>5
    <3>2. sum' \in Counts /\ Spent(sum') = Spent(sum) + n + d
      <4>1. PICK s, t : s = sum /\ t = sum'
        OBVIOUS
      <4>2. /\ s \in Counts /\ n \in Nat /\ d \in Nat
            /\ t = [s EXCEPT !.partial = s.partial + d, !.window = s.window + n]
        BY <2>2, <3>1, <4>1
      <4>3. t \in Counts /\ Spent(t) = Spent(s) + n + d
        <5>1. /\ t.inferred = s.inferred /\ t.small = s.small /\ t.window = s.window + n
              /\ t.partial = s.partial + d
          BY <4>2 DEF Counts
        <5>2. /\ s.inferred \in Nat /\ s.small \in Nat /\ s.window \in Nat
              /\ s.partial \in Nat
          BY <4>2 DEF Counts
        <5>3. s.window + n \in Nat /\ s.partial + d \in Nat
          BY ONLY <5>2, n \in Nat, d \in Nat
        <5>4. t \in Counts
          BY <4>2, <5>3 DEF Counts
        <5>5. n \in Nat /\ d \in Nat
          BY <4>2
        <5>6. Spent(t) = Spent(s) + n + d
          <6>1. PICK a, b, w, p \in Nat : /\ a = s.inferred /\ b = s.small
                                          /\ w = s.window /\ p = s.partial
            BY <5>2
          <6>2. Spent(t) = a + b + (w + n) + (p + d) /\ Spent(s) = a + b + w + p
            BY <5>1, <6>1 DEF Spent
          <6>3. a + b + (w + n) + (p + d) = a + b + w + p + n + d
            BY ONLY a \in Nat, b \in Nat, w \in Nat, p \in Nat, n \in Nat, d \in Nat
          <6> QED
            BY ONLY <6>2, <6>3
        <5> QED
          BY <5>4, <5>6
      <4> QED
        BY <4>1, <4>3
    <3> QED
      BY <2>5, <3>2
  <2>7. Spent(sum) + n + (m + v) = Spent(sum) + n + m + v
    BY ONLY <1>4, <2>1, <2>2
  <2> QED
    BY <2>1, <2>6, <2>7
<1>14. procGen' \in Nat /\ active' \in 0..procGen' /\ item' \in 0..procGen' /\ active' # procGen'
  BY <1>1, <1>7 DEF TypeOK, Recover
<1>15. TypeOK'
  <2>1. state' \in Nat /\ stateReset' \in Nat \cup {None} /\ taken' \in Nat
    BY <1>1, <1>3, <1>5, <1>7 DEF TypeOK
  <2> QED
    BY <1>1, <1>7, <1>13, <1>14, <2>1 DEF TypeOK
<1>16. EventsAccounted'
  <2>1. Spent(sum') = Spent(sum) + n + Moved + Entered.n
    BY <1>13
  <2>2. Rest(buffer') = Entered.discarded
    BY <1>8, <1>11 DEF Rest
  <2>3. Accounts'
    <3> SUFFICES ASSUME ~failed'
                 PROVE  taken' + stale' = Spent(sum') + pending' + Rest(buffer')
      BY DEF Accounts
    <3>1. /\ taken + stale = Spent(sum) + pending + Rest(buffer) /\ Spent(sum) \in Nat
          /\ pending = 0 /\ taken \in Nat /\ stale \in Nat /\ Rest(buffer) \in Nat
      BY <1>1, <1>7, Accounted DEF Accounts
    <3>2. taken' = taken + n /\ stale' = stale /\ pending' = pending
      BY <1>1, <1>3, <1>5
    <3>3. taken' + stale' = Spent(sum) + Rest(buffer) + n
      BY <3>1, <3>2
    <3>4. Rest(buffer) = Entered.n + Entered.discarded + Moved
      BY <1>8
    <3>5. Entered.n \in Nat /\ Entered.discarded \in Nat /\ Moved \in Nat
      BY <1>8
    <3>6. PICK x, m, v, d \in Nat : /\ x = Spent(sum) /\ m = Moved
                                    /\ v = Entered.n /\ d = Entered.discarded
      BY <3>1, <3>5
    <3>7. taken' + stale' = x + (v + d + m) + n
      BY <3>3, <3>4, <3>6
    <3>8. Spent(sum') + pending' + Rest(buffer') = x + n + m + v + 0 + d
      BY <2>1, <2>2, <3>1, <3>2, <3>6
    <3>9. x + (v + d + m) + n = x + n + m + v + 0 + d
      BY ONLY x \in Nat, n \in Nat, m \in Nat, v \in Nat, d \in Nat
    <3> QED
      BY <3>7, <3>8, <3>9
  <2> QED
    BY <1>1, <1>7, <1>12, <1>15, <2>3, AccountedNext
<1>17. AtPc'
  <2>1. ~GoesOn'
    BY <1>1, <1>14 DEF GoesOn
  <2>2. firstItem' = FALSE
    BY <1>1 DEF IInv, AtPc, TypeOK
  <2> QED
    BY <1>1, <1>7, <2>1, <2>2 DEF AtPc
<1> QED
  BY <1>1, <1>7, <1>12, <1>15, <1>16, <1>17 DEF IInv

\* Where the thread gives the windows up, or has dealt with all of them
LEMMA WindowsEndKeeps ==
  ASSUME IInv, WindowsEnd
  PROVE  IInv'
<1>1. /\ pc = "window" /\ (assembled = <<>> \/ done) /\ assembled' = <<>> /\ pc' = "top"
      /\ UNCHANGED <<procGen, failed, done, firstItem, item, active, buffer, state,
                     stateReset, pending, sum, taken, stale, job>>
  BY DEF WindowsEnd, receiverVars, claimVars, gruVars, counters
<1>2. TypeOK'
  BY <1>1 DEF IInv, TypeOK
<1>3. EventsAccounted'
  BY <1>1 DEF IInv, EventsAccounted
<1>4. Good(buffer, assembled, active)'
  BY <1>1, GoodEmpty DEF IInv
<1>5. AtPc'
  <2>1. Left = assembled /\ Left' = <<>>
    BY <1>1 DEF Left
  <2>2. /\ pending = EventsOf(Left) /\ firstItem = FALSE
        /\ ~failed => Carried(state, stateReset, buffer, Left)
    BY <1>1 DEF IInv, AtPc, TypeOK, GoesOn
  <2>3. ~done' => assembled = <<>> /\ pending' = 0
    BY <1>1, <2>1, <2>2, EventsOfEmpty
  <2>4. GoesOn' => ~failed /\ ~done'
    BY <1>1 DEF GoesOn
  <2>5. GoesOn' => Carried(state, stateReset, buffer, Left)'
    BY <1>1, <2>1, <2>2, <2>3, <2>4
  <2> QED
    BY <1>1, <2>2, <2>3, <2>5 DEF AtPc
<1> QED
  BY <1>2, <1>3, <1>4, <1>5 DEF IInv

LEMMA WindowStaleKeeps ==
  ASSUME IInv, WindowStale
  PROVE  IInv'
<1>1. /\ pc = "window" /\ assembled' = <<>> /\ pc' = "top" /\ Recover(active)
      /\ sum' = [sum EXCEPT !.window = @ + pending] /\ pending' = 0
      /\ UNCHANGED <<failed, done, firstItem, item, active, buffer, state, stateReset,
                     taken, stale, job>>
  BY DEF WindowStale, claimVars, gruVars
<1>2. TypeOK
  BY DEF IInv
<1>3. procGen' \in Nat /\ active' \in 0..procGen' /\ item' \in 0..procGen' /\ active' # procGen'
  BY <1>1, <1>2 DEF TypeOK, Recover
<1>4. sum' \in Counts /\ Spent(sum') = Spent(sum) + pending
  <2>1. sum' = [sum EXCEPT !.window = sum.window + pending] /\ sum \in Counts
    BY <1>1, <1>2 DEF TypeOK
  <2> QED
    BY <1>2, <2>1, Fields, WindowCounted
<1>5. TypeOK'
  BY <1>1, <1>2, <1>3, <1>4 DEF TypeOK
<1>6. Good(buffer, assembled, active)'
  BY <1>1, GoodEmpty DEF IInv
<1>7. EventsAccounted'
  <2>1. Spent(sum') = Spent(sum) + pending
    BY <1>4
  <2>2. Accounts'
    BY <1>1, <2>1, Accounted DEF Accounts
  <2> QED
    BY <1>5, <1>6, <2>2, AccountedNext
<1>8. AtPc'
  <2>1. ~GoesOn'
    BY <1>1, <1>3 DEF GoesOn
  <2>2. firstItem' = FALSE
    BY <1>1 DEF IInv, AtPc, TypeOK
  <2> QED
    BY <1>1, <2>1, <2>2 DEF AtPc
<1> QED
  BY <1>5, <1>6, <1>7, <1>8 DEF IInv

\* What is at the head of the windows
LEMMA AtHead ==
  ASSUME IInv, assembled # <<>>
  PROVE  /\ Head(assembled) \in Windows /\ Head(assembled).n \in Nat
         /\ Head(assembled).id \in Nat /\ Head(assembled).reset \in Nat
         /\ Tail(assembled) \in Seq(Windows)
         /\ EventsOf(Tail(assembled)) \in Nat
         /\ EventsOf(assembled) = Head(assembled).n + EventsOf(Tail(assembled))
         /\ Good(buffer, Tail(assembled), active)
<1>1. Good(buffer, assembled, active) /\ assembled \in Seq(Windows)
  BY DEF IInv, Good
<1>2. Head(assembled) \in Windows /\ Tail(assembled) \in Seq(Windows)
  BY <1>1, TailOf
<1>3. Good(buffer, Tail(assembled), active)
  BY <1>1, GoodTail
<1> QED
  BY <1>1, <1>2, <1>3, EventsOfTail, EventsOfNatural DEF Windows

LEMMA WindowSmallKeeps ==
  ASSUME IInv, WindowSmall
  PROVE  IInv'
<1>1. /\ pc = "window" /\ assembled # <<>> /\ Head(assembled).n < 2
      /\ sum' = [sum EXCEPT !.small = @ + Head(assembled).n]
      /\ pending' = pending - Head(assembled).n
      /\ assembled' = Tail(assembled)
      /\ UNCHANGED <<procGen, failed, done, pc, firstItem, item, active, buffer, state,
                     stateReset, taken, stale, job>>
  BY DEF WindowSmall, receiverVars, claimVars, gruVars
<1> DEFINE w == Head(assembled)
<1>2. TypeOK /\ w.n \in Nat
  BY <1>1, AtHead DEF IInv
<1>3. Left = assembled /\ Left' = Tail(assembled)
  BY <1>1 DEF Left
<1>4. /\ pending = EventsOf(assembled) /\ firstItem = FALSE
      /\ ~failed => Carried(state, stateReset, buffer, assembled)
  BY <1>1, <1>3 DEF IInv, AtPc, GoesOn, TypeOK
<1>5. pending = w.n + pending' /\ pending' = EventsOf(Tail(assembled)) /\ pending' \in Nat
  <2>1. /\ EventsOf(assembled) = w.n + EventsOf(Tail(assembled))
        /\ EventsOf(Tail(assembled)) \in Nat
    BY <1>1, AtHead
  <2> QED
    BY <1>1, <1>2, <1>4, <2>1
<1> HIDE DEF w
<1>6. sum' \in Counts /\ Spent(sum') = Spent(sum) + w.n
  <2>1. sum' = [sum EXCEPT !.small = sum.small + w.n]
    BY <1>1 DEF w
  <2>2. sum \in Counts
    BY <1>2 DEF TypeOK
  <2> QED
    BY <1>2, <2>1, <2>2, SmallCounted
<1>7. TypeOK'
  BY <1>1, <1>2, <1>5, <1>6 DEF TypeOK
<1>8. Good(buffer, assembled, active)'
  BY <1>1, AtHead
<1>9. EventsAccounted'
  <2>1. Spent(sum') = Spent(sum) + w.n
    BY <1>6
  <2>2. Accounts'
    BY <1>1, <1>2, <1>5, <2>1, Accounted DEF Accounts
  <2> QED
    BY <1>7, <1>8, <2>2, AccountedNext
<1>10. AtPc'
  <2>1. ~failed => Carried(state, stateReset, buffer, Tail(assembled))
    BY <1>1, <1>4, CarriedPast DEF IInv
  <2> QED
    BY <1>1, <1>3, <1>4, <1>5, <2>1 DEF AtPc, GoesOn
<1> QED
  BY <1>7, <1>8, <1>9, <1>10 DEF IInv

LEMMA WindowInferKeeps ==
  ASSUME IInv, WindowInfer
  PROVE  IInv'
<1>1. /\ pc = "window" /\ pc' = "forward" /\ assembled # <<>> /\ Head(assembled).n > 1
      /\ state' = IF Head(assembled).reset = stateReset THEN state ELSE 0
      /\ stateReset' = Head(assembled).reset
      /\ UNCHANGED <<procGen, failed, done, firstItem, item, active, buffer, assembled,
                     pending, sum, taken, stale, job>>
  BY DEF WindowInfer, StateFor, receiverVars, claimVars, counters
<1>2. TypeOK'
  BY <1>1, AtHead DEF IInv, TypeOK
<1>3. EventsAccounted'
  BY <1>1 DEF IInv, EventsAccounted
<1>4. Good(buffer, assembled, active)'
  BY <1>1 DEF IInv
<1>5. AtPc'
  <2>1. Left = assembled /\ Left' = assembled
    BY <1>1 DEF Left
  <2>2. /\ pending = EventsOf(assembled) /\ firstItem = FALSE
        /\ ~failed => Carried(state, stateReset, buffer, assembled)
    BY <1>1, <2>1 DEF IInv, AtPc, GoesOn, TypeOK
  <2>3. ASSUME ~failed, state' # 0 PROVE Head(assembled).prev = state'
    <3>1. assembled \in Seq(Windows)
      BY DEF IInv, Good
    <3>2. state' = state /\ stateReset = Head(assembled).reset
      BY <1>1, <2>3
    <3> QED
      BY <1>1, <2>2, <2>3, <3>1, <3>2, CarriedTo
  <2> QED
    BY <1>1, <2>1, <2>2, <2>3 DEF AtPc, GoesOn
<1> QED
  BY <1>2, <1>3, <1>4, <1>5 DEF IInv

LEMMA ForwardKeeps ==
  ASSUME IInv, Forward
  PROVE  IInv'
<1>1. /\ pc = "forward" /\ pc' = "check"
      /\ state' = Head(assembled).id
      /\ sum' = [sum EXCEPT !.inferred = @ + Head(assembled).n]
      /\ pending' = pending - Head(assembled).n
      /\ UNCHANGED <<procGen, failed, done, firstItem, item, active, buffer, assembled,
                     stateReset, taken, stale, job>>
  BY DEF Forward, receiverVars, claimVars
<1> DEFINE w == Head(assembled)
<1>2. assembled # <<>> /\ w.n > 1 /\ stateReset = w.reset /\ firstItem = FALSE
  BY <1>1 DEF IInv, AtPc, TypeOK
<1>3. TypeOK /\ w.n \in Nat /\ w.id \in Nat
  BY <1>2, AtHead DEF IInv
<1>4. Left = assembled /\ Left' = Tail(assembled)
  BY <1>1 DEF Left
<1>5. pending = w.n + pending' /\ pending' = EventsOf(Tail(assembled)) /\ pending' \in Nat
  <2>1. /\ EventsOf(assembled) = w.n + EventsOf(Tail(assembled))
        /\ EventsOf(Tail(assembled)) \in Nat
    BY <1>2, AtHead
  <2>2. pending = EventsOf(assembled)
    BY <1>1, <1>4 DEF IInv, AtPc
  <2> QED
    BY <1>1, <1>3, <2>1, <2>2
<1>6. Carried(w.id, w.reset, buffer, Tail(assembled))
  BY <1>2, CarriedOn DEF IInv
<1> HIDE DEF w
<1>7. /\ sum'.inferred = sum.inferred + w.n /\ sum'.small = sum.small
      /\ sum'.window = sum.window /\ sum'.partial = sum.partial /\ sum' \in Counts
  BY <1>1, <1>3, Fields DEF TypeOK, Counts, w
<1>8. TypeOK'
  BY <1>1, <1>3, <1>5, <1>7 DEF TypeOK, w
<1>9. Good(buffer, assembled, active)'
  BY <1>1 DEF IInv
<1>10. EventsAccounted'
  <2>1. Spent(sum') = Spent(sum) + w.n
    BY <1>3, <1>7, Fields DEF Spent
  <2>2. Accounts'
    BY <1>1, <1>3, <1>5, <2>1, Accounted DEF Accounts
  <2> QED
    BY <1>8, <1>9, <2>2, AccountedNext
<1>11. AtPc'
  <2>1. Carried(state, stateReset, buffer, Left)'
    BY <1>1, <1>2, <1>4, <1>6 DEF w
  <2> QED
    BY <1>1, <1>2, <1>4, <1>5, <2>1 DEF AtPc, w
<1> QED
  BY <1>8, <1>9, <1>10, <1>11 DEF IInv

LEMMA ForwardFailsKeeps ==
  ASSUME IInv, ForwardFails
  PROVE  IInv'
<1>1. /\ pc = "forward" /\ failed' = TRUE /\ done' = (done \/ ~failed)
      /\ pc' \in {"top", "closed"} /\ assembled' = <<>>
      /\ UNCHANGED <<procGen, firstItem, item, active, buffer, state, stateReset,
                     pending, sum, taken, stale, job>>
  BY DEF ForwardFails, claimVars, gruVars, counters
<1>2. TypeOK'
  BY <1>1 DEF IInv, TypeOK
<1>3. EventsAccounted'
  BY <1>1 DEF EventsAccounted
<1>4. Good(buffer, assembled, active)'
  BY <1>1, GoodEmpty DEF IInv
<1>5. AtPc'
  <2>1. firstItem = FALSE
    BY <1>1 DEF IInv, AtPc, TypeOK
  <2> QED
    BY <1>1, <2>1 DEF AtPc, GoesOn
<1> QED
  BY <1>2, <1>3, <1>4, <1>5 DEF IInv

LEMMA CheckKeeps ==
  ASSUME IInv, Check
  PROVE  IInv'
<1>1. /\ pc = "check"
      /\ UNCHANGED <<procGen, failed, done, firstItem, item, active, buffer, stateReset,
                     taken, job>>
  BY DEF Check, receiverVars, claimVars
<1> DEFINE w == Head(assembled)
<1>2. /\ assembled # <<>> /\ w.n > 1 /\ stateReset = w.reset /\ firstItem = FALSE
      /\ TypeOK /\ Left = Tail(assembled)
      /\ pending = EventsOf(Left) /\ (~failed => Carried(state, stateReset, buffer, Left))
  BY <1>1 DEF IInv, AtPc, TypeOK, GoesOn, Left
<1>3. w.n \in Nat
  BY <1>2, AtHead
<1>4. CASE active = procGen
  <2>1. pc' = "submit" /\ UNCHANGED <<assembled, state, pending, sum, stale>>
    BY <1>4 DEF Check
  <2>2. TypeOK'
    BY <1>1, <1>2, <2>1 DEF TypeOK
  <2>3. EventsAccounted'
    BY <1>1, <2>1 DEF IInv, EventsAccounted
  <2>4. Good(buffer, assembled, active)'
    BY <1>1, <2>1 DEF IInv
  <2>5. Left' = Left
    BY <1>2, <2>1 DEF Left
  <2>6. Carried(state, stateReset, buffer, Left)' = Carried(state, stateReset, buffer, Left)
    BY <1>1, <2>1, <2>5
  <2>7. AtPc'
    BY <1>1, <1>2, <2>1, <2>5, <2>6 DEF AtPc, GoesOn
  <2> QED
    BY <2>2, <2>3, <2>4, <2>7 DEF IInv
<1>5. CASE active # procGen
  <2>1. /\ stale' = stale + w.n
        /\ sum' = [sum EXCEPT !.window = @ + w.n + pending]
        /\ pending' = 0 /\ state' = 0 /\ assembled' = <<>> /\ pc' = "top"
    BY <1>5 DEF Check
  <2> HIDE DEF w
  <2>2. sum' \in Counts /\ Spent(sum') = Spent(sum) + w.n + pending
    <3>0. sum.inferred \in Nat /\ sum.small \in Nat /\ sum.partial \in Nat
      BY <1>2, Fields
    <3>1. /\ sum.window \in Nat /\ pending \in Nat /\ sum \in Counts
          /\ Spent(sum) \in Nat
      <4>1. sum.window \in Nat /\ pending \in Nat /\ sum \in Counts
        BY <1>2, Fields DEF TypeOK
      <4> QED
        BY <3>0, <4>1 DEF Spent
    <3>2. PICK x \in Nat : x = w.n
      BY <1>3
    <3>3. /\ sum.window + x + pending = sum.window + (x + pending)
          /\ Spent(sum) + x + pending = Spent(sum) + (x + pending)
          /\ x + pending \in Nat
      BY ONLY <3>1, <3>2
    <3>4. sum' = [sum EXCEPT !.window = sum.window + (x + pending)]
      BY <2>1, <3>2, <3>3
    <3> QED
      BY <3>1, <3>2, <3>3, <3>4, WindowCounted
  <2>3. TypeOK'
    BY <1>1, <1>2, <1>3, <2>1, <2>2 DEF TypeOK
  <2>4. Good(buffer, assembled, active)'
    BY <1>1, <2>1, GoodEmpty DEF IInv
  <2>5. EventsAccounted'
    <3>1. Spent(sum') = Spent(sum) + w.n + pending
      BY <2>2
    <3>2. Accounts'
      BY <1>1, <1>3, <2>1, <3>1, Accounted DEF Accounts
    <3> QED
      BY <2>3, <2>4, <3>2, AccountedNext
  <2>6. AtPc'
    <3>1. Carried(state, stateReset, buffer, Left)'
      BY <2>1, NoState
    <3> QED
      BY <1>1, <1>2, <2>1, <3>1 DEF AtPc
  <2> QED
    BY <2>3, <2>4, <2>5, <2>6 DEF IInv
<1> QED
  BY <1>4, <1>5

LEMMA SubmitKeeps ==
  ASSUME IInv, Submit
  PROVE  IInv'
<1>1. /\ pc = "submit"
      /\ UNCHANGED <<procGen, failed, done, firstItem, item, active, buffer, state,
                     stateReset, pending, sum, taken, stale>>
      /\ job' \in BOOLEAN
      /\ \/ (failed \/ done) /\ assembled' = <<>> /\ pc' = "top"
         \/ assembled' = Tail(assembled) /\ pc' = "window"
  BY DEF Submit, IInv, TypeOK, Cancelled, receiverVars, claimVars, gruVars, counters
<1>2. /\ assembled # <<>> /\ firstItem = FALSE /\ TypeOK /\ Left = Tail(assembled)
      /\ pending = EventsOf(Left) /\ (~failed => Carried(state, stateReset, buffer, Left))
  BY <1>1 DEF IInv, AtPc, TypeOK, GoesOn, Left
<1>3. TypeOK'
  BY <1>1, <1>2 DEF TypeOK
<1>4. EventsAccounted'
  BY <1>1 DEF IInv, EventsAccounted
<1>5. CASE (failed \/ done) /\ assembled' = <<>> /\ pc' = "top"
  <2>1. Good(buffer, assembled, active)'
    BY <1>1, <1>5, GoodEmpty DEF IInv
  <2>2. AtPc'
    BY <1>1, <1>2, <1>5 DEF AtPc, GoesOn
  <2> QED
    BY <1>3, <1>4, <2>1, <2>2 DEF IInv
<1>6. CASE assembled' = Tail(assembled) /\ pc' = "window"
  <2>1. Good(buffer, assembled, active)'
    BY <1>1, <1>2, <1>6, AtHead
  <2>2. Left' = Left
    BY <1>2, <1>6 DEF Left
  <2>3. Carried(state, stateReset, buffer, Left)' = Carried(state, stateReset, buffer, Left)
    BY <1>1, <2>2
  <2>4. AtPc'
    BY <1>1, <1>2, <1>6, <2>2, <2>3 DEF AtPc, GoesOn
  <2> QED
    BY <1>3, <1>4, <2>1, <2>4 DEF IInv
<1> QED
  BY <1>1, <1>5, <1>6

LEMMA CloseKeeps ==
  ASSUME IInv, Close
  PROVE  IInv'
<1>1. /\ pc = "top" /\ pc' = "closed"
      /\ UNCHANGED <<procGen, failed, done, firstItem, item, active, buffer, assembled,
                     state, stateReset, pending, sum, taken, stale, job>>
  BY DEF Close, receiverVars, claimVars, gruVars, counters
<1>2. TypeOK'
  BY <1>1 DEF IInv, TypeOK
<1>3. EventsAccounted'
  BY <1>1 DEF IInv, EventsAccounted
<1>4. Good(buffer, assembled, active)'
  BY <1>1 DEF IInv
<1>5. AtPc'
  BY <1>1 DEF IInv, AtPc, GoesOn
<1> QED
  BY <1>2, <1>3, <1>4, <1>5 DEF IInv

LEMMA Unchanged ==
  ASSUME IInv, UNCHANGED vars
  PROVE  IInv'
<1>1. UNCHANGED <<procGen, failed, done, pc, firstItem, item, active, buffer, assembled,
                  state, stateReset, pending, sum, taken, stale, job>>
  BY DEF vars, receiverVars, claimVars, gruVars, counters
<1>2. TypeOK' /\ EventsAccounted' /\ Good(buffer, assembled, active)'
  BY <1>1 DEF IInv, TypeOK, EventsAccounted
<1>3. AtPc'
  BY <1>1 DEF IInv, AtPc, GoesOn, Left
<1> QED
  BY <1>2, <1>3 DEF IInv

-----------------------------------------------------------------------------
(* Theorems                                                                *)

\* The inductive invariant: for each place the thread can be at, what the counter
\* of pending window events counts and which window the GRU state comes from.
THEOREM Invariance == Spec => []IInv
<1>1. IInv /\ [Next]_vars => IInv'
  <2> SUFFICES ASSUME IInv, [Next]_vars PROVE IInv'
    OBVIOUS
  <2>1. CASE Drop \/ Fail \/ TakeJob BY <2>1, OthersKeep
  <2>2. CASE Take BY <2>2, TakeKeeps
  <2>3. CASE IdleReset BY <2>3, IdleResetKeeps
  <2>4. CASE Push BY <2>4, PushKeeps
  <2>5. CASE Overflow BY <2>5, OverflowKeeps
  <2>6. CASE WindowsEnd BY <2>6, WindowsEndKeeps
  <2>7. CASE WindowStale BY <2>7, WindowStaleKeeps
  <2>8. CASE WindowSmall BY <2>8, WindowSmallKeeps
  <2>9. CASE WindowInfer BY <2>9, WindowInferKeeps
  <2>10. CASE Forward BY <2>10, ForwardKeeps
  <2>11. CASE ForwardFails BY <2>11, ForwardFailsKeeps
  <2>12. CASE Check BY <2>12, CheckKeeps
  <2>13. CASE Submit BY <2>13, SubmitKeeps
  <2>14. CASE Close BY <2>14, CloseKeeps
  <2>15. CASE UNCHANGED vars BY <2>15, Unchanged
  <2> QED
    BY <2>1, <2>2, <2>3, <2>4, <2>5, <2>6, <2>7, <2>8, <2>9, <2>10, <2>11, <2>12,
       <2>13, <2>14, <2>15 DEF Next, Session
<1> QED
  BY <1>1, Initially, PTL DEF Spec

\* The session's summary accounts for every event taken, until a failure.
THEOREM AllAccounted == Spec => []EventsAccounted
<1>1. IInv => EventsAccounted
  BY DEF IInv
<1> QED
  BY <1>1, Invariance, PTL

\* No window mixes the events of two generations.
THEOREM OneGenerationEach == Spec => []WindowsOneGeneration
<1>1. IInv => WindowsOneGeneration
  BY DEF IInv, Good, OneGeneration, WindowsOneGeneration
<1> QED
  BY <1>1, Invariance, PTL

\* The GRU state an inference starts from is that of the last window of two events
\* or more before its own, with no reset, recovery or skipped window between them.
THEOREM StateContinues == Spec => StateContinuous
<1>1. IInv => [Forward /\ ~failed /\ state # 0 => Head(assembled).prev = state]_vars
  BY DEF IInv, AtPc, Forward
<1> QED
  BY <1>1, Invariance, PTL DEF StateContinuous
=============================================================================
