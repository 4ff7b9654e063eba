------------------------ MODULE SessionReceiverProofs ------------------------
(***************************************************************************)
(* TLAPS proofs about SessionReceiver, for every number of batches, every  *)
(* FIFO limit, every pool size and every set of threads that may fail.     *)
(***************************************************************************)
EXTENDS SessionReceiver, SequenceTheorems, TLAPS

(* Discarding and retagging *)

\* What is left of a sequence of batches after its k oldest are discarded and
\* the others retagged: as long, in the same order, all of one generation.
LEMMA RetagNewest ==
  ASSUME NEW q \in Seq(Items), NEW k \in 0..Len(q), NEW g \in Nat
  PROVE  /\ Retag(Newest(q, k), g) \in Seq(Items)
         /\ Len(Retag(Newest(q, k), g)) = Len(q) - k
         /\ \A i \in 1..(Len(q) - k) :
              Retag(Newest(q, k), g)[i] = [seq |-> q[k + i].seq, gen |-> g]
<1> DEFINE n == Newest(q, k)
<1>1. n \in Seq(Items) /\ Len(n) = Len(q) - k
  BY DEF Newest
<1>2. \A i \in 1..(Len(q) - k) : n[i] = q[k + i]
  BY DEF Newest
<1>3. \A i \in 1..Len(n) : n[i] \in Items
  BY <1>1
<1> HIDE DEF n
<1> DEFINE r == [i \in 1..Len(n) |-> [seq |-> n[i].seq, gen |-> g]]
<1>4. Len(n) \in Nat
  BY <1>1
<1>5. r \in [1..Len(n) -> Items]
  BY <1>3 DEF Items
<1>6. r \in Seq(Items) /\ Len(r) = Len(n)
  BY <1>4, <1>5
<1>7. \A i \in 1..Len(n) : r[i] = [seq |-> n[i].seq, gen |-> g]
  OBVIOUS
<1>8. Retag(n, g) = r
  BY DEF Retag
<1> QED
  BY <1>1, <1>2, <1>6, <1>7, <1>8 DEF n

\* After a trim the FIFO is below its hard limit, or holds a single batch.
LEMMA TargetBound ==
  Target \in Nat /\ Target >= 1 /\ (Target <= 1 \/ Target < MaxBatches)
BY MaxBatchesAssumption DEF Target

\* How far a trim may go, and that it reaches its target when it must.
LEMMA DiscardsBound ==
  ASSUME NEW q \in Seq(Items), NEW r \in BOOLEAN, NEW k \in Discards(q, r)
  PROVE  /\ k \in 0..Len(q)
         /\ Len(q) - k < MaxBatches \/ Len(q) - k <= 1
<1>1. k \in 0..Len(q) /\ (r \/ Len(q) >= MaxBatches => Len(q) - k <= Target)
  BY DEF Discards
<1>2. CASE Len(q) >= MaxBatches
  BY <1>1, <1>2, TargetBound, MaxBatchesAssumption
<1>3. CASE Len(q) < MaxBatches
  BY <1>1, <1>3, MaxBatchesAssumption
<1> QED
  BY <1>2, <1>3, MaxBatchesAssumption

-----------------------------------------------------------------------------
(* The three steps that change the FIFO, in terms of its elements *)

\* A batch accepted by the reader: n batches are kept in front of it, then the
\* k oldest of these n + 1 are discarded.
LEMMA AcceptEffect ==
  ASSUME TypeOK, ReaderAccept
  PROVE  \E seq \in (arrived + 1)..MaxSeq, changed \in BOOLEAN,
            n \in Nat, k \in Nat :
           LET dropped == changed \/ k > 0
               g == IF dropped THEN NextGen ELSE procGen
           IN /\ n = IF changed THEN 0 ELSE Len(queue)
              /\ k <= n + 1
              /\ seq > arrived + 1 => changed
              /\ arrived' = seq
              /\ queue' \in Seq(Items)
              /\ Len(queue') = n + 1 - k
              /\ Len(queue') < MaxBatches \/ Len(queue') <= 1
              /\ \A i \in 1..Len(queue') :
                   /\ queue'[i].gen = g
                   /\ queue'[i].seq = IF k + i = n + 1 THEN seq
                                                       ELSE queue[k + i].seq
              /\ claimed' = (claimed /\ ~dropped)
              /\ RecoverIf(dropped, IF k = 0 THEN seq - 1
                                    ELSE IF k = n + 1 THEN seq ELSE queue[k].seq)
<1>1. PICK seq \in (arrived + 1)..MaxSeq, changed \in BOOLEAN :
        /\ seq > arrived + 1 => changed
        /\ arrived' = seq
        /\ LET kept == IF changed THEN <<>> ELSE queue
               candidates == Append(kept, [seq |-> seq, gen |-> procGen])
           IN \E k \in Discards(candidates, catchingUp \/ changed) :
                LET dropped == changed \/ k > 0
                    gen == IF dropped THEN NextGen ELSE procGen
                IN /\ queue' = Retag(Newest(candidates, k), gen)
                   /\ claimed' = (claimed /\ ~dropped)
                   /\ RecoverIf(dropped, IF k > 0 THEN candidates[k].seq
                                                  ELSE seq - 1)
  BY DEF ReaderAccept
<1> DEFINE n == IF changed THEN 0 ELSE Len(queue)
           kept == IF changed THEN <<>> ELSE queue
           item == [seq |-> seq, gen |-> procGen]
           candidates == Append(kept, item)
<1>2. /\ seq \in 1..MaxSeq /\ item \in Items
      /\ kept \in Seq(Items) /\ Len(kept) = n /\ n \in Nat
  BY MaxSeqAssumption DEF TypeOK, Items
<1>3. /\ candidates \in Seq(Items) /\ Len(candidates) = n + 1
      /\ \A i \in 1..(n + 1) : candidates[i] = IF i = n + 1 THEN item ELSE kept[i]
  <2> HIDE DEF n, kept, item
  <2> QED
    BY <1>2
<1>4. \A i \in 1..n : kept[i] = queue[i]
  OBVIOUS
<1> DEFINE r == catchingUp \/ changed
<1>5. r \in BOOLEAN
  BY DEF TypeOK
<1>6. PICK k \in Discards(candidates, r) :
        /\ queue' = Retag(Newest(candidates, k),
                          IF changed \/ k > 0 THEN NextGen ELSE procGen)
        /\ claimed' = (claimed /\ ~(changed \/ k > 0))
        /\ RecoverIf(changed \/ k > 0, IF k > 0 THEN candidates[k].seq
                                                ELSE seq - 1)
  BY <1>1
<1> DEFINE g == IF changed \/ k > 0 THEN NextGen ELSE procGen
<1>7. g \in Nat
  BY DEF TypeOK, NextGen
<1> HIDE DEF candidates, r, g, n
<1>8. /\ k \in 0..Len(candidates)
      /\ Len(candidates) - k < MaxBatches \/ Len(candidates) - k <= 1
  BY <1>3, <1>5, DiscardsBound
<1>9. /\ queue' \in Seq(Items)
      /\ Len(queue') = Len(candidates) - k
      /\ \A i \in 1..(Len(candidates) - k) :
           queue'[i] = [seq |-> candidates[k + i].seq, gen |-> g]
  BY <1>3, <1>6, <1>7, <1>8, RetagNewest DEF g
<1>10. /\ k \in Nat /\ k <= n + 1
       /\ Len(queue') = n + 1 - k
       /\ Len(queue') < MaxBatches \/ Len(queue') <= 1
  BY <1>2, <1>3, <1>8, <1>9
<1>11. \A i \in 1..Len(queue') :
          /\ queue'[i].gen = g
          /\ queue'[i].seq = IF k + i = n + 1 THEN seq ELSE queue[k + i].seq
  BY <1>2, <1>3, <1>4, <1>9, <1>10
<1>12. k > 0 => candidates[k].seq = IF k = n + 1 THEN seq ELSE queue[k].seq
  BY <1>2, <1>3, <1>4, <1>10
<1>13. RecoverIf(changed \/ k > 0, IF k = 0 THEN seq - 1
                     ELSE IF k = n + 1 THEN seq ELSE queue[k].seq)
  <2>1. CASE k = 0
    BY <1>6, <2>1
  <2>2. CASE k > 0
    BY <1>6, <1>12, <2>2
  <2> QED
    BY <1>10, <2>1, <2>2
<1> USE <1>2, <1>10
<1> WITNESS seq \in (arrived + 1)..MaxSeq
<1> WITNESS changed \in BOOLEAN
<1> WITNESS n \in Nat
<1> WITNESS k \in Nat
<1> QED
  BY <1>1, <1>6, <1>9, <1>11, <1>13 DEF n, g

\* A claim: the k oldest are discarded, then the head of the rest is popped.
LEMMA TakeEffect ==
  ASSUME TypeOK, Take
  PROVE  \E k \in 0..Len(queue) :
           LET g == IF k > 0 THEN NextGen ELSE procGen
           IN /\ RecoverIf(k > 0, queue[k].seq)
              /\ queue' \in Seq(Items)
              /\ \/ /\ k = Len(queue) /\ k > 0
                    /\ Len(queue') = 0 /\ claimed' = FALSE
                    /\ UNCHANGED builderVars
                 \/ /\ k < Len(queue)
                    /\ Len(queue') = Len(queue) - k - 1
                    /\ \A i \in 1..Len(queue') :
                         /\ queue'[i].gen = g
                         /\ queue'[i].seq = queue[k + 1 + i].seq
                    /\ claimed' = TRUE
                    /\ cur' = [seq |-> queue[k + 1].seq, gen |-> g]
                    /\ bpc' = "taken"
<1>1. PICK k \in Discards(queue, catchingUp) :
        LET kept == Retag(Newest(queue, k), IF k > 0 THEN NextGen ELSE procGen)
        IN /\ RecoverIf(k > 0, queue[k].seq)
           /\ IF kept = <<>>
              THEN /\ queue' = <<>>
                   /\ claimed' = FALSE
                   /\ UNCHANGED builderVars
              ELSE /\ queue' = Tail(kept)
                   /\ claimed' = TRUE
                   /\ cur' = Head(kept)
                   /\ bpc' = "taken"
  BY DEF Take
<1>2. queue \in Seq(Items) /\ catchingUp \in BOOLEAN /\ queue # <<>>
  BY DEF TypeOK, Take
<1>3. k \in 0..Len(queue)
  BY <1>2, DiscardsBound
<1> DEFINE g == IF k > 0 THEN NextGen ELSE procGen
           kept == Retag(Newest(queue, k), g)
<1>4. g \in Nat
  BY DEF TypeOK, NextGen
<1> HIDE DEF g
<1>5. /\ kept \in Seq(Items) /\ Len(kept) = Len(queue) - k
      /\ \A i \in 1..(Len(queue) - k) :
           kept[i] = [seq |-> queue[k + i].seq, gen |-> g]
  BY <1>2, <1>3, <1>4, RetagNewest
<1>6. /\ RecoverIf(k > 0, queue[k].seq)
      /\ kept = <<>> => queue' = <<>> /\ claimed' = FALSE /\ UNCHANGED builderVars
      /\ kept # <<>> => /\ queue' = Tail(kept) /\ claimed' = TRUE
                        /\ cur' = Head(kept) /\ bpc' = "taken"
  BY <1>1 DEF g
<1> HIDE DEF kept
<1>7. CASE kept = <<>>
  <2>1. k = Len(queue) /\ k > 0
    BY <1>2, <1>3, <1>5, <1>7
  <2> QED
    BY <1>3, <1>6, <1>7, <2>1
<1>8. CASE kept # <<>>
  <2>1. k < Len(queue) /\ Len(kept) > 0
    BY <1>2, <1>3, <1>5, <1>8
  <2>a. /\ Tail(kept) \in Seq(Items) /\ Len(Tail(kept)) = Len(kept) - 1
        /\ \A i \in 1..Len(Tail(kept)) : Tail(kept)[i] = kept[i + 1]
        /\ Head(kept) = kept[1]
    BY <1>5, <1>8, HeadTailProperties
  <2>2. /\ queue' \in Seq(Items) /\ Len(queue') = Len(queue) - k - 1
        /\ \A i \in 1..Len(queue') : queue'[i] = kept[i + 1]
        /\ cur' = kept[1]
    BY <1>2, <1>3, <1>5, <1>6, <1>8, <2>a
  <2>3. \A i \in 1..Len(queue') :
          queue'[i] = [seq |-> queue[k + 1 + i].seq, gen |-> g]
    <3> TAKE i \in 1..Len(queue')
    <3>1. i + 1 \in 1..(Len(queue) - k) /\ k + (i + 1) = k + 1 + i
      BY <1>2, <1>3, <2>1, <2>2
    <3> QED
      BY <1>5, <2>2, <3>1
  <2>4. cur' = [seq |-> queue[k + 1].seq, gen |-> g]
    BY <1>2, <1>3, <1>5, <2>1, <2>2
  <2>5. \A i \in 1..Len(queue') :
          queue'[i].gen = g /\ queue'[i].seq = queue[k + 1 + i].seq
    <3> TAKE i \in 1..Len(queue')
    <3>1. queue'[i] = [seq |-> queue[k + 1 + i].seq, gen |-> g]
      BY <2>3
    <3> QED
      BY <3>1
  <2> USE <1>3
  <2> WITNESS k \in 0..Len(queue)
  <2> QED
    BY <1>6, <1>8, <2>1, <2>2, <2>4, <2>5 DEF g
<1> QED
  BY <1>7, <1>8

\* A skipped item: the rest is retagged, and the k oldest discarded with it.
LEMMA SkipEffect ==
  ASSUME TypeOK, SkipRecover
  PROVE  \E k \in 0..Len(queue) :
           /\ Recover(IF k > 0 THEN queue[k].seq ELSE cur.seq)
           /\ queue' \in Seq(Items)
           /\ Len(queue') = Len(queue) - k
           /\ Len(queue') < MaxBatches \/ Len(queue') <= 1
           /\ \A i \in 1..Len(queue') :
                /\ queue'[i].gen = NextGen
                /\ queue'[i].seq = queue[k + i].seq
<1>1. PICK k \in Discards(queue, TRUE) :
        /\ queue' = Retag(Newest(queue, k), NextGen)
        /\ Recover(IF k > 0 THEN queue[k].seq ELSE cur.seq)
  BY DEF SkipRecover
<1>2. queue \in Seq(Items) /\ NextGen \in Nat
  BY DEF TypeOK, NextGen
<1>3. /\ k \in 0..Len(queue)
      /\ Len(queue) - k < MaxBatches \/ Len(queue) - k <= 1
  BY <1>2, DiscardsBound
<1>4. /\ queue' \in Seq(Items) /\ Len(queue') = Len(queue) - k
      /\ \A i \in 1..(Len(queue) - k) :
           queue'[i] = [seq |-> queue[k + i].seq, gen |-> NextGen]
  BY <1>1, <1>2, <1>3, RetagNewest
<1>5. \A i \in 1..Len(queue') :
        queue'[i].gen = NextGen /\ queue'[i].seq = queue[k + i].seq
  BY <1>4
<1> USE <1>3
<1> WITNESS k \in 0..Len(queue)
<1> QED
  BY <1>1, <1>3, <1>4, <1>5

-----------------------------------------------------------------------------
(* Type correctness: the Boolean variables one by one, then the others in  *)
(* four groups                                                             *)

InputTypes ==
  /\ arrived \in 0..MaxSeq
  /\ queue \in Seq(Items)
  /\ Len(queue) < MaxBatches \/ Len(queue) <= 1
  /\ procGen \in Nat
  /\ cur \in Items
  /\ dropMark \in 0..MaxSeq
WorkTypes ==
  /\ windows \in Seq(Items) /\ Len(windows) <= PoolSize
  /\ job \in Items /\ held \in Items
StatusTypes ==
  /\ statusPending \in Statuses /\ out \in Statuses
  /\ announced \in Statuses
  /\ wireGen \in Nat
ControlTypes ==
  /\ lock \in {"free", "results"}
  /\ bpc \in {"idle", "taken", "skip", "routing"}
  /\ spc \in {"loop", "announce", "writeStatus", "get", "process", "ready",
              "render", "send", "writeResult", "ack", "broken", "stopped"}
  /\ fpc \in [Threads -> {"run", "claim", "send", "stop", "ended"}]

LEMMA TypeParts ==
  TypeOK <=> /\ InputTypes /\ WorkTypes /\ StatusTypes /\ ControlTypes
             /\ claimed \in BOOLEAN /\ catchingUp \in BOOLEAN
             /\ failed \in BOOLEAN /\ done \in BOOLEAN /\ errorSent \in BOOLEAN
BY Zenon DEF TypeOK, InputTypes, WorkTypes, StatusTypes, ControlTypes

LEMMA TypePartsNext ==
  TypeOK' <=> /\ InputTypes' /\ WorkTypes' /\ StatusTypes' /\ ControlTypes'
              /\ claimed' \in BOOLEAN /\ catchingUp' \in BOOLEAN
              /\ failed' \in BOOLEAN /\ done' \in BOOLEAN /\ errorSent' \in BOOLEAN
BY Zenon DEF TypeOK, InputTypes, WorkTypes, StatusTypes, ControlTypes

(* Everything one step may do is visible when Next is unfolded with this.  *)

\* Only three steps touch the FIFO or the generation; the claims go with them.
LEMMA InputUnchanged ==
  [Next]_vars =>
    \/ ReaderAccept \/ Take \/ SkipRecover
    \/ UNCHANGED <<arrived, queue, procGen, dropMark, cur>>
BY DEF Next, Builder, Results, Failing, ReaderEnd, SkipDecide, FinishWindow,
       NextItem, Submit, PopStatus, Announce, WriteStatus, GetJob, Process,
       Rendered, CheckJob, LockForResult, WriteResult, ResultSent, WriteRaises,
       ResultsStop, FailEnter, FailClaim, FailSend, FailStop, Close,
       vars, recoveryVars, builderVars, senderVars, wireVars, endVars
LEMMA ClaimedUnchanged ==
  [Next]_vars => ReaderAccept \/ Take \/ SkipRecover \/ UNCHANGED claimed
BY DEF Next, Builder, Results, Failing, ReaderEnd, SkipDecide, FinishWindow,
       NextItem, Submit, PopStatus, Announce, WriteStatus, GetJob, Process,
       Rendered, CheckJob, LockForResult, WriteResult, ResultSent, WriteRaises,
       ResultsStop, FailEnter, FailClaim, FailSend, FailStop, Close,
       vars, recoveryVars, builderVars, senderVars, wireVars, endVars
\* The catch-up flag moves with the generation, or when a result is sent.
LEMMA CatchUpUnchanged ==
  [Next]_vars => \/ ReaderAccept \/ Take \/ SkipRecover \/ ResultSent
                 \/ UNCHANGED catchingUp
BY DEF Next, Builder, Results, Failing, ReaderEnd, SkipDecide, FinishWindow,
       NextItem, Submit, PopStatus, Announce, WriteStatus, GetJob, Process,
       Rendered, CheckJob, LockForResult, WriteResult, WriteRaises,
       ResultsStop, FailEnter, FailClaim, FailSend, FailStop, Close,
       vars, recoveryVars, builderVars, senderVars, wireVars, endVars
\* Only a thread in fail() sets failed.
LEMMA FailedUnchanged ==
  [Next]_vars => UNCHANGED failed \/ failed' = TRUE
BY DEF Next, Builder, Results, Failing, ReaderAccept, ReaderEnd, Take,
       SkipDecide, SkipRecover, FinishWindow,
       NextItem, Submit, PopStatus, Announce, WriteStatus, GetJob, Process,
       Rendered, CheckJob, LockForResult, WriteResult, ResultSent, WriteRaises,
       ResultsStop, FailEnter, FailClaim, FailSend, FailStop, Close,
       vars, recoveryVars, builderVars, senderVars, wireVars, endVars
LEMMA DoneUnchanged ==
  [Next]_vars => UNCHANGED done \/ done' = TRUE
BY DEF Next, Builder, Results, Failing, ReaderAccept, ReaderEnd, Take,
       SkipDecide, SkipRecover, FinishWindow,
       NextItem, Submit, PopStatus, Announce, WriteStatus, GetJob, Process,
       Rendered, CheckJob, LockForResult, WriteResult, ResultSent, WriteRaises,
       ResultsStop, FailEnter, FailClaim, FailSend, FailStop, Close,
       vars, recoveryVars, builderVars, senderVars, wireVars, endVars
LEMMA ErrorUnchanged ==
  [Next]_vars => UNCHANGED errorSent \/ errorSent' = TRUE
BY DEF Next, Builder, Results, Failing, ReaderAccept, ReaderEnd, Take,
       SkipDecide, SkipRecover, FinishWindow,
       NextItem, Submit, PopStatus, Announce, WriteStatus, GetJob, Process,
       Rendered, CheckJob, LockForResult, WriteResult, ResultSent, WriteRaises,
       ResultsStop, FailEnter, FailClaim, FailSend, FailStop, Close,
       vars, recoveryVars, builderVars, senderVars, wireVars, endVars

\* What is to be announced changes with the generation or with the flag.
LEMMA PendingUnchanged ==
  [Next]_vars => \/ ReaderAccept \/ Take \/ SkipRecover \/ PopStatus \/ ResultSent
                 \/ UNCHANGED statusPending
BY DEF Next, Builder, Results, Failing, ReaderEnd, SkipDecide, FinishWindow,
       NextItem, Submit, Announce, WriteStatus, GetJob, Process,
       Rendered, CheckJob, LockForResult, WriteResult, WriteRaises,
       ResultsStop, FailEnter, FailClaim, FailSend, FailStop, Close,
       vars, recoveryVars, builderVars, senderVars, wireVars, endVars

\* Windows are finished by the builder and consumed in order.
LEMMA WindowsUnchanged ==
  [Next]_vars => FinishWindow \/ Submit \/ UNCHANGED windows
BY DEF Next, Builder, Results, Failing, ReaderAccept, ReaderEnd, Take,
         SkipDecide, SkipRecover, NextItem, PopStatus,
         Announce, WriteStatus, GetJob, Process, Rendered, CheckJob, LockForResult,
         WriteResult, ResultSent, WriteRaises, ResultsStop, FailEnter, FailClaim,
         FailSend, FailStop, Close, vars, recoveryVars, builderVars, senderVars,
         wireVars, endVars

LEMMA NothingTyped == NoItem \in Items /\ NoStatus \in Statuses
BY MaxSeqAssumption DEF NoItem, NoStatus, Items, Statuses

LEMMA TypeInit == Init => TypeOK
<1> SUFFICES ASSUME Init PROVE TypeOK
  OBVIOUS
<1>1. InputTypes
  BY MaxSeqAssumption, MaxBatchesAssumption, NothingTyped DEF Init, InputTypes
<1>2. WorkTypes
  BY PoolSizeAssumption, NothingTyped DEF Init, WorkTypes
<1>3. StatusTypes
  BY NothingTyped DEF Init, StatusTypes, Statuses
<1>4. ControlTypes
  BY DEF Init, ControlTypes
<1>5. claimed = FALSE /\ catchingUp = FALSE
  BY DEF Init
<1>6. failed = FALSE /\ done = FALSE /\ errorSent = FALSE
  BY DEF Init
<1> QED
  BY <1>1, <1>2, <1>3, <1>4, <1>5, <1>6, TypeParts

LEMMA QueuedSeq ==
  ASSUME NEW q \in Seq(Items), NEW i \in 1..Len(q)
  PROVE  q[i].seq \in 0..MaxSeq
<1>1. q[i] \in Items
  OBVIOUS
<1> QED
  BY <1>1 DEF Items

LEMMA NextGenType == TypeOK => NextGen \in Nat /\ NextGen >= procGen
BY DEF TypeOK, NextGen

LEMMA RecoverType ==
  ASSUME TypeOK, NEW dropped, NEW mark, RecoverIf(dropped, mark),
         dropped => mark \in 0..MaxSeq
  PROVE  procGen' \in Nat /\ dropMark' \in 0..MaxSeq
<1>1. CASE dropped
  BY <1>1, TypeParts, NextGenType DEF RecoverIf, Recover, InputTypes
<1>2. CASE ~dropped
  BY <1>2, TypeParts DEF RecoverIf, recoveryVars, InputTypes
<1> QED
  BY <1>1, <1>2

LEMMA InputStep == TypeOK /\ [Next]_vars => InputTypes'
<1> SUFFICES ASSUME TypeOK, InputTypes, [Next]_vars PROVE InputTypes'
  BY TypeParts
<1>1. CASE ReaderAccept
  <2>1. PICK seq \in (arrived + 1)..MaxSeq, changed \in BOOLEAN,
             n \in Nat, k \in Nat :
          LET dropped == changed \/ k > 0
              g == IF dropped THEN NextGen ELSE procGen
          IN /\ n = IF changed THEN 0 ELSE Len(queue)
             /\ k <= n + 1
             /\ seq > arrived + 1 => changed
             /\ arrived' = seq
             /\ queue' \in Seq(Items)
             /\ Len(queue') = n + 1 - k
             /\ Len(queue') < MaxBatches \/ Len(queue') <= 1
             /\ \A i \in 1..Len(queue') :
                  /\ queue'[i].gen = g
                  /\ queue'[i].seq = IF k + i = n + 1 THEN seq
                                                      ELSE queue[k + i].seq
             /\ claimed' = (claimed /\ ~dropped)
             /\ RecoverIf(dropped, IF k = 0 THEN seq - 1
                                   ELSE IF k = n + 1 THEN seq ELSE queue[k].seq)
    BY <1>1, AcceptEffect
  <2> DEFINE mark == IF k = 0 THEN seq - 1
                     ELSE IF k = n + 1 THEN seq ELSE queue[k].seq
  <2>2. mark \in 0..MaxSeq
    <3>1. CASE k # 0 /\ k # n + 1
      <4>1. k \in 1..Len(queue)
        BY <2>1, <3>1 DEF InputTypes
      <4> QED
        BY <3>1, <4>1, QueuedSeq DEF InputTypes
    <3>2. CASE ~(k # 0 /\ k # n + 1)
      BY <3>2, MaxSeqAssumption DEF InputTypes
    <3> QED
      BY <3>1, <3>2
  <2>3. RecoverIf(changed \/ k > 0, mark)
    BY <2>1
  <2> HIDE DEF mark
  <2>4. procGen' \in Nat /\ dropMark' \in 0..MaxSeq
    BY <2>2, <2>3, RecoverType
  <2>5. cur' = cur /\ arrived' \in 0..MaxSeq
    BY <1>1, <2>1, MaxSeqAssumption DEF ReaderAccept, builderVars, InputTypes
  <2> QED
    BY <2>1, <2>4, <2>5 DEF InputTypes
<1>2. CASE Take
  <2>1. PICK k \in 0..Len(queue) :
          LET g == IF k > 0 THEN NextGen ELSE procGen
          IN /\ RecoverIf(k > 0, queue[k].seq)
             /\ queue' \in Seq(Items)
             /\ \/ /\ k = Len(queue) /\ k > 0
                   /\ Len(queue') = 0 /\ claimed' = FALSE
                   /\ UNCHANGED builderVars
                \/ /\ k < Len(queue)
                   /\ Len(queue') = Len(queue) - k - 1
                   /\ \A i \in 1..Len(queue') :
                        /\ queue'[i].gen = g
                        /\ queue'[i].seq = queue[k + 1 + i].seq
                   /\ claimed' = TRUE
                   /\ cur' = [seq |-> queue[k + 1].seq, gen |-> g]
                   /\ bpc' = "taken"
    BY <1>2, TakeEffect
  <2>2. k > 0 => queue[k].seq \in 0..MaxSeq
    BY QueuedSeq DEF InputTypes
  <2>3. procGen' \in Nat /\ dropMark' \in 0..MaxSeq
    BY <2>1, <2>2, RecoverType
  <2>4. cur' \in Items
    <3>1. CASE k < Len(queue)
      <4>1. queue[k + 1].seq \in 0..MaxSeq
        BY <3>1, QueuedSeq DEF InputTypes
      <4>2. (IF k > 0 THEN NextGen ELSE procGen) \in Nat
        BY NextGenType DEF InputTypes
      <4> QED
        BY <2>1, <3>1, <4>1, <4>2 DEF Items
    <3>2. CASE ~(k < Len(queue))
      BY <2>1, <3>2 DEF InputTypes, builderVars
    <3> QED
      BY <3>1, <3>2
  <2>5. Len(queue') < MaxBatches \/ Len(queue') <= 1
    BY <2>1, MaxBatchesAssumption DEF InputTypes
  <2>6. arrived' = arrived
    BY <1>2 DEF Take
  <2> QED
    BY <2>1, <2>3, <2>4, <2>5, <2>6 DEF InputTypes
<1>3. CASE SkipRecover
  <2>1. PICK k \in 0..Len(queue) :
          /\ Recover(IF k > 0 THEN queue[k].seq ELSE cur.seq)
          /\ queue' \in Seq(Items)
          /\ Len(queue') < MaxBatches \/ Len(queue') <= 1
    BY <1>3, SkipEffect
  <2>2. (IF k > 0 THEN queue[k].seq ELSE cur.seq) \in 0..MaxSeq
    <3>1. CASE k > 0
      BY <3>1, QueuedSeq DEF InputTypes
    <3>2. CASE ~(k > 0)
      BY <3>2 DEF InputTypes, Items
    <3> QED
      BY <3>1, <3>2
  <2>3. procGen' \in Nat /\ dropMark' \in 0..MaxSeq
    BY <2>1, <2>2, RecoverType DEF RecoverIf
  <2>4. cur' = cur /\ arrived' = arrived
    BY <1>3 DEF SkipRecover
  <2> QED
    BY <2>1, <2>3, <2>4 DEF InputTypes
<1>4. CASE UNCHANGED <<arrived, queue, procGen, dropMark, cur>>
  BY <1>4 DEF InputTypes
<1> QED
  BY <1>1, <1>2, <1>3, <1>4, InputUnchanged

LEMMA WorkStep == TypeOK /\ [Next]_vars => WorkTypes'
<1> SUFFICES ASSUME TypeOK, InputTypes, WorkTypes, [Next]_vars PROVE WorkTypes'
  BY TypeParts
<1>1. windows' \in Seq(Items) /\ Len(windows') <= PoolSize
  <2>1. CASE FinishWindow
    BY <2>1, PoolSizeAssumption DEF FinishWindow, InputTypes, WorkTypes
  <2>2. CASE Submit
    BY <2>2, PoolSizeAssumption, HeadTailProperties DEF Submit, WorkTypes
  <2>3. CASE UNCHANGED windows
    BY <2>3 DEF WorkTypes
  <2> QED
    BY <2>1, <2>2, <2>3, WindowsUnchanged
<1>2. job' \in Items /\ held' \in Items
  <2>1. windows # <<>> => Head(windows) \in Items
    BY HeadTailProperties DEF WorkTypes
  <2> QED
    BY <2>1, NothingTyped
    DEF WorkTypes, Next, Builder, Results, Failing, ReaderAccept, ReaderEnd, Take,
         SkipDecide, SkipRecover, FinishWindow, NextItem, Submit, PopStatus,
         Announce, WriteStatus, GetJob, Process, Rendered, CheckJob, LockForResult,
         WriteResult, ResultSent, WriteRaises, ResultsStop, FailEnter, FailClaim,
         FailSend, FailStop, Close, vars, recoveryVars, builderVars, senderVars,
         wireVars, endVars
<1> QED
  BY <1>1, <1>2 DEF WorkTypes

LEMMA StatusStep == TypeOK /\ [Next]_vars => StatusTypes'
<1> SUFFICES ASSUME TypeOK, StatusTypes, procGen \in Nat, [Next]_vars
             PROVE  StatusTypes'
  BY TypeParts DEF InputTypes
<1>1. statusPending' \in Statuses
  <2>1. ASSUME NEW dropped, NEW mark, RecoverIf(dropped, mark)
        PROVE  statusPending' \in Statuses
    BY <2>1, NextGenType DEF RecoverIf, Recover, recoveryVars, Statuses, StatusTypes
  <2>2. CASE ReaderAccept
    BY <2>1, <2>2 DEF ReaderAccept
  <2>3. CASE Take
    BY <2>1, <2>3 DEF Take
  <2>4. CASE SkipRecover
    BY <2>4, NextGenType DEF SkipRecover, Recover, Statuses
  <2>5. CASE PopStatus
    BY <2>5, NothingTyped DEF PopStatus
  <2>6. CASE ResultSent
    BY <2>6 DEF ResultSent, Statuses, StatusTypes
  <2>7. CASE UNCHANGED statusPending
    BY <2>7 DEF StatusTypes
  <2> QED
    BY <2>2, <2>3, <2>4, <2>5, <2>6, <2>7, PendingUnchanged
<1>2. out' \in Statuses /\ announced' \in Statuses
  BY NothingTyped
  DEF StatusTypes, Next, Builder, Results, Failing, ReaderAccept, ReaderEnd, Take,
         SkipDecide, SkipRecover, FinishWindow, NextItem, Submit, PopStatus,
         Announce, WriteStatus, GetJob, Process, Rendered, CheckJob, LockForResult,
         WriteResult, ResultSent, WriteRaises, ResultsStop, FailEnter, FailClaim,
         FailSend, FailStop, Close, vars, recoveryVars, builderVars, senderVars,
         wireVars, endVars
<1>3. wireGen' \in Nat
  BY TypeParts
  DEF WorkTypes, StatusTypes, Items, Statuses, Next, Builder, Results, Failing, ReaderAccept, ReaderEnd, Take,
         SkipDecide, SkipRecover, FinishWindow, NextItem, Submit, PopStatus,
         Announce, WriteStatus, GetJob, Process, Rendered, CheckJob, LockForResult,
         WriteResult, ResultSent, WriteRaises, ResultsStop, FailEnter, FailClaim,
         FailSend, FailStop, Close, vars, recoveryVars, builderVars, senderVars,
         wireVars, endVars
<1> QED
  BY <1>1, <1>2, <1>3 DEF StatusTypes

LEMMA ControlStep == TypeOK /\ [Next]_vars => ControlTypes'
<1> SUFFICES ASSUME ControlTypes, [Next]_vars PROVE ControlTypes'
  BY TypeParts
<1>1. lock' \in {"free", "results"}
  BY DEF ControlTypes, Next, Builder, Results, Failing, ReaderAccept, ReaderEnd, Take,
         SkipDecide, SkipRecover, FinishWindow, NextItem, Submit, PopStatus,
         Announce, WriteStatus, GetJob, Process, Rendered, CheckJob, LockForResult,
         WriteResult, ResultSent, WriteRaises, ResultsStop, FailEnter, FailClaim,
         FailSend, FailStop, Close, vars, recoveryVars, builderVars, senderVars,
         wireVars, endVars
<1>2. bpc' \in {"idle", "taken", "skip", "routing"}
  BY DEF ControlTypes, Next, Builder, Results, Failing, ReaderAccept, ReaderEnd, Take,
         SkipDecide, SkipRecover, FinishWindow, NextItem, Submit, PopStatus,
         Announce, WriteStatus, GetJob, Process, Rendered, CheckJob, LockForResult,
         WriteResult, ResultSent, WriteRaises, ResultsStop, FailEnter, FailClaim,
         FailSend, FailStop, Close, vars, recoveryVars, builderVars, senderVars,
         wireVars, endVars
<1>3. spc' \in {"loop", "announce", "writeStatus", "get", "process", "ready",
                "render", "send", "writeResult", "ack", "broken", "stopped"}
  BY DEF ControlTypes, Afterwards, Next, Builder, Results, Failing, ReaderAccept, ReaderEnd, Take,
         SkipDecide, SkipRecover, FinishWindow, NextItem, Submit, PopStatus,
         Announce, WriteStatus, GetJob, Process, Rendered, CheckJob, LockForResult,
         WriteResult, ResultSent, WriteRaises, ResultsStop, FailEnter, FailClaim,
         FailSend, FailStop, Close, vars, recoveryVars, builderVars, senderVars,
         wireVars, endVars
<1>a. "reader" \in Threads /\ Failers \subseteq Threads
  BY FailersAssumption DEF Threads
<1>4. fpc' \in [Threads -> {"run", "claim", "send", "stop", "ended"}]
  BY <1>a DEF ControlTypes, Next, Builder, Results, Failing, ReaderAccept, ReaderEnd, Take,
         SkipDecide, SkipRecover, FinishWindow, NextItem, Submit, PopStatus,
         Announce, WriteStatus, GetJob, Process, Rendered, CheckJob, LockForResult,
         WriteResult, ResultSent, WriteRaises, ResultsStop, FailEnter, FailClaim,
         FailSend, FailStop, Close, vars, recoveryVars, builderVars, senderVars,
         wireVars, endVars
<1> QED
  BY <1>1, <1>2, <1>3, <1>4 DEF ControlTypes

LEMMA FlagStep ==
  ASSUME TypeOK, [Next]_vars
  PROVE  /\ claimed' \in BOOLEAN /\ catchingUp' \in BOOLEAN
         /\ failed' \in BOOLEAN /\ done' \in BOOLEAN /\ errorSent' \in BOOLEAN
<1>1. claimed' \in BOOLEAN
  <2>1. CASE ReaderAccept
    BY <2>1 DEF ReaderAccept
  <2>2. CASE Take
    BY <2>2 DEF Take
  <2>3. CASE SkipRecover
    BY <2>3 DEF SkipRecover
  <2> QED
    BY <2>1, <2>2, <2>3, ClaimedUnchanged, TypeParts
<1>2. catchingUp' \in BOOLEAN
  <2>1. ASSUME NEW dropped, NEW mark, RecoverIf(dropped, mark)
        PROVE  catchingUp' \in BOOLEAN
    BY <2>1, TypeParts DEF RecoverIf, Recover, recoveryVars
  <2>2. CASE ReaderAccept
    BY <2>1, <2>2 DEF ReaderAccept
  <2>3. CASE Take
    BY <2>1, <2>3 DEF Take
  <2>4. CASE SkipRecover
    BY <2>4 DEF SkipRecover, Recover
  <2>5. CASE ResultSent
    BY <2>5, TypeParts DEF ResultSent
  <2> QED
    BY <2>2, <2>3, <2>4, <2>5, CatchUpUnchanged, TypeParts
<1>3. failed' \in BOOLEAN
  BY FailedUnchanged, TypeParts
<1>4. done' \in BOOLEAN
  BY DoneUnchanged, TypeParts
<1>5. errorSent' \in BOOLEAN
  BY ErrorUnchanged, TypeParts
<1> QED
  BY <1>1, <1>2, <1>3, <1>4, <1>5

LEMMA TypeStep == TypeOK /\ [Next]_vars => TypeOK'
BY InputStep, WorkStep, StatusStep, ControlStep, FlagStep, TypePartsNext

\* Every state is well typed and the host FIFO keeps below its hard limit.
THEOREM TypeCorrect == Spec => []TypeOK
BY TypeInit, TypeStep, PTL DEF Spec

-----------------------------------------------------------------------------
(* The FIFO and the claims *)

LEMMA RecoverEffect ==
  ASSUME TypeOK, NEW dropped, NEW mark, RecoverIf(dropped, mark)
  PROVE  /\ procGen' = IF dropped THEN NextGen ELSE procGen
         /\ procGen' >= procGen
         /\ dropped /\ claimed => procGen' > procGen
         /\ ~dropped => catchingUp' = catchingUp
<1>1. CASE dropped
  <2>1. procGen' = NextGen
    BY <1>1 DEF RecoverIf, Recover
  <2>2. procGen \in Nat
    BY DEF TypeOK
  <2>3. claimed => NextGen = procGen + 1
    BY DEF NextGen
  <2>4. NextGen >= procGen
    BY <2>2 DEF NextGen
  <2> QED
    BY <1>1, <2>1, <2>2, <2>3, <2>4
<1>2. CASE ~dropped
  BY <1>2 DEF RecoverIf, recoveryVars, TypeOK
<1> QED
  BY <1>1, <1>2

LEMMA InputInit == Init => QueueIsFreshSuffix /\ ClaimInv
BY DEF Init, QueueIsFreshSuffix, ClaimInv, NoItem

LEMMA InputInvStep ==
  TypeOK /\ QueueIsFreshSuffix /\ ClaimInv /\ [Next]_vars
    => QueueIsFreshSuffix' /\ ClaimInv'
<1> SUFFICES ASSUME TypeOK, QueueIsFreshSuffix, ClaimInv, [Next]_vars, TypeOK'
             PROVE  QueueIsFreshSuffix' /\ ClaimInv'
  BY TypeStep
<1>t. InputTypes /\ InputTypes'
  BY TypeParts, TypePartsNext
<1>q. \A i \in 1..Len(queue) :
        /\ queue[i].gen = procGen
        /\ queue[i].seq \in 0..MaxSeq
        /\ queue[i].seq + Len(queue) = arrived + i
  BY <1>t, QueuedSeq DEF QueueIsFreshSuffix, InputTypes
<1>c. /\ cur.seq \in Nat /\ cur.gen \in Nat /\ cur.gen <= procGen
      /\ cur.seq + Len(queue) <= arrived
      /\ cur # NoItem /\ cur.gen = procGen
           => claimed /\ cur.seq + Len(queue) = arrived
  BY <1>t, MaxSeqAssumption DEF ClaimInv, InputTypes, Items
<1>n. arrived \in Nat /\ procGen \in Nat /\ Len(queue) \in Nat /\ Len(queue') \in Nat
  BY <1>t DEF InputTypes
<1>1. CASE ReaderAccept
  <2>1. PICK seq \in (arrived + 1)..MaxSeq, changed \in BOOLEAN,
             n \in Nat, k \in Nat :
          LET dropped == changed \/ k > 0
              g == IF dropped THEN NextGen ELSE procGen
          IN /\ n = IF changed THEN 0 ELSE Len(queue)
             /\ k <= n + 1
             /\ seq > arrived + 1 => changed
             /\ arrived' = seq
             /\ queue' \in Seq(Items)
             /\ Len(queue') = n + 1 - k
             /\ Len(queue') < MaxBatches \/ Len(queue') <= 1
             /\ \A i \in 1..Len(queue') :
                  /\ queue'[i].gen = g
                  /\ queue'[i].seq = IF k + i = n + 1 THEN seq
                                                      ELSE queue[k + i].seq
             /\ claimed' = (claimed /\ ~dropped)
             /\ RecoverIf(dropped, IF k = 0 THEN seq - 1
                                   ELSE IF k = n + 1 THEN seq ELSE queue[k].seq)
    BY <1>1, AcceptEffect
  <2>a. /\ seq \in Nat /\ seq >= arrived + 1 /\ (~changed => seq = arrived + 1)
        /\ arrived' = seq /\ Len(queue') = n + 1 - k
    BY <1>n, <2>1, MaxSeqAssumption
  <2> DEFINE dropped == changed \/ k > 0
  <2>2. /\ procGen' = IF dropped THEN NextGen ELSE procGen
        /\ procGen' >= procGen /\ (dropped /\ claimed => procGen' > procGen)
    BY <2>1, RecoverEffect
  <2>3. cur' = cur
    BY <1>1 DEF ReaderAccept, builderVars
  <2>4. \A i \in 1..Len(queue') :
          queue'[i].gen = procGen' /\ queue'[i].seq + Len(queue') = arrived' + i
    <3> SUFFICES ASSUME NEW i \in 1..Len(queue')
                 PROVE  /\ queue'[i].gen = procGen'
                        /\ queue'[i].seq + Len(queue') = arrived' + i
      OBVIOUS
    <3>1. queue'[i].gen = procGen'
      BY <2>1, <2>2
    <3>2. CASE k + i = n + 1
      <4>1. queue'[i].seq = seq /\ i \in Nat
        BY <2>1, <3>2
      <4>2. seq + Len(queue') = seq + i
        BY <1>n, <2>a, <3>2, <4>1
      <4> QED
        BY <2>a, <3>1, <4>1, <4>2
    <3>3. CASE k + i # n + 1
      <4>1. k + i \in 1..Len(queue) /\ n = Len(queue)
        BY <1>n, <2>1, <3>3
      <4>a. arrived' = arrived + 1
        BY <1>n, <2>1, <2>a, <3>3
      <4>2. queue[k + i].seq \in Nat /\ queue[k + i].seq + Len(queue) = arrived + (k + i)
        BY <1>q, <4>1, MaxSeqAssumption
      <4>3. queue'[i].seq = queue[k + i].seq
        BY <2>1, <3>3
      <4> DEFINE x == queue'[i].seq
      <4>4. x \in Nat /\ x + Len(queue) = arrived + (k + i)
        BY <4>2, <4>3
      <4>5. Len(queue') = Len(queue) + 1 - k /\ i \in Nat
        BY <2>a, <4>1
      <4> HIDE DEF x
      <4>6. x + Len(queue') = arrived + 1 + i
        BY <1>n, <4>4, <4>5
      <4> QED
        BY <3>1, <4>a, <4>6 DEF x
    <3> QED
      BY <3>2, <3>3
  <2>5. cur.seq + Len(queue') <= arrived'
    <3>1. n <= Len(queue)
      BY <1>n, <2>1
    <3> QED
      BY <1>n, <1>c, <2>a, <3>1
  <2>6. cur # NoItem /\ cur.gen = procGen'
          => claimed' /\ cur.seq + Len(queue') = arrived'
    <3> SUFFICES ASSUME cur # NoItem, cur.gen = procGen'
                 PROVE  claimed' /\ cur.seq + Len(queue') = arrived'
      OBVIOUS
    <3>1. cur.gen = procGen
      BY <1>c, <1>n, <2>2, <1>t DEF InputTypes
    <3>2. claimed /\ cur.seq + Len(queue) = arrived
      BY <1>c, <3>1
    <3>3. ~dropped
      BY <1>n, <2>2, <3>1, <3>2
    <3>4. claimed'
      BY <2>1, <3>2, <3>3
    <3>5. k = 0 /\ n = Len(queue) /\ seq = arrived + 1
      BY <1>n, <2>1, <3>3
    <3>6. cur.seq + Len(queue') = arrived'
      BY <1>n, <1>c, <2>a, <3>2, <3>5
    <3> QED
      BY <3>4, <3>6
  <2> QED
    <3>1. QueueIsFreshSuffix'
      BY <2>4 DEF QueueIsFreshSuffix
    <3>2. cur'.gen <= procGen'
      BY <1>c, <1>n, <1>t, <2>2, <2>3 DEF InputTypes
    <3> QED
      BY <2>3, <2>5, <2>6, <3>1, <3>2 DEF ClaimInv
<1>2. CASE Take
  <2>1. PICK k \in 0..Len(queue) :
          LET g == IF k > 0 THEN NextGen ELSE procGen
          IN /\ RecoverIf(k > 0, queue[k].seq)
             /\ queue' \in Seq(Items)
             /\ \/ /\ k = Len(queue) /\ k > 0
                   /\ Len(queue') = 0 /\ claimed' = FALSE
                   /\ UNCHANGED builderVars
                \/ /\ k < Len(queue)
                   /\ Len(queue') = Len(queue) - k - 1
                   /\ \A i \in 1..Len(queue') :
                        /\ queue'[i].gen = g
                        /\ queue'[i].seq = queue[k + 1 + i].seq
                   /\ claimed' = TRUE
                   /\ cur' = [seq |-> queue[k + 1].seq, gen |-> g]
                   /\ bpc' = "taken"
    BY <1>2, TakeEffect
  <2> DEFINE dropped == k > 0
  <2>a. RecoverIf(dropped, queue[k].seq)
    BY <2>1
  <2> HIDE DEF dropped
  <2>b. /\ procGen' = IF dropped THEN NextGen ELSE procGen
        /\ procGen' >= procGen /\ (dropped /\ claimed => procGen' > procGen)
    BY <2>a, RecoverEffect
  <2>2. /\ procGen' = IF k > 0 THEN NextGen ELSE procGen
        /\ procGen' >= procGen /\ (k > 0 /\ claimed => procGen' > procGen)
    BY <2>b DEF dropped
  <2>3. arrived' = arrived
    BY <1>2 DEF Take
  <2>4. CASE k < Len(queue)
    <3>1. /\ Len(queue') = Len(queue) - k - 1
          /\ \A i \in 1..Len(queue') :
               queue'[i].gen = procGen' /\ queue'[i].seq = queue[k + 1 + i].seq
          /\ cur' = [seq |-> queue[k + 1].seq, gen |-> procGen']
      BY <2>1, <2>2, <2>4
    <3>a. /\ Len(queue') = Len(queue) - k - 1 /\ k \in Nat
          /\ \A i \in 1..Len(queue') : queue'[i].seq = queue[k + 1 + i].seq
          /\ cur'.gen = procGen' /\ cur'.seq = queue[k + 1].seq
      BY <1>n, <3>1
    <3>2. claimed'
      BY <2>1, <2>4
    <3>3. \A i \in 1..Len(queue') : queue'[i].seq + Len(queue') = arrived' + i
      <4> SUFFICES ASSUME NEW i \in 1..Len(queue')
                   PROVE  queue'[i].seq + Len(queue') = arrived' + i
        OBVIOUS
      <4>1. k + 1 + i \in 1..Len(queue)
        BY <1>n, <3>1
      <4>2. /\ queue[k + 1 + i].seq \in Nat
            /\ queue[k + 1 + i].seq + Len(queue) = arrived + (k + 1 + i)
        BY <1>q, <4>1, MaxSeqAssumption
      <4>3. queue'[i].seq = queue[k + 1 + i].seq
        BY <3>a
      <4>4. Len(queue') = Len(queue) - k - 1 /\ k \in Nat /\ i \in Nat
        BY <3>a
      <4> DEFINE x == queue'[i].seq
      <4>5. x \in Nat /\ x + Len(queue) = arrived + (k + 1 + i)
        BY <4>2, <4>3
      <4> HIDE DEF x
      <4>6. x + Len(queue') = arrived + i
        BY <1>n, <4>4, <4>5
      <4> QED
        BY <2>3, <4>6 DEF x
    <3>4. k + 1 \in 1..Len(queue)
      BY <1>n, <2>4
    <3>5. /\ queue[k + 1].seq \in Nat
          /\ queue[k + 1].seq + Len(queue) = arrived + (k + 1)
      BY <1>q, <3>4, MaxSeqAssumption
    <3>6. cur'.gen = procGen' /\ cur'.seq + Len(queue') = arrived'
      <4> DEFINE x == queue[k + 1].seq
      <4>1. x \in Nat /\ x + Len(queue) = arrived + (k + 1)
        BY <3>5
      <4>2. Len(queue') = Len(queue) - k - 1 /\ k \in Nat /\ cur'.seq = x
        BY <3>a
      <4> HIDE DEF x
      <4>3. x + Len(queue') = arrived
        BY <1>n, <4>1, <4>2
      <4> QED
        BY <2>3, <3>a, <4>2, <4>3
    <3>7. QueueIsFreshSuffix'
      BY <3>1, <3>3 DEF QueueIsFreshSuffix
    <3>8. cur'.gen <= procGen' /\ cur'.seq + Len(queue') <= arrived'
      BY <1>t, <3>6 DEF InputTypes
    <3> QED
      BY <3>2, <3>6, <3>7, <3>8 DEF ClaimInv
  <2>5. CASE ~(k < Len(queue))
    <3>1. k > 0 /\ Len(queue') = 0 /\ cur' = cur
      BY <2>1, <2>5 DEF builderVars
    <3>2. ~(cur # NoItem /\ cur.gen = procGen')
      BY <1>c, <1>n, <1>t, <2>2, <3>1 DEF InputTypes
    <3> QED
      BY <1>c, <1>n, <1>t, <2>2, <2>3, <3>1, <3>2
      DEF QueueIsFreshSuffix, ClaimInv, InputTypes
  <2> QED
    BY <2>4, <2>5
<1>3. CASE SkipRecover
  <2>1. PICK k \in 0..Len(queue) :
          /\ Recover(IF k > 0 THEN queue[k].seq ELSE cur.seq)
          /\ queue' \in Seq(Items)
          /\ Len(queue') = Len(queue) - k
          /\ Len(queue') < MaxBatches \/ Len(queue') <= 1
          /\ \A i \in 1..Len(queue') :
               /\ queue'[i].gen = NextGen
               /\ queue'[i].seq = queue[k + i].seq
    BY <1>3, SkipEffect
  <2>2. /\ procGen' = NextGen
        /\ procGen' >= procGen /\ (claimed => procGen' > procGen)
    BY <2>1, RecoverEffect DEF RecoverIf
  <2>3. arrived' = arrived /\ cur' = cur
    BY <1>3 DEF SkipRecover
  <2>4. \A i \in 1..Len(queue') :
          queue'[i].gen = procGen' /\ queue'[i].seq + Len(queue') = arrived' + i
    <3> SUFFICES ASSUME NEW i \in 1..Len(queue')
                 PROVE  /\ queue'[i].gen = procGen'
                        /\ queue'[i].seq + Len(queue') = arrived' + i
      OBVIOUS
    <3>1. k + i \in 1..Len(queue)
      BY <1>n, <2>1
    <3>2. queue[k + i].seq \in Nat /\ queue[k + i].seq + Len(queue) = arrived + (k + i)
      BY <1>q, <3>1, MaxSeqAssumption
    <3>3. /\ Len(queue') = Len(queue) - k /\ queue'[i].seq = queue[k + i].seq
          /\ queue'[i].gen = procGen'
      BY <2>1, <2>2
    <3> DEFINE x == queue'[i].seq
    <3>4. x \in Nat /\ x + Len(queue) = arrived + (k + i)
      BY <3>2, <3>3
    <3>5. k \in Nat /\ i \in Nat
      OBVIOUS
    <3> HIDE DEF x
    <3>6. x + Len(queue') = arrived + i
      BY <1>n, <3>3, <3>4, <3>5
    <3> QED
      BY <2>3, <3>3, <3>6 DEF x
  <2>5. ~(cur # NoItem /\ cur.gen = procGen')
    BY <1>c, <1>n, <1>t, <2>2 DEF InputTypes
  <2>6. cur.seq + Len(queue') <= arrived
    BY <1>c, <1>n, <2>1
  <2> QED
    <3>1. QueueIsFreshSuffix'
      BY <2>4 DEF QueueIsFreshSuffix
    <3>2. cur'.gen <= procGen'
      BY <1>c, <1>n, <1>t, <2>2, <2>3 DEF InputTypes
    <3> QED
      BY <2>3, <2>5, <2>6, <3>1, <3>2 DEF ClaimInv
<1>4. CASE UNCHANGED <<arrived, queue, procGen, dropMark, cur>> /\ UNCHANGED claimed
  BY <1>4 DEF QueueIsFreshSuffix, ClaimInv
<1> QED
  BY <1>1, <1>2, <1>3, <1>4, InputUnchanged, ClaimedUnchanged

\* The FIFO is always the newest contiguous run of accepted batches, under the
\* current generation.
THEOREM FreshSuffix == Spec => []QueueIsFreshSuffix
<1>1. Init => TypeOK /\ QueueIsFreshSuffix /\ ClaimInv
  BY TypeInit, InputInit
<1>2. TypeOK /\ QueueIsFreshSuffix /\ ClaimInv /\ [Next]_vars
        => (TypeOK /\ QueueIsFreshSuffix /\ ClaimInv)'
  BY TypeStep, InputInvStep
<1> QED
  BY <1>1, <1>2, PTL DEF Spec

LEMMA ClaimStep ==
  TypeOK /\ QueueIsFreshSuffix /\ ClaimInv /\ [Next]_vars
    => (cur' # cur /\ cur # NoItem /\ cur'.gen = cur.gen => cur'.seq = cur.seq + 1)
<1> SUFFICES ASSUME TypeOK, QueueIsFreshSuffix, ClaimInv, [Next]_vars,
                    cur' # cur, cur # NoItem, cur'.gen = cur.gen
             PROVE  cur'.seq = cur.seq + 1
  OBVIOUS
<1>t. InputTypes
  BY TypeParts
<1>1. CASE Take
  <2>1. PICK k \in 0..Len(queue) :
          LET g == IF k > 0 THEN NextGen ELSE procGen
          IN /\ RecoverIf(k > 0, queue[k].seq)
             /\ queue' \in Seq(Items)
             /\ \/ /\ k = Len(queue) /\ k > 0
                   /\ Len(queue') = 0 /\ claimed' = FALSE
                   /\ UNCHANGED builderVars
                \/ /\ k < Len(queue)
                   /\ Len(queue') = Len(queue) - k - 1
                   /\ \A i \in 1..Len(queue') :
                        /\ queue'[i].gen = g
                        /\ queue'[i].seq = queue[k + 1 + i].seq
                   /\ claimed' = TRUE
                   /\ cur' = [seq |-> queue[k + 1].seq, gen |-> g]
                   /\ bpc' = "taken"
    BY <1>1, TakeEffect
  <2> DEFINE dropped == k > 0
  <2>a. RecoverIf(dropped, queue[k].seq)
    BY <2>1
  <2> HIDE DEF dropped
  <2>b. /\ procGen' = IF dropped THEN NextGen ELSE procGen
        /\ procGen' >= procGen /\ (dropped /\ claimed => procGen' > procGen)
    BY <2>a, RecoverEffect
  <2>2. /\ procGen' = IF k > 0 THEN NextGen ELSE procGen
        /\ procGen' >= procGen /\ (k > 0 /\ claimed => procGen' > procGen)
    BY <2>b DEF dropped
  <2>3. k < Len(queue) /\ cur' = [seq |-> queue[k + 1].seq, gen |-> procGen']
    BY <2>1, <2>2 DEF builderVars
  <2>4. cur.gen = procGen'
    BY <2>3
  <2>5. cur.gen \in Nat /\ cur.seq \in Nat /\ procGen \in Nat /\ cur.gen <= procGen
    BY <1>t, MaxSeqAssumption DEF InputTypes, Items, ClaimInv
  <2>6. cur.gen = procGen
    BY <2>2, <2>4, <2>5
  <2>7. claimed /\ cur.seq + Len(queue) = arrived
    BY <2>6 DEF ClaimInv
  <2>8. k = 0
    BY <2>2, <2>4, <2>5, <2>6, <2>7
  <2>9. 1 \in 1..Len(queue)
    BY <1>t, <2>3, <2>8 DEF InputTypes
  <2>10. queue[1].seq + Len(queue) = arrived + 1
    BY <2>9 DEF QueueIsFreshSuffix
  <2>11. queue[1].seq \in 0..MaxSeq
    BY <1>t, <2>9, QueuedSeq DEF InputTypes
  <2>12. cur'.seq = queue[1].seq
    BY <2>3, <2>8
  <2> QED
    BY <1>t, <2>5, <2>7, <2>10, <2>11, <2>12, MaxSeqAssumption DEF InputTypes
<1>2. CASE ~Take
  BY <1>2, InputUnchanged DEF ReaderAccept, SkipRecover, builderVars
<1> QED
  BY <1>1, <1>2

\* Consecutive claims of one generation are neighbours in the bridge's
\* numbering, so a window never spans a discarded batch.
THEOREM Contiguous == Spec => ClaimsContiguous
<1>1. Init => TypeOK /\ QueueIsFreshSuffix /\ ClaimInv
  BY TypeInit, InputInit
<1>2. TypeOK /\ QueueIsFreshSuffix /\ ClaimInv /\ [Next]_vars
        => (TypeOK /\ QueueIsFreshSuffix /\ ClaimInv)'
  BY TypeStep, InputInvStep
<1> QED
  BY <1>1, <1>2, ClaimStep, PTL DEF Spec, ClaimsContiguous

-----------------------------------------------------------------------------
(* Results and the error packet *)

LEMMA LockStep ==
  EndInv /\ [Next]_vars => (lock' = "results" <=> spc' = "writeResult")
BY DEF Next, Builder, Results, Failing, ReaderAccept, ReaderEnd, Take,
       SkipDecide, SkipRecover, FinishWindow,
       NextItem, Submit, PopStatus, Announce, WriteStatus, GetJob, Process,
       Rendered, CheckJob, LockForResult, WriteResult, ResultSent, WriteRaises,
       ResultsStop, FailEnter, FailClaim, FailSend, FailStop, Close,
       vars, recoveryVars, builderVars, senderVars, wireVars, endVars, EndInv, Afterwards

LEMMA SendingStep ==
  ASSUME TypeOK, EndInv, [Next]_vars, NEW f \in Threads, fpc'[f] = "send"
  PROVE  failed'
BY DEF Next, Builder, Results, Failing, ReaderAccept, ReaderEnd, Take,
       SkipDecide, SkipRecover, FinishWindow,
       NextItem, Submit, PopStatus, Announce, WriteStatus, GetJob, Process,
       Rendered, CheckJob, LockForResult, WriteResult, ResultSent, WriteRaises,
       ResultsStop, FailEnter, FailClaim, FailSend, FailStop, Close,
       vars, recoveryVars, builderVars, senderVars, wireVars, endVars, EndInv, TypeOK, Threads

\* An error packet is written in one place ...
LEMMA ErrorSource ==
  [Next]_vars => UNCHANGED errorSent \/ \E f \in Failers : FailSend(f)
BY DEF Next, Builder, Results, Failing, ReaderAccept, ReaderEnd, Take,
       SkipDecide, SkipRecover, FinishWindow,
       NextItem, Submit, PopStatus, Announce, WriteStatus, GetJob, Process,
       Rendered, CheckJob, LockForResult, WriteResult, ResultSent, WriteRaises,
       ResultsStop, FailEnter, FailClaim, FailStop, Close,
       vars, recoveryVars, builderVars, senderVars, wireVars, endVars

\* ... and a result's write begins in one place.
LEMMA WriteSource ==
  [Next]_vars /\ spc' = "writeResult" => spc = "writeResult" \/ LockForResult
BY DEF Next, Builder, Results, Failing, ReaderAccept, ReaderEnd, Take,
       SkipDecide, SkipRecover, FinishWindow,
       NextItem, Submit, PopStatus, Announce, WriteStatus, GetJob, Process,
       Rendered, CheckJob, WriteResult, ResultSent, WriteRaises,
       ResultsStop, FailEnter, FailClaim, FailSend, FailStop, Close,
       vars, recoveryVars, builderVars, senderVars, wireVars, endVars, Afterwards

LEMMA EndStep ==
  TypeOK /\ EndInv /\ NoResultAfterError /\ [Next]_vars
    => EndInv' /\ NoResultAfterError'
<1> SUFFICES ASSUME TypeOK, EndInv, NoResultAfterError, [Next]_vars
             PROVE  EndInv' /\ NoResultAfterError'
  OBVIOUS
<1>1. errorSent' => failed'
  <2>1. errorSent => failed'
    BY FailedUnchanged DEF EndInv
  <2>2. CASE \E f \in Failers : FailSend(f)
    <3>1. PICK f \in Threads : FailSend(f)
      BY <2>2, FailersAssumption DEF Threads
    <3> QED
      BY <3>1, FailedUnchanged DEF EndInv, FailSend
  <2> QED
    BY <2>1, <2>2, ErrorSource
<1>2. NoResultAfterError'
  <2> SUFFICES ASSUME errorSent', spc' = "writeResult" PROVE FALSE
    BY DEF NoResultAfterError
  <2>1. CASE LockForResult
    <3>1. ~failed /\ ~(lock = "results") /\ UNCHANGED errorSent
      BY <2>1 DEF LockForResult, RefusesResults, Cancelled, wireVars
    <3> QED
      BY <3>1 DEF EndInv
  <2>2. CASE spc = "writeResult"
    <3>1. lock = "results" /\ ~errorSent
      BY <2>2 DEF EndInv, NoResultAfterError
    <3>2. \A f \in Failers : ~FailSend(f)
      BY <3>1 DEF FailSend
    <3> QED
      BY <3>1, <3>2, ErrorSource
  <2> QED
    BY <2>1, <2>2, WriteSource
<1> QED
  BY <1>1, <1>2, LockStep, SendingStep DEF EndInv

\* Once the error packet has been written no result is written any more.
THEOREM SilentAfterError == Spec => []NoResultAfterError
<1>1. Init => EndInv /\ NoResultAfterError
  BY DEF Init, EndInv, NoResultAfterError, Threads
<1>2. TypeOK /\ EndInv /\ NoResultAfterError /\ [Next]_vars
        => EndInv' /\ NoResultAfterError'
  BY EndStep
<1> QED
  BY <1>1, <1>2, TypeInit, TypeStep, PTL DEF Spec

-----------------------------------------------------------------------------
(* Freshness of the work in progress *)

\* A drop leaves no work of the current generation: either the generation is
\* new, or it had no claims.
LEMMA DropEffect ==
  ASSUME TypeOK, NEW dropped, NEW mark \in Nat, RecoverIf(dropped, mark)
  PROVE  /\ procGen' \in Nat /\ procGen' >= procGen
         /\ dropped /\ claimed => procGen' > procGen
         /\ ~dropped => procGen' = procGen /\ dropMark' = dropMark
         /\ dropMark' = dropMark \/ (dropped /\ dropMark' = mark)
<1>1. procGen \in Nat /\ dropMark \in Nat
  BY MaxSeqAssumption DEF TypeOK
<1>2. procGen' >= procGen /\ procGen' \in Nat /\ (dropped /\ claimed => procGen' > procGen)
  BY <1>1, RecoverEffect, NextGenType
<1>3. dropMark' = dropMark \/ (dropped /\ dropMark' = mark)
  BY DEF RecoverIf, Recover, recoveryVars
<1>4. ~dropped => procGen' = procGen /\ dropMark' = dropMark
  BY DEF RecoverIf, recoveryVars
<1> QED
  BY <1>2, <1>3, <1>4

LEMMA QueuedNat ==
  ASSUME NEW q \in Seq(Items), NEW i \in 1..Len(q)
  PROVE  q[i].seq \in Nat
BY QueuedSeq, MaxSeqAssumption

\* Of an accepted batch: what it does to the length of the FIFO, the claims and
\* the recovery.
LEMMA AcceptMark ==
  ASSUME TypeOK, ReaderAccept
  PROVE  \E seq \in (arrived + 1)..MaxSeq, changed \in BOOLEAN,
            n \in Nat, k \in Nat :
           /\ n = IF changed THEN 0 ELSE Len(queue)
           /\ k <= n + 1
           /\ arrived' = seq
           /\ Len(queue') = n + 1 - k
           /\ claimed' = (claimed /\ ~(changed \/ k > 0))
           /\ RecoverIf(changed \/ k > 0, IF k = 0 THEN seq - 1
                                 ELSE IF k = n + 1 THEN seq ELSE queue[k].seq)
<1>1. PICK seq \in (arrived + 1)..MaxSeq, changed \in BOOLEAN,
           n \in Nat, k \in Nat :
        LET dropped == changed \/ k > 0
            g == IF dropped THEN NextGen ELSE procGen
        IN /\ n = IF changed THEN 0 ELSE Len(queue)
           /\ k <= n + 1
           /\ seq > arrived + 1 => changed
           /\ arrived' = seq
           /\ queue' \in Seq(Items)
           /\ Len(queue') = n + 1 - k
           /\ Len(queue') < MaxBatches \/ Len(queue') <= 1
           /\ \A i \in 1..Len(queue') :
                /\ queue'[i].gen = g
                /\ queue'[i].seq = IF k + i = n + 1 THEN seq
                                                    ELSE queue[k + i].seq
           /\ claimed' = (claimed /\ ~dropped)
           /\ RecoverIf(dropped, IF k = 0 THEN seq - 1
                                 ELSE IF k = n + 1 THEN seq ELSE queue[k].seq)
  BY AcceptEffect
<1> WITNESS seq \in (arrived + 1)..MaxSeq
<1> WITNESS changed \in BOOLEAN
<1> WITNESS n \in Nat
<1> WITNESS k \in Nat
<1> QED
  BY <1>1

\* The newest discarded batch is behind the FIFO.
LEMMA MarkStep ==
  TypeOK /\ QueueIsFreshSuffix /\ ClaimInv /\ dropMark + Len(queue) <= arrived /\ [Next]_vars
    => (dropMark + Len(queue) <= arrived)'
<1> SUFFICES ASSUME TypeOK, QueueIsFreshSuffix, ClaimInv,
                    dropMark + Len(queue) <= arrived, [Next]_vars, TypeOK'
             PROVE  dropMark' + Len(queue') <= arrived'
  BY TypeStep
<1>t. InputTypes /\ InputTypes'
  BY TypeParts, TypePartsNext
<1>q. \A i \in 1..Len(queue) :
        queue[i].seq \in Nat /\ queue[i].seq + Len(queue) = arrived + i
  BY <1>t, QueuedNat DEF QueueIsFreshSuffix, InputTypes
<1>n. /\ arrived \in Nat /\ Len(queue) \in Nat /\ Len(queue') \in Nat
      /\ dropMark \in Nat /\ dropMark' \in Nat
      /\ cur.seq \in Nat /\ cur.seq + Len(queue) <= arrived
  BY <1>t, MaxSeqAssumption DEF InputTypes, ClaimInv, Items
<1>1. CASE ReaderAccept
  <2>1. PICK seq \in (arrived + 1)..MaxSeq, changed \in BOOLEAN,
             n \in Nat, k \in Nat :
          /\ n = IF changed THEN 0 ELSE Len(queue)
          /\ k <= n + 1
          /\ arrived' = seq
          /\ Len(queue') = n + 1 - k
          /\ claimed' = (claimed /\ ~(changed \/ k > 0))
          /\ RecoverIf(changed \/ k > 0, IF k = 0 THEN seq - 1
                                ELSE IF k = n + 1 THEN seq ELSE queue[k].seq)
    BY <1>1, AcceptMark
  <2> DEFINE mark == IF k = 0 THEN seq - 1
                     ELSE IF k = n + 1 THEN seq ELSE queue[k].seq
  <2>2. seq \in Nat /\ seq >= arrived + 1
    BY <1>n, <2>1, MaxSeqAssumption
  <2>3. mark \in Nat /\ (changed \/ k > 0 => mark + Len(queue') <= seq)
    <3>1. CASE k # 0 /\ k # n + 1
      <4>1. k \in 1..Len(queue) /\ n = Len(queue)
        BY <1>n, <2>1, <3>1
      <4>2. mark \in Nat /\ mark + Len(queue) = arrived + k
        BY <1>q, <3>1, <4>1
      <4> HIDE DEF mark
      <4> QED
        BY <1>n, <2>1, <2>2, <4>1, <4>2
    <3>2. CASE k = 0
      <4>1. mark = seq - 1 /\ (changed => Len(queue') = 1)
        BY <1>n, <2>1, <3>2
      <4> HIDE DEF mark
      <4> QED
        BY <1>n, <2>1, <2>2, <3>2, <4>1
    <3>3. CASE k = n + 1
      <4>1. mark = IF k = 0 THEN seq - 1 ELSE seq
        BY <3>3
      <4>2. mark = seq /\ Len(queue') = 0
        BY <2>1, <3>3, <4>1
      <4> HIDE DEF mark
      <4> QED
        BY <2>2, <4>2
    <3> QED
      BY <3>1, <3>2, <3>3
  <2>4. RecoverIf(changed \/ k > 0, mark)
    BY <2>1
  <2> HIDE DEF mark
  <2>5. dropMark' = dropMark \/ ((changed \/ k > 0) /\ dropMark' = mark)
    BY <2>3, <2>4, DropEffect
  <2>6. dropMark + Len(queue') <= seq
    BY <1>n, <2>1, <2>2
  <2> QED
    BY <2>1, <2>3, <2>5, <2>6
<1>2. CASE Take
  <2>1. PICK k \in 0..Len(queue) :
          /\ RecoverIf(k > 0, queue[k].seq)
          /\ Len(queue') = 0 \/ Len(queue') = Len(queue) - k - 1
    BY <1>2, TakeEffect
  <2>2. arrived' = arrived
    BY <1>2 DEF Take
  <2>3. CASE k = 0
    <3>1. dropMark' = dropMark
      BY <2>1, <2>3 DEF RecoverIf, recoveryVars
    <3> QED
      BY <1>n, <2>1, <2>2, <2>3, <3>1
  <2>4. CASE k > 0
    <3> DEFINE mark == queue[k].seq
    <3>1. mark \in Nat /\ mark + Len(queue) = arrived + k
      BY <1>q, <2>4
    <3>2. RecoverIf(k > 0, mark)
      BY <2>1
    <3> HIDE DEF mark
    <3>3. dropMark' = dropMark \/ dropMark' = mark
      BY <3>1, <3>2, DropEffect
    <3>4. Len(queue) - k >= Len(queue')
      BY <1>n, <2>1
    <3> QED
      BY <1>n, <2>2, <3>1, <3>3, <3>4
  <2> QED
    BY <2>3, <2>4
<1>3. CASE SkipRecover
  <2>1. PICK k \in 0..Len(queue) :
          /\ Recover(IF k > 0 THEN queue[k].seq ELSE cur.seq)
          /\ Len(queue') = Len(queue) - k
    BY <1>3, SkipEffect
  <2>2. arrived' = arrived
    BY <1>3 DEF SkipRecover
  <2> DEFINE mark == IF k > 0 THEN queue[k].seq ELSE cur.seq
  <2>3. mark \in Nat /\ mark + Len(queue') <= arrived
    <3>1. CASE k > 0
      <4>1. mark \in Nat /\ mark + Len(queue) = arrived + k
        BY <1>q, <3>1
      <4> HIDE DEF mark
      <4> QED
        BY <1>n, <2>1, <4>1
    <3>2. CASE ~(k > 0)
      BY <1>n, <2>1, <3>2
    <3> QED
      BY <3>1, <3>2
  <2>4. RecoverIf(TRUE, mark)
    BY <2>1 DEF RecoverIf
  <2> HIDE DEF mark
  <2>5. dropMark' = dropMark \/ dropMark' = mark
    BY <2>3, <2>4, DropEffect
  <2> QED
    BY <1>n, <2>1, <2>2, <2>3, <2>5
<1>4. CASE UNCHANGED <<arrived, queue, procGen, dropMark, cur>>
  BY <1>4
<1> QED
  BY <1>1, <1>2, <1>3, <1>4, InputUnchanged

\* Work that stays where it is stays fresh, whatever the step.
LEMMA StaysFresh ==
  ASSUME TypeOK, [Next]_vars, NEW w \in Items, FreshItem(w)
  PROVE  /\ w.gen <= procGen'
         /\ w # NoItem /\ w.gen = procGen' => claimed' /\ w.seq > dropMark'
<1>n. procGen \in Nat /\ w.gen \in Nat /\ w.seq \in Nat
  BY MaxSeqAssumption DEF TypeOK, Items
<1>f. w.gen <= procGen /\ (w # NoItem /\ w.gen = procGen => claimed /\ w.seq > dropMark)
  BY DEF FreshItem
<1>t. InputTypes
  BY TypeParts
<1>1. ASSUME NEW dropped \in BOOLEAN, NEW mark \in Nat, RecoverIf(dropped, mark),
             ~dropped /\ claimed => claimed'
      PROVE  /\ w.gen <= procGen'
             /\ w # NoItem /\ w.gen = procGen' => claimed' /\ w.seq > dropMark'
  <2>1. /\ procGen' \in Nat /\ procGen' >= procGen
        /\ dropped /\ claimed => procGen' > procGen
        /\ ~dropped => procGen' = procGen /\ dropMark' = dropMark
    BY <1>1, DropEffect
  <2> QED
    BY <1>1, <1>n, <1>f, <2>1
<1>2. CASE ReaderAccept
  <2>1. PICK seq \in (arrived + 1)..MaxSeq, changed \in BOOLEAN,
             n \in Nat, k \in Nat :
          /\ n = IF changed THEN 0 ELSE Len(queue)
          /\ k <= n + 1
          /\ arrived' = seq
          /\ Len(queue') = n + 1 - k
          /\ claimed' = (claimed /\ ~(changed \/ k > 0))
          /\ RecoverIf(changed \/ k > 0, IF k = 0 THEN seq - 1
                                ELSE IF k = n + 1 THEN seq ELSE queue[k].seq)
    BY <1>2, AcceptMark
  <2>2. (IF k = 0 THEN seq - 1 ELSE IF k = n + 1 THEN seq ELSE queue[k].seq) \in Nat
    <3>1. CASE k # 0 /\ k # n + 1
      <4>1. k \in 1..Len(queue)
        BY <1>t, <2>1, <3>1 DEF InputTypes
      <4> QED
        BY <1>t, <3>1, <4>1, QueuedSeq, MaxSeqAssumption DEF InputTypes
    <3>2. CASE ~(k # 0 /\ k # n + 1)
      BY <1>t, <3>2, MaxSeqAssumption DEF InputTypes
    <3> QED
      BY <3>1, <3>2
  <2> QED
    BY <1>1, <2>1, <2>2
<1>3. CASE Take
  <2>1. PICK k \in 0..Len(queue) :
          /\ RecoverIf(k > 0, queue[k].seq)
          /\ (claimed' = FALSE /\ k > 0) \/ claimed' = TRUE
    BY <1>3, TakeEffect
  <2>2. CASE k > 0
    <3>1. queue[k].seq \in Nat
      BY <1>t, <2>2, QueuedSeq, MaxSeqAssumption DEF InputTypes
    <3> QED
      BY <1>1, <2>1, <2>2, <3>1
  <2>3. CASE ~(k > 0)
    <3>1. RecoverIf(FALSE, 0)
      BY <2>1, <2>3 DEF RecoverIf
    <3> QED
      BY <1>1, <2>1, <2>3, <3>1
  <2> QED
    BY <2>2, <2>3
<1>4. CASE SkipRecover
  <2>1. PICK k \in 0..Len(queue) :
          Recover(IF k > 0 THEN queue[k].seq ELSE cur.seq)
    BY <1>4, SkipEffect
  <2>2. (IF k > 0 THEN queue[k].seq ELSE cur.seq) \in Nat
    <3>1. CASE k > 0
      BY <1>t, <3>1, QueuedNat DEF InputTypes
    <3>2. CASE ~(k > 0)
      BY <1>t, <3>2, MaxSeqAssumption DEF InputTypes, Items
    <3> QED
      BY <3>1, <3>2
  <2>3. RecoverIf(TRUE, IF k > 0 THEN queue[k].seq ELSE cur.seq)
    BY <2>1 DEF RecoverIf
  <2> QED
    BY <1>1, <2>2, <2>3
<1>5. CASE UNCHANGED <<arrived, queue, procGen, dropMark, cur>> /\ UNCHANGED claimed
  BY <1>5, <1>f
<1> QED
  BY <1>2, <1>3, <1>4, <1>5, InputUnchanged, ClaimedUnchanged

\* The item just claimed is fresh.
LEMMA ClaimFresh ==
  ASSUME TypeOK, QueueIsFreshSuffix, ClaimInv, dropMark + Len(queue) <= arrived, Take,
         TypeOK', QueueIsFreshSuffix', ClaimInv', (dropMark + Len(queue) <= arrived)'
  PROVE  \/ UNCHANGED builderVars
         \/ cur'.gen = procGen' /\ claimed' /\ cur'.seq > dropMark'
<1>t. InputTypes /\ InputTypes'
  BY TypeParts, TypePartsNext
<1>n. /\ arrived' \in Nat /\ Len(queue') \in Nat /\ dropMark' \in Nat
      /\ Len(queue) \in Nat /\ dropMark \in Nat /\ arrived \in Nat
  BY <1>t, MaxSeqAssumption DEF InputTypes
<1>1. PICK k \in 0..Len(queue) :
         /\ RecoverIf(k > 0, queue[k].seq)
         /\ \/ UNCHANGED builderVars
            \/ /\ k < Len(queue)
               /\ claimed' = TRUE
               /\ cur' = [seq |-> queue[k + 1].seq,
                          gen |-> IF k > 0 THEN NextGen ELSE procGen]
  BY TakeEffect
<1>2. CASE UNCHANGED builderVars
  BY <1>2
<1>3. CASE ~UNCHANGED builderVars
  <2>1. queue[k + 1].seq \in Nat /\ queue[k + 1].seq + Len(queue) = arrived + k + 1
    <3>1. k + 1 \in 1..Len(queue)
      BY <1>n, <1>1, <1>3
    <3>2. queue[k + 1].seq + Len(queue) = arrived + (k + 1)
      BY <3>1 DEF QueueIsFreshSuffix
    <3>3. queue[k + 1].seq \in 0..MaxSeq
      BY <1>t, <3>1, QueuedSeq DEF InputTypes
    <3> QED
      BY <1>n, <3>2, <3>3, MaxSeqAssumption
  <2>2. dropMark' <= arrived - Len(queue) + k
    <3>1. CASE k = 0
      BY <1>n, <1>1, <3>1 DEF RecoverIf, recoveryVars
    <3>2. CASE k > 0
      <4> DEFINE mark == queue[k].seq
      <4>1. mark \in Nat /\ mark + Len(queue) = arrived + k
        BY <1>t, <3>2, QueuedSeq, MaxSeqAssumption DEF InputTypes, QueueIsFreshSuffix
      <4>2. RecoverIf(k > 0, mark)
        BY <1>1
      <4> HIDE DEF mark
      <4>3. dropMark' = dropMark \/ dropMark' = mark
        BY <4>1, <4>2, DropEffect
      <4> QED
        BY <1>n, <4>1, <4>3
    <3> QED
      BY <3>1, <3>2
  <2>3. cur'.seq = queue[k + 1].seq /\ cur'.gen = IF k > 0 THEN NextGen ELSE procGen
    BY <1>1, <1>3
  <2>4. procGen' = IF k > 0 THEN NextGen ELSE procGen
    BY <1>1 DEF RecoverIf, Recover, recoveryVars
  <2> QED
    BY <1>1, <1>3, <1>n, <2>1, <2>2, <2>3, <2>4
<1> QED
  BY <1>2, <1>3

(* Where the work of each stage comes from: the stage before it. *)
LEMMA JobUnchanged ==
  [Next]_vars => Submit \/ GetJob \/ UNCHANGED job
BY DEF Next, Builder, Results, Failing, ReaderAccept, ReaderEnd, Take,
       SkipDecide, SkipRecover, FinishWindow,
       NextItem, PopStatus, Announce, WriteStatus, Process,
       Rendered, CheckJob, LockForResult, WriteResult, ResultSent, WriteRaises,
       ResultsStop, FailEnter, FailClaim, FailSend, FailStop, Close,
       vars, recoveryVars, builderVars, senderVars, wireVars, endVars
LEMMA HeldUnchanged ==
  [Next]_vars => GetJob \/ held' = NoItem \/ UNCHANGED held
BY DEF Next, Builder, Results, Failing, ReaderAccept, ReaderEnd, Take,
       SkipDecide, SkipRecover, FinishWindow,
       NextItem, Submit, PopStatus, Announce, WriteStatus, Process,
       Rendered, CheckJob, LockForResult, WriteResult, ResultSent, WriteRaises,
       ResultsStop, FailEnter, FailClaim, FailSend, FailStop, Close,
       vars, recoveryVars, builderVars, senderVars, wireVars, endVars
LEMMA BuilderUnchanged ==
  [Next]_vars => \/ Take \/ UNCHANGED builderVars
                 \/ UNCHANGED cur /\ (bpc # "idle" \/ bpc' = "idle")
BY DEF Next, Builder, Results, Failing, ReaderAccept, ReaderEnd,
       SkipDecide, SkipRecover, FinishWindow,
       NextItem, Submit, PopStatus, Announce, WriteStatus, GetJob, Process,
       Rendered, CheckJob, LockForResult, WriteResult, ResultSent, WriteRaises,
       ResultsStop, FailEnter, FailClaim, FailSend, FailStop, Close,
       vars, recoveryVars, builderVars, senderVars, wireVars, endVars
LEMMA HeldWhileNeeded ==
  [Next]_vars /\ (spc \in WithJob => held # NoItem) => (spc' \in WithJob => held' # NoItem)
BY DEF WithJob, Afterwards, Next, Builder, Results, Failing, ReaderAccept, ReaderEnd, Take,
       SkipDecide, SkipRecover, FinishWindow,
       NextItem, Submit, PopStatus, Announce, WriteStatus, GetJob, Process,
       Rendered, CheckJob, LockForResult, WriteResult, ResultSent, WriteRaises,
       ResultsStop, FailEnter, FailClaim, FailSend, FailStop, Close,
       vars, recoveryVars, builderVars, senderVars, wireVars, endVars

LEMMA NothingFresh ==
  ASSUME procGen \in Nat PROVE FreshItem(NoItem)
BY DEF FreshItem, NoItem

LEMMA FreshStep ==
  TypeOK /\ QueueIsFreshSuffix /\ ClaimInv /\ FreshInv /\ [Next]_vars => FreshInv'
<1> SUFFICES ASSUME TypeOK, QueueIsFreshSuffix, ClaimInv, FreshInv, [Next]_vars,
                    TypeOK', QueueIsFreshSuffix', ClaimInv'
             PROVE  FreshInv'
  BY TypeStep, InputInvStep
<1>t. /\ procGen \in Nat /\ procGen' \in Nat /\ cur \in Items /\ job \in Items
      /\ held \in Items /\ windows \in Seq(Items)
  BY DEF TypeOK
<1> DEFINE Fresh(w) == /\ w.gen <= procGen'
                       /\ w # NoItem /\ w.gen = procGen' => claimed' /\ w.seq > dropMark'
<1>1. (dropMark + Len(queue) <= arrived)'
  BY MarkStep DEF FreshInv
<1>2. /\ Fresh(cur) /\ Fresh(job) /\ Fresh(held)
      /\ \A i \in 1..Len(windows) : Fresh(windows[i]) /\ windows[i] # NoItem
  <2>1. \A i \in 1..Len(windows) : windows[i] \in Items
    BY <1>t
  <2> QED
    BY <1>t, <2>1, StaysFresh DEF FreshInv
<1>0. Fresh(NoItem)
  BY <1>t DEF NoItem
<1> HIDE DEF Fresh
<1>3. Fresh(cur') /\ (bpc' # "idle" => cur' # NoItem)
  <2>1. CASE Take
    <3>1. CASE UNCHANGED builderVars
      BY <1>2, <3>1 DEF builderVars, FreshInv
    <3>2. CASE cur'.gen = procGen' /\ claimed' /\ cur'.seq > dropMark'
      <4>1. dropMark' \in Nat
        BY MaxSeqAssumption DEF TypeOK
      <4>2. cur' # NoItem
        BY <3>2, <4>1 DEF NoItem
      <4> QED
        BY <1>t, <3>2, <4>2 DEF Fresh
    <3> QED
      BY <1>1, <2>1, <3>1, <3>2, ClaimFresh DEF FreshInv
  <2>2. CASE UNCHANGED builderVars
    BY <1>2, <2>2 DEF builderVars, FreshInv
  <2>3. CASE UNCHANGED cur /\ (bpc # "idle" \/ bpc' = "idle")
    BY <1>2, <2>3 DEF FreshInv
  <2> QED
    BY <2>1, <2>2, <2>3, BuilderUnchanged
<1>4. Fresh(job')
  <2>1. CASE Submit
    <3>1. windows # <<>> /\ (UNCHANGED job \/ job' = Head(windows))
      BY <2>1 DEF Submit
    <3>2. Head(windows) = windows[1] /\ 1 \in 1..Len(windows)
      BY <1>t, <3>1, HeadTailProperties, EmptySeq
    <3> QED
      BY <1>2, <3>1, <3>2
  <2>2. CASE GetJob
    BY <1>0, <1>2, <2>2 DEF GetJob
  <2>3. CASE UNCHANGED job
    BY <1>2, <2>3
  <2> QED
    BY <2>1, <2>2, <2>3, JobUnchanged
<1>5. Fresh(held')
  <2>1. CASE GetJob
    BY <1>2, <2>1 DEF GetJob
  <2> QED
    BY <1>0, <1>2, <2>1, HeldUnchanged
<1>6. \A i \in 1..Len(windows') : Fresh(windows'[i]) /\ windows'[i] # NoItem
  <2>1. CASE FinishWindow
    <3>1. windows' = Append(windows, cur) /\ bpc # "idle"
      BY <2>1 DEF FinishWindow
    <3>2. Fresh(cur) /\ cur # NoItem
      BY <1>2, <3>1 DEF FreshInv
    <3>3. /\ Len(windows') = Len(windows) + 1
          /\ \A i \in 1..Len(windows') :
               windows'[i] = IF i = Len(windows) + 1 THEN cur ELSE windows[i]
      BY <1>t, <3>1
    <3> QED
      BY <1>t, <1>2, <3>2, <3>3
  <2>2. CASE Submit
    <3>1. windows' = Tail(windows) /\ windows # <<>>
      BY <2>2 DEF Submit
    <3>2. /\ Len(windows') = Len(windows) - 1
          /\ \A i \in 1..Len(windows') : windows'[i] = windows[i + 1]
      BY <1>t, <3>1, HeadTailProperties
    <3>3. Len(windows) \in Nat
      BY <1>t
    <3> QED
      BY <1>2, <3>2, <3>3
  <2>3. CASE UNCHANGED windows
    BY <1>2, <2>3
  <2> QED
    BY <2>1, <2>2, <2>3, WindowsUnchanged
<1>7. spc' \in WithJob => held' # NoItem
  BY HeldWhileNeeded DEF FreshInv
<1> QED
  BY <1>1, <1>3, <1>4, <1>5, <1>6, <1>7 DEF FreshInv, FreshItem, Fresh

LEMMA FreshInit == Init => FreshInv
BY MaxSeqAssumption DEF Init, FreshInv, FreshItem, NoItem, WithJob

\* A catch-up ends only by a result that was computed from data newer than all
\* that was discarded.
THEOREM ConnectedFresh == Spec => ConnectedMeansFresh
<1> DEFINE Inv == TypeOK /\ QueueIsFreshSuffix /\ ClaimInv /\ FreshInv
<1>1. Init => Inv
  BY TypeInit, InputInit, FreshInit
<1>2. Inv /\ [Next]_vars => Inv'
  BY TypeStep, InputInvStep, FreshStep
<1>3. Inv /\ [Next]_vars => (catchingUp /\ ~catchingUp' => held.seq > dropMark)
  <2> SUFFICES ASSUME Inv, [Next]_vars, catchingUp, ~catchingUp'
               PROVE  held.seq > dropMark
    OBVIOUS
  <2>1. ~ReaderAccept /\ ~Take /\ ~SkipRecover
    BY DEF ReaderAccept, Take, SkipRecover, RecoverIf, Recover, recoveryVars
  <2>2. ResultSent
    BY <2>1, CatchUpUnchanged
  <2>3. spc = "ack" /\ held.gen = procGen
    BY <2>2 DEF ResultSent, Stale
  <2> QED
    BY <2>3 DEF FreshInv, FreshItem, WithJob
<1> HIDE DEF Inv
<1> QED
  BY <1>1, <1>2, <1>3, PTL DEF Spec, ConnectedMeansFresh

-----------------------------------------------------------------------------
(* What is announced to the bridge *)

\* A step outside the result thread either drops, and then a catching-up
\* status is pending, or leaves everything that is announced as it was.
LEMMA DropOrNothing ==
  ASSUME TypeOK, [Next]_vars, ~Results
  PROVE  \/ /\ procGen' >= procGen /\ procGen' \in Nat /\ catchingUp' = TRUE
            /\ statusPending' = [state |-> "catching_up", gen |-> procGen']
            /\ UNCHANGED <<senderVars, wireGen, announced, done>>
         \/ /\ UNCHANGED <<procGen, catchingUp, statusPending, out, held, wireGen, announced>>
            /\ done' = done \/ done' = TRUE
            /\ spc' = spc \/ (spc = "broken" /\ spc' = "stopped")
<1>1. ASSUME NEW dropped, NEW mark, RecoverIf(dropped, mark)
      PROVE  \/ /\ procGen' >= procGen /\ procGen' \in Nat /\ catchingUp' = TRUE
                /\ statusPending' = [state |-> "catching_up", gen |-> procGen']
             \/ UNCHANGED <<procGen, catchingUp, statusPending>>
  BY <1>1, NextGenType DEF RecoverIf, Recover, recoveryVars
<1>2. CASE ReaderAccept
  <2>1. UNCHANGED <<senderVars, wireVars, endVars>>
    BY <1>2 DEF ReaderAccept
  <2>2. \E dropped, mark : RecoverIf(dropped, mark)
    BY <1>2, AcceptMark
  <2> QED
    BY <1>1, <2>1, <2>2 DEF senderVars, wireVars, endVars
<1>3. CASE Take
  BY <1>1, <1>3 DEF Take, senderVars, wireVars, endVars
<1>4. CASE SkipRecover
  BY <1>4, NextGenType DEF SkipRecover, Recover, senderVars, wireVars, endVars
<1>5. CASE ReaderEnd \/ SkipDecide \/ FinishWindow \/ NextItem \/ Submit \/ Close
           \/ UNCHANGED vars
  BY <1>5 DEF ReaderEnd, SkipDecide, FinishWindow, NextItem, Submit, Close,
              vars, recoveryVars, senderVars, wireVars, endVars
<1>6. CASE \E f \in Failers : Failing(f)
  BY <1>6 DEF Failing, FailEnter, FailClaim, FailSend, FailStop,
              recoveryVars, senderVars, wireVars, endVars
<1> QED
  BY <1>2, <1>3, <1>4, <1>5, <1>6 DEF Next, Builder

LEMMA StatusInit == Init => StatusInv /\ NoStatusLost
BY DEF Init, StatusInv, NoStatusLost, LatestStatus, NoStatus

LEMMA StatusInvStep ==
  TypeOK /\ StatusInv /\ [Next]_vars => StatusInv' /\ wireGen' >= wireGen
<1> SUFFICES ASSUME TypeOK, StatusInv, [Next]_vars
             PROVE  StatusInv' /\ wireGen' >= wireGen
  OBVIOUS
<1>t. /\ procGen \in Nat /\ wireGen \in Nat /\ held.gen \in Nat /\ out.gen \in Nat
      /\ statusPending.gen \in Nat
  BY DEF TypeOK, Items, Statuses
<1>1. CASE ~Results
  <2>1. CASE /\ procGen' >= procGen /\ procGen' \in Nat
             /\ statusPending' = [state |-> "catching_up", gen |-> procGen']
             /\ spc' = spc /\ out' = out /\ held' = held /\ wireGen' = wireGen
    <3>1. statusPending'.gen = procGen'
      BY <2>1
    <3> QED
      BY <1>t, <2>1, <3>1 DEF StatusInv
  <2>2. CASE /\ UNCHANGED <<procGen, statusPending, out, held, wireGen>>
             /\ spc' = spc \/ (spc = "broken" /\ spc' = "stopped")
    BY <1>t, <2>2 DEF StatusInv
  <2> QED
    BY <1>1, <2>1, <2>2, DropOrNothing DEF senderVars
<1>2. CASE PopStatus
  BY <1>2, <1>t DEF PopStatus, StatusInv, NoStatus, Afterwards, wireVars
<1>3. CASE Announce
  BY <1>3, <1>t DEF Announce, StatusInv, Afterwards, wireVars, recoveryVars
<1>4. CASE WriteStatus
  BY <1>4, <1>t DEF WriteStatus, StatusInv, Afterwards, recoveryVars
<1>5. CASE GetJob
  BY <1>5, <1>t DEF GetJob, StatusInv, wireVars, recoveryVars
<1>6. CASE Process \/ Rendered
  BY <1>6, <1>t DEF Process, Rendered, CheckJob, StatusInv, wireVars, recoveryVars
<1>7. CASE LockForResult
  BY <1>7, <1>t DEF LockForResult, StatusInv, Stale, wireVars, recoveryVars
<1>8. CASE WriteResult
  BY <1>8, <1>t DEF WriteResult, StatusInv, recoveryVars
<1>9. CASE ResultSent
  BY <1>9, <1>t DEF ResultSent, StatusInv, wireVars
<1>10. CASE WriteRaises
  BY <1>10, <1>t DEF WriteRaises, StatusInv, recoveryVars, wireVars
<1>11. CASE ResultsStop
  BY <1>11, <1>t DEF ResultsStop, StatusInv, recoveryVars, wireVars
<1> QED
  BY <1>1, <1>2, <1>3, <1>4, <1>5, <1>6, <1>7, <1>8, <1>9, <1>10, <1>11 DEF Results

\* The result thread does not come back from its end.
LEMMA EndsOnce ==
  [Next]_vars /\ spc \in {"broken", "stopped"} => spc' \in {"broken", "stopped"}
BY DEF Next, Builder, Results, Failing, ReaderAccept, ReaderEnd, Take,
       SkipDecide, SkipRecover, FinishWindow,
       NextItem, Submit, PopStatus, Announce, WriteStatus, GetJob, Process,
       Rendered, CheckJob, LockForResult, WriteResult, ResultSent, WriteRaises,
       ResultsStop, FailEnter, FailClaim, FailSend, FailStop, Close,
       vars, recoveryVars, builderVars, senderVars, wireVars, endVars

LEMMA LatestStep ==
  TypeOK /\ StatusInv /\ NoStatusLost /\ [Next]_vars => NoStatusLost'
<1> SUFFICES ASSUME TypeOK, StatusInv, NoStatusLost, [Next]_vars,
                    ~done', spc' \notin {"broken", "stopped"}
             PROVE  LatestStatus' = [state |-> IF catchingUp' THEN "catching_up"
                                               ELSE "connected", gen |-> procGen']
  BY DEF NoStatusLost
<1> DEFINE Present == [state |-> IF catchingUp THEN "catching_up" ELSE "connected",
                       gen |-> procGen]
<1>1. ~done
  BY DoneUnchanged
<1>2. spc \notin {"broken", "stopped"}
  BY EndsOnce
<1>3. LatestStatus = Present
  BY <1>1, <1>2 DEF NoStatusLost
<1>4. CASE ~Results
  <2>1. CASE /\ catchingUp' = TRUE
             /\ statusPending' = [state |-> "catching_up", gen |-> procGen']
    BY <2>1 DEF LatestStatus, NoStatus
  <2>2. CASE UNCHANGED <<procGen, catchingUp, statusPending, out, announced>>
    BY <1>3, <2>2 DEF LatestStatus
  <2> QED
    BY <1>4, <2>1, <2>2, DropOrNothing
<1>5. CASE PopStatus
  <2>1. out = NoStatus
    BY <1>5 DEF PopStatus, StatusInv
  <2> QED
    BY <1>3, <1>5, <2>1 DEF PopStatus, LatestStatus, wireVars
<1>6. CASE WriteStatus
  <2>1. out # NoStatus
    BY <1>6 DEF WriteStatus, StatusInv
  <2> QED
    BY <1>3, <1>6, <2>1 DEF WriteStatus, LatestStatus, recoveryVars
<1>7. CASE ResultSent
  <2>1. CASE ~Stale(held) /\ catchingUp
    BY <1>7, <2>1 DEF ResultSent, LatestStatus, NoStatus
  <2>2. CASE ~(~Stale(held) /\ catchingUp)
    BY <1>3, <1>7, <2>2 DEF ResultSent, LatestStatus, wireVars
  <2> QED
    BY <2>1, <2>2
<1>8. CASE Announce \/ GetJob \/ Process \/ Rendered \/ LockForResult
           \/ WriteResult \/ WriteRaises \/ ResultsStop
  BY <1>1, <1>2, <1>3, <1>8
  DEF Announce, GetJob, Process, Rendered, CheckJob, LockForResult, WriteResult,
      WriteRaises, ResultsStop, LatestStatus, recoveryVars, wireVars
<1> QED
  BY <1>4, <1>5, <1>6, <1>7, <1>8 DEF Results

\* The bridge never sees a generation go back.
THEOREM WireMonotone == Spec => WireGenerationsMonotone
<1>1. Init => TypeOK /\ StatusInv
  BY TypeInit, StatusInit
<1>2. TypeOK /\ StatusInv /\ [Next]_vars
        => (TypeOK /\ StatusInv)' /\ wireGen' >= wireGen
  BY TypeStep, StatusInvStep
<1> QED
  BY <1>1, <1>2, PTL DEF Spec, WireGenerationsMonotone

\* No change of state is overwritten or forgotten on its way to the bridge.
THEOREM StatusKept == Spec => []NoStatusLost
<1>1. Init => TypeOK /\ StatusInv /\ NoStatusLost
  BY TypeInit, StatusInit
<1>2. TypeOK /\ StatusInv /\ NoStatusLost /\ [Next]_vars
        => (TypeOK /\ StatusInv /\ NoStatusLost)'
  BY TypeStep, StatusInvStep, LatestStep
<1> QED
  BY <1>1, <1>2, PTL DEF Spec

-----------------------------------------------------------------------------
(* Altogether *)

\* The conjunction that TLC checks on the instance of MCSessionReceiver.
THEOREM Invariance == Spec => []IInv
<1>1. Init => IInv
  BY TypeInit, InputInit, FreshInit, StatusInit
  DEF IInv, Init, EndInv, NoResultAfterError, Threads
<1>2. IInv /\ [Next]_vars => IInv'
  BY TypeStep, InputInvStep, FreshStep, StatusInvStep, EndStep, LatestStep DEF IInv
<1> QED
  BY <1>1, <1>2, PTL DEF Spec
=============================================================================
