--------------------------- MODULE SessionReceiver ---------------------------
(***************************************************************************)
(* The host side of one acquisition session, examples/e2fai_worker.py:     *)
(* class SessionReceiver with the threads that call it in "thread" result  *)
(* mode and "fixed_window" voxel mode.                                     *)
(*                                                                         *)
(*   reader    SessionReceiver._run: event packets into the host FIFO,     *)
(*             trimming it before each insertion;                          *)
(*   builder   IncrementalSessionPipeline._run: take(), recover();         *)
(*   inference _run_incremental_session: finished windows into the one     *)
(*             slot of ResultProcessor.queue;                              *)
(*   results   ResultProcessor._run: statuses and results onto the socket; *)
(*   any of them calling fail() when it raises.                            *)
(*                                                                         *)
(* done also stands for should_stop(), the signal flag that every loop     *)
(* tests together with it and that makes the session owner call close().   *)
(*                                                                         *)
(* recovery_lock makes each of take(), recover(), result_sent(), the pop   *)
(* of send_status() and the locked block of _run one atomic step.          *)
(* processing_generation is READ without that lock by stale(), so a stale  *)
(* check and what follows it are separate steps. send_lock is a variable,  *)
(* because its holder is preempted between its checks and its write.       *)
(*                                                                         *)
(* A batch is its batch_seq (from 1; 0 is "none") and its generation tag.  *)
(* Bytes and ages are abstracted: a trim may discard any number of the     *)
(* oldest batches, subject to the batch limits the code imposes (module    *)
(* EventQueue has the exact rule). A window carries the last batch that    *)
(* completed it. VoxelPipeline has the slots and the GRU state behind      *)
(* FinishWindow and Submit.                                                *)
(***************************************************************************)
EXTENDS Naturals, Sequences

CONSTANTS
  MaxSeq,       \* bound: batches the bridge numbers in this session
  MaxBatches,   \* --queue-batches, the hard limit of the host FIFO
  PoolSize,     \* finished windows between the builder and the result thread
  Failers       \* the threads that may raise and call fail()

ASSUME MaxSeqAssumption == MaxSeq \in Nat
ASSUME MaxBatchesAssumption == MaxBatches \in Nat \ {0}
ASSUME PoolSizeAssumption == PoolSize \in Nat \ {0}
ASSUME FailersAssumption == Failers \subseteq {"reader", "builder", "inference", "results"}

VARIABLES
  arrived,        \* batch_seq of the last batch the reader accepted
  queue,          \* self.queue.items, oldest first
  procGen,        \* self.processing_generation
  claimed,        \* self.generation_claimed
  catchingUp,     \* self.catching_up
  statusPending,  \* self.status_pending
  failed, done,   \* the two Events
  lock,           \* send_lock: "free" or "results"
  cur, bpc,       \* builder: the item it took last and where it is
  windows,        \* READY and INFERENCING windows, in inference order
  job,            \* ResultProcessor.queue, at most one job
  spc, out, held, \* result thread: where it is, popped status, its job
  fpc,            \* where each thread is inside fail()
  wireGen,        \* generation of the last status or result written
  announced,      \* last status written
  errorSent,      \* an error packet has been written
  dropMark        \* newest batch_seq discarded so far (history)

recoveryVars == <<procGen, catchingUp, statusPending, dropMark>>
builderVars  == <<cur, bpc>>
senderVars   == <<spc, out, held>>
wireVars     == <<wireGen, announced, errorSent>>
endVars      == <<failed, done, fpc>>
vars == <<arrived, queue, claimed, recoveryVars, builderVars, windows, job,
          senderVars, lock, wireVars, endVars>>

NoItem   == [seq |-> 0, gen |-> 0]
NoStatus == [state |-> "none", gen |-> 0]
Threads  == {"reader", "builder", "inference", "results"}

Items    == [seq : 0..MaxSeq, gen : Nat]
Statuses == [state : {"none", "catching_up", "connected"}, gen : Nat]

Init ==
  /\ arrived = 0
  /\ queue = <<>>
  /\ procGen = 0 /\ claimed = FALSE /\ catchingUp = FALSE
  /\ statusPending = NoStatus
  /\ failed = FALSE /\ done = FALSE
  /\ lock = "free"
  /\ cur = NoItem /\ bpc = "idle"
  /\ windows = <<>> /\ job = NoItem
  /\ spc = "loop" /\ out = NoStatus /\ held = NoItem
  /\ fpc = [f \in Threads |-> "run"]
  /\ wireGen = 0
  /\ announced = [state |-> "connected", gen |-> 0]
  /\ errorSent = FALSE
  /\ dropMark = 0

-----------------------------------------------------------------------------
(* Small pieces of the code. The mutated forms are what a plausible bug    *)
(* would make of the definition that follows them.                         *)

Cancelled == failed \/ done

StaleIfNewer(item) == item.gen > procGen
Stale(item) == item.gen # procGen

\* _recover starts a generation unless the current one has no claimed data yet.
NextGenAlwaysMerge == IF ~catchingUp THEN procGen + 1 ELSE procGen
NextGen == IF ~catchingUp \/ claimed THEN procGen + 1 ELSE procGen

RetagNothing(q, g) == q
Retag(q, g) == [i \in 1..Len(q) |-> [seq |-> q[i].seq, gen |-> g]]

OldestKept(q, k) == SubSeq(q, 1, Len(q) - k)
Newest(q, k) == SubSeq(q, k + 1, Len(q))

Target == IF MaxBatches > 3 THEN MaxBatches \div 2 ELSE 1

\* BoundedEventQueue.trim: how many of the oldest candidates may go.
DiscardsNoLimit(candidates, recovering) ==
  {k \in 0..Len(candidates) : recovering => Len(candidates) - k <= Target}
Discards(candidates, recovering) ==
  {k \in 0..Len(candidates) :
      recovering \/ Len(candidates) >= MaxBatches
         => Len(candidates) - k <= Target}

\* The effect of _recover on everything but the FIFO and generation_claimed;
\* mark is the newest batch that the drop loses.
Recover(mark) ==
  /\ procGen' = NextGen
  /\ catchingUp' = TRUE
  /\ statusPending' = [state |-> "catching_up", gen |-> NextGen]
  /\ dropMark' = IF mark > dropMark THEN mark ELSE dropMark

RecoverIf(dropped, mark) ==
  IF dropped THEN Recover(mark) ELSE UNCHANGED recoveryVars

-----------------------------------------------------------------------------
(* reader *)

(***************************************************************************)
(* One events packet under recovery_lock. A gap in batch_seq comes with a  *)
(* new bridge generation (the bridge tags every batch it keeps after a     *)
(* drop). That discards the whole FIFO; then trim includes the new batch.  *)
(***************************************************************************)
ReaderAccept ==
  /\ fpc["reader"] = "run"
  /\ \E seq \in (arrived + 1)..MaxSeq, changed \in BOOLEAN :
       /\ seq > arrived + 1 => changed
       /\ arrived' = seq
       /\ LET kept == IF changed THEN <<>> ELSE queue
              candidates == Append(kept, [seq |-> seq, gen |-> procGen])
          IN \E k \in Discards(candidates, catchingUp \/ changed) :
               LET dropped == changed \/ k > 0
                   gen == IF dropped THEN NextGen ELSE procGen
               IN /\ queue' = Retag(Newest(candidates, k), gen)
                  /\ claimed' = (claimed /\ ~dropped)
                  /\ RecoverIf(dropped, IF k > 0 THEN candidates[k].seq
                                                 ELSE seq - 1)
  /\ UNCHANGED <<builderVars, windows, job, senderVars, lock, wireVars, endVars>>

\* EOF, reset, or the loop test: the finally clause sets done.
ReaderEnd ==
  /\ fpc["reader"] = "run"
  /\ fpc' = [fpc EXCEPT !["reader"] = "ended"]
  /\ done' = TRUE
  /\ UNCHANGED <<arrived, queue, claimed, recoveryVars, builderVars, windows,
                 job, senderVars, lock, wireVars, failed>>

-----------------------------------------------------------------------------
(* builder *)

BuilderRuns == fpc["builder"] = "run"

\* take(): trim, then pop, under one recovery_lock.
Take ==
  /\ BuilderRuns /\ bpc = "idle" /\ ~Cancelled
  /\ queue # <<>>
  /\ \E k \in Discards(queue, catchingUp) :
       LET kept == Retag(Newest(queue, k), IF k > 0 THEN NextGen ELSE procGen)
       IN /\ RecoverIf(k > 0, queue[k].seq)
          /\ IF kept = <<>>
             THEN /\ queue' = <<>>
                  /\ claimed' = FALSE
                  /\ UNCHANGED builderVars
             ELSE /\ queue' = Tail(kept)
                  /\ claimed' = TRUE
                  /\ cur' = Head(kept)
                  /\ bpc' = "taken"
  /\ UNCHANGED <<arrived, windows, job, senderVars, lock, wireVars, endVars>>

\* The item waited too long and is still current: it will be skipped.
SkipDecide ==
  /\ BuilderRuns /\ bpc = "taken" /\ ~Stale(cur)
  /\ bpc' = "skip"
  /\ UNCHANGED <<arrived, queue, claimed, recoveryVars, cur, windows, job,
                 senderVars, lock, wireVars, endVars>>

\* recover("window_freshness"): _recover, then _trim, under recovery_lock.
SkipRecover ==
  /\ BuilderRuns /\ bpc = "skip"
  /\ \E k \in Discards(queue, TRUE) :
       /\ queue' = Retag(Newest(queue, k), NextGen)
       /\ Recover(IF k > 0 THEN queue[k].seq ELSE cur.seq)
  /\ claimed' = FALSE
  /\ bpc' = "idle"
  /\ UNCHANGED <<arrived, cur, windows, job, senderVars, lock, wireVars, endVars>>

\* The routed item completes a window; the builder blocks on a full pool.
FinishWindow ==
  /\ BuilderRuns /\ bpc \in {"taken", "routing"} /\ ~Cancelled
  /\ Len(windows) < PoolSize
  /\ windows' = Append(windows, cur)
  /\ bpc' = "routing"
  /\ UNCHANGED <<arrived, queue, claimed, recoveryVars, cur, job, senderVars,
                 lock, wireVars, endVars>>

NextItem ==
  /\ BuilderRuns /\ bpc \in {"taken", "routing"}
  /\ bpc' = "idle"
  /\ UNCHANGED <<arrived, queue, claimed, recoveryVars, cur, windows, job,
                 senderVars, lock, wireVars, endVars>>

-----------------------------------------------------------------------------
(* inference *)

\* The oldest window is inferred, then skipped when stale, else handed over as
\* soon as the one result slot is free: submit() waits while it is full, and
\* gives up when the session ends.
Submit ==
  /\ fpc["inference"] = "run" /\ windows # <<>>
  /\ windows' = Tail(windows)
  /\ \/ (Cancelled \/ Stale(Head(windows))) /\ UNCHANGED job
     \/ /\ ~Cancelled /\ ~Stale(Head(windows))
        /\ job = NoItem /\ job' = Head(windows)
  /\ UNCHANGED <<arrived, queue, claimed, recoveryVars, builderVars,
                 senderVars, lock, wireVars, endVars>>

-----------------------------------------------------------------------------
(* results: loop -> [announce -> writeStatus] -> get -> process ->          *)
(*   [announce -> writeStatus] -> render -> send -> writeResult -> ack      *)

Afterwards == IF held = NoItem THEN "get" ELSE "render"

\* send_status pops the pending status under recovery_lock.
PopOnlyWithResult ==
  /\ spc = "ready"
  /\ out' = statusPending /\ statusPending' = NoStatus
  /\ spc' = IF statusPending = NoStatus THEN Afterwards ELSE "announce"
  /\ UNCHANGED <<arrived, queue, claimed, procGen, catchingUp, dropMark,
                 builderVars, windows, job, held, lock, wireVars, endVars>>
PopStatus ==
  /\ spc = "ready" \/ (spc = "loop" /\ ~Cancelled)
  /\ out' = statusPending /\ statusPending' = NoStatus
  /\ spc' = IF statusPending = NoStatus THEN Afterwards ELSE "announce"
  /\ UNCHANGED <<arrived, queue, claimed, procGen, catchingUp, dropMark,
                 builderVars, windows, job, held, lock, wireVars, endVars>>

\* ... then looks at done, outside both locks ...
Announce ==
  /\ spc = "announce"
  /\ IF done THEN spc' = Afterwards /\ out' = NoStatus
             ELSE spc' = "writeStatus" /\ UNCHANGED out
  /\ UNCHANGED <<arrived, queue, claimed, recoveryVars, builderVars, windows,
                 job, held, lock, wireVars, endVars>>

\* ... and sends it under send_lock.
WriteStatusThenClear ==
  /\ spc = "writeStatus"
  /\ announced' = out
  /\ wireGen' = out.gen
  /\ spc' = Afterwards /\ out' = NoStatus
  /\ statusPending' = NoStatus
  /\ UNCHANGED <<arrived, queue, claimed, procGen, catchingUp, dropMark,
                 builderVars, windows, job, held, lock, errorSent, endVars>>
WriteStatus ==
  /\ spc = "writeStatus"
  /\ announced' = out
  /\ wireGen' = out.gen
  /\ spc' = Afterwards /\ out' = NoStatus
  /\ UNCHANGED <<arrived, queue, claimed, recoveryVars, builderVars, windows,
                 job, held, lock, errorSent, endVars>>

\* queue.get(timeout=0.05)
GetJob ==
  /\ spc = "get"
  /\ IF job = NoItem THEN spc' = "loop" /\ UNCHANGED <<held, job>>
     ELSE spc' = "process" /\ held' = job /\ job' = NoItem
  /\ UNCHANGED <<arrived, queue, claimed, recoveryVars, builderVars, windows,
                 out, lock, wireVars, endVars>>

\* The checks of _process before its send_status, and again after rendering.
CheckJob(at, next) ==
  /\ spc = at
  /\ IF Cancelled THEN spc' = "stopped" /\ held' = NoItem
     ELSE IF Stale(held) THEN spc' = "loop" /\ held' = NoItem
     ELSE spc' = next /\ UNCHANGED held
  /\ UNCHANGED <<arrived, queue, claimed, recoveryVars, builderVars, windows,
                 job, out, lock, wireVars, endVars>>

Process == CheckJob("process", "ready")
Rendered == CheckJob("render", "send")

\* send(): takes send_lock, then refuses a result once the session failed or
\* ended, and a stale one; _process stops in the first case.
RefusesOnlyStale == FALSE
RefusesResults == Cancelled

LockForResult ==
  /\ spc = "send" /\ lock = "free"
  /\ IF ~RefusesResults /\ ~Stale(held)
     THEN spc' = "writeResult" /\ lock' = "results" /\ UNCHANGED held
     ELSE /\ spc' = IF Stale(held) THEN "loop" ELSE "stopped"
          /\ held' = NoItem
          /\ UNCHANGED lock
  /\ UNCHANGED <<arrived, queue, claimed, recoveryVars, builderVars, windows,
                 job, out, wireVars, endVars>>

WriteResult ==
  /\ spc = "writeResult"
  /\ wireGen' = held.gen
  /\ lock' = "free"
  /\ spc' = "ack"
  /\ UNCHANGED <<arrived, queue, claimed, recoveryVars, builderVars, windows,
                 job, out, held, announced, errorSent, endVars>>

\* result_sent: only a result of the current generation ends the catch-up.
ResultSentUnchecked ==
  /\ spc = "ack"
  /\ IF catchingUp
     THEN /\ catchingUp' = FALSE
          /\ statusPending' = [state |-> "connected", gen |-> procGen]
     ELSE UNCHANGED <<catchingUp, statusPending>>
  /\ spc' = "loop" /\ held' = NoItem
  /\ UNCHANGED <<arrived, queue, claimed, procGen, dropMark, builderVars,
                 windows, job, out, lock, wireVars, endVars>>
ResultSent ==
  /\ spc = "ack"
  /\ IF ~Stale(held) /\ catchingUp
     THEN /\ catchingUp' = FALSE
          /\ statusPending' = [state |-> "connected", gen |-> procGen]
     ELSE UNCHANGED <<catchingUp, statusPending>>
  /\ spc' = "loop" /\ held' = NoItem
  /\ UNCHANGED <<arrived, queue, claimed, procGen, dropMark, builderVars,
                 windows, job, out, lock, wireVars, endVars>>

\* The write raises: the 1 s socket timeout, or the peer is gone.
WriteRaises ==
  /\ spc \in {"writeStatus", "writeResult"}
  /\ spc' = "broken" /\ lock' = "free"
  /\ held' = NoItem /\ out' = NoStatus
  /\ UNCHANGED <<arrived, queue, claimed, recoveryVars, builderVars, windows,
                 job, wireVars, endVars>>

\* The loop test, or a broken pipe, which ends the session without fail().
ResultsStop ==
  /\ \/ spc = "loop" /\ Cancelled /\ UNCHANGED done
     \/ spc = "broken" /\ done' = TRUE
  /\ spc' = "stopped"
  /\ UNCHANGED <<arrived, queue, claimed, recoveryVars, builderVars, windows,
                 job, out, held, lock, wireVars, failed, fpc>>

-----------------------------------------------------------------------------
(* fail(), from any thread, and the end of the session *)

\* A thread that raised passes the test of failed. The inference thread calls
\* fail() even after the end of the session; the results thread comes here
\* from a write that raised.
FailEnter(f) ==
  /\ fpc[f] = "run" /\ ~failed /\ (f # "inference" => ~done)
  /\ IF f = "results" THEN spc = "broken" /\ spc' = "stopped"
                      ELSE UNCHANGED spc
  /\ fpc' = [fpc EXCEPT ![f] = "claim"]
  /\ UNCHANGED <<arrived, queue, claimed, recoveryVars, builderVars, windows,
                 job, out, held, lock, wireVars, failed, done>>

FailClaim(f) ==
  /\ fpc[f] = "claim"
  /\ failed' = TRUE
  /\ fpc' = [fpc EXCEPT ![f] = "send"]
  /\ UNCHANGED <<arrived, queue, claimed, recoveryVars, builderVars, windows,
                 job, senderVars, lock, wireVars, done>>

\* The error packet, under send_lock; an OSError is swallowed.
FailSend(f) ==
  /\ fpc[f] = "send" /\ lock = "free"
  /\ errorSent' \in {errorSent, TRUE}
  /\ fpc' = [fpc EXCEPT ![f] = "stop"]
  /\ UNCHANGED <<arrived, queue, claimed, recoveryVars, builderVars, windows,
                 job, senderVars, lock, wireGen, announced, failed, done>>

FailStop(f) ==
  /\ fpc[f] = "stop"
  /\ done' = TRUE
  /\ fpc' = [fpc EXCEPT ![f] = "ended"]
  /\ UNCHANGED <<arrived, queue, claimed, recoveryVars, builderVars, windows,
                 job, senderVars, lock, wireVars, failed>>

\* The session owner stops (signal, or its own loop ended) and closes.
Close ==
  /\ ~done
  /\ done' = TRUE
  /\ UNCHANGED <<arrived, queue, claimed, recoveryVars, builderVars, windows,
                 job, senderVars, lock, wireVars, failed, fpc>>

-----------------------------------------------------------------------------
Builder == Take \/ SkipDecide \/ SkipRecover \/ FinishWindow \/ NextItem

Results == \/ PopStatus \/ Announce \/ WriteStatus
           \/ GetJob \/ Process \/ Rendered
           \/ LockForResult \/ WriteResult \/ ResultSent
           \/ WriteRaises \/ ResultsStop

Failing(f) == FailEnter(f) \/ FailClaim(f) \/ FailSend(f) \/ FailStop(f)

Next == \/ ReaderAccept \/ ReaderEnd
        \/ Builder
        \/ Submit
        \/ Results
        \/ \E f \in Failers : Failing(f)
        \/ Close

(***************************************************************************)
(* The result thread never waits without a timeout (queue.get 50 ms,       *)
(* socket 1 s), so it keeps taking steps; a thread inside fail() does too, *)
(* and send_lock is only ever held across one bounded write. Nothing is    *)
(* assumed of the reader, the builder, the inference or the bridge.        *)
(***************************************************************************)
Fairness == /\ WF_vars(Results)
            /\ \A f \in Failers :
                 WF_vars(FailClaim(f) \/ FailSend(f) \/ FailStop(f))

Spec == Init /\ [][Next]_vars /\ Fairness

-----------------------------------------------------------------------------
(* Properties *)

\* Every variable has its type, and the FIFO never reaches its hard limit
\* after a step: trim makes room BEFORE the insertion (worker.py:94-128).
TypeOK ==
  /\ arrived \in 0..MaxSeq
  /\ queue \in Seq(Items)
  /\ Len(queue) < MaxBatches \/ Len(queue) <= 1
  /\ procGen \in Nat /\ claimed \in BOOLEAN /\ catchingUp \in BOOLEAN
  /\ statusPending \in Statuses
  /\ failed \in BOOLEAN /\ done \in BOOLEAN
  /\ lock \in {"free", "results"}
  /\ cur \in Items /\ bpc \in {"idle", "taken", "skip", "routing"}
  /\ windows \in Seq(Items) /\ Len(windows) <= PoolSize
  /\ job \in Items
  /\ spc \in {"loop", "announce", "writeStatus", "get", "process", "ready",
              "render", "send", "writeResult", "ack", "broken", "stopped"}
  /\ out \in Statuses /\ held \in Items
  /\ fpc \in [Threads -> {"run", "claim", "send", "stop", "ended"}]
  /\ wireGen \in Nat
  /\ announced \in Statuses
  /\ errorSent \in BOOLEAN
  /\ dropMark \in 0..MaxSeq

\* What catch-up keeps is the newest contiguous run of batches, all retagged
\* with the current generation: nothing older survives behind a hole, and no
\* queued batch can reach the builder under a generation already abandoned.
QueueIsFreshSuffix ==
  /\ \A i \in 1..Len(queue) : queue[i].gen = procGen
  /\ \A i \in 1..Len(queue) : queue[i].seq + Len(queue) = arrived + i

\* Two batches claimed one after the other under the same generation are
\* neighbours in the bridge's numbering: a discarded batch, wherever it was
\* dropped, always separates generations, so no window and no GRU state of
\* one generation spans a hole (_recover, worker.py:213-226).
ClaimsContiguous ==
  [][cur' # cur /\ cur # NoItem /\ cur'.gen = cur.gen
       => cur'.seq = cur.seq + 1]_vars

\* Catch-up ends only on a result built from data newer than everything that
\* was discarded: a result claimed before the last drop never reports the
\* session as connected again (result_sent, worker.py:268-273).
ConnectedMeansFresh ==
  [][catchingUp /\ ~catchingUp' => held.seq > dropMark]_vars

\* The bridge sees statuses and results in nondecreasing generations, although
\* the generation moves between the checks of send() and its write: it would
\* discard what comes late (e2fai_bridge.cpp:498, 551).
WireGenerationsMonotone == [][wireGen' >= wireGen]_vars

\* Once the error packet is out no result follows it: failed is set before
\* fail() asks for send_lock, and send() looks at it while holding the lock.
NoResultAfterError == errorSent => spc # "writeResult"

\* The status the bridge last got, or the one on its way to it, is always the
\* present one: no change of state is overwritten or forgotten between the pop
\* of a status and its write, unless the session is over.
LatestStatus == IF statusPending # NoStatus THEN statusPending
                ELSE IF out # NoStatus THEN out ELSE announced
NoStatusLost ==
  ~done /\ spc \notin {"broken", "stopped"} =>
    LatestStatus = [state |-> IF catchingUp THEN "catching_up" ELSE "connected",
                    gen |-> procGen]

\* Every generation the receiver starts is announced to the bridge, or a newer
\* one is, even if no result is ever produced again, unless the session fails.
NewGenerationAnnounced ==
  \A g \in 1..MaxSeq : procGen = g ~> announced.gen >= g \/ Cancelled

-----------------------------------------------------------------------------
(***************************************************************************)
(* The strengthening that makes the safety properties inductive.           *)
(***************************************************************************)

\* The last claim belongs to the current generation only when the generation
\* is marked claimed, and then the FIFO is exactly what follows it.
ClaimInv ==
  /\ cur.gen <= procGen
  /\ cur.seq + Len(queue) <= arrived
  /\ cur # NoItem /\ cur.gen = procGen
       => claimed /\ cur.seq + Len(queue) = arrived

\* Work of the current generation is newer than every discarded batch.
FreshItem(w) ==
  /\ w.gen <= procGen
  /\ w # NoItem /\ w.gen = procGen => claimed /\ w.seq > dropMark

WithJob == {"process", "ready", "render", "send", "writeResult", "ack"}

FreshInv ==
  /\ dropMark + Len(queue) <= arrived
  /\ FreshItem(cur) /\ FreshItem(job) /\ FreshItem(held)
  /\ \A i \in 1..Len(windows) : FreshItem(windows[i]) /\ windows[i] # NoItem
  /\ bpc # "idle" => cur # NoItem
  /\ spc \in WithJob => held # NoItem

\* What the result thread has popped or is about to write is not older than
\* what it wrote before.
StatusInv ==
  /\ statusPending.gen <= procGen
  /\ wireGen <= procGen
  /\ IF spc \in {"announce", "writeStatus"}
     THEN out # NoStatus /\ wireGen <= out.gen /\ out.gen <= procGen
     ELSE out = NoStatus
  /\ statusPending # NoStatus => statusPending.gen = procGen
  /\ spc = "writeResult" => wireGen <= held.gen /\ held.gen <= procGen

\* send_lock is held exactly across a result's write, and an error packet is
\* only ever sent by a thread that has set failed.
EndInv ==
  /\ lock = "results" <=> spc = "writeResult"
  /\ errorSent => failed
  /\ \A f \in Threads : fpc[f] = "send" => failed

IInv == TypeOK /\ QueueIsFreshSuffix /\ ClaimInv /\ FreshInv /\ StatusInv
          /\ EndInv /\ NoResultAfterError /\ NoStatusLost
=============================================================================
