----------------------------- MODULE EventQueue -----------------------------
(***************************************************************************)
(* The host FIFO's exact rule for what to shed: class BoundedEventQueue    *)
(* and the calls SessionReceiver makes to it under recovery_lock           *)
(* (examples/e2fai_worker.py). Time is in whole units and passes between   *)
(* the calls; a batch has the time of its callback on the camera side,     *)
(* which never goes back, and may reach the host any time after it.        *)
(***************************************************************************)
EXTENDS Integers, Sequences, SequencesExt

CONSTANTS
  MaxBatches,    \* max_batches
  MaxBytes,      \* max_bytes
  TriggerBytes,  \* QUEUE_TRIGGER_BYTES
  TargetBytes,   \* QUEUE_TARGET_BYTES
  WaitLimit,     \* WAIT_LIMIT_NS
  WaitTarget,    \* WAIT_TARGET_NS
  Sizes,         \* payload sizes
  MaxSeq,        \* bound: batches
  MaxTime        \* bound: time

ASSUME BatchesAssumption == MaxBatches \in Nat \ {0}
ASSUME BytesAssumption ==
  /\ {TargetBytes, TriggerBytes, MaxBytes} \subseteq Nat
  /\ TargetBytes < TriggerBytes /\ TriggerBytes <= MaxBytes
ASSUME WaitAssumption == {WaitTarget, WaitLimit} \subseteq Nat /\ WaitTarget < WaitLimit
ASSUME BoundsAssumption == Sizes \subseteq Nat \ {0} /\ MaxSeq \in Nat /\ MaxTime \in Nat

VARIABLES
  items,       \* self.items
  bytes,       \* self.bytes
  proactive,   \* receiver.catchup_enabled, fixed by the session's first packet
  freshness,   \* receiver.freshness, fixed by the command line
  catchingUp,  \* receiver.catching_up
  now,         \* time.monotonic_ns()
  latest,      \* the last batch received
  got          \* the item take() returned last

optionVars == <<proactive, freshness>>
vars == <<items, bytes, optionVars, catchingUp, now, latest, got>>

NoItem == [seq |-> 0, size |-> 0, cb |-> 0]

Init ==
  /\ items = <<>> /\ bytes = 0
  /\ proactive \in BOOLEAN /\ freshness \in BOOLEAN
  /\ catchingUp = FALSE
  /\ now = 0 /\ latest = NoItem /\ got = NoItem

-----------------------------------------------------------------------------
(* BoundedEventQueue.trim *)

SizeOf(q) ==
  LET sum[i \in 0..Len(q)] == IF i = 0 THEN 0 ELSE sum[i - 1] + q[i].size
  IN sum[Len(q)]

Age(item) == now - item.cb

CapacityTrigger == IF proactive THEN TriggerBytes ELSE MaxBytes

Triggered(candidates, total) ==
  \/ total >= CapacityTrigger \/ Len(candidates) >= MaxBatches
  \/ /\ proactive /\ freshness
     /\ candidates # <<>> /\ Age(Head(candidates)) > WaitLimit

TargetBatches == IF MaxBatches > 3 THEN MaxBatches \div 2 ELSE 1

\* The loop goes on while a suffix is too large, too long or too old.
MeetsTargetsStrictly(q, total) ==
  q = <<>> \/ /\ total < TargetBytes /\ Len(q) < TargetBatches
              /\ freshness => Age(Head(q)) < WaitTarget
MeetsTargets(q, total) ==
  q = <<>> \/ /\ total <= TargetBytes /\ Len(q) <= TargetBatches
              /\ freshness => Age(Head(q)) <= WaitTarget

OldestKept(q, k) == SubSeq(q, 1, Len(q) - k)
Suffix(q, k) == SubSeq(q, k + 1, Len(q))
Prefix(q, k) == SubSeq(q, 1, k)

\* How many candidates go, for a total of bytes counted before the loop.
Shed(candidates, total, recovering) ==
  IF ~(Triggered(candidates, total) \/ recovering) THEN 0
  ELSE CHOOSE k \in 0..Len(candidates) :
         LET Stops(j) == MeetsTargets(Suffix(candidates, j),
                                      total - SizeOf(Prefix(candidates, j)))
         IN Stops(k) /\ \A j \in 0..(k - 1) : ~Stops(j)

BytesKept(total, gone) == total
BytesLeft(total, gone) == total - SizeOf(gone)

-----------------------------------------------------------------------------
(* Calls *)

Tick ==
  /\ now < MaxTime
  /\ now' = now + 1
  /\ UNCHANGED <<items, bytes, optionVars, catchingUp, latest, got>>

\* _run: a batch arrives. If the bridge has dropped batches before it (their
\* number is lost), the queue is cleared and a recovery begins.
Receive ==
  \E n \in (latest.seq + 1)..MaxSeq, size \in Sizes, cb \in latest.cb..now, changed \in BOOLEAN :
    /\ n > latest.seq + 1 => changed
    /\ LET new  == [seq |-> n, size |-> size, cb |-> cb]
           kept == IF changed THEN <<>> ELSE items
           candidates == Append(kept, new)
           total == (IF changed THEN 0 ELSE bytes) + size
           k == Shed(candidates, total, catchingUp \/ changed)
       IN /\ items' = Suffix(candidates, k)
          /\ bytes' = BytesLeft(total, Prefix(candidates, k))
          /\ catchingUp' = (catchingUp \/ changed \/ k > 0)
          /\ latest' = new
    /\ UNCHANGED <<optionVars, now, got>>

\* take(): trim, then get.
TakeUntrimmed ==
  /\ items # <<>>
  /\ got' = Head(items) /\ items' = Tail(items)
  /\ bytes' = BytesLeft(bytes, Prefix(items, 1))
  /\ UNCHANGED <<optionVars, catchingUp, now, latest>>
Take ==
  /\ LET k == Shed(items, bytes, catchingUp)
         kept == Suffix(items, k)
         left == BytesLeft(bytes, Prefix(items, k))
     IN /\ catchingUp' = (catchingUp \/ k > 0)
        /\ IF kept = <<>>
           THEN items' = kept /\ bytes' = left /\ UNCHANGED got
           ELSE /\ got' = Head(kept) /\ items' = Tail(kept)
                /\ bytes' = BytesLeft(left, Prefix(kept, 1))
  /\ UNCHANGED <<optionVars, now, latest>>

\* recover("window_freshness"): the builder gives up the item it took, which it
\* received no earlier than its callback.
Recover ==
  /\ got # NoItem /\ proactive /\ freshness /\ Age(got) > WaitLimit
  /\ catchingUp' = TRUE
  /\ LET k == Shed(items, bytes, TRUE)
     IN items' = Suffix(items, k) /\ bytes' = BytesLeft(bytes, Prefix(items, k))
  /\ UNCHANGED <<optionVars, now, latest, got>>

\* result_sent: a result of the current generation ends the recovery.
ResultSent ==
  /\ catchingUp /\ got # NoItem
  /\ catchingUp' = FALSE
  /\ UNCHANGED <<items, bytes, optionVars, now, latest, got>>

Next == Tick \/ Receive \/ Take \/ Recover \/ ResultSent

Spec == Init /\ [][Next]_vars

-----------------------------------------------------------------------------
(* Properties *)

Item == [seq : 0..MaxSeq, size : Sizes \cup {0}, cb : 0..MaxTime]

\* With a limit of one (--queue-batches 1) the target is one too.
TypeOK ==
  /\ items \in Seq(Item)
  /\ Len(items) < MaxBatches \/ Len(items) <= 1
  /\ bytes \in 0..(MaxBytes - 1)
  /\ {proactive, freshness, catchingUp} \subseteq BOOLEAN
  /\ now \in 0..MaxTime
  /\ latest \in Item /\ got \in Item

\* The byte count that four operations keep up, and that the capacity rules
\* rely on, is the size of what is queued.
BytesExact == TypeOK /\ bytes = SizeOf(items)

\* With catch-up enabled no batch is handed to the builder after waiting
\* longer than the limit, nor, in a recovery, longer than the target, however
\* long it sat behind others or on its way.
TakenFresh ==
  [][got' # got /\ proactive /\ freshness
       => now - got'.cb <= (IF catchingUp' THEN WaitTarget ELSE WaitLimit)]_vars

\* Catching up never costs the newest data: a batch that meets every target on
\* its own is queued, whatever had to go before it.
NewestKept ==
  [][/\ latest' # latest
     /\ latest'.size <= TargetBytes
     /\ freshness => now - latest'.cb <= WaitTarget
     => items' # <<>> /\ Last(items') = latest']_vars

\* The FIFO promises what FreshFifo says, whatever the sizes and ages are.
Fifo == INSTANCE FreshFifo WITH
          fifo <- [i \in DOMAIN items |-> items[i].seq], last <- latest.seq, got <- got.seq
FifoImplemented == Fifo!Spec
=============================================================================
