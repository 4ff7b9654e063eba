---------------------------- MODULE VoxelStreams ----------------------------
(***************************************************************************)
(* What the GPU does behind the voxel pool (module VoxelPipeline): class   *)
(* IncrementalVoxelizer of runtime/nrv_e2fai/incremental_voxelizer.py on a *)
(* CUDA device. The builder thread copies events into pinned staging       *)
(* buffers and queues their transfer and accumulation on voxel_stream; the *)
(* inference thread queues the network on inference_stream; slots are      *)
(* zeroed on voxel_stream. Both streams run what was queued in order, at   *)
(* any later time, side by side.                                           *)
(*                                                                         *)
(* An event of the camera is a number. A CUDA event is the position in its *)
(* stream at which it was last recorded. The transfer reads the pinned     *)
(* memory when it runs; transfer and accumulation, one behind the other on *)
(* one stream, are one operation. Which windows end, are aborted or        *)
(* invalidated is decided in VoxelPipeline: here any may be.               *)
(***************************************************************************)
EXTENDS Integers, Sequences, SequencesExt

CONSTANTS
  PoolSize,   \* voxel slots
  Stages,     \* staging_slots
  MaxBatch,   \* microbatch_max_events
  MaxEvents   \* bound: events of the session

ASSUME SizesAssumption == {PoolSize, Stages, MaxBatch} \subseteq Nat \ {0} /\ Stages > 1
ASSUME MaxEventsAssumption == MaxEvents \in Nat

VARIABLES
  last,       \* the event appended last
  slots,      \* self.slots; events is what append has counted
  cur, ready, \* self.current, 0 when None, and self.ready_slots
  staging,    \* self.staging: pinned memory, in_use, done_event
  curStage, nextStage, count, \* self.current_staging (0 when None), its count
  voxel,      \* what each slot's voxel holds
  vStream, iStream,  \* operations queued and not run yet
  vRan, iRan, \* operations each stream has run
  islot, ipc, \* inference thread: its slot and where it is
  phase       \* "open", "closing" or "closed"

builderVars == <<last, curStage, nextStage, count>>
gpuVars     == <<voxel, vRan, iRan>>
inferVars   == <<islot, ipc>>
vars == <<builderVars, slots, cur, ready, staging, gpuVars, vStream, iStream,
          inferVars, phase>>

Slot  == 1..PoolSize
Stage == 1..Stages
Free  == [st |-> "FREE", events |-> <<>>, filled |-> 0, inferred |-> 0]

Init ==
  /\ last = 0
  /\ slots = [s \in Slot |-> Free]
  /\ cur = 0 /\ ready = <<>>
  /\ staging = [b \in Stage |-> [mem |-> [i \in 1..MaxBatch |-> 0],
                                 used |-> FALSE, done |-> 0]]
  /\ curStage = 0 /\ nextStage = 1 /\ count = 0
  /\ voxel = [s \in Slot |-> <<>>]
  /\ vStream = <<>> /\ iStream = <<>> /\ vRan = 0 /\ iRan = 0
  /\ islot = 0 /\ ipc = "acquire"
  /\ phase = "open"

-----------------------------------------------------------------------------
(* Operations on the streams *)

\* The transfer and accumulation of the first n events of a staging buffer;
\* events is what they are when flush queues it.
Fill(s, b, n, mem) == [do |-> "fill", slot |-> s, stage |-> b, n |-> n,
                       events |-> SubSeq(mem, 1, n), after |-> 0]

\* voxel.zero_() behind what inference_stream does up to position after.
Zero(s, after) == [do |-> "zero", slot |-> s, stage |-> 0, n |-> 0,
                   events |-> <<>>, after |-> after]

VQueued == vRan + Len(vStream)
IQueued == iRan + Len(iStream)

\* _enqueue_clear: FREE again at once, for voxel_stream orders what comes next.
Clear(victims) ==
  /\ slots' = [s \in Slot |-> IF s \in Range(victims) THEN Free ELSE slots[s]]
  /\ vStream' = vStream \o [i \in DOMAIN victims |-> Zero(victims[i], 0)]

\* The operation at the head of each stream may run.
VReady == vStream # <<>> /\ Head(vStream).after <= iRan
IReady == iStream # <<>> /\ Head(iStream).after <= vRan

VRun ==
  /\ VReady
  /\ LET op == Head(vStream)
     IN voxel' = [voxel EXCEPT ![op.slot] =
          IF op.do = "zero" THEN <<>> ELSE @ \o SubSeq(staging[op.stage].mem, 1, op.n)]
  /\ vStream' = Tail(vStream) /\ vRan' = vRan + 1
  /\ UNCHANGED <<builderVars, slots, cur, ready, staging, iStream, iRan, inferVars, phase>>

IRun ==
  /\ IReady
  /\ iStream' = Tail(iStream) /\ iRan' = iRan + 1
  /\ UNCHANGED <<builderVars, slots, cur, ready, staging, voxel, vRan, vStream,
                 inferVars, phase>>

-----------------------------------------------------------------------------
(* Builder thread *)

\* _claim_staging: round robin, and a buffer in use is waited for.
ClaimUnsynchronized(b) == b = nextStage
Claim(b) == b = nextStage /\ (staging[b].used => staging[b].done <= vRan)

FirstFree(s) == slots[s].st = "FREE" /\ \A t \in Slot : slots[t].st = "FREE" => s <= t

\* append, one event of a chunk: a slot and a staging buffer are acquired when
\* there is none, and a full buffer is flushed.
AppendEvent ==
  /\ phase = "open" /\ last < MaxEvents
  /\ \E s \in Slot, b \in Stage :
       /\ IF cur = 0 THEN FirstFree(s) ELSE s = cur
       /\ IF curStage = 0 THEN Claim(b) ELSE b = curStage
       /\ LET full == count + 1 = MaxBatch
              mem == [staging[b].mem EXCEPT ![count + 1] = last + 1]
          IN /\ staging' = [staging EXCEPT ![b] =
                  [mem |-> mem, used |-> full,
                   done |-> IF full THEN VQueued + 1 ELSE @.done]]
             /\ vStream' = IF full THEN Append(vStream, Fill(s, b, MaxBatch, mem))
                                   ELSE vStream
             /\ curStage' = IF full THEN 0 ELSE b
             /\ count' = IF full THEN 0 ELSE count + 1
       /\ nextStage' = IF curStage = 0 THEN (b % Stages) + 1 ELSE nextStage
       /\ slots' = [slots EXCEPT ![s].st = "FILLING", ![s].events = Append(@, last + 1)]
       /\ cur' = s
  /\ last' = last + 1
  /\ UNCHANGED <<ready, gpuVars, iStream, inferVars, phase>>

\* flush of a buffer that is not full
Flush ==
  IF curStage = 0 THEN UNCHANGED <<staging, vStream, curStage, count>>
  ELSE /\ vStream' = Append(vStream, Fill(cur, curStage, count, staging[curStage].mem))
       /\ staging' = [staging EXCEPT ![curStage].used = TRUE, ![curStage].done = VQueued + 1]
       /\ curStage' = 0 /\ count' = 0

\* flush_due: the buffer has waited long enough.
FlushDue ==
  /\ phase = "open" /\ curStage # 0
  /\ Flush
  /\ UNCHANGED <<last, nextStage, slots, cur, ready, gpuVars, iStream, inferVars, phase>>

\* finish_window: fill_done_event is recorded behind the last microbatch.
FillDoneEarly == VQueued
FillDone == VQueued + (IF curStage = 0 THEN 0 ELSE 1)
FinishWindow ==
  /\ phase = "open" /\ cur # 0
  /\ Flush
  /\ slots' = [slots EXCEPT ![cur].st = "READY", ![cur].filled = FillDone]
  /\ ready' = Append(ready, cur) /\ cur' = 0
  /\ UNCHANGED <<last, nextStage, gpuVars, iStream, inferVars, phase>>

\* abort_current: what is staged and not flushed is forgotten.
StagingKept == UNCHANGED <<curStage, count>>
StagingReset == curStage' = 0 /\ count' = 0
Abort ==
  /\ phase = "open" /\ cur # 0
  /\ Clear(<<cur>>) /\ cur' = 0 /\ StagingReset
  /\ UNCHANGED <<last, nextStage, ready, staging, gpuVars, iStream, inferVars, phase>>

\* invalidate_generation, or acquire_ready on its way: READY slots of another
\* generation are cleared.
Invalidate ==
  /\ phase = "open"
  /\ \E i \in DOMAIN ready :
       /\ Clear(<<ready[i]>>)
       /\ ready' = RemoveAt(ready, i)
  /\ UNCHANGED <<builderVars, cur, staging, gpuVars, iStream, inferVars, phase>>

-----------------------------------------------------------------------------
(* Inference thread: acquire -> scope -> queued -> acquire, or failed       *)

AcquireReady ==
  /\ ipc = "acquire" /\ phase = "open" /\ ready # <<>>
  /\ islot' = Head(ready) /\ ready' = Tail(ready)
  /\ slots' = [slots EXCEPT ![Head(ready)].st = "INFERENCING"]
  /\ ipc' = "scope"
  /\ UNCHANGED <<builderVars, cur, staging, gpuVars, vStream, iStream, phase>>

\* inference_scope: the network waits for fill_done_event; events is what it
\* is meant to see. inference_done_event is recorded on the way out.
InferenceScope ==
  /\ ipc = "scope"
  /\ iStream' = Append(iStream, [events |-> slots[islot].events, slot |-> islot,
                                 after |-> slots[islot].filled])
  /\ slots' = [slots EXCEPT ![islot].inferred = IQueued + 1]
  /\ ipc' = "queued"
  /\ UNCHANGED <<builderVars, cur, ready, staging, gpuVars, vStream, islot, phase>>

\* release, after the check of the output has waited for the network, or at
\* once when forward_step raised, which ends the session.
Release ==
  /\ ipc = "queued"
  /\ \/ slots[islot].inferred <= iRan /\ ipc' = "acquire"
     \/ ipc' = "failed"
  /\ slots' = [slots EXCEPT ![islot] = Free]
  /\ vStream' = Append(vStream, Zero(islot, slots[islot].inferred))
  /\ islot' = 0
  /\ UNCHANGED <<builderVars, cur, ready, staging, gpuVars, iStream, phase>>

\* close, once the builder has been joined, on the inference thread ...
Close ==
  /\ phase = "open" /\ ipc \in {"acquire", "failed"}
  /\ Clear((IF cur = 0 THEN <<>> ELSE <<cur>>) \o ready)
  /\ cur' = 0 /\ ready' = <<>> /\ StagingReset
  /\ phase' = "closing"
  /\ UNCHANGED <<last, nextStage, staging, gpuVars, iStream, inferVars>>

\* ... which then waits for both streams.
SynchronizeInference ==
  /\ phase = "closing" /\ iStream = <<>>
  /\ staging' = [b \in Stage |-> [staging[b] EXCEPT !.used = FALSE]]
  /\ phase' = "closed"
  /\ UNCHANGED <<builderVars, slots, cur, ready, gpuVars, vStream, iStream, inferVars>>
Synchronize ==
  /\ phase = "closing" /\ vStream = <<>> /\ iStream = <<>>
  /\ staging' = [b \in Stage |-> [staging[b] EXCEPT !.used = FALSE]]
  /\ phase' = "closed"
  /\ UNCHANGED <<builderVars, slots, cur, ready, gpuVars, vStream, iStream, inferVars>>

-----------------------------------------------------------------------------
Builder == AppendEvent \/ FlushDue \/ FinishWindow \/ Abort \/ Invalidate
Inference == AcquireReady \/ InferenceScope \/ Release \/ Close \/ Synchronize

Next == Builder \/ Inference \/ VRun \/ IRun

Spec == Init /\ [][Next]_vars

-----------------------------------------------------------------------------
(* Properties *)

\* For as long as the network may run on a voxel, the voxel holds the events
\* of its window, all of them, once each and no others, although the slot was
\* filled and zeroed behind the host's back and may be FREE or refilled for it
\* (inference_scope, _enqueue_clear, abort_current).
InferenceReadsWindow ==
  IReady => voxel[Head(iStream).slot] = Head(iStream).events

\* A pinned buffer is not written again before its transfer has run
\* (_claim_staging, incremental_voxelizer.py:147-159).
StagingIntact ==
  \A i \in DOMAIN vStream :
    LET op == vStream[i]
    IN op.do = "fill" => SubSeq(staging[op.stage].mem, 1, op.n) = op.events

\* What is staged and not flushed belongs to the window being filled: nothing
\* of an aborted window is left for the next one, and flush always has a voxel
\* (the RuntimeError of incremental_voxelizer.py:213 is never raised).
StagedOfCurrent ==
  curStage # 0 =>
    /\ cur # 0 /\ count > 0 /\ ~staging[curStage].used
    /\ SubSeq(staging[curStage].mem, 1, count)
         = SubSeq(slots[cur].events, Len(slots[cur].events) - count + 1,
                  Len(slots[cur].events))

\* A closed voxelizer has nothing running on the GPU and only empty voxels,
\* even if the network failed half way (close, 376-395).
ClosedIdle ==
  phase = "closed" =>
    /\ vStream = <<>> /\ iStream = <<>>
    /\ \A s \in Slot : voxel[s] = <<>> /\ slots[s] = Free
    /\ \A b \in Stage : ~staging[b].used

-----------------------------------------------------------------------------
(* The inductive invariant: what each voxel will hold at every position of *)
(* voxel_stream that has not been reached                                  *)

Op == [do : {"fill", "zero"}, slot : Slot, stage : 0..Stages, n : 0..MaxBatch,
       events : Seq(Nat), after : Nat]

TypeOK ==
  /\ last \in Nat
  /\ slots \in [Slot -> [st : {"FREE", "FILLING", "READY", "INFERENCING"},
                         events : Seq(Nat), filled : Nat, inferred : Nat]]
  /\ cur \in 0..PoolSize /\ ready \in Seq(Slot)
  /\ staging \in [Stage -> [mem : [1..MaxBatch -> Nat], used : BOOLEAN, done : Nat]]
  /\ curStage \in 0..Stages /\ nextStage \in Stage /\ count \in 0..(MaxBatch - 1)
  /\ voxel \in [Slot -> Seq(Nat)]
  /\ vStream \in Seq(Op)
  /\ iStream \in Seq([events : Seq(Nat), slot : Slot, after : Nat])
  /\ vRan \in Nat /\ iRan \in Nat
  /\ islot \in 0..PoolSize /\ ipc \in {"acquire", "scope", "queued", "failed"}
  /\ phase \in {"open", "closing", "closed"}

\* Content c of slot s, after op has run
Then(c, op, s) ==
  IF op.slot # s THEN c ELSE IF op.do = "zero" THEN <<>> ELSE c \o op.events

\* Content of slot s after each of the operations q, from v on
History(q, v, s) ==
  LET c[i \in 0..Len(q)] == IF i = 0 THEN v ELSE Then(c[i - 1], q[i], s)
  IN c
Content(s) == History(vStream, voxel[s], s)
Finally(s) == Content(s)[Len(vStream)]

\* Events of the current window that are in no operation yet
Staged == IF curStage = 0 THEN <<>> ELSE SubSeq(staging[curStage].mem, 1, count)

\* At each of the next n positions that is no earlier than from, slot s holds e.
Holds(s, from, n, e) ==
  \A i \in 0..n : from <= vRan + i => Content(s)[i] = e

\* Each slot has the role that the two threads and the READY list say ...
RoleInv(s) ==
  /\ slots[s].st = "FILLING" <=> s = cur
  /\ slots[s].st = "READY" <=> s \in Range(ready)
  /\ slots[s].st = "INFERENCING" <=> s = islot

\* ... and is FREE with nothing to come, or is being filled and lacks what is
\* staged, or holds its window from fill_done_event on.
ContentInv(s) ==
  LET slot == slots[s]
  IN /\ slot.st = "FREE" => slot = Free /\ Finally(s) = <<>>
     /\ slot.st = "FILLING" => /\ Finally(s) \in Seq(Nat)
                               /\ slot.events = Finally(s) \o Staged
     /\ slot.st \in {"READY", "INFERENCING"} =>
          slot.filled <= VQueued /\ Holds(s, slot.filled, Len(vStream), slot.events)

ReadyInv == \A i, j \in DOMAIN ready : ready[i] = ready[j] => i = j

\* Each transfer to come is the last of its buffer, and finds there what was
\* staged; the buffer being filled has none.
FillInv ==
  \A i \in DOMAIN vStream :
    LET op == vStream[i]
    IN op.do = "fill" =>
         /\ op.stage # 0
         /\ staging[op.stage].used /\ staging[op.stage].done = vRan + i
         /\ SubSeq(staging[op.stage].mem, 1, op.n) = op.events
StageInv ==
  IF curStage = 0 THEN count = 0
  ELSE cur # 0 /\ count > 0 /\ ~staging[curStage].used

\* The network that is queued sees its window until its slot is zeroed, which
\* waits for it.
Guarded(op) ==
  \E j \in DOMAIN vStream :
    /\ vStream[j].do = "zero" /\ vStream[j].slot = op.slot
    /\ vStream[j].after = iRan + 1 /\ op.after < vRan + j
    /\ Holds(op.slot, op.after, j - 1, op.events)
InferenceInv ==
  /\ ipc \in {"acquire", "failed"} <=> islot = 0
  /\ ipc \in {"acquire", "scope"} => iStream = <<>>
  /\ ipc = "queued" => /\ slots[islot].inferred = IQueued
                       /\ iStream \in {<<>>, <<[events |-> slots[islot].events, slot |-> islot,
                                                after |-> slots[islot].filled]>>}
  /\ ipc = "failed" => iStream = <<>> \/ (Len(iStream) = 1 /\ Guarded(iStream[1]))

PhaseInv ==
  /\ phase # "open" => cur = 0 /\ ready = <<>> /\ curStage = 0 /\ islot = 0
  /\ phase = "closed" => /\ vStream = <<>> /\ iStream = <<>>
                         /\ \A b \in Stage : ~staging[b].used

IInv ==
  /\ TypeOK
  /\ \A s \in Slot : RoleInv(s) /\ ContentInv(s)
  /\ ReadyInv /\ FillInv /\ StageInv /\ InferenceInv /\ PhaseInv
=============================================================================
