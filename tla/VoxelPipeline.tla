---------------------------- MODULE VoxelPipeline ----------------------------
(***************************************************************************)
(* From a claimed batch to a result job: the builder thread                *)
(* (IncrementalSessionPipeline, examples/e2fai_worker.py) routes events    *)
(* into windows and fills voxel slots; the inference thread                *)
(* (_run_incremental_session) takes READY slots, carries the GRU state     *)
(* from window to window and hands results over. The slots belong to       *)
(* IncrementalVoxelizer (runtime/nrv_e2fai/incremental_voxelizer.py),      *)
(* whose condition makes each of its operations one atomic step.           *)
(*                                                                         *)
(* The receiver is its processing_generation, which may advance at any     *)
(* time (module SessionReceiver). Both threads read it without a lock and  *)
(* act on what they read later, so reads and uses are separate steps.      *)
(* A batch routes to any sequence of chunks, window ends and resets        *)
(* (module WindowRouter). Event counts saturate at 2, the least count that *)
(* makes a window worth inferring. A window is known by its window_id and  *)
(* the router's reset_count. The microbatch staging is left out.           *)
(***************************************************************************)
EXTENDS Integers, Sequences

CONSTANTS
  PoolSize,   \* voxel slots; the code insists on 3
  MaxGen,     \* bound: generations the receiver starts after the first
  MaxWindows, \* bound: windows the router completes
  MaxGaps     \* bound: resets the router makes for gaps in the data

ASSUME PoolSizeAssumption == PoolSize \in Nat \ {0}
ASSUME BoundsAssumption == MaxGen \in Nat /\ MaxWindows \in Nat /\ MaxGaps \in Nat

VARIABLES
  procGen,      \* receiver.processing_generation
  cancelled,    \* receiver done or failed, or should_stop()
  bpc, tgt, ret,\* builder: where it is, and inside _reset_generation
  firstPending, \* self.pending still holds the session's first item
  active,       \* self.active_generation
  router,       \* reset_count, window_id, events in the window being filled,
                \* last window completed since the reset, gaps so far
  slots,        \* self.voxelizer.slots
  cur,          \* self.voxelizer.current, 0 when None
  ready,        \* self.voxelizer.ready_slots
  closed,       \* self.voxelizer.closed
  ipc,          \* inference: where it is
  stateGen,     \* generation, and from then on state_processing_generation
  stateReset,   \* state_generation
  state,        \* window the GRU state was computed from, 0 when None
  islot, igen,  \* the slot being inferred, and its window's generation
  job           \* ResultProcessor.queue holds a job

builderVars == <<bpc, tgt, ret, firstPending, active, router>>
poolVars    == <<slots, cur, ready, closed>>
stateVars   == <<stateGen, stateReset, state>>
inferVars   == <<ipc, stateVars, islot, igen, job>>
vars == <<procGen, cancelled, builderVars, poolVars, inferVars>>

Slot    == 1..PoolSize
Gens    == 0..MaxGen
Free    == [st |-> "FREE", gen |-> 0, reset |-> 0, win |-> 0, n |-> 0, prev |-> 0]
None    == -1   \* state_generation or state_processing_generation is None
Sat(n)  == IF n > 2 THEN 2 ELSE n

Init ==
  /\ procGen = 0 /\ cancelled = FALSE
  /\ bpc = "top" /\ tgt = 0 /\ ret = "top"
  /\ firstPending = TRUE /\ active = 0
  /\ router = [reset |-> 0, win |-> 0, n |-> 0, last |-> 0, gaps |-> 0]
  /\ slots = [s \in Slot |-> Free]
  /\ cur = 0 /\ ready = <<>> /\ closed = FALSE
  /\ ipc = "read"
  /\ stateGen = None /\ stateReset = None /\ state = 0
  /\ islot = 0 /\ igen = 0
  /\ job = FALSE

-----------------------------------------------------------------------------
(* Pool operations *)

Clear(victims) == [s \in Slot |-> IF s \in victims THEN Free ELSE slots[s]]

Current == IF cur = 0 THEN {} ELSE {cur}

\* ready_slots without the slots of any other generation
ReadyOf(g) ==
  LET kept[i \in 0..Len(ready)] ==
        IF i = 0 THEN <<>>
        ELSE IF slots[ready[i]].gen = g THEN Append(kept[i - 1], ready[i])
        ELSE kept[i - 1]
  IN kept[Len(ready)]

\* Routers and slots after router.reset(): the window being filled is given up.
ResetRouter == [router EXCEPT !.reset = @ + 1, !.n = 0, !.last = 0]

\* What router.reset discards: the window being filled, if it has events.
Partial == IF router.n > 0 THEN Current ELSE {}

\* abort_current, then invalidate_generation(g): READY slots of any other
\* generation are cleared, the one being inferred never.
Other(g) == Partial \cup {s \in Current : slots[s].gen # g}
InvalidateAllOthers(g) ==
  /\ slots' = Clear(Other(g) \cup {s \in Slot : slots[s].gen # g})
  /\ cur' = IF cur \in Other(g) THEN 0 ELSE cur
  /\ ready' = ReadyOf(g)
Invalidate(g) ==
  /\ slots' = Clear(Other(g) \cup {s \in Slot : slots[s].st = "READY"
                                                  /\ slots[s].gen # g})
  /\ cur' = IF cur \in Other(g) THEN 0 ELSE cur
  /\ ready' = ReadyOf(g)

-----------------------------------------------------------------------------
(* Receiver *)

\* A drop in the reader, or in take(), starts a generation.
Drop ==
  /\ procGen < MaxGen
  /\ procGen' = procGen + 1
  /\ UNCHANGED <<cancelled, builderVars, poolVars, inferVars>>

\* fail() from another thread, the end of the connection, or a stop signal.
Cancel ==
  /\ ~cancelled
  /\ cancelled' = TRUE
  /\ UNCHANGED <<procGen, builderVars, poolVars, inferVars>>

-----------------------------------------------------------------------------
(* Builder: top -> [target -> reset] -> take -> [reset] -> fresh            *)
(*   -> push -> top, or fresh -> skip -> target -> reset -> top             *)

Top ==
  /\ bpc = "top"
  /\ IF cancelled THEN bpc' = "ended" /\ UNCHANGED ret
     ELSE IF active # procGen THEN bpc' = "target" /\ ret' = "take"
     ELSE bpc' = "take" /\ UNCHANGED ret
  /\ UNCHANGED <<procGen, cancelled, tgt, firstPending, active, router,
                 poolVars, inferVars>>

\* The argument of _reset_generation is a second read of the generation.
ReadTarget ==
  /\ bpc = "target"
  /\ tgt' = procGen /\ bpc' = "reset"
  /\ UNCHANGED <<procGen, cancelled, ret, firstPending, active, router,
                 poolVars, inferVars>>

\* _reset_generation
ResetGeneration ==
  /\ bpc = "reset"
  /\ router' = ResetRouter
  /\ Invalidate(tgt)
  /\ active' = tgt
  /\ bpc' = ret
  /\ tgt' = 0 /\ ret' = "top"
  /\ UNCHANGED <<procGen, cancelled, firstPending, closed, inferVars>>

\* The session's first item keeps the tag it had when the session started; a
\* taken one has the generation of that moment.
TakeItem ==
  /\ bpc = "take"
  /\ \/ LET item == IF firstPending THEN 0 ELSE procGen
        IN IF item # active THEN bpc' = "reset" /\ tgt' = item /\ ret' = "fresh"
                            ELSE bpc' = "fresh" /\ UNCHANGED <<tgt, ret>>
     \/ ~firstPending /\ bpc' = "top" /\ UNCHANGED <<tgt, ret>>
  /\ firstPending' = FALSE
  /\ UNCHANGED <<procGen, cancelled, active, router, poolVars, inferVars>>

\* An item that waited too long is skipped if its generation is current.
DecideFresh ==
  /\ bpc = "fresh"
  /\ \/ bpc' = "push"
     \/ active = procGen /\ procGen < MaxGen /\ bpc' = "skip"
  /\ UNCHANGED <<procGen, cancelled, tgt, ret, firstPending, active,
                 router, poolVars, inferVars>>

\* receiver.recover merges with a drop made since the item was claimed.
SkipItem ==
  /\ bpc = "skip"
  /\ procGen' = IF procGen = active THEN procGen + 1 ELSE procGen
  /\ bpc' = "target" /\ ret' = "top"
  /\ UNCHANGED <<cancelled, tgt, firstPending, active, router, poolVars, inferVars>>

\* append: the chunk is counted, and the first of a window needs a slot.
AppendChunk ==
  /\ bpc = "push"
  /\ \E n \in 1..2 :
       /\ router' = [router EXCEPT !.n = Sat(@ + n)]
       /\ IF cur = 0 THEN bpc' = "wait" /\ UNCHANGED slots
          ELSE slots' = [slots EXCEPT ![cur].n = Sat(@ + n)] /\ UNCHANGED bpc
  /\ UNCHANGED <<procGen, cancelled, tgt, ret, firstPending, active,
                 cur, ready, closed, inferVars>>

\* _acquire_slot: the first FREE slot, waiting while there is none.
AcquireSlot ==
  /\ bpc = "wait" /\ ~cancelled /\ ~closed
  /\ \E s \in Slot :
       /\ slots[s].st = "FREE"
       /\ \A t \in Slot : slots[t].st = "FREE" => s <= t
       /\ cur' = s
       /\ slots' = [slots EXCEPT ![s] =
            [st |-> "FILLING", gen |-> active, reset |-> router.reset,
             win |-> router.win + 1, n |-> router.n, prev |-> 0]]
  /\ bpc' = "push"
  /\ UNCHANGED <<procGen, cancelled, tgt, ret, firstPending, active,
                 router, ready, closed, inferVars>>

\* ... until the session ends: append returns False, which is a RuntimeError.
AcquireStopsIfClosed ==
  /\ bpc = "wait" /\ closed
  /\ bpc' = "ended"
  /\ UNCHANGED <<procGen, cancelled, tgt, ret, firstPending, active,
                 router, poolVars, inferVars>>
AcquireStops ==
  /\ bpc = "wait" /\ (cancelled \/ closed)
  /\ bpc' = "ended"
  /\ UNCHANGED <<procGen, cancelled, tgt, ret, firstPending, active,
                 router, poolVars, inferVars>>

\* An event past the window's end: a window of one event is given up, any
\* other becomes READY.
GiveUp == slots' = Clear(Current) /\ UNCHANGED ready

FinishWindow ==
  /\ slots' = [slots EXCEPT ![cur].st = "READY", ![cur].prev = router.last]
  /\ ready' = Append(ready, cur)

EndWindow ==
  /\ bpc = "push" /\ router.n > 0 /\ router.win < MaxWindows
  /\ IF router.n < 2 THEN GiveUp ELSE FinishWindow
  /\ cur' = 0
  /\ router' = [router EXCEPT !.win = @ + 1, !.n = 0,
                   !.last = IF router.n < 2 THEN @ ELSE router.win + 1]
  /\ UNCHANGED <<procGen, cancelled, bpc, tgt, ret, firstPending, active,
                 closed, inferVars>>

\* A gap in batch or ROS sequence or in event time: router.reset, with
\* abort_current if the window holds events.
RouterGapKeepsSlot ==
  /\ bpc = "push" /\ router.gaps < MaxGaps
  /\ router' = [ResetRouter EXCEPT !.gaps = @ + 1]
  /\ UNCHANGED <<procGen, cancelled, bpc, tgt, ret, firstPending, active,
                 slots, cur, ready, closed, inferVars>>
RouterGap ==
  /\ bpc = "push" /\ router.gaps < MaxGaps
  /\ router' = [ResetRouter EXCEPT !.gaps = @ + 1]
  /\ slots' = Clear(Partial) /\ cur' = IF cur \in Partial THEN 0 ELSE cur
  /\ UNCHANGED <<procGen, cancelled, bpc, tgt, ret, firstPending, active,
                 ready, closed, inferVars>>

EndPush ==
  /\ bpc = "push"
  /\ bpc' = "top"
  /\ UNCHANGED <<procGen, cancelled, tgt, ret, firstPending, active,
                 router, poolVars, inferVars>>

-----------------------------------------------------------------------------
(* Inference: read -> acquire -> forward -> release -> check -> submit      *)

\* The top of the loop: a new generation forgets the GRU state.
ReadGeneration ==
  /\ ipc = "read"
  /\ IF cancelled THEN ipc' = "closing" /\ UNCHANGED stateVars
     ELSE /\ ipc' = "acquire"
          /\ stateGen' = procGen
          /\ IF procGen # stateGen
             THEN state' = 0 /\ stateReset' = None
             ELSE UNCHANGED <<state, stateReset>>
  /\ UNCHANGED <<procGen, cancelled, builderVars, poolVars, islot, igen, job>>

\* acquire_ready(generation): READY slots of any other generation are cleared
\* on the way to the first that matches; a reset forgets the GRU state.
MatchAt(i) == slots[ready[i]].gen = stateGen
              /\ \A j \in 1..(i - 1) : slots[ready[j]].gen # stateGen

AcquireKeepsState ==
  /\ ipc = "acquire"
  /\ \E i \in 1..Len(ready) :
       /\ MatchAt(i)
       /\ slots' = [Clear({ready[j] : j \in 1..(i - 1)})
                      EXCEPT ![ready[i]].st = "INFERENCING"]
       /\ ready' = SubSeq(ready, i + 1, Len(ready))
       /\ islot' = ready[i]
       /\ igen' = slots[ready[i]].gen
  /\ ipc' = "forward"
  /\ UNCHANGED <<procGen, cancelled, builderVars, cur, closed, stateVars, job>>
Acquire ==
  /\ ipc = "acquire"
  /\ \E i \in 1..Len(ready) :
       /\ MatchAt(i)
       /\ slots' = [Clear({ready[j] : j \in 1..(i - 1)})
                      EXCEPT ![ready[i]].st = "INFERENCING"]
       /\ ready' = SubSeq(ready, i + 1, Len(ready))
       /\ islot' = ready[i]
       /\ igen' = slots[ready[i]].gen
       /\ stateReset' = slots[ready[i]].reset
       /\ state' = IF slots[ready[i]].reset = stateReset THEN state ELSE 0
  /\ ipc' = "forward"
  /\ UNCHANGED <<procGen, cancelled, builderVars, cur, closed, stateGen, job>>

\* Nothing matches: everything READY is cleared; the wait goes on, or ends.
AcquireNone ==
  /\ ipc = "acquire"
  /\ \A i \in 1..Len(ready) : ~MatchAt(i)
  /\ slots' = Clear({ready[i] : i \in 1..Len(ready)})
  /\ ready' = <<>>
  /\ ipc' \in {"acquire", "read"}
  /\ UNCHANGED <<procGen, cancelled, builderVars, cur, closed, stateVars,
                 islot, igen, job>>

Forward ==
  /\ ipc = "forward"
  /\ state' = slots[islot].win
  /\ ipc' = "release"
  /\ UNCHANGED <<procGen, cancelled, builderVars, poolVars, stateGen,
                 stateReset, islot, igen, job>>

\* finally: release(slot)
Release ==
  /\ ipc = "release"
  /\ slots' = Clear({islot})
  /\ islot' = 0
  /\ ipc' = "check"
  /\ UNCHANGED <<procGen, cancelled, builderVars, cur, ready, closed, stateVars,
                 igen, job>>

\* forward_step raises: the slot is released all the same, then fail().
ForwardRaises ==
  /\ ipc = "forward"
  /\ slots' = Clear({islot})
  /\ islot' = 0
  /\ cancelled' = TRUE
  /\ ipc' = "closing"
  /\ UNCHANGED <<procGen, builderVars, cur, ready, closed, stateVars, igen, job>>

CheckWindow ==
  /\ ipc = "check"
  /\ IF igen # procGen THEN state' = 0 /\ ipc' = "read"
                           ELSE ipc' = "submit" /\ UNCHANGED state
  /\ UNCHANGED <<procGen, cancelled, builderVars, poolVars, stateGen,
                 stateReset, islot, igen, job>>

\* ResultProcessor.submit
Submit ==
  /\ ipc = "submit"
  /\ \/ cancelled /\ ipc' = "closing" /\ UNCHANGED job
     \/ ~cancelled /\ igen # procGen /\ ipc' = "read" /\ UNCHANGED job
     \/ /\ ~cancelled /\ igen = procGen /\ ~job
        /\ job' = TRUE /\ ipc' = "read"
  /\ UNCHANGED <<procGen, cancelled, builderVars, poolVars, stateVars, islot, igen>>

\* The result thread takes the job; without one it keeps polling.
TakeJob ==
  /\ job
  /\ job' = FALSE
  /\ UNCHANGED <<procGen, cancelled, builderVars, poolVars, ipc, stateVars,
                 islot, igen>>

\* finally: receiver.close() changes nothing any more, the loop ends only with
\* the session; pipeline.close() joins the builder and voxelizer.close() clears
\* what it left.
ClosePool ==
  /\ ipc = "closing" /\ bpc = "ended"
  /\ slots' = Clear(Current \cup {ready[i] : i \in 1..Len(ready)})
  /\ cur' = 0 /\ ready' = <<>> /\ closed' = TRUE
  /\ ipc' = "closed"
  /\ UNCHANGED <<procGen, cancelled, builderVars, stateVars, islot, igen, job>>

-----------------------------------------------------------------------------
Receiver == Drop \/ Cancel
Builder == \/ Top \/ ReadTarget \/ ResetGeneration \/ TakeItem
           \/ DecideFresh \/ SkipItem \/ AppendChunk \/ AcquireSlot
           \/ AcquireStops \/ EndWindow \/ RouterGap \/ EndPush
Inference == \/ ReadGeneration \/ Acquire \/ AcquireNone \/ Forward \/ Release
             \/ ForwardRaises \/ CheckWindow \/ Submit \/ ClosePool

Next == Receiver \/ Builder \/ Inference \/ TakeJob

(***************************************************************************)
(* Both threads keep running: every wait of theirs has a timeout and tests *)
(* cancelled, except the wait for a voxel slot and the one for the result  *)
(* slot, which depend on the other threads. The result thread polls its    *)
(* queue until the session ends.                                           *)
(***************************************************************************)
Fairness == /\ WF_vars(Builder)
            /\ WF_vars(Inference)
            /\ WF_vars(~cancelled /\ TakeJob)

Spec == Init /\ [][Next]_vars /\ Fairness

-----------------------------------------------------------------------------
(* Properties *)

Windows == 0..(MaxWindows + 1)

TypeOK ==
  /\ procGen \in Gens /\ cancelled \in BOOLEAN
  /\ bpc \in {"top", "target", "reset", "take", "fresh", "skip", "push",
              "wait", "ended"}
  /\ tgt \in Gens /\ ret \in {"top", "take", "fresh"}
  /\ firstPending \in BOOLEAN /\ active \in Gens
  /\ router \in [reset : Nat, win : 0..MaxWindows, n : 0..2, last : 0..MaxWindows,
                 gaps : 0..MaxGaps]
  /\ slots \in [Slot -> [st : {"FREE", "FILLING", "READY", "INFERENCING"},
                         gen : Gens, reset : Nat, win : Windows, n : 0..2,
                         prev : Windows]]
  /\ cur \in 0..PoolSize /\ islot \in 0..PoolSize
  /\ ready \in Seq(Slot) /\ Len(ready) <= PoolSize
  /\ closed \in BOOLEAN
  /\ ipc \in {"read", "acquire", "forward", "release", "check", "submit",
              "closing", "closed"}
  /\ stateGen \in Gens \cup {None}
  /\ stateReset \in Nat \cup {None}
  /\ state \in Windows /\ igen \in Gens /\ job \in BOOLEAN

\* A slot plays one role at a time, in the eyes of both threads: the one being
\* filled is the builder's, those in ready_slots are READY and each is there
\* once, in the order of their windows, and the one being inferred is neither
\* cleared nor reused before its release. Nothing else is taken from the pool.
PoolConsistent ==
  /\ TypeOK
  /\ {s \in Slot : slots[s].st = "FILLING"} = Current
  /\ {s \in Slot : slots[s].st = "READY"} = {ready[i] : i \in 1..Len(ready)}
  /\ {s \in Slot : slots[s].st = "INFERENCING"} = {islot} \ {0}
  /\ \A i, j \in 1..Len(ready) : i < j => slots[ready[i]].win < slots[ready[j]].win

\* The three RuntimeErrors that guard append, flush and finish_window cannot
\* be raised: between two builder steps the voxelizer holds a current slot
\* exactly when the router holds events, and for the same window, generation,
\* reset and number of events, although two objects keep them apart and four
\* different paths reset them.
SlotMatchesRouter ==
  bpc \notin {"wait", "ended"} =>
    IF router.n = 0 THEN cur = 0
    ELSE /\ cur # 0
         /\ slots[cur].gen = active /\ slots[cur].reset = router.reset
         /\ slots[cur].win = router.win + 1 /\ slots[cur].n = router.n

\* The GRU state is carried from one window only to the next one completed: it
\* never survives a reset of the router, a change of generation, or a window
\* that was cleared before its inference.
StateContinuous ==
  [][ipc = "forward" /\ ipc' = "release" /\ state # 0
       => slots[islot].prev = state]_vars

\* An exhausted pool is always temporary: the builder never waits for a slot
\* that nobody will release.
PoolExhaustionEnds ==
  (\A s \in Slot : slots[s].st # "FREE")
     ~> (\E s \in Slot : slots[s].st = "FREE")

\* The end of a session releases both threads wherever they wait, and leaves
\* an empty pool.
SessionCloses == cancelled ~> closed /\ \A s \in Slot : slots[s] = Free

\* Slots always come free again, while the session runs and at its end.
SlotsReleased == PoolExhaustionEnds /\ SessionCloses

\* What the design says of a recovery ("discard the old READY voxels, keep the
\* newest events", docs section 9.1): a READY window of the current generation
\* is not discarded while the session runs.
CurrentReadyKept ==
  [][\A s \in Slot :
       slots[s].st = "READY" /\ slots[s].gen = procGen /\ ~cancelled
         => slots'[s].st \in {"READY", "INFERENCING"}]_vars

-----------------------------------------------------------------------------
(* Why they hold: the parts of an inductive invariant                      *)

\* While the builder waits for a slot it has counted the chunk and holds none;
\* a recovery it is about to ask for is still possible; and the inference
\* thread has a slot from acquire to release.
ThreadInv ==
  /\ bpc = "wait" => cur = 0 /\ router.n > 0
  /\ bpc = "skip" => active < MaxGen
  /\ active <= procGen /\ tgt <= procGen
  /\ ipc \in {"forward", "release"} <=> islot # 0

Ready == {s \in Slot : slots[s].st = "READY"}

\* Of two windows between the same resets of the router, s came before t. The
\* READY one before t, the first and the last.
Before(s, t) == slots[s].reset = slots[t].reset /\ slots[s].win < slots[t].win
Precedes(s, t) == Before(s, t) /\ \A u \in Ready : ~(Before(s, u) /\ Before(u, t))
Earliest(t) == \A u \in Ready : ~Before(u, t)
Latest(t) == \A u \in Ready : ~Before(t, u)

\* READY windows lie behind the router, and between two resets of it all are of
\* one generation, the active one since the last.
ReadyInv ==
  \A s \in Ready :
    /\ slots[s].win <= router.win /\ slots[s].reset <= router.reset
    /\ slots[s].reset = router.reset => slots[s].gen = active
    /\ \A t \in Ready : slots[s].reset = slots[t].reset => slots[s].gen = slots[t].gen

\* The window the next READY one of stateReset must follow, 0 when none need be
Anchor == IF ipc = "forward" THEN slots[islot].win
          ELSE IF ipc \in {"closing", "closed"} THEN 0 ELSE state

\* What the inference thread carries is of one generation with what it awaits.
CarriedInv ==
  /\ stateReset <= router.reset
  /\ ipc = "forward" => stateReset = slots[islot].reset
  /\ Anchor # 0 =>
       /\ \A s \in Ready : slots[s].reset = stateReset => slots[s].gen = stateGen
       /\ router.reset = stateReset => active = stateGen

\* The windows between two resets form a chain from the one carried to the last
\* one completed: nothing is cleared from its middle.
ChainInv ==
  /\ \A s, t \in Ready : Precedes(s, t) => slots[t].prev = slots[s].win
  /\ \A t \in Ready : Anchor # 0 /\ slots[t].reset = stateReset /\ Earliest(t)
                       => slots[t].prev = Anchor
  /\ \A t \in Ready : slots[t].reset = router.reset /\ Latest(t)
                       => router.last = slots[t].win
  /\ Anchor # 0 /\ router.reset = stateReset
       /\ (\A t \in Ready : slots[t].reset # router.reset)
       => router.last = Anchor
  /\ ipc = "forward" /\ state # 0 => slots[islot].prev = state

IInv == /\ PoolConsistent /\ SlotMatchesRouter /\ ThreadInv
        /\ ReadyInv /\ CarriedInv /\ ChainInv
=============================================================================
