---------------------------- MODULE WindowRouter ----------------------------
(***************************************************************************)
(* Which events make a window: class IncrementalWindowRouter of            *)
(* runtime/nrv_e2fai/preprocessing.py, as the builder thread uses it       *)
(* (examples/e2fai_worker.py).                                             *)
(*                                                                         *)
(* A batch is a sequence of event times. The code splits it into sorted    *)
(* segments and cuts those at window ends; that amounts to routing one     *)
(* event after another, which is what push does here, in one step. The     *)
(* resolution cannot change within a session and is left out. A window of  *)
(* one event is finished here; the pipeline drops it afterwards            *)
(* (_finish_window).                                                       *)
(*                                                                         *)
(* The batches come from a publisher that counts messages modulo RosMod,   *)
(* or leaves the count 0, or is not known to count; messages can be lost   *)
(* before the bridge numbers its batches, and batches after it.            *)
(***************************************************************************)
EXTENDS Integers, Sequences, SequencesExt

CONSTANTS
  Window,     \* window_ns
  MaxGap,     \* max_gap_ns
  RosMod,     \* 2^32, the range of a ROS header's seq
  MaxTime,    \* bound: event times
  MaxLen,     \* bound: events of a batch
  MaxPushes,  \* bound: batches and recoveries
  MaxLost     \* bound: messages lost at once

ASSUME WindowAssumption == Window \in Nat \ {0} /\ MaxGap \in Nat \ {0}
ASSUME RosModAssumption == RosMod \in Nat /\ RosMod > 3
ASSUME LostAssumption == MaxLost \in Nat /\ 2 * (MaxLost + 1) < RosMod
ASSUME BoundsAssumption == {MaxTime, MaxLen, MaxPushes} \subseteq Nat

VARIABLES
  counting,  \* "counted", "zero" or "unknown": what the publisher's seq is
  ros, seq,  \* seq and batch_seq of the last batch, taken or lost
  router,    \* self; losses is a history: how many losses the numbers of the
             \* batches have shown
  skipped,   \* pipeline.skipped_partial_events
  out,       \* windows the last push finished
  pushed, finished,  \* events taken, events in finished windows (history)
  seen       \* messages lost between two batches of one generation (history)

vars == <<counting, ros, seq, router, skipped, out, pushed, finished, seen>>

None == -1

NewWindow == [count |-> 0, first |-> None, last |-> None, lossFirst |-> 0]

Init ==
  /\ counting \in {"counted", "zero", "unknown"}
  /\ ros \in IF counting = "counted" THEN 0..(RosMod - 1) ELSE {0}
  /\ seq = 0
  /\ router = [start |-> None, lastEvent |-> None, win |-> NewWindow,
               id |-> 0, resets |-> 0, discarded |-> 0, prevBatch |-> None,
               prevRos |-> None, nonzero |-> FALSE, missing |-> 0, losses |-> 0,
               done |-> <<>>]
  /\ skipped = 0 /\ out = <<>>
  /\ pushed = 0 /\ finished = 0 /\ seen = 0

-----------------------------------------------------------------------------
(* IncrementalWindowRouter *)

\* reset: the window being filled is given up.
ResetUncounted(r) ==
  [r EXCEPT !.start = None, !.lastEvent = None, !.win = NewWindow, !.resets = @ + 1]
Reset(r) ==
  [r EXCEPT !.start = None, !.lastEvent = None, !.win = NewWindow, !.resets = @ + 1,
            !.discarded = @ + r.win.count]

\* _observe_ros_sequence. A publisher that has only said 0 is not counting.
Distance(r, s) == (s - r.prevRos) % RosMod

RosGapZeroUnknown(r, s) ==
  /\ counting # "unknown" /\ s # 0
  /\ r.prevRos # None /\ s # (r.prevRos + 1) % RosMod
RosGap(r, s) ==
  /\ counting # "unknown" /\ (r.nonzero \/ s # 0)
  /\ r.prevRos # None /\ s # (r.prevRos + 1) % RosMod

Missing(r, s) ==
  IF RosGap(r, s) /\ Distance(r, s) > 1 /\ 2 * Distance(r, s) < RosMod
  THEN Distance(r, s) - 1 ELSE 0

Observe(r, s) ==
  IF counting = "unknown" THEN [r EXCEPT !.prevRos = None]
  ELSE [r EXCEPT !.prevRos = s, !.nonzero = @ \/ s # 0, !.missing = @ + Missing(r, s)]

BatchGap(r, n) == r.prevBatch # None /\ n # r.prevBatch + 1

\* _completed_metadata
Completed(r) ==
  [id |-> r.id + 1, start |-> r.start, end |-> r.start + Window,
   first |-> r.win.first, last |-> r.win.last, count |-> r.win.count,
   resets |-> r.resets, losses |-> r.losses - r.win.lossFirst]

\* An event at or past the end of the window finishes it, and the windows
\* until the event's own are empty. The window finished is not: it is opened
\* with an event (TypeOK).
AdvanceOnce(r, t) ==
  IF t < r.start + Window THEN r
  ELSE [r EXCEPT !.start = @ + Window, !.win = NewWindow, !.id = @ + 1,
                 !.done = Append(@, Completed(r))]
Advance(r, t) ==
  IF t < r.start + Window THEN r
  ELSE [r EXCEPT !.start = @ + Window * ((t - r.start) \div Window),
                 !.win = NewWindow, !.id = @ + 1, !.done = Append(@, Completed(r))]

\* An event earlier than the one before it, or much later, starts afresh.
TimeGap(r, t) ==
  r.lastEvent # None /\ (t < r.lastEvent \/ t - r.lastEvent > MaxGap)

Open(r, t) ==
  LET a == IF TimeGap(r, t) THEN Reset(r) ELSE r
  IN IF a.start = None THEN [a EXCEPT !.start = t] ELSE a

Put(r, t) ==
  LET first == r.win.count = 0
  IN [r EXCEPT !.lastEvent = t,
               !.win = [count |-> r.win.count + 1,
                        first |-> IF first THEN t ELSE r.win.first,
                        last |-> t,
                        lossFirst |-> IF first THEN r.losses ELSE r.win.lossFirst]]

Route(r, t) == Put(Advance(Open(r, t), t), t)

RouteAll(r, events) ==
  LET f[i \in 0..Len(events)] == IF i = 0 THEN r ELSE Route(f[i - 1], events[i])
  IN f[Len(events)]

\* Events in the windows ws
CountOf(ws) ==
  LET f[i \in 0..Len(ws)] == IF i = 0 THEN 0 ELSE f[i - 1] + ws[i].count
  IN f[Len(ws)]

-----------------------------------------------------------------------------
(* Batches and recoveries *)

Batches == UNION {[1..n -> 0..MaxTime] : n \in 0..MaxLen}

NextRos(lost) == IF counting = "counted" THEN (ros + lost + 1) % RosMod ELSE 0

\* Losses that a batch's numbers can show.
Shown(lost, gone) == IF counting = "counted" THEN lost + gone ELSE gone

\* push, of a batch that gone batches and lost messages precede.
PushBatch(lost, gone, events) ==
  /\ lost + gone <= MaxLost /\ seq + gone < MaxPushes
  /\ ros' = NextRos(lost + gone) /\ seq' = seq + gone + 1
  /\ seen' = IF router.prevRos = None THEN seen ELSE seen + Shown(lost, gone)
  /\ LET a == Observe([router EXCEPT !.done = <<>>, !.losses = @ + Shown(lost, gone)], ros')
         b == IF RosGap(router, ros') \/ BatchGap(router, seq') THEN Reset(a) ELSE a
         c == RouteAll([b EXCEPT !.prevBatch = seq'], events)
     IN /\ router' = c /\ out' = c.done
        /\ finished' = finished + CountOf(c.done)
  /\ pushed' = pushed + Len(events)
  /\ UNCHANGED <<counting, skipped>>

Push == \E lost, gone \in 0..MaxLost, events \in Batches : PushBatch(lost, gone, events)

\* _reset_generation, after the host FIFO or the bridge lost gone batches: the
\* partial window counts as skipped, and no number is compared across it.
ResetGeneration ==
  /\ router.resets < MaxPushes
  /\ \E gone \in 0..MaxLost :
       /\ seq + gone < MaxPushes
       /\ ros' = (IF counting = "counted" THEN (ros + gone) % RosMod ELSE 0)
       /\ seq' = seq + gone
       /\ router' = [Reset(router) EXCEPT !.discarded = router.discarded,
                       !.prevBatch = None, !.prevRos = None,
                       !.losses = @ + gone, !.done = <<>>]
  /\ skipped' = skipped + router.win.count
  /\ out' = <<>>
  /\ UNCHANGED <<counting, pushed, finished, seen>>

Next == Push \/ ResetGeneration

Spec == Init /\ [][Next]_vars

-----------------------------------------------------------------------------
(* Properties *)

Ends(w) == w.first >= w.start /\ w.last < w.end /\ w.first <= w.last

\* Numbers are in range, a window is open exactly when it holds events and ends
\* with the last one, and no empty window is ever finished.
TypeOK ==
  /\ counting \in {"counted", "zero", "unknown"}
  /\ ros \in 0..(RosMod - 1) /\ seq \in 0..MaxPushes
  /\ router.start \in None..MaxTime /\ router.lastEvent \in None..MaxTime
  /\ router.prevRos \in None..(RosMod - 1) /\ router.prevBatch \in None..MaxPushes
  /\ {router.id, router.resets, router.discarded, router.missing, router.losses,
      router.win.count, skipped, pushed, finished, seen} \subseteq Nat
  /\ router.win.last = router.lastEvent
  /\ (router.start = None) <=> (router.win.count = 0)
  /\ \A i \in DOMAIN out : out[i].count > 0

\* Every event taken is in exactly one place: in a finished window, in the one
\* being filled, or counted as discarded by a gap or skipped by a recovery.
EventsConserved ==
  pushed = finished + router.win.count + router.discarded + skipped

\* A window holds the events of its half-open interval and no others, and the
\* windows finished between two resets lie on one grid, in order, without
\* overlap, however many empty ones are passed over.
WindowsOnGrid ==
  /\ TypeOK
  /\ \A i \in DOMAIN out : Ends(out[i])
  /\ \A i, j \in DOMAIN out :
       i < j => /\ out[j].id = out[i].id + (j - i)
                /\ out[i].resets = out[j].resets =>
                     /\ out[j].start >= out[i].end
                     /\ (out[j].start - out[i].start) % Window = 0
  /\ router.win.count > 0 =>
       /\ router.win.first >= router.start /\ router.win.last < router.start + Window
       /\ out # <<>> /\ Last(out).resets = router.resets =>
            /\ router.start >= Last(out).end
            /\ (router.start - Last(out).start) % Window = 0

\* No finished window spans a loss its batches' numbers could show, across the
\* wrap of the ROS count and across recoveries that forget the numbers.
WindowSpansNoLoss == \A i \in DOMAIN out : out[i].losses = 0

\* ros_sequence_forward_missing is the number of messages lost between two
\* batches of one generation, across the wrap of the count.
MissingExact == counting = "counted" => router.missing = seen

\* Losses are noticed, in both ways.
LossesNoticed == WindowSpansNoLoss /\ MissingExact

-----------------------------------------------------------------------------
(* Why they hold: an inductive invariant, which in its router's part holds *)
(* between any two events of a push                                        *)

RouterWindow == [count : Nat, first : None..MaxTime, last : None..MaxTime, lossFirst : Nat]
Finished == [id : Nat, start : Nat, end : Nat, first : 0..MaxTime, last : 0..MaxTime,
             count : Nat \ {0}, resets : Nat, losses : {0}]
Router ==
  [start : None..MaxTime, lastEvent : None..MaxTime, win : RouterWindow,
   id : Nat, resets : Nat, discarded : Nat, prevBatch : None..MaxPushes,
   prevRos : None..(RosMod - 1), nonzero : BOOLEAN, missing : Nat, losses : Nat,
   done : Seq(Finished)]

\* A window may begin at b when one that began at a has ended.
Behind(a, b) == b >= a + Window /\ (b - a) % Window = 0

\* The window being filled has seen no loss.
OpenInv(r) ==
  /\ r.win.last = r.lastEvent
  /\ r.start = None <=> r.win.count = 0
  /\ r.win.count > 0 => /\ r.start <= r.win.first /\ r.win.first <= r.win.last
                        /\ r.win.last < r.start + Window
                        /\ r.win.lossFirst = r.losses

\* Finished windows are numbered up to the router's; those since the last reset
\* lie before the one being filled.
DoneInv(r) ==
  \A i \in DOMAIN r.done :
    LET w == r.done[i]
    IN /\ Ends(w) /\ w.end = w.start + Window
       /\ w.id = r.id - Len(r.done) + i
       /\ w.resets <= r.resets
       /\ w.resets = r.resets => r.start # None /\ Behind(w.start, r.start)
       /\ \A j \in DOMAIN r.done :
            i < j /\ r.done[j].resets = w.resets => Behind(w.start, r.done[j].start)

\* What the router remembers of the batch before, or that it is to compare with
\* none and has nothing of it.
NumbersInv ==
  /\ router.prevBatch \in {None, seq}
  /\ router.prevBatch = None => router.win.count = 0
  /\ IF counting = "unknown" THEN router.prevRos = None
     ELSE router.prevRos = (IF router.prevBatch = None THEN None ELSE ros)
  /\ counting # "counted" => ros = 0 /\ ~router.nonzero
  /\ router.prevRos # None /\ ~router.nonzero => router.prevRos = 0

IInv ==
  /\ TypeOK /\ router \in Router /\ out = router.done
  /\ OpenInv(router) /\ DoneInv(router) /\ NumbersInv
  /\ EventsConserved /\ MissingExact
=============================================================================
