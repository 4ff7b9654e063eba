---------------------------- MODULE WindowBuffer ----------------------------
(***************************************************************************)
(* The other way to cut the same stream: class EventWindowBuffer of        *)
(* runtime/nrv_e2fai/preprocessing.py, which the event-span session uses.  *)
(* It keeps the events, appends one sorted segment at a time and cuts off  *)
(* the front while a whole window is there. Here it is given the batches   *)
(* and recoveries of WindowRouter, step by step. Its byte limit is in      *)
(* module EventSpan.                                                       *)
(***************************************************************************)
EXTENDS WindowRouter

VARIABLE buf  \* self; events is what parts holds, done what push returns

bufVars == <<vars, buf>>

BufInit ==
  /\ Init
  /\ buf = [events |-> <<>>, start |-> None, lastEvent |-> None, id |-> 0, resets |-> 0,
            discarded |-> 0, prevBatch |-> None, prevRos |-> None, nonzero |-> FALSE,
            missing |-> 0, done |-> <<>>]

\* reset
BufReset(b) ==
  [b EXCEPT !.discarded = @ + Len(b.events), !.events = <<>>, !.start = None,
            !.lastEvent = None, !.resets = @ + 1]

\* The cuts of push: a segment ends before an event that is earlier than its
\* predecessor, or much later.
SegmentEnds(events) ==
  {k \in DOMAIN events :
     k < Len(events) => \/ events[k + 1] < events[k]
                        \/ events[k + 1] - events[k] > MaxGap}

\* The segment that ends with event n
Segment(events, n) ==
  LET first == CHOOSE m \in 1..n : /\ m > 1 => m - 1 \in SegmentEnds(events)
                                   /\ \A k \in m..(n - 1) : k \notin SegmentEnds(events)
  IN SubSeq(events, first, n)

\* The events before the end of the window, which searchsorted finds in each
\* part and which go on to the next part only if it is all of them.
InWindowClosed(b, t) == t <= b.start + Window
InWindow(b, t) == t < b.start + Window

Cut(b) ==
  CHOOSE n \in 0..Len(b.events) :
    /\ \A i \in 1..n : InWindow(b, b.events[i])
    /\ n < Len(b.events) => ~InWindow(b, b.events[n + 1])

\* One round of the while loop of _append_segment; without an event before its
\* end the window was empty.
CutWindow(b) ==
  LET n == Cut(b)
      next == [b EXCEPT !.start = @ + Window]
  IN IF n = 0 THEN next
     ELSE [next EXCEPT !.events = SubSeq(@, n + 1, Len(@)), !.id = @ + 1,
             !.done = Append(@, [id |-> b.id + 1, start |-> b.start, first |-> b.events[1],
                                 last |-> b.events[n], count |-> n, resets |-> b.resets])]

\* The rounds: while the last event is at or past the end of the window.
CutAll(b) ==
  LET rounds == (b.lastEvent - b.start) \div Window
      cut[k \in 0..rounds] == IF k = 0 THEN b ELSE CutWindow(cut[k - 1])
  IN cut[rounds]

\* _append_segment, behind the test for a gap that push makes of its first event
BufOpen(b, t) ==
  LET a == IF TimeGap(b, t) THEN BufReset(b) ELSE b
  IN IF a.start = None THEN [a EXCEPT !.start = t] ELSE a

AppendSegment(b, segment) ==
  CutAll([BufOpen(b, segment[1]) EXCEPT !.events = @ \o segment,
                                        !.lastEvent = segment[Len(segment)]])

AppendAll(b, events) ==
  LET f[k \in 0..Len(events)] ==
        IF k = 0 THEN b
        ELSE IF k \in SegmentEnds(events) THEN AppendSegment(f[k - 1], Segment(events, k))
        ELSE f[k - 1]
  IN f[Len(events)]

\* push
BufPush(b, r, n, events) ==
  LET a == Observe([b EXCEPT !.done = <<>>], r)
      c == IF RosGap(b, r) \/ BatchGap(b, n) THEN BufReset(a) ELSE a
  IN AppendAll([c EXCEPT !.prevBatch = n], events)

PushBoth ==
  /\ seq < MaxPushes
  /\ \E lost, gone \in 0..MaxLost, events \in Batches :
       /\ PushBatch(lost, gone, events)
       /\ buf' = BufPush(buf, ros', seq', events)

\* reset_catchup_state
ResetBoth ==
  /\ ResetGeneration
  /\ buf' = [BufReset(buf) EXCEPT !.discarded = buf.discarded, !.prevBatch = None,
               !.prevRos = None, !.done = <<>>]

BufNext == PushBoth \/ ResetBoth

BufSpec == BufInit /\ [][BufNext]_bufVars

-----------------------------------------------------------------------------
(* The router, which never holds a window's events, cuts every stream as   *)
(* the buffer does: the same windows with the same bounds, numbers and     *)
(* reset counts, the same events discarded and messages missed, and the    *)
(* same partial window behind it.                                          *)
Outline(w) == [id |-> w.id, start |-> w.start, first |-> w.first, last |-> w.last,
               count |-> w.count, resets |-> w.resets]
Outlines(ws) == [i \in DOMAIN ws |-> Outline(ws[i])]

Matches(b, r) ==
  /\ b.done = Outlines(r.done)
  /\ Len(b.events) = r.win.count
  /\ b.events # <<>> => b.start = r.start /\ b.events[1] = r.win.first
  /\ <<b.resets, b.discarded, b.missing, b.lastEvent>>
       = <<r.resets, r.discarded, r.missing, r.lastEvent>>

SameWindows == out = router.done /\ Matches(buf, router)

-----------------------------------------------------------------------------
(* Why they do: an inductive invariant, which holds between any two        *)
(* segments of a push                                                      *)

Outlined == [id : Nat, start : Nat, first : 0..MaxTime, last : 0..MaxTime, count : Nat,
             resets : Nat]
Buffer ==
  [events : Seq(0..MaxTime), start : Nat \cup {None}, lastEvent : None..MaxTime, id : Nat,
   resets : Nat, discarded : Nat, prevBatch : None..MaxPushes,
   prevRos : None..(RosMod - 1), nonzero : BOOLEAN, missing : Nat, done : Seq(Outlined)]

SameCounts(b, r) ==
  /\ b.resets = r.resets /\ b.discarded = r.discarded /\ b.missing = r.missing
  /\ b.prevBatch = r.prevBatch /\ b.prevRos = r.prevRos /\ b.nonzero = r.nonzero

\* The events left in the buffer are in order, none earlier than the window.
Remain(b) ==
  /\ \A i, j \in DOMAIN b.events : i < j => b.events[i] <= b.events[j]
  /\ \A i \in DOMAIN b.events : b.start <= b.events[i]

\* Between two segments they are those of the window being filled.
Between(b, r) ==
  /\ b \in Buffer /\ Remain(b) /\ SameCounts(b, r)
  /\ b.id = r.id /\ b.lastEvent = r.lastEvent /\ b.done = Outlines(r.done)
  /\ Len(b.events) = r.win.count
  /\ b.events = <<>> => b.start = None
  /\ b.events # <<>> => /\ b.start = r.start /\ b.events[1] = r.win.first
                        /\ b.events[Len(b.events)] = b.lastEvent
  /\ \A i \in DOMAIN b.events : InWindow(b, b.events[i])

BufInv == IInv /\ Between(buf, router)
=============================================================================
