------------------------------ MODULE EventSpan ------------------------------
(***************************************************************************)
(* The "event_span" voxel mode: _run_event_span_session of                 *)
(* examples/e2fai_worker.py, one thread that takes batches, lets           *)
(* EventWindowBuffer (runtime/nrv_e2fai/preprocessing.py) cut them into    *)
(* windows and infers those one by one, and the ResultProcessor it hands   *)
(* results to.                                                             *)
(*                                                                         *)
(* The receiver is processing_generation, which its reader and take() may  *)
(* advance at any time, and the events failed and done (module             *)
(* SessionReceiver); this thread tests all three without a lock. Of an     *)
(* event the buffer needs to know whether it falls into the window being   *)
(* filled, beyond it, or behind a gap (module WindowBuffer has the times). *)
(* The counters are those of the session's summary.                        *)
(***************************************************************************)
EXTENDS Integers, Sequences

CONSTANTS
  MaxGen,     \* bound: generations after the first
  MaxEvents,  \* bound: events taken
  MaxLen      \* bound: events of a batch

ASSUME BoundsAssumption == {MaxGen, MaxEvents, MaxLen} \subseteq Nat

VARIABLES
  procGen, failed, done,  \* the receiver
  pc,          \* where the session's thread is
  firstItem,   \* pending_items still holds the item run_session took
  item,        \* processing_generation of the batch just taken
  active,      \* active_generation
  buffer,      \* windows: its counts, the generations of the events it holds,
               \* the last window of two events or more since the reset
  assembled,   \* complete windows not dealt with yet
  state, stateReset,  \* the window state comes from (0: None), state_generation
  pending,     \* pending_window_events
  sum,         \* the other counters
  taken, stale,\* events taken, events of stale inferences (history)
  job          \* ResultProcessor.queue holds a job

receiverVars == <<procGen, failed, done>>
claimVars    == <<firstItem, item>>
gruVars      == <<state, stateReset>>
counters     == <<pending, sum, taken, stale>>
vars == <<receiverVars, pc, claimVars, active, buffer, assembled, gruVars, counters, job>>

None == -1
Cancelled == failed \/ done

Init ==
  /\ procGen \in 0..MaxGen /\ failed = FALSE /\ done = FALSE
  /\ pc = "top" /\ firstItem = TRUE /\ item = procGen /\ active = 0
  /\ buffer = [n |-> 0, gens |-> {}, resets |-> 0, discarded |-> 0, id |-> 0, last |-> 0]
  /\ assembled = <<>>
  /\ state = 0 /\ stateReset = None
  /\ pending = 0
  /\ sum = [inferred |-> 0, small |-> 0, window |-> 0, partial |-> 0]
  /\ taken = 0 /\ stale = 0 /\ job = FALSE

-----------------------------------------------------------------------------
(* EventWindowBuffer *)

Reset(b) == [b EXCEPT !.discarded = @ + b.n, !.n = 0, !.gens = {}, !.resets = @ + 1,
                      !.last = 0]

\* What push does with one event; r carries the buffer and the windows done.
Route(r, event) ==
  LET b == IF event = "gap" THEN Reset(r.buf) ELSE r.buf
      ends == event = "beyond" /\ b.n > 0
  IN [buf |-> [b EXCEPT !.n = IF ends THEN 1 ELSE @ + 1,
                        !.gens = (IF ends THEN {} ELSE @) \cup {r.gen},
                        !.id = IF ends THEN @ + 1 ELSE @,
                        !.last = IF ends /\ b.n > 1 THEN b.id + 1 ELSE @],
      gen |-> r.gen,
      windows |-> IF ends
                  THEN Append(r.windows, [id |-> b.id + 1, n |-> b.n, gens |-> b.gens,
                                          reset |-> b.resets, prev |-> b.last])
                  ELSE r.windows]

Pushed(b, events, gen) ==
  LET f[i \in 0..Len(events)] ==
        IF i = 0 THEN [buf |-> b, gen |-> gen, windows |-> <<>>]
        ELSE Route(f[i - 1], events[i])
  IN f[Len(events)]

EventsOf(windows) ==
  LET f[i \in 0..Len(windows)] == IF i = 0 THEN 0 ELSE f[i - 1] + windows[i].n
  IN f[Len(windows)]

-----------------------------------------------------------------------------
(* Receiver and result thread *)

Drop ==
  /\ procGen < MaxGen
  /\ procGen' = procGen + 1
  /\ UNCHANGED <<failed, done, pc, claimVars, active, buffer, assembled, gruVars,
                 counters, job>>

\* fail() of another thread, before its error packet and after it; the end of
\* the connection or a stop signal sets done alone.
Fail ==
  /\ \/ ~failed /\ failed' = TRUE /\ UNCHANGED done
     \/ ~done /\ done' = TRUE /\ UNCHANGED failed
  /\ UNCHANGED <<procGen, pc, claimVars, active, buffer, assembled, gruVars,
                 counters, job>>

TakeJob ==
  /\ job /\ job' = FALSE
  /\ UNCHANGED <<receiverVars, pc, claimVars, active, buffer, assembled, gruVars,
                 counters>>

-----------------------------------------------------------------------------
(* Session: top -> push -> window -> forward -> check -> submit -> window,  *)
(*   and back to top when no window is left or one is given up             *)

\* What is buffered when reset_catchup_state(generation) has run: skipped, not
\* discarded.
ResetBufferKept(b) == [b EXCEPT !.resets = @ + 1]
ResetBuffer(b) == [Reset(b) EXCEPT !.discarded = b.discarded]

\* A batch bears the generation it was claimed in, the session's first item
\* the one in which run_session claimed it.
Take ==
  /\ pc = "top" /\ ~done /\ taken < MaxEvents
  /\ item' = (IF firstItem THEN item ELSE procGen)
  /\ firstItem' = FALSE
  /\ pc' = "push"
  /\ UNCHANGED <<receiverVars, active, buffer, assembled, gruVars, counters, job>>

\* Nothing to take: a new generation is noticed all the same.
IdleReset ==
  /\ pc = "top" /\ ~done /\ ~firstItem /\ active # procGen
  /\ buffer' = ResetBuffer(buffer)
  /\ sum' = [sum EXCEPT !.partial = @ + buffer.n]
  /\ state' = 0 /\ stateReset' = None
  /\ active' = procGen
  /\ UNCHANGED <<receiverVars, pc, claimVars, assembled, pending, taken, stale,
                 job>>

\* How reset_catchup_state, if the batch is of a new generation, leaves the
\* thread's data.
New == item # active
Entered == IF New THEN ResetBuffer(buffer) ELSE buffer
Partial == sum.partial + IF New THEN buffer.n ELSE 0

\* A batch is not empty; a gap in its numbers is one before its first event.
Batches == UNION {[1..n -> {"same", "beyond", "gap"}] : n \in 1..MaxLen}

Push ==
  /\ pc = "push"
  /\ \E events \in Batches :
       /\ taken + Len(events) <= MaxEvents
       /\ LET r == Pushed(Entered, events, item)
          IN buffer' = r.buf /\ assembled' = r.windows /\ pending' = EventsOf(r.windows)
       /\ sum' = [sum EXCEPT !.partial = Partial]
       /\ taken' = taken + Len(events)
  /\ state' = (IF New THEN 0 ELSE state)
  /\ stateReset' = (IF New THEN None ELSE stateReset)
  /\ active' = item /\ pc' = "window"
  /\ UNCHANGED <<receiverVars, claimVars, stale, job>>

\* recover() starts a generation, unless a drop since the claim has done so.
Recover(gen) ==
  /\ procGen = gen => procGen < MaxGen
  /\ procGen' = IF procGen = gen THEN procGen + 1 ELSE procGen

\* push reaches its byte limit after k events: they are skipped with the rest
\* of the batch, as is what was buffered before.
SkippedBatch(events, k) == Len(events) - k
Skipped(events, k) == Len(events)
Overflow ==
  /\ pc = "push" /\ Recover(item)
  /\ \E events \in Batches :
       /\ taken + Len(events) <= MaxEvents
       /\ \E k \in 0..(Len(events) - 1) :
            /\ buffer' = [Pushed(Entered, SubSeq(events, 1, k), item).buf EXCEPT
                            !.n = 0, !.gens = {}, !.discarded = Entered.discarded]
            /\ sum' = [sum EXCEPT !.partial = Partial + Entered.n,
                                  !.window = @ + Skipped(events, k)]
       /\ taken' = taken + Len(events)
  /\ state' = (IF New THEN 0 ELSE state)
  /\ stateReset' = (IF New THEN None ELSE stateReset)
  /\ active' = item /\ pc' = "top"
  /\ UNCHANGED <<failed, done, claimVars, assembled, pending, stale, job>>

\* The loop over the windows ends with them, or with the session ...
WindowsEnd ==
  /\ pc = "window" /\ (assembled = <<>> \/ done)
  /\ assembled' = <<>> /\ pc' = "top"
  /\ UNCHANGED <<receiverVars, claimVars, active, buffer, gruVars, counters, job>>

\* ... or when their generation is over, which the wait itself may bring about.
WindowStale ==
  /\ pc = "window" /\ assembled # <<>> /\ ~done
  /\ Recover(active)
  /\ sum' = [sum EXCEPT !.window = @ + pending] /\ pending' = 0
  /\ assembled' = <<>> /\ pc' = "top"
  /\ UNCHANGED <<failed, done, claimVars, active, buffer, gruVars, taken, stale,
                 job>>

WindowSmall ==
  /\ pc = "window" /\ assembled # <<>> /\ ~done /\ active = procGen
  /\ Head(assembled).n < 2
  /\ sum' = [sum EXCEPT !.small = @ + Head(assembled).n]
  /\ pending' = pending - Head(assembled).n
  /\ assembled' = Tail(assembled)
  /\ UNCHANGED <<receiverVars, pc, claimVars, active, buffer, gruVars, taken,
                 stale, job>>

\* A reset of the buffer forgets the GRU state.
StateKept(w) == state' = state
StateFor(w) == state' = IF w.reset = stateReset THEN state ELSE 0
WindowInfer ==
  /\ pc = "window" /\ assembled # <<>> /\ ~done /\ active = procGen
  /\ Head(assembled).n > 1
  /\ StateFor(Head(assembled)) /\ stateReset' = Head(assembled).reset
  /\ pc' = "forward"
  /\ UNCHANGED <<receiverVars, claimVars, active, buffer, assembled, counters, job>>

Forward ==
  /\ pc = "forward"
  /\ state' = Head(assembled).id
  /\ sum' = [sum EXCEPT !.inferred = @ + Head(assembled).n]
  /\ pending' = pending - Head(assembled).n
  /\ pc' = "check"
  /\ UNCHANGED <<receiverVars, claimVars, active, buffer, assembled, stateReset,
                 taken, stale, job>>

\* A nonfinite output, or an exception, which leaves the loops at once: fail().
ForwardFails ==
  /\ pc = "forward"
  /\ failed' = TRUE /\ done' = (done \/ ~failed)
  /\ pc' \in {"top", "closed"} /\ assembled' = <<>>
  /\ UNCHANGED <<procGen, claimVars, active, buffer, gruVars, counters, job>>

\* A stale inference is counted a second time, with the windows behind it.
Check ==
  /\ pc = "check"
  /\ IF active = procGen
     THEN pc' = "submit" /\ UNCHANGED <<assembled, state, pending, sum, stale>>
     ELSE /\ stale' = stale + Head(assembled).n
          /\ sum' = [sum EXCEPT !.window = @ + Head(assembled).n + pending]
          /\ pending' = 0 /\ state' = 0 /\ assembled' = <<>> /\ pc' = "top"
  /\ UNCHANGED <<receiverVars, claimVars, active, buffer, stateReset, taken, job>>

\* ResultProcessor.submit
Submit ==
  /\ pc = "submit"
  /\ IF Cancelled THEN assembled' = <<>> /\ pc' = "top" /\ UNCHANGED job
     ELSE /\ active = procGen => ~job
          /\ job' = (job \/ active = procGen)
          /\ assembled' = Tail(assembled) /\ pc' = "window"
  /\ UNCHANGED <<receiverVars, claimVars, active, buffer, gruVars, counters>>

Close ==
  /\ pc = "top" /\ done
  /\ pc' = "closed"
  /\ UNCHANGED <<receiverVars, claimVars, active, buffer, assembled, gruVars,
                 counters, job>>

-----------------------------------------------------------------------------
Session == \/ Take \/ IdleReset \/ Push \/ Overflow \/ WindowsEnd \/ WindowStale
           \/ WindowSmall \/ WindowInfer \/ Forward \/ ForwardFails \/ Check
           \/ Submit \/ Close

Next == Session \/ Drop \/ Fail \/ TakeJob

Spec == Init /\ [][Next]_vars

-----------------------------------------------------------------------------
(* Properties *)

\* The summary accounts for every event taken, through recoveries, gaps, byte
\* limits, stale inferences (counted twice) and the end of the session: until
\* a failure, each was inferred, was in a window too small, was skipped with a
\* window or with a partial one, was discarded by a gap, or is still in a
\* window, complete or not.
EventsAccounted ==
  ~failed =>
    taken + stale = sum.inferred + sum.small + sum.window + sum.partial + pending
                      + buffer.discarded + buffer.n

\* No window mixes generations: what a recovery finds in the buffer never ends
\* up in a window inferred after it (reset_catchup_state).
WindowsOneGeneration ==
  /\ buffer.gens \subseteq {active}
  /\ \A i \in DOMAIN assembled : assembled[i].gens = {active}

\* The GRU state is carried only to the next window of two events or more,
\* never over a reset, a generation or windows skipped.
StateContinuous ==
  [][Forward /\ ~failed /\ state # 0 => Head(assembled).prev = state]_vars
-----------------------------------------------------------------------------
(* Why they hold: an inductive invariant                                   *)

Windows == [id : Nat, n : Nat, gens : SUBSET Nat, reset : Nat, prev : Nat]
Counts  == [inferred : Nat, small : Nat, window : Nat, partial : Nat]
Buffers == [n : Nat, gens : SUBSET Nat, resets : Nat, discarded : Nat, id : Nat, last : Nat]

TypeOK ==
  /\ procGen \in Nat /\ item \in 0..procGen /\ active \in 0..procGen
  /\ failed \in BOOLEAN /\ done \in BOOLEAN /\ job \in BOOLEAN
  /\ firstItem \in BOOLEAN
  /\ pc \in {"top", "push", "window", "forward", "check", "submit", "closed"}
  /\ state \in Nat /\ stateReset \in Nat \cup {None}
  /\ sum \in Counts
  /\ pending \in Nat /\ taken \in Nat /\ stale \in Nat

\* What is in the buffer and in the windows ws is of one generation.
OneGeneration(b, ws, gen) ==
  /\ b.gens = IF b.n > 0 THEN {gen} ELSE {}
  /\ \A i \in DOMAIN ws : ws[i].gens = {gen}

\* ws[i] is the first window of two events or more behind ws[h] (h = 0: of all).
Follows(ws, h, i) == h < i /\ ws[i].n > 1 /\ \A k \in (h + 1)..(i - 1) : ws[k].n < 2
LastOf(ws, h) == \A k \in (h + 1)..Len(ws) : ws[k].n < 2

\* Each of these windows, and the buffer behind them, names the one before it
\* since the reset.
Linked(b, ws) ==
  \A h \in DOMAIN ws : ws[h].n > 1 =>
    /\ \A i \in DOMAIN ws : Follows(ws, h, i) /\ ws[i].reset = ws[h].reset
                               => ws[i].prev = ws[h].id
    /\ LastOf(ws, h) /\ b.resets = ws[h].reset => b.last = ws[h].id

\* What pushing keeps of a buffer and the windows cut from it.
Good(b, ws, gen) ==
  /\ b \in Buffers /\ ws \in Seq(Windows)
  /\ OneGeneration(b, ws, gen)
  /\ \A i \in DOMAIN ws : ws[i].reset <= b.resets
  /\ Linked(b, ws)

\* The window that the GRU state s comes from is the one before them.
Carried(s, reset, b, ws) ==
  s # 0 =>
    /\ reset \in 0..b.resets
    /\ \A i \in DOMAIN ws : Follows(ws, 0, i) /\ ws[i].reset = reset => ws[i].prev = s
    /\ LastOf(ws, 0) /\ b.resets = reset => b.last = s

\* Windows not dealt with yet, while the thread is at pc
Left == IF pc \in {"check", "submit"} THEN Tail(assembled) ELSE assembled

\* The state will go on to the next batch: none of its windows was skipped, and
\* the batch is not of a new generation.
GoesOn ==
  /\ ~failed
  /\ pc = "top" => ~done /\ active = procGen
  /\ pc = "push" => item = active
  /\ pc \notin {"forward", "closed"}

AtPc ==
  /\ pc \in {"top", "push"} => assembled = <<>>
  /\ pc \in {"forward", "check", "submit"} =>
       assembled # <<>> /\ Head(assembled).n > 1 /\ stateReset = Head(assembled).reset
  /\ pc \in {"window", "forward", "check", "submit"} => pending = EventsOf(Left)
  /\ ~failed /\ (pc = "push" \/ (pc = "top" /\ ~done)) => pending = 0
  /\ firstItem => pc \in {"top", "closed"} /\ state = 0
  /\ GoesOn => Carried(state, stateReset, buffer, Left)
  /\ pc = "forward" /\ ~failed /\ state # 0 => Head(assembled).prev = state

IInv == TypeOK /\ EventsAccounted /\ Good(buffer, assembled, active) /\ AtPc
=============================================================================
