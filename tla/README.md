# NRV_Demo: specification and verification

NRV_Demo streams the events of a neuromorphic camera through a GPU network (E2FAI) and shows
intensity and flow images live. What the program must get right is not the arithmetic but the
traffic: several processes and many threads, a chain of bounded buffers, and the rule that when
anything falls behind, the *oldest* data is given up, everybody who still holds some of it
finds out, and nothing computed across the hole is ever shown. The modules in this directory
state that rule and its relatives and check them.

Paths are relative to the repository: `worker.py` is `examples/e2fai_worker.py`, `voxelizer` is
`runtime/nrv_e2fai/incremental_voxelizer.py`, `preprocessing` is
`runtime/nrv_e2fai/preprocessing.py`, `bridge` is `ros_ws/src/nrv_demo/src/e2fai_bridge.cpp`,
`protocol` is `ros_ws/src/nrv_demo/scripts/e2fai_protocol.py`, `gui.py` is
`ros_ws/src/nrv_demo/scripts/gui.py`.

Contents: 1 the system, 2 modules and code, 3 runs and bounds, 4 fairness, 5 where the code
and its documents part, 6 proofs, 7 what is not modelled, 8 plan, 9 running the tools.

## 1. The system

```
camera -> SDK driver -> dvs_adapter --/dvs/events--> E2faiBridge =====TCP, NEF1===== host worker
                            |                          |   ^                          |
                            +--raw image--> GUI <------+   +------ results, statuses -+
                                             |
                                        roslaunch process (start, SIGINT)

host worker:  reader --> host FIFO --> builder --> 3 voxel slots --> inference --> 1 job --> results
              (SessionReceiver)       (router)     (IncrementalVoxelizer)      (ResultProcessor)
```

| Component | State it keeps | Operations | Talks to |
|---|---|---|---|
| **ROS bridge** (`E2faiBridge`) | `queue_` of numbered batches, `bridge_generation_`, `state_`, `processing_generation_`, `stopped_`, the socket; three mutexes | `onEvents`, `markCatchingUp`, `sendLoop`, `receiveLoop`, `publishResult`, `pause`, `closeQueue`, `shutdownSocket`, `close` | subscribes `/dvs/events`; TCP to the worker; publishes results and statuses |
| **Host session receiver** (`SessionReceiver`) | the FIFO, `processing_generation`, `generation_claimed`, `catching_up`, `status_pending`, `failed`, `done`, `recovery_lock`, `send_lock` | `_run` (reader), `take`, `recover`, `stale`, `send`, `send_status`, `result_sent`, `fail`, `close` | every worker thread |
| **Host event FIFO** (`BoundedEventQueue`) | `items`, `bytes` | `get`, `clear`, `trim`, `put`, `snapshot` | called by the receiver under `recovery_lock` |
| **Window router** (`IncrementalWindowRouter`) | open window, last event time, last batch and ROS numbers, reset and loss counters | `push`, `reset` | fed by the builder; drives the voxelizer |
| **Voxel pool and pipeline** (`IncrementalVoxelizer`, `IncrementalSessionPipeline`, `_run_incremental_session`) | three slots, `current`, `ready_slots`, `active_generation`, the GRU state and the generation and reset it belongs to | `append`, `finish_window`, `abort_current`, `invalidate_generation`, `acquire_ready`, `release`, `close`; the builder and inference loops | take from the FIFO; hand a job to the result thread |
| **Result processor** (`ResultProcessor`) | a queue of one job | `submit`, `_process`, `_run`, `close` | sends results and statuses |
| **GUI session control** (`NoiseWindow`) | the roslaunch process, `session_id`, `restart_pending`, `stopping`, `closing`, latest frames, `model_generation` | `start`, `stop`, `apply_parameters`, `interrupt`, `finished`, `closeEvent`, `on_model_result`, `on_model_status`, `refresh` | starts the ROS side; subscribes its results |
| **Microbatch staging and streams** (`IncrementalVoxelizer` on CUDA) | pinned buffers, `current_staging`, `next_staging`, two streams, the events recorded on them | `_claim_staging`, `append`, `flush`, `flush_due`, `inference_scope`, `_enqueue_clear`, `close` | the GPU, which runs behind the host |
| **Event-span session** | `EventWindowBuffer`, GRU state, `active_generation`, `pending_window_events`, the summary's counters | `_run_event_span_session`, `push`, `reset`, `reset_catchup_state` | the other voxel mode, on one thread: takes from the FIFO, hands a job to the result thread |
| **NEF1 framing** | what is written and read of a packet; the socket | `send_packet`, `recv_packet`, `sendPacket`, `receiveAll`, `send`, `fail` | both ends of the TCP connection |
| Camera adapter | message counters, recording | `dvs_adapter_nodelet.cpp` callbacks | publishes `/dvs/events` |
| Timestamp decoder | last timestamp and roll-over | patched SDK decoder | inside the driver |
| Recorders, capture monitor, scripts | samples, counters | statistics and orchestration | beside the data path |
| Network, images | weights | floating-point inference and rendering | called by the inference and result threads |

**Two generations.** The bridge counts the times *it* had to drop batches
(`bridge_generation`) and tags what it sends. The worker counts the times either side dropped
(`processing_generation`) and tags what it claims, infers and returns. Each consumer compares
tags with a counter that somebody else may advance at any moment, often without the lock under
which it is written. That is where most of the hard behaviour is.

**What is hard.**

* Reads of `processing_generation` without `recovery_lock` (`stale`, the builder's and the
  inference loop's tests), used later. A drop may fall in between.
* A status is popped under one lock, checked outside both, and sent under another.
* The bridge tests `stopped_` or `bridge_generation_` under one mutex and acts on it under
  another; `stopped_` is set outside all of them.
* Three finite buffers in a row with different rules when full: the bridge queue and the host
  FIFO shed, the voxel pool and the job slot make their producer wait.
* Failures of any thread at any time, which must end the session exactly once, release everyone
  who waits, and be reported as a failure.
* The GPU runs what was queued at any later time, on two streams, while the host already reuses
  the pinned buffer, the slot, or both.
* A socket with a one-second timeout, shared by threads that may all fail: a packet may be torn,
  and the next one is then written into the middle of it.
* The event-span thread holds windows cut from a batch while the generation they belong to ends;
  what it gives up has to appear in exactly one counter.
* Window arithmetic: half-open intervals, empty windows, time that goes back, a 32-bit ROS
  counter that wraps or that nobody increments.
* In the GUI: process notices queued behind posted events, a restart pending while the user
  presses Stop, results of a session that has already ended; a signal handler that closes the
  window inside any of these, or while the lock it needs is held.

**What correctness means**, component by component: the FIFO holds the newest unbroken run of
batches under the current generation; no window or GRU state spans a lost batch; no stale result
is published or shown, nor ends a catch-up; every change of state is announced; every event is
in one window or in one counter; a slot has one owner; the network reads the events of its window
and no others; packets arrive whole and in order; wake-ups are not lost; a failure ends the
session and is reported; `close()` returns; what the user asked for happens.

## 2. Modules and code

| Module | Models | State and actions |
|---|---|---|
| `SessionReceiver` | the receiver and result thread of one session (worker.py 164-347, 365-500), with the builder and inference threads as their clients | `procGen`, `claimed`, `catchingUp`, `statusPending` are the attributes; each block under `recovery_lock` is one action (`ReaderAccept`, `Take`, `SkipRecover`, `PopStatus`, `ResultSent`). `send` is two actions around the variable `lock`, `fail` is four. Sizes and ages are abstracted: a trim removes any number of the oldest batches that the batch limits allow |
| `EventQueue` | the exact shedding rule of `BoundedEventQueue.trim` (worker.py 90-122) by bytes, number and age | the calls the receiver makes: `Receive`, `Take`, `Recover`, `ResultSent`, and the clock |
| `FreshFifo` | what the FIFO promises: order, whole batches, only the oldest lost, half a limit shed when full | the abstract specification that `EventQueue` implements (`FifoImplemented`) |
| `WindowRouter` | which events make a window (preprocessing 258-419) | `Push` is a whole `push`; `ResetGeneration` the builder's `_reset_generation` |
| `WindowBuffer` | `EventWindowBuffer` (preprocessing 23-166), which cuts the same stream in another way | extends `WindowRouter`; each of its steps is a step of both (`PushBoth`, `ResetBoth`) |
| `VoxelPipeline` | builder loop, three slots, inference loop (voxelizer; worker.py 519-731) | one action per operation under the voxelizer's condition; each unlocked read of the generation is a step of its own |
| `VoxelStreams` | what the GPU does behind those slots (voxelizer 54-395) | `vStream` and `iStream` are the operations queued and not run yet, `VRun` and `IRun` run one; a CUDA event is the position in its stream at which it was last recorded; the builder's and inference's actions are the voxelizer's methods |
| `EventSpan` | the event-span session (worker.py 771-960) | `pc` is the thread's place in its loop, with a step wherever it tests the generation, `failed` or `done`; `sum`, `pending` and `buffer.discarded` are the summary's counters |
| `Framing` | NEF1 packets on the connection (protocol 26-76, worker.py 194-277, bridge 377-449, 514-564) | a packet is a sequence of cells; `Write` and `Recv` move one; `holder` is `send_lock`, `GiveUp` a timeout, a dead peer or a stop in the middle |
| `E2faiBridge` | the bridge's three threads (bridge 105-564) | one action per critical section; `ppc` is each thread's place inside `pause()` |
| `GuiSession` | sessions, parameters, freshness of the two model views (gui.py) | one action per Qt event or ROS callback; `refresh` is split at its two lock regions. SIGINT and SIGTERM close the window between two handlers or inside `refresh` (`Close`), inside `start` or `apply_parameters` (`SignalInStart`, `SignalInApply`), or under the lock (`SignalUnderLock`) |
| `TimestampDecoder` | sensor time in the patched decoder (`group_aer_timestamps.patch`) | `Reference` and `Sub` are the two kinds of time words; the actions are the camera's, which may send any word at any time; `told` and `onward` record what its words so far let a decoder know |
| `SessionReceiverProofs`, `EventQueueProofs`, `WindowRouterProofs`, `VoxelPipelineProofs`, `VoxelStreamsProofs`, `EventSpanProofs`, `E2faiBridgeProofs` | | the theorems of section 6, about the module each is named after; `WindowRouterProofs` also about `WindowBuffer` |
| `PeripheryProofs` | | the theorems about `Framing`, `GuiSession` and `TimestampDecoder` |
| `MC...` | | instances for TLC; bounds are in the `.cfg` files |

How they fit. `SessionReceiver` leaves open *how much* a trim sheds, `EventQueue` leaves open
*who* calls and is checked to implement `FreshFifo` by a refinement mapping of `fifo`, `last` and
`got`. `SessionReceiver` shows windows only by the last batch that completed them and leaves
`FinishWindow` open; `VoxelPipeline` has the slots behind it and in turn sees the receiver only as
a generation that may advance at any time, as does `EventSpan`. Which windows `VoxelPipeline`
ends, aborts or invalidates is open in `VoxelStreams`, where any may be. In
`VoxelPipeline` a batch routes to any sequence of chunks, window ends and resets; `WindowRouter`
says which, and `WindowBuffer` that the event-span session would cut the same windows. `E2faiBridge` accepts anything from its worker, or, with `OrderedWorker`, only what
`WireGenerationsMonotone` and `ConnectedMeansFresh` of `SessionReceiver` allow; conversely
`ReaderAccept` takes from the bridge only what `SkipsMarked` promises: a gap in `batch_seq`
always comes with a new bridge generation. In both a packet is one step or a failure; `Framing`
is the reason: what the reader accepts is what was sent, in order, up to the point where the
session ends. `GuiSession` takes results and statuses of any
session and generation, in any order, since they travel on two topics.

Atomicity. A step is what a lock makes atomic, or one unlocked read or write. Loops that only
poll are not stepped. A batch is its number, tags and, where a rule looks at it, its size and
callback time; payloads, counters that nothing reads back, logging and metrics are left out.
Definitions whose names say what they do wrong (`NextGenAlwaysMerge`, `AdvanceOnce`,
`EnqueueAnyway`, ...) are alternative forms of the definition next to them; they are in no
specification and serve to see that a property notices the bug they stand for.

## 3. Runs

| Run | Bounds | States | What it shows |
|---|---|---|---|
| `receiver` | 3 batches, FIFO limit 2, pool 1, `fail()` from reader and results | 0.8 M | `TypeOK`, `QueueIsFreshSuffix`, `NoStatusLost`, `NoResultAfterError`, `ClaimsContiguous`, `ConnectedMeansFresh`, `WireGenerationsMonotone`, `NewGenerationAnnounced` |
| `event_queue` | 5 batches of sizes 1, 3, 4, 8; limits 4 batches, 8 bytes, trigger 6, target 3; waits 2 and 1; time to 4 | 0.1 M | `BytesExact`, `TakenFresh`, `NewestKept`, `FifoImplemented` |
| `window_router` | window 2, gap 3, times 0..4, three pushes of up to two events, one loss at a time, ROS counter modulo 6 | 0.3 M | `EventsConserved`, `WindowsOnGrid`, `LossesNoticed`, `SameWindows` |
| `voxel_pipeline` | 3 slots, 1 further generation, 3 windows, 1 gap | 0.4 M | `PoolConsistent`, `SlotMatchesRouter`, `StateContinuous`, `SlotsReleased` |
| `voxel_streams` | 3 slots, 2 buffers of 2 events, 5 events | 1.6 M | `InferenceReadsWindow`, `StagingIntact`, `StagedOfCurrent`, `ClosedIdle` |
| `event_span` | 6 events in batches of up to 3, 2 further generations | 0.3 M | `EventsAccounted`, `WindowsOneGeneration`, `StateContinuous` |
| `framing` | 2 sending threads, 3 packets and errors of 8 and 4 cells, a socket that holds 2 | 0.2 M | `DeliveredInOrder`, `EventsEndTruly`, `FailureEnds` |
| `bridge` | 3 batches of sizes 1, 3, 5 (oversized); limits 4 batches and 4 bytes; any worker | 0.8 M | `QueueIsTaggedSuffix`, `BatchesAccounted`, `SenderAwake`, `SkipsMarked`, `PublishedNotStale`, `StopReleases` |
| `gui_session` | 3 starts, 2 changes of parameters, generations to 3 | 0.1 M | `TypeOK`, `PresentedFresh`, `StopFinal`, `AskedHappens` |
| `pipeline_current_ready`, `bridge_failure`, `bridge_catchup` | small | | counterexamples, section 5 |

Each property is stated, with the code it is about, in the comment above its definition. Types are
a part of `QueueIsTaggedSuffix`, `PoolConsistent`, `WindowsOnGrid` and `BytesExact` in the modules
that have a `TypeOK` and no line for it here.

Why the bounds are enough. *Receiver*: a race here takes an old claim, a drop, and a newer
claim, so three batches; with a limit of two the FIFO fills at the second, and both kinds of drop
(the bridge's and the host's own) and the builder's skip can each happen and merge. One window and
one job suffice because each later stage holds one more item of an older generation. At this
limit a trim keeps one batch; the theorems of section 6 hold for every limit. *EventQueue*: the
sizes hit the trigger and target exactly, one below, and one above; a single batch may exceed every
limit; five batches let the batch limit bind without the bytes. *Router*: five time points and a
window of two give boundary hits, an empty window passed over, a gap one past the limit and time
going back; the modulus 6 lets the counter wrap within three messages while a loss remains shorter
than half the range, which is the condition (`LostAssumption`) under which the code's modular
comparison can tell a loss from a restart. *Pipeline*: three slots as in the code; three windows
exhaust them all while a fourth waits, and a window released makes a slot be used again; one
further generation puts a recovery before, between and behind every two steps of both threads.
*Streams*: five events make two full microbatches and one that is not full, so that the first
buffer is claimed again while its transfer may still be due, and windows of any split of them.
*Event span*: a batch of three events holds a window of two, one that is too small and a beginning;
two further generations let a recovery be followed by another before the thread has noticed the
first. *Framing*: a socket that holds half an error packet tears every packet at every cell; with
three packets an undisturbed one comes before and after the one torn, and both threads may add
their error. Cells of a byte each would add only more places within the header, metadata or
payload. *Bridge*: sizes 1, 3 and 5 against a payload limit of 4 make the
queue overflow with an older batch retained or none, and a message oversized; a third batch comes
after an overflow and may overflow again. The limit on the number binds in the two counterexample
runs, where it is 2. *GUI*: two restarts after a first start;
a signal may come at every step of them.

`CHECK_DEADLOCK FALSE` stands in the configurations because sessions end: a finished session, a
closed window or a joined bridge has no further step.

## 4. Fairness

* `SessionReceiver`: the result thread polls its queue every 50 ms and its socket has a one-second
  timeout, so `Results` is weakly fair; likewise each step inside `fail()`, because `send_lock` is
  held only across one bounded write. Nothing is assumed of the reader, the builder, inference or
  the bridge: announcing a generation must not depend on a result (this is what
  `NewGenerationAnnounced` is about).
* `Framing`: a write proceeds or times out, so `Write` or `GiveUp` is weakly fair for each thread;
  a thread inside `fail()` goes on, and gets `send_lock` because a failed session starts no result
  and only finitely many statuses and errors; the owner of a session that is done shuts its
  connection down, and the peer reads what arrives.
* `VoxelStreams`, `EventSpan`, `WindowRouter`, `EventQueue`: none, they state safety only.
* `VoxelPipeline`: builder and inference are weakly fair; their waits time out and test
  `cancelled`, except those for a slot and for the job slot, which are enabled only by the other
  threads and so are not assumed to end. The result thread takes jobs only while the session lasts.
* `E2faiBridge`: a thread runs until it blocks. `connect`, `send` and `recv` are promised nothing
  while the socket is open; once `shutdown` was called, they return. No callback need arrive.
* `GuiSession`: Qt serves posted events and finishes a refresh (weak); a started process runs or
  fails, and roslaunch ends after a SIGINT. The last two are strong, because notices wait behind
  posted events and refreshes. No process need end on its own, no user need act, and no message
  need come. Once a signal has found the lock held (`stuck`) the Qt thread does nothing any more.

## 5. Where the code and its documents part

Each is a counterexample run with one property that states what the repository itself says.

1. `pipeline_current_ready` / `CurrentReadyKept`. The design
   (`docs/三体素增量体素化实施方案.md:263`, `:265`) says a recovery discards old READY voxels and
   keeps the newest. `acquire_ready` (voxelizer 314-330) compares with the generation its caller
   read at the top of its loop. If a recovery *and* a complete new window fall between, it clears
   the new generation's window and returns nothing. The session goes on; one fresh window is lost.
2. `bridge_failure` / `FailureReported`. `tests/test_e2fai_cpp_bridge.py:135` expects a session
   with an error to end with `stop_reason == "failure"`. `close()` derives that from
   `state_ == "paused"`, and the reader can overwrite `"paused"`: it does not test `stopped_`
   between `recv` and its update (552), nor between 492 and 501. So after `pause()` in the sender
   or in `onEvents` the summary can say `acquisition_stopped` beside a non-zero error count. When
   the reader itself pauses, nothing overwrites it.
3. `bridge_catchup` / `ConnectedByFreshResult`. `docs/E2FAI自动追赶与短测.md:21` says a bridge
   that is catching up is `connected` again after the first valid *new* result. The bridge
   generation is tested under `queue_mutex_` (494) and `"connected"` set later under
   `state_mutex_` (501), so an overflow in between is hidden by an older result; a worker status,
   which has no bridge generation, does the same at 552.

Runs 2 and 3 use `OrderedWorker = TRUE`, so they do not depend on a misbehaving worker.

A fourth has no run of its own. The repository's `README.md` says (line 37) that "Closing the GUI or pressing
Ctrl+C stops the GPU process and releases its port". The GUI's handlers for SIGINT and SIGTERM
(gui.py 585-586) call `window.close()` on the main thread between any two bytecodes, and
`closeEvent` ends in `interrupt`, which takes `self.lock` (318). If the main thread holds that lock
already (297, 318, 351, 447, 468), it waits for itself, since a `threading.Lock` (32) is not
reentrant, and neither the acquisition nor the window ends. `SignalUnderLock` is this step;
`AskedHappens` excepts what follows it, so that it still says something of every other execution.
Elsewhere a handler does less harm, and the properties say what is left: inside `start`, behind its
test of the process, the window closes and the process is started all the same (`SignalInStart`);
inside `refresh`, results of the session just closed are still presented, since the second test
(469) is of the generation only (`PresentedFresh`).

Three more observations, which contradict no document:

* The event-span summary counts the events of a stale inference twice (worker.py 919 and 923);
  `EventsAccounted` has a term for them, `stale`.
* After `failed` and before `done` a refused `submit` leaves `pending_window_events` to be
  overwritten by the next batch (856), so `EventsAccounted` speaks of sessions that have not failed.
* A result torn by a send timeout is followed by error packets, whose bytes can complete its
  payload if the sizes happen to fit. Nothing in NEF1 detects that: at most one such result is
  handed on, as the last of its session (`DeliveredInOrder`). A header or JSON text put together
  from two packets is refused, and the bridge pauses.

## 6. Proofs

Each theorem holds for every value of the constants that its module's named assumptions allow:
any number of batches and events, any limit, pool size, number and size of buffers, any set of
failing threads. The assumptions say that sizes and limits are positive, that the byte
target is below its trigger, which is at most the byte limit, and the waiting target below its
limit, that there are at least two staging buffers, and, for the router, how much may be lost at once
(`LostAssumption`). Most proofs go through an inductive invariant `IInv`, stated at the end of the
component's module; TLC was given it as an invariant on the run's instance before it was proved.

### Receiver (`SessionReceiverProofs`)

| Theorem | Statement |
|---|---|
| `TypeCorrect` | `Spec => []TypeOK`, including that the FIFO is below its limit between steps, or holds one batch |
| `FreshSuffix` | `Spec => []QueueIsFreshSuffix` |
| `Contiguous` | `Spec => ClaimsContiguous` |
| `ConnectedFresh` | `Spec => ConnectedMeansFresh` |
| `WireMonotone` | `Spec => WireGenerationsMonotone` |
| `StatusKept` | `Spec => []NoStatusLost` |
| `SilentAfterError` | `Spec => []NoResultAfterError` |
| `Invariance` | `Spec => []IInv`, the conjunction of what the others use |

*Argument.* Only three actions touch the FIFO: `ReaderAccept`, `Take`, `SkipRecover`. Lemmas
`AcceptEffect`, `TakeEffect` and `SkipEffect` say, element by element, what each leaves (from
`RetagNewest`: discarding and retagging; `DiscardsBound`: how far a trim goes), so that the rest
of the proof does not meet `SubSeq` and `Append` again. For every other action, frame lemmas
(`InputUnchanged`, `ClaimedUnchanged`, ...) say what it leaves alone.

`QueueIsFreshSuffix` is not inductive together with what `ClaimsContiguous` needs: that the last
claim, when it is of the current generation, is what stood right before the FIFO's head. That is
`ClaimInv`; it holds across a merged recovery only because `generation_claimed` is cleared by
every drop, and the generation may be reused only while it is unset. `NoResultAfterError` needs
`EndInv`: `send_lock` is held exactly during a result's write, and whoever sends an error packet
has already set `failed`, which `send` tests under that lock.

`ConnectedMeansFresh` is about every item between the FIFO and the wire. `FreshInv` says that an
item of the current generation was received behind the last drop, wherever it is, and
`dropMark + Len(queue) <= arrived` that this goes for what is queued: *a drop leaves no work of
the current generation behind it.* The rest is about who announces: a step outside the result
thread either drops, and then `catching_up` is what is pending, or announces nothing. With
`StatusInv`, what the result thread has popped or is about to write is never older than what it
wrote, and never newer than `processing_generation`; this is `WireGenerationsMonotone`.

### Host FIFO (`EventQueueProofs`)

| Theorem | Statement |
|---|---|
| `BytesAreExact` | `Spec => []BytesExact`: the byte counter is the sum of the batches held, and once a call has returned neither limit is reached, except that with `--queue-batches 1` (`worker.py:1066`) one batch may stay |
| `TakenAreFresh` | `Spec => TakenFresh` |
| `NewestIsKept` | `Spec => NewestKept` |
| `Implements` | `Spec => FifoImplemented`: the FIFO implements `FreshFifo` |

*Argument.* `trim` removes the oldest batch until the targets are met. That loop ends with the
fewest removals that do it: an empty FIFO meets them (`EmptyWithin`), so there is such a number,
and `LeastNatural` gives the least (`ShedIs`). So the proof has the loop's
postcondition and, from minimality, that one removal fewer would not have done. `BytesExact` is
inductive with the type invariant alone. `NewestKept` and the refinement use minimality: a suffix
that already meets the targets is not cut further, and the newest batch alone is one. For
`Implements` the refinement mapping keeps of each batch its number (`Numbers`); lemmas
`ReceiveOffers`, `TakeImplements` and `RecoverSheds` map each call to a step of `FreshFifo`, and
time passing to a stutter.

### Window router and buffer (`WindowRouterProofs`)

| Theorem | Statement |
|---|---|
| `OnTheGrid` | `Spec => []WindowsOnGrid` |
| `LossesAreNoticed` | `Spec => []LossesNoticed` |
| `Conserved` | `Spec => []EventsConserved` |
| `Invariance` | `Spec => []IInv`, on which the three before rest |
| `SameCuts` | `BufSpec => []SameWindows` |
| `BufInvariance` | `BufSpec => []BufInv`, on which `SameCuts` rests |

*Argument.* A push is a recursive function over its events, so the router's part of the invariant
(`OpenInv`, `DoneInv`) holds between any two events: `RouteKeeps` for one, in the three stages
`Open`, `Advance` and `Put`; `RouteAllKeeps` for a batch. A window that has ended lies `Behind` the
one being filled: at least a window earlier, and by a multiple of the window length. The code
passes empty windows in a loop; that they do not move the grid is `BehindFurther`, a matter of
quotients and remainders (`Division`, `MultipleAdded`) which the solver does not settle by itself
for a window of unknown length. For losses, `NumbersInv` says what the router remembers of the
batch before: its numbers, or nothing, and then no event of it either, which is why a recovery may
forget them. `Observed` shows that the distance modulo the range of the publisher's count is the
number lost, plus one, provided that less than half the range is lost at once (`LostAssumption`);
and `LossResets` that each loss resets the router, so that the window being filled has seen none.

*The buffer.* `EventWindowBuffer` reaches the same windows on another path: where the router ends a
window with the event behind it, the buffer first takes a whole segment and then cuts windows off
its front. The two agree only between segments (`Between`, the buffer's part of `BufInv`: the
same counts and windows, and in the buffer exactly the events of the window being filled; TLC finds
it invariant on the instance of the run `window_router`, too). Inside
a segment, each round of the buffer's loop answers to the events the router takes up to that
window's end. Two relations carry the induction over the rounds: `Fill`, the buffer's first *i*
events are those the router's window holds; and `Pend`, the buffer has cut off a window that the
router will finish only with its next event, and perhaps passed over empty ones. `FillAll` routes
the events of a window, `RoundFilled` and `RoundEmpty` are the two kinds of round, `AllRounds` is
the loop, `SegmentBoth` a segment and `BatchBoth` a batch. That the segments are where the router
starts afresh, once the first event of each has been compared with the last one seen, is
`StepsThrough`: within a segment the router never opens a window anew.

### Session pipeline (`VoxelPipelineProofs`)

| Theorem | Statement |
|---|---|
| `PoolKept` | `Spec => []PoolConsistent` |
| `Matched` | `Spec => []SlotMatchesRouter` |
| `Continuous` | `Spec => StateContinuous` |
| `Invariance` | `Spec => []IInv`, on which the three before rest |

*Argument.* First the pool, slot by slot: each operation under the voxelizer's condition gives
every slot its next role, and the READY list is what was left of it, in order (`ReadyOfEffect`:
what selecting from the list keeps). Then the windows: between two resets of the router, the
READY windows form a chain in which each names its predecessor, from the window whose state the
inference thread carries (`Anchor`) to the last one the router ended (`ChainInv`). Nothing is
ever cleared from the middle of that chain: an invalidation clears a whole generation, which is
why `ReadyInv` has all READY windows of one reset in one generation. `StateContinuous` is the
first link. `ThreadInv` says where each thread can be relative to what it read of the generation
earlier and may be stale.

### Voxels on the GPU (`VoxelStreamsProofs`)

| Theorem | Statement |
|---|---|
| `ReadsWindow` | `Spec => []InferenceReadsWindow` |
| `StagingKeptIntact` | `Spec => []StagingIntact` |
| `StagedBelongs` | `Spec => []StagedOfCurrent` |
| `ClosedMeansIdle` | `Spec => []ClosedIdle` |
| `Invariance` | `Spec => []IInv`, on which the four before rest |

*Argument.* What the GPU does lies in the future of the host, so the invariant speaks of it:
`History` is what a voxel will hold at each position of `voxel_stream` that has not been reached,
a recursive function over the operations queued. A FREE slot ends empty; the one being filled
ends with its window less what is still staged; a READY or INFERENCING one holds its window at
every position from its `fill_done_event` on (`ContentInv`). Running an operation moves the
history on by one without changing it (`HistoryTail`); queueing one extends it
(`HistoryExtends`). The network waits for the fill. Its slot is released when it has run, or at
once after a failure; then the clear queued for the slot waits for `inference_done_event`, and
stands in front of whatever else could change that voxel (`Guarded`). For the buffers, each pending transfer is the last of its
buffer and stands where that buffer's event was recorded, so a buffer whose event has passed has
no transfer (`FillInv`). `close` zeroes the slots that are left; from then on every voxel ends
empty, and after the synchronization none has anything to come.

`Clear` takes the slots in the order in which the code clears them (the current one, then the
READY list).

### Event-span session (`EventSpanProofs`)

| Theorem | Statement |
|---|---|
| `AllAccounted` | `Spec => []EventsAccounted` |
| `OneGenerationEach` | `Spec => []WindowsOneGeneration` |
| `StateContinues` | `Spec => StateContinuous` |
| `Invariance` | `Spec => []IInv`, on which the three before rest |

*Argument.* `push` is a recursive function over the events of a batch, each of which it appends to
the buffer, behind a window it ends or behind a reset. `Good` holds
between any two of them (`PushedKeeps`, by induction on the number of events): the buffer and the
windows cut so far are of one generation, and each window, and the buffer behind the last, names
its predecessor since the reset (`Linked`), windows of fewer than two events passed over as the
thread will pass over them. The same induction counts: what `push` adds to the windows, the
buffer and `discarded` are the batch's events.

The thread takes the windows off one by one, and `AtPc` says for each of its places what is left:
`pending_window_events` are the events of the windows `Left`, so that wherever the thread gives up
(a new generation, a refused job, a failure) that counter is what it gives up, which is
`EventsAccounted`. `Carried` is about the GRU state: the window it comes from is the predecessor of
the next one that will be inferred, *if the state goes on at all* (`GoesOn`). Where a recovery has
been noticed but the state not yet cleared that is false, and it need not hold: the places where
`GoesOn` fails are those from which the thread reaches `reset_catchup_state` before it infers.

### ROS bridge (`E2faiBridgeProofs`)

| Theorem | Statement |
|---|---|
| `QueueKeepsTaggedSuffix` | `Spec => []QueueIsTaggedSuffix` |
| `SkipsAreMarked` | `Spec => SkipsMarked` |
| `EveryBatchAccounted` | `Spec => []BatchesAccounted` |
| `SenderIsAwake` | `Spec => []SenderAwake` |
| `PublishedIsNotStale` | `Spec => PublishedNotStale` |
| `Invariance` | `Spec => []IInv`, on which the five before rest |

*Argument.* What is sent next `Follows` what was sent or taken last (`Tip`): the numbers are
neighbours exactly when the generations are equal. In an overflow older batches and their tag are
given up together, so the newest is retagged and follows by a gap and a new generation at once. The
case that is not obvious is the empty queue: it must remember whether anything was skipped behind
`Tip`, and it does so by `bridge_generation`, which equals `Tip`'s tag exactly when `Tip` is the
newest batch settled (`QueueInv`). `BatchesAccounted` follows from counting what each thread can
lose: the batch it holds, once, and only when it ends or the session has stopped (`LostInv`).
`HeldInv` says that only the thread that stopped the session is ever inside `pause()`; with it
`SenderAwake` is inductive, since that thread has yet to notify whoever fell asleep before it.

### The ends: connection, GUI, decoder (`PeripheryProofs`)

Three components that do not know each other; their theorems share a module, and the names in
`Framing` and `TimestampDecoder` carry prefixes so that one module can extend all three.

| Theorem | Statement |
|---|---|
| `PacketsInOrder` | `FramingSpec => []DeliveredInOrder`: packets are handed on in order, none left out, and whole, except at most the last |
| `CleanEndIsTrue` | `FramingSpec => []EventsEndTruly`: the worker takes only a true end of the stream for one |
| `FramingInvariance` | `FramingSpec => []FramingInv`, on which the two before rest |
| `GuiTyped` | `Spec => []TypeOK` |
| `GuiFresh` | `Spec => PresentedFresh` |
| `GuiStops` | `Spec => StopFinal` |
| `Exact` | `DecoderSpec => []TimeExact`: decoded time is never ahead of a camera whose clock goes on, and is the camera's as long as its words tell it |
| `Ordered` | `DecoderSpec => []TimeKept`: whatever is sent, it goes back by 1023 us at most, or for a reset |
| `DecoderInvariance` | `DecoderSpec => []DecoderInv`, on which the two before rest |

*Connection.* The theorems hold for any payload size, capacity, number of packets and set of
threads that fail. The invariant follows the cells from the writer to the reader. `SenderInv`: the
cells not written yet are the last ones of the packet started last, and only the result thread
sends anything but errors. `WireInv`: of two neighbours in the socket the second `Follows` the
first, as the next cell of its packet or as the first of the next packet; the latter only behind
a last cell, or behind a packet that `MayBeCut`. An error may be cut, and any packet behind which
nothing but errors will ever come (`Ended`). A result or status given up is such a packet for
good, because the one thread that sends them goes on to `fail()`, and a packet of events because
the bridge has stopped. `ReadInv` follows them through the reader: what it has of a packet is that packet's own, or
the packet was cut and the reader is already in a later one; as long as all it handed on was whole
it is aligned, and its next cell is the first of the next packet. If it hands on a packet that is
not whole, that packet was `Ended`, so only errors are behind it. They cannot be handed on
as well: they would have to be read from the middle. For the clean end, `AllRead` says that a
reader which is aligned and finds nothing in the socket has read all that was begun; with `fin`
behind it nothing more begins.

*GUI.* `PresentedFresh` needs `Fresh`: the latest frame, the one `refresh` has taken out, and those
shown are of the acquisition started last and no newer than its `model_generation`, which never
goes back in a session. Between the two lock regions of `refresh` the generation may have advanced,
which the second region tests; or a signal may have closed the session, which it does not test. What
is then presented is still of the last acquisition, as no other can have started: `start` runs on
the thread that is inside `refresh`. Without a signal that thread cannot close the session either, so
an open one is lacking only in a window that is `closing`. `StopFinal` needs `Stopped`: once the user
has asked for a stop, a restart is pending only in a window that is closing, where `finished` posts
the close instead, and a start still posted finds the old process there. It excepts two starts that
a Stop or a Close comes too late for (`Final`, `SignalInStart`): one already posted by
`finished` (363), and one that a signal interrupts. `GuiTyped` needs `Starts`: sessions that nobody
pressed Start for are at most the first and one for each change of parameters, which bounds their
number.

*Decoder.* It has no run: its clock is unbounded, and so is what a word may say. Before the
proof its invariant was checked by TLC on a copy with a cycle of four milliseconds. Nothing is
assumed of the camera but that events follow a sub word, since between a reference word and its sub
word `sensorTime` mixes the two; which words it sends, and what they say, is free.

`TimeExact` is about the words that do tell the time. A sub word without a reference word tells that
the millisecond is the same by not being less than the last one, and that it is the next by being
less; any other omission is not `told`, and the decoder cannot know of it. The invariant `Tracks` says
what it holds then: as long as the clock goes `onward`, the right cycle, the right microseconds, and
a millisecond no later than the camera's, so that times are late, never early; and the next reference
word makes them exact again (`ReferenceTracks`, `SubTracks`). `onward` ends with a roll-over that
was not told, or a clock that goes back within its cycle.

`TimeKept` is about all words, also those that contradict what was inferred. `Covers` says that the
latest event is within the decoder's millisecond and the range of a sub word, which no sub
word and no higher or rolled-over reference can break. Within one millisecond a sub word behind a
reference word may be lower than the last, as `tests/test_group_aer_timestamps.cpp` (line 100) has it. A
lower reference word counts as a reset, whether the clock was reset or the decoder had inferred a
millisecond too many (line 95): then times start anew, and the periods counted are forgotten.

### Recursive functions

Sums over a queue, what a loop keeps and `History` are recursive functions. The prover does not
know that such a definition has the value it describes; `SumsExist`, `KeptExists` and their like
show it. Induction theorems of the library take a predicate, which this prover cannot be given,
so each module that needs induction begins with lemma `SetInduction`, which states it for a *set*
of natural numbers: a set that is not all of them leaves out a least one (`LeastNatural`), since
`<` is well-founded on them.

### Only model-checked

* Liveness under fairness, which is beyond this prover: `NewGenerationAnnounced`, `SlotsReleased`,
  `StopReleases`, `FailureEnds`, `AskedHappens`.
* The three counterexample runs of section 5.

## 7. What is not modelled

* **Bytes of a packet.** `Framing` divides a packet into header, metadata and payload; size limits,
  the JSON text and the `EVENT_DTYPE` layout are left to the tests. Outside `Framing` a packet is
  sent or not, arrives whole or the connection fails.
* **Values of a voxel.** `VoxelStreams` says which events are accumulated into which voxel, not what
  `accumulate_fixed_window` computes of them; the CPU path, which has no streams, is not modelled.
* **The event-span session's configuration checks** (worker.py 807-832) and its inline result mode;
  its byte limit may bind at any event, since sizes are left out.
* **The two-second limits of joins at shutdown** (`SessionReceiver.close`, `pipeline.close`,
  `results.close`): the models join without a limit. What happens when a join gives up and raises
  is not covered.
* **The inline result mode**, in which the inference thread does the result thread's work.
* **A change of resolution within a session**, which the receiver refuses.
* **The bridge's status timer**, which only reads, and performance records.
* **The GUI's raw view, texts and profile files**, and its 50 ms retry in `interrupt`.
* **Camera adapter**: it converts, publishes and records inside the driver's callback, on one thread.
* **The decoder outside its times**: the vendor's header, not in the repository; of its time words,
  those before the first reference word that it accepts.
* **Performance recorders**: samples behind one lock, on which nothing else depends.
* **Capture monitor, run scripts**: a counter, and orchestration without state of its own.
* **Network, checkpoint, rendering**: floating point, out of TLC's reach.
* **The camera, ROS and the network**, which appear as an environment that may lose messages.

* **Signals to the GUI before its window is shown**.

Some behaviours are in the model and promised by no property: a Stop pressed after a process has
ended but before the posted restart runs does not cancel it (gui.py 363; `StopFinal` excepts it by
name); a process that fails to start leaves the Start button disabled (gui.py 310).

## 8. Plan

In order of importance:

1. *Receiver and FIFO*: the step-by-step refinement of `FreshFifo` by `SessionReceiver`.
2. *End to end*: bridge queue, wire and host FIFO composed with an abstract specification of the
   whole path: what is shown comes from an unbroken run of camera messages, newest last.

## 9. Running

From this directory:

```
tlc -workers 2 -config MCSessionReceiver.cfg MCSessionReceiver.tla
tlapm SessionReceiverProofs.tla
tlapm PeripheryProofs.tla
```

`PROJECT.json` lists every run with its configuration, the lines of code each definition stands
for, the hazards of the code and the properties that watch them. The longest runs take one to
two and a half minutes on two cores, the proofs of a module up to five.
