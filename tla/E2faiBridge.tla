----------------------------- MODULE E2faiBridge -----------------------------
(***************************************************************************)
(* The bridge between the camera's ROS topics and the GPU worker: class    *)
(* E2faiBridge, ros_ws/src/nrv_demo/src/e2fai_bridge.cpp.                  *)
(*                                                                         *)
(* Three threads share it. main is the ROS spinner: it runs onEvents and,  *)
(* after ros::spin() returns, close(). sender connects, then sends the     *)
(* queued batches. reader takes the worker's packets. Each critical        *)
(* section of queue_mutex_, state_mutex_ or connection_mutex_ is a step;   *)
(* stopped_ is an atomic that is read inside some of them and set outside  *)
(* all of them. Any thread may pause() the session; ppc is its place       *)
(* inside pause().                                                         *)
(*                                                                         *)
(* publishStatus only reads, and is left out with the image payloads. A    *)
(* batch is its batch_seq, bridge_generation and size. The worker is any   *)
(* source of packets, or, with OrderedWorker, one that keeps the order     *)
(* module SessionReceiver shows the real one keeps.                        *)
(***************************************************************************)
EXTENDS Integers, Sequences, FiniteSets, SequencesExt

CONSTANTS
  MaxBatches,    \* kMaxBatches
  MaxPayload,    \* kMaxPayload
  Sizes,         \* sizes of the batches that arrive
  MaxSeq,        \* bound: batches that arrive
  MaxGen,        \* bound: generations of the worker
  OrderedWorker  \* whether the worker keeps its packets in order

ASSUME LimitsAssumption == MaxBatches \in Nat \ {0} /\ MaxPayload \in Nat \ {0}
ASSUME SizesAssumption == Sizes \subseteq Nat \ {0}
ASSUME BoundsAssumption == MaxSeq \in Nat /\ MaxGen \in Nat
ASSUME OrderAssumption == OrderedWorker \in BOOLEAN

VARIABLES
  mpc, batch,     \* main: where it is, and the batch onEvents holds
  spc, sending,   \* sender: where it is, and the batch it took
  asleep,         \* the sender waits on queue_ready_
  rpc, packet,    \* reader: where it is, and the packet it handles
  ppc,            \* each thread's place in pause()
  stopped,        \* stopped_
  state,          \* state_
  errors, pauser, \* local_errors_ + worker_errors_, and the thread of pause()
  procGen,        \* processing_generation_
  queue,          \* queue_
  bridgeGen,      \* bridge_generation_
  batches,        \* batches_
  catchup,        \* catchup_batches_
  discarded,      \* discarded_batches_
  socket,         \* socket_, and what became of the connection
  sent, lastSent, \* packets sent, and the last of them
  arrived,        \* generations of the worker's last packet and last result
  published,      \* generations of the last result published
  reported        \* stop_reason of bridge_summary.json

mainVars   == <<mpc, batch>>
senderVars == <<spc, sending>>
readerVars == <<rpc, packet, published>>
queueVars  == <<queue, bridgeGen, batches, catchup, discarded>>
stateVars  == <<state, errors, procGen>>
wireVars   == <<socket, sent, lastSent, arrived>>
vars == <<mainVars, senderVars, asleep, readerVars, ppc, stopped, pauser,
          stateVars, queueVars, wireVars, reported>>

Threads == {"main", "sender", "reader"}
NoBatch == [seq |-> -1, gen |-> 0, size |-> 0]
NoPacket == [kind |-> "none", gen |-> 0, bgen |-> 0, state |-> "none"]

Bytes(q) ==
  LET sum[i \in 0..Len(q)] == IF i = 0 THEN 0 ELSE sum[i - 1] + q[i].size
  IN sum[Len(q)]

Init ==
  /\ mpc = "idle" /\ batch = NoBatch
  /\ spc = "connect" /\ sending = NoBatch /\ asleep = FALSE
  /\ rpc = "unstarted" /\ packet = NoPacket
  /\ ppc = [t \in Threads |-> "none"]
  /\ stopped = FALSE /\ state = "connecting" /\ errors = 0 /\ pauser = "nobody"
  /\ procGen = 0
  /\ queue = <<>> /\ bridgeGen = 0
  /\ batches = 0 /\ catchup = 0 /\ discarded = 0
  /\ socket = "none" /\ sent = 0 /\ lastSent = NoBatch
  /\ arrived = [gen |-> 0, bgen |-> 0, result |-> -1]
  /\ published = [gen |-> 0, bgen |-> 0]
  /\ reported = "none"

-----------------------------------------------------------------------------
(* pause(): entered -> paused -> cleared -> none                           *)

\* stopped_.exchange: the first thread to pause the session does the rest.
PauseEnter(t) ==
  /\ ~stopped
  /\ stopped' = TRUE /\ pauser' = t
  /\ ppc' = [ppc EXCEPT ![t] = "entered"]

PauseState(t) ==
  /\ ppc[t] = "entered"
  /\ state' = "paused" /\ errors' = errors + 1
  /\ ppc' = [ppc EXCEPT ![t] = "paused"]
  /\ UNCHANGED <<mainVars, senderVars, asleep, readerVars, stopped, pauser,
                 procGen, queueVars, wireVars, reported>>

\* closeQueue: the queue is discarded and the sender woken.
CloseQueueQuietly ==
  /\ queue' = <<>> /\ discarded' = discarded + Len(queue)
  /\ UNCHANGED <<asleep, bridgeGen, batches, catchup>>
CloseQueue ==
  /\ queue' = <<>> /\ discarded' = discarded + Len(queue)
  /\ asleep' = FALSE
  /\ UNCHANGED <<bridgeGen, batches, catchup>>

ShutdownSocket == socket' = IF socket = "open" THEN "shut" ELSE socket

PauseQueue(t) ==
  /\ ppc[t] = "paused"
  /\ CloseQueue
  /\ ppc' = [ppc EXCEPT ![t] = "cleared"]
  /\ UNCHANGED <<mainVars, senderVars, readerVars, stopped, pauser, stateVars,
                 wireVars, reported>>

PauseSocket(t) ==
  /\ ppc[t] = "cleared"
  /\ ShutdownSocket
  /\ ppc' = [ppc EXCEPT ![t] = "none"]
  /\ UNCHANGED <<mainVars, senderVars, asleep, readerVars, stopped, pauser,
                 stateVars, queueVars, sent, lastSent, arrived, reported>>

Pausing(t) == PauseState(t) \/ PauseQueue(t) \/ PauseSocket(t)

\* A thread whose error is caught pauses the session unless it has stopped.
Fails(t) ==
  \/ PauseEnter(t)
  \/ stopped /\ UNCHANGED <<stopped, pauser, ppc>>

-----------------------------------------------------------------------------
(* main: onEvents, idle -> [push] -> [mark] -> [notify] -> idle, and close  *)

MainRuns == ppc["main"] = "none"

OversizeUncounted == Len(queue)
Oversize == Len(queue) + 1

\* A message that could never be queued gives up the whole queue.
Oversized ==
  /\ MainRuns /\ mpc = "idle" /\ ~stopped /\ batches < MaxSeq
  /\ \E size \in Sizes : size > MaxPayload
  /\ queue' = <<>> /\ bridgeGen' = bridgeGen + 1
  /\ catchup' = catchup + Oversize
  /\ batches' = batches + 1
  /\ mpc' = "mark_only"
  /\ UNCHANGED <<batch, senderVars, asleep, readerVars, ppc, stopped, pauser,
                 stateVars, discarded, wireVars, reported>>

\* The batch is converted, outside any lock, and numbered.
Convert ==
  /\ MainRuns /\ mpc = "idle" /\ ~stopped /\ batches < MaxSeq
  /\ \E size \in Sizes :
       size <= MaxPayload /\ batch' = [seq |-> batches, gen |-> 0, size |-> size]
  /\ batches' = batches + 1
  /\ mpc' = "push"
  /\ UNCHANGED <<senderVars, asleep, readerVars, ppc, stopped, pauser, stateVars,
                 queue, bridgeGen, catchup, discarded, wireVars, reported>>

ConversionFails ==
  /\ MainRuns /\ mpc = "idle" /\ batches < MaxSeq
  /\ PauseEnter("main")
  /\ UNCHANGED <<mainVars, senderVars, asleep, readerVars, stateVars, queueVars,
                 wireVars, reported>>

Overflows(size) == Len(queue) >= MaxBatches \/ Bytes(queue) + size > MaxPayload

\* Oldest batches go until the new one fits with half of both limits to spare.
FitsHalf(q, size) ==
  q = <<>> \/ /\ Len(q) + 1 <= MaxBatches \div 2
              /\ Bytes(q) + size <= MaxPayload \div 2
OldestKept(k) == SubSeq(queue, 1, Len(queue) - k)
Newest(k) == SubSeq(queue, k + 1, Len(queue))
Dropped(size) ==
  CHOOSE k \in 0..Len(queue) :
    FitsHalf(Newest(k), size) /\ \A j \in 0..(k - 1) : ~FitsHalf(Newest(j), size)

RetagNothing(q, g) == q
Retag(q, g) == [i \in DOMAIN q |-> [q[i] EXCEPT !.gen = g]]

\* The batch is queued with the current tag, after the oldest ones if they fit.
Enqueue ==
  LET size == batch.size
      k == IF Overflows(size) THEN Dropped(size) ELSE 0
  IN /\ bridgeGen' = IF Overflows(size) THEN bridgeGen + 1 ELSE bridgeGen
     /\ catchup' = catchup + k
     /\ queue' = Append(Retag(Newest(k), bridgeGen'), [batch EXCEPT !.gen = bridgeGen'])
     /\ mpc' = IF Overflows(size) THEN "mark" ELSE "notify"

\* stopped_ is tested again under queue_mutex_, where closeQueue runs.
EnqueueAnyway == Enqueue
EnqueueUnlessStopped ==
  IF stopped THEN mpc' = "idle" /\ UNCHANGED <<queue, bridgeGen, catchup>>
             ELSE Enqueue

Push ==
  /\ MainRuns /\ mpc = "push"
  /\ EnqueueUnlessStopped
  /\ batch' = NoBatch
  /\ UNCHANGED <<senderVars, asleep, readerVars, ppc, stopped, pauser, stateVars,
                 batches, discarded, wireVars, reported>>

\* markCatchingUp; after an oversized message nothing was queued to notify of.
CatchingUp == IF stopped THEN state ELSE "catching_up"

AfterMark == IF mpc = "mark" THEN "notify" ELSE "idle"

MarkCatchingUp ==
  /\ MainRuns /\ mpc \in {"mark", "mark_only"}
  /\ state' = CatchingUp
  /\ mpc' = AfterMark
  /\ UNCHANGED <<batch, senderVars, asleep, readerVars, ppc, stopped, pauser,
                 errors, procGen, queueVars, wireVars, reported>>

Notify ==
  /\ MainRuns /\ mpc = "notify"
  /\ asleep' = FALSE
  /\ mpc' = "idle"
  /\ UNCHANGED <<batch, senderVars, readerVars, ppc, stopped, pauser, stateVars,
                 queueVars, wireVars, reported>>

\* close(), on the thread that ran the callbacks: closing -> closed_queue ->
\* shut -> sender_joined -> joined -> done.
Close ==
  /\ MainRuns /\ mpc = "idle"
  /\ stopped' = TRUE
  /\ mpc' = "closing"
  /\ UNCHANGED <<batch, senderVars, asleep, readerVars, ppc, pauser, stateVars,
                 queueVars, wireVars, reported>>

CloseDiscards ==
  /\ mpc = "closing"
  /\ CloseQueue
  /\ mpc' = "closed_queue"
  /\ UNCHANGED <<batch, senderVars, readerVars, ppc, stopped, pauser, stateVars,
                 wireVars, reported>>

CloseShutsDown ==
  /\ mpc = "closed_queue"
  /\ ShutdownSocket
  /\ mpc' = "shut"
  /\ UNCHANGED <<batch, senderVars, asleep, readerVars, ppc, stopped, pauser,
                 stateVars, queueVars, sent, lastSent, arrived, reported>>

Ended(t) == ppc[t] = "none" /\ IF t = "sender" THEN spc = "ended"
                               ELSE rpc \in {"unstarted", "ended"}

JoinSender ==
  /\ mpc = "shut" /\ Ended("sender")
  /\ mpc' = "sender_joined"
  /\ UNCHANGED <<batch, senderVars, asleep, readerVars, ppc, stopped, pauser,
                 stateVars, queueVars, wireVars, reported>>

JoinReader ==
  /\ mpc = "sender_joined" /\ Ended("reader")
  /\ socket' = IF socket = "none" THEN "none" ELSE "closed"
  /\ mpc' = "joined"
  /\ UNCHANGED <<batch, senderVars, asleep, readerVars, ppc, stopped, pauser,
                 stateVars, queueVars, sent, lastSent, arrived, reported>>

Summarise ==
  /\ mpc = "joined"
  /\ reported' = IF state = "paused" THEN "failure" ELSE "acquisition_stopped"
  /\ mpc' = "done"
  /\ UNCHANGED <<batch, senderVars, asleep, readerVars, ppc, stopped, pauser,
                 stateVars, queueVars, wireVars>>

-----------------------------------------------------------------------------
(* sender: connect -> register -> mark -> start -> take -> send -> take ...  *)

SenderRuns == ppc["sender"] = "none"

\* connectSocket is retried for as long as the session runs.
Connected ==
  /\ spc = "connect" /\ ~stopped
  /\ spc' = "register"
  /\ UNCHANGED <<mainVars, sending, asleep, readerVars, ppc, stopped, pauser,
                 stateVars, queueVars, wireVars, reported>>

ConnectStops ==
  /\ spc = "connect" /\ stopped
  /\ spc' = "ended"
  /\ UNCHANGED <<mainVars, sending, asleep, readerVars, ppc, stopped, pauser,
                 stateVars, queueVars, wireVars, reported>>

\* stopped_ is tested under connection_mutex_, where shutdownSocket runs.
Register ==
  /\ spc = "register"
  /\ IF stopped THEN spc' = "ended" /\ UNCHANGED socket
     ELSE socket' = "open" /\ spc' = "mark"
  /\ UNCHANGED <<mainVars, sending, asleep, readerVars, ppc, stopped, pauser,
                 stateVars, queueVars, sent, lastSent, arrived, reported>>

MarkConnected ==
  /\ spc = "mark"
  /\ state' = IF stopped THEN state ELSE "connected"
  /\ spc' = "start"
  /\ UNCHANGED <<mainVars, sending, asleep, readerVars, ppc, stopped, pauser,
                 errors, procGen, queueVars, wireVars, reported>>

StartReader ==
  /\ spc = "start"
  /\ rpc' = "top" /\ spc' = "take"
  /\ UNCHANGED <<mainVars, sending, asleep, packet, published, ppc, stopped,
                 pauser, stateVars, queueVars, wireVars, reported>>

\* Woken, or not yet asleep, it takes the oldest batch or goes to sleep.
TakeBatch ==
  /\ SenderRuns /\ spc = "take" /\ ~asleep
  /\ IF stopped THEN spc' = "ended" /\ UNCHANGED <<sending, queue, asleep>>
     ELSE IF queue = <<>> THEN asleep' = TRUE /\ UNCHANGED <<spc, sending, queue>>
     ELSE /\ sending' = Head(queue) /\ queue' = Tail(queue)
          /\ spc' = "send" /\ UNCHANGED asleep
  /\ UNCHANGED <<mainVars, readerVars, ppc, stopped, pauser, stateVars, bridgeGen,
                 batches, catchup, discarded, wireVars, reported>>

\* Every byte was accepted, however late the session was stopped.
SendDone ==
  /\ spc = "send" /\ socket = "open"
  /\ sent' = sent + 1 /\ lastSent' = sending /\ sending' = NoBatch
  /\ spc' = "take"
  /\ UNCHANGED <<mainVars, asleep, readerVars, ppc, stopped, pauser, stateVars,
                 queueVars, socket, arrived, reported>>

\* The connection is gone, or stopped_ interrupts the packet between writes.
SendFails ==
  /\ spc = "send" /\ (socket # "open" \/ stopped)
  /\ Fails("sender")
  /\ sending' = NoBatch /\ spc' = "ended"
  /\ UNCHANGED <<mainVars, asleep, readerVars, stateVars, queueVars, wireVars,
                 reported>>

-----------------------------------------------------------------------------
(* reader: top -> recv -> handle -> [update -> publish] -> top              *)

WorkerGone ==
  /\ socket = "open"
  /\ socket' = "gone"
  /\ UNCHANGED <<mainVars, senderVars, asleep, readerVars, ppc, stopped, pauser,
                 stateVars, queueVars, sent, lastSent, arrived, reported>>

ReaderTop ==
  /\ rpc = "top"
  /\ rpc' = IF stopped THEN "ended" ELSE "recv"
  /\ UNCHANGED <<mainVars, senderVars, asleep, packet, published, ppc, stopped,
                 pauser, stateVars, queueVars, wireVars, reported>>

\* What the worker may send: a bridge_generation it has been sent, and, if it
\* keeps its order, nothing older than what it already sent.
Packets ==
  [kind : {"result"}, gen : 0..MaxGen, bgen : 0..lastSent.gen, state : {"none"}]
    \cup [kind : {"status"}, gen : 0..MaxGen, bgen : {arrived.bgen},
          state : {"connected", "catching_up"}]
    \cup [kind : {"error", "malformed", "foreign"}, gen : {arrived.gen},
          bgen : {arrived.bgen}, state : {"none"}]
InOrder(p) ==
  /\ p.gen >= arrived.gen /\ p.bgen >= arrived.bgen
  /\ p.state = "connected" => arrived.result = p.gen

Arrives ==
  /\ rpc = "recv" /\ socket = "open" /\ sent > 0
  /\ \E p \in Packets :
       /\ OrderedWorker => InOrder(p)
       /\ packet' = p
       /\ arrived' = [gen |-> p.gen, bgen |-> p.bgen, result |->
                     IF p.kind = "result" THEN p.gen ELSE arrived.result]
  /\ rpc' = "handle"
  /\ UNCHANGED <<mainVars, senderVars, asleep, published, ppc, stopped, pauser,
                 stateVars, queueVars, socket, sent, lastSent, reported>>

RecvFails ==
  /\ rpc = "recv" /\ (socket # "open" \/ stopped)
  /\ Fails("reader")
  /\ rpc' = "ended"
  /\ UNCHANGED <<mainVars, senderVars, asleep, packet, published, stateVars,
                 queueVars, wireVars, reported>>

\* A packet of another session is skipped; an error or a malformed packet
\* pauses this one.
HandleOther ==
  /\ rpc = "handle" /\ packet.kind \in {"error", "malformed", "foreign"}
  /\ packet' = NoPacket
  /\ \/ /\ packet.kind = "foreign"
        /\ rpc' = "top" /\ UNCHANGED <<stopped, pauser, ppc>>
     \/ /\ packet.kind # "foreign"
        /\ Fails("reader") /\ rpc' = "ended"
  /\ UNCHANGED <<mainVars, senderVars, asleep, published, stateVars, queueVars,
                 wireVars, reported>>

HandleStatus ==
  /\ rpc = "handle" /\ packet.kind = "status"
  /\ IF packet.gen < procGen THEN UNCHANGED <<procGen, state>>
     ELSE procGen' = packet.gen /\ state' = packet.state
  /\ packet' = NoPacket /\ rpc' = "top"
  /\ UNCHANGED <<mainVars, senderVars, asleep, published, ppc, stopped, pauser,
                 errors, queueVars, wireVars, reported>>

\* publishResult: stopped_ and the bridge generation are checked first ...
HandleResult ==
  /\ rpc = "handle" /\ packet.kind = "result"
  /\ IF stopped \/ packet.bgen < bridgeGen
     THEN rpc' = "top" /\ packet' = NoPacket
     ELSE rpc' = "update" /\ UNCHANGED packet
  /\ UNCHANGED <<mainVars, senderVars, asleep, published, ppc, stopped, pauser,
                 stateVars, queueVars, wireVars, reported>>

\* ... then, under state_mutex_, the worker's generation ...
NeverOutdated == FALSE
Outdated == packet.gen < procGen

UpdateState ==
  /\ rpc = "update"
  /\ IF Outdated
     THEN rpc' = "top" /\ packet' = NoPacket /\ UNCHANGED <<procGen, state>>
     ELSE /\ procGen' = packet.gen /\ state' = "connected"
          /\ rpc' = "publish" /\ UNCHANGED packet
  /\ UNCHANGED <<mainVars, senderVars, asleep, published, ppc, stopped, pauser,
                 errors, queueVars, wireVars, reported>>

\* ... and the result goes to the GUI.
PublishResult ==
  /\ rpc = "publish"
  /\ published' = [gen |-> packet.gen, bgen |-> packet.bgen]
  /\ packet' = NoPacket /\ rpc' = "top"
  /\ UNCHANGED <<mainVars, senderVars, asleep, ppc, stopped, pauser, stateVars,
                 queueVars, wireVars, reported>>

-----------------------------------------------------------------------------
Main == \/ Oversized \/ Convert \/ ConversionFails \/ Push \/ MarkCatchingUp
        \/ Notify \/ Close \/ CloseDiscards \/ CloseShutsDown
        \/ JoinSender \/ JoinReader \/ Summarise

Sender == \/ Connected \/ ConnectStops \/ Register \/ MarkConnected
          \/ StartReader \/ TakeBatch \/ SendDone \/ SendFails

Reader == \/ ReaderTop \/ Arrives \/ RecvFails \/ HandleOther \/ HandleStatus
          \/ HandleResult \/ UpdateState \/ PublishResult

Next == Main \/ Sender \/ Reader \/ WorkerGone \/ (\E t \in Threads : Pausing(t))

(***************************************************************************)
(* Each thread runs until it blocks. connect, send and recv are promised   *)
(* nothing: the worker may never listen, read or write. They return once   *)
(* the socket is shut down, and no callback need ever arrive.              *)
(***************************************************************************)
Fairness ==
  /\ WF_vars(Push \/ MarkCatchingUp \/ Notify \/ CloseDiscards \/ CloseShutsDown
               \/ JoinSender \/ JoinReader \/ Summarise)
  /\ WF_vars(ConnectStops \/ Register \/ MarkConnected \/ StartReader \/ TakeBatch)
  /\ WF_vars(socket # "open" /\ SendFails)
  /\ WF_vars(ReaderTop \/ HandleOther \/ HandleStatus \/ HandleResult
               \/ UpdateState \/ PublishResult)
  /\ WF_vars(socket # "open" /\ RecvFails)
  /\ \A t \in Threads : WF_vars(Pausing(t))

Spec == Init /\ [][Next]_vars /\ Fairness

-----------------------------------------------------------------------------
(* Properties *)

Batch == [seq : -1..MaxSeq, gen : 0..MaxSeq, size : Sizes \cup {0}]
Packet == [kind : {"result", "status", "error", "malformed", "foreign"},
           gen : 0..MaxGen, bgen : 0..MaxSeq,
           state : {"none", "connected", "catching_up"}]

TypeOK ==
  /\ mpc \in {"idle", "push", "mark", "mark_only", "notify", "closing",
              "closed_queue", "shut", "sender_joined", "joined", "done"}
  /\ batch \in Batch /\ sending \in Batch /\ lastSent \in Batch
  /\ spc \in {"connect", "register", "mark", "start", "take", "send", "ended"}
  /\ asleep \in BOOLEAN /\ stopped \in BOOLEAN
  /\ rpc \in {"unstarted", "top", "recv", "handle", "update", "publish", "ended"}
  /\ packet \in Packet \cup {NoPacket}
  /\ ppc \in [Threads -> {"none", "entered", "paused", "cleared"}]
  /\ state \in {"connecting", "connected", "catching_up", "paused"}
  /\ errors \in 0..1 /\ pauser \in Threads \cup {"nobody"}
  /\ procGen \in 0..MaxGen /\ bridgeGen \in 0..MaxSeq
  /\ queue \in Seq(Batch) /\ Len(queue) <= MaxBatches /\ Bytes(queue) <= MaxPayload
  /\ {batches, catchup, discarded, sent} \subseteq 0..MaxSeq
  /\ socket \in {"none", "open", "gone", "shut", "closed"}
  /\ arrived \in [gen : 0..MaxGen, bgen : 0..MaxSeq, result : -1..MaxGen]
  /\ published \in [gen : 0..MaxGen, bgen : 0..MaxSeq]
  /\ reported \in {"none", "failure", "acquisition_stopped"}

\* What is queued is the newest unbroken run of batches, all of it tagged with
\* the current bridge_generation, although it is tagged on arrival and
\* retagged whenever older batches go.
QueueIsTaggedSuffix ==
  /\ TypeOK
  /\ \A i \in DOMAIN queue : queue[i].gen = bridgeGen
  /\ \A i \in 2..Len(queue) : queue[i].seq = queue[i - 1].seq + 1
  /\ queue # <<>> /\ mpc # "push" /\ ~stopped => Last(queue).seq = batches - 1

\* The worker finds every batch the bridge skipped: two packets sent in a row
\* have neighbouring batch_seq exactly when their bridge_generation is equal.
SkipsMarked ==
  [][sent' # sent =>
       /\ lastSent'.seq > lastSent.seq
       /\ lastSent'.gen >= lastSent.gen
       /\ (lastSent'.seq = lastSent.seq + 1) <=> (lastSent'.gen = lastSent.gen)]_vars

\* Every batch is sent, held, queued, skipped or discarded, once. Stopping can
\* lose count only of the one onEvents holds and the one being sent.
BatchesAccounted ==
  LET held == Cardinality({b \in {batch, sending} : b # NoBatch})
      lost == batches - (sent + held + Len(queue) + catchup + discarded)
  IN lost \in 0..2 /\ (~stopped => lost = 0)

\* No wake-up is lost: the sender sleeps beside a batch, or through the end of
\* the session, only while another thread is on its way to wake it.
SenderAwake ==
  asleep =>
    /\ queue # <<>> => mpc \in {"mark", "notify"}
    /\ stopped => mpc = "closing" \/ \E t \in Threads : ppc[t] \in {"entered", "paused"}

\* No result is published after one of a newer generation, nor after a status
\* packet announced a newer one.
PublishedNotStale ==
  [][rpc = "publish" /\ rpc' = "top"
       => published'.gen >= published.gen /\ published'.gen = procGen]_vars

\* What the bridge's test and the run check expect: a session that recorded an
\* error is summarised as a failure.
FailureReported == reported # "none" /\ errors > 0 => reported = "failure"

\* What the catch-up document says: a connected bridge that is catching up
\* returns to "connected" with the first valid new result.
ConnectedByFreshResult ==
  [][rpc # "unstarted" /\ state = "catching_up" /\ state' = "connected"
       => rpc = "update" /\ packet.bgen = bridgeGen]_vars

\* A session that stops, by close() or by a failure of any thread, lets go of
\* the queue for good and of both threads wherever they are blocked, and
\* close() returns: nobody waits for a wake-up, or in recv, that never comes.
StopReleases ==
  stopped ~> queue = <<>> /\ spc = "ended" /\ Ended("reader") /\ mpc \in {"idle", "done"}

-----------------------------------------------------------------------------
(* Why they hold: the parts of an inductive invariant                      *)

\* A batch is held exactly where a thread handles one, and only the thread that
\* stopped the session is inside pause().
HeldInv ==
  /\ batch # NoBatch <=> mpc = "push"
  /\ sending # NoBatch <=> spc = "send"
  /\ mpc = "push" => batch.seq = batches - 1 /\ batch.size <= MaxPayload
  /\ \A t \in Threads : ppc[t] # "none" => stopped /\ t = pauser
  /\ \A t \in Threads : ppc[t] = "entered" => errors = 0
  /\ ~stopped => errors = 0 /\ mpc # "closing"

\* The newest batch that has been queued, or given up.
Settled == IF mpc = "push" THEN batches - 2 ELSE batches - 1

\* What was sent or taken last, and whether b may follow a on the wire
Tip == IF sending # NoBatch THEN sending ELSE lastSent
Follows(a, b) ==
  /\ b.seq > a.seq /\ b.gen >= a.gen
  /\ (b.seq = a.seq + 1) <=> (b.gen = a.gen)

\* The queue ends with the newest batch and follows on what was taken from it;
\* an empty one shows by bridge_generation whether anything was skipped.
QueueInv ==
  /\ bridgeGen <= Settled + 1
  /\ \A i \in DOMAIN queue : queue[i].seq \in 0..Settled
  /\ queue # <<>> /\ ~stopped => Last(queue).seq = Settled
  /\ sending # NoBatch => Follows(lastSent, sending) /\ sending.seq \in 0..Settled
  /\ lastSent.gen <= bridgeGen /\ Tip.gen <= bridgeGen
  /\ spc # "ended" /\ queue # <<>> => Follows(Tip, queue[1])
  /\ spc # "ended" /\ queue = <<>> /\ ~stopped =>
       /\ Tip.seq <= Settled
       /\ (Tip.seq = Settled) <=> (Tip.gen = bridgeGen)

\* Each thread loses at most the batch it holds, once.
Lost == batches - (sent + Len(queue) + catchup + discarded
                   + (IF mpc = "push" THEN 1 ELSE 0) + (IF spc = "send" THEN 1 ELSE 0))
LostInv ==
  /\ Lost >= 0
  /\ Lost <= (IF mpc = "push" THEN 0 ELSE 1) + (IF spc = "ended" THEN 1 ELSE 0)
  /\ ~stopped => Lost = 0

\* The reader runs once it is started, a status packet names a state, and a
\* result about to be published is of the generation shown.
ReaderInv ==
  /\ spc \in {"connect", "register", "mark", "start"} => rpc = "unstarted"
  /\ packet.kind = "status" => packet.state \in {"connected", "catching_up"}
  /\ rpc = "publish" => packet.gen = procGen
  /\ published.gen <= procGen

IInv == /\ QueueIsTaggedSuffix /\ HeldInv /\ QueueInv /\ LostInv
        /\ SenderAwake /\ ReaderInv
=============================================================================
