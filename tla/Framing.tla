------------------------------- MODULE Framing -------------------------------
(***************************************************************************)
(* NEF1 packets on the TCP connection between the bridge and the worker:   *)
(* send_packet and recv_packet of scripts/e2fai_protocol.py, the bridge's  *)
(* sendPacket and receiveLoop, and the threads of the worker that share a  *)
(* socket with a timeout of one second behind send_lock.                   *)
(*                                                                         *)
(* A packet is a sequence of cells, two of header (the magic, the sizes),  *)
(* two of metadata and its payload; a cell knows the packet it belongs to, *)
(* which the reader may use only where the bytes tell it too.  direction   *)
(* is "events" (bridge to worker) or "results" (worker to bridge).         *)
(***************************************************************************)
EXTENDS Naturals, Sequences, FiniteSets

CONSTANTS
  Threads,      \* the threads that send: all of the worker's may fail
  ResultThread, \* the worker's result thread, or the bridge's only sender
  Capacity,     \* cells the socket buffers hold
  Payload,      \* payload cells of a result or an events packet
  MaxPackets    \* bound: packets whose sending starts, errors not counted

ASSUME FramingAssumption ==
  /\ ResultThread \in Threads
  /\ Capacity \in Nat \ {0} /\ {Payload, MaxPackets} \subseteq Nat

VARIABLES
  direction,
  pc,          \* thread -> "run", "status" or "failing": it has decided to
               \* send one, "fail": an error, "end"
  holder,      \* who holds send_lock, if anyone
  out,         \* cells of the holder's packet not written yet
  sent,        \* kinds of the packets started
  failed, done,\* the sending end's (for the bridge, done is stopped_)
  wire,        \* cells in the socket buffers
  link,        \* "up", "fin" or "rst"
  got, need,   \* cells read of a packet, and how many it has (0: not known)
  reader,      \* "reading", or how reading ended
  delivered    \* packets handed on: number, and whether all cells are its own

sender == <<pc, holder, out, sent, failed, done>>
receiver == <<got, need, reader, delivered>>
framingVars == <<direction, sender, wire, link, receiver>>

FramingInit ==
  /\ direction \in {"events", "results"}
  /\ pc = [t \in Threads |-> "run"] /\ holder = {} /\ out = <<>> /\ sent = <<>>
  /\ failed = FALSE /\ done = FALSE
  /\ wire = <<>> /\ link = "up"
  /\ got = <<>> /\ need = 0 /\ reader = "reading" /\ delivered = <<>>

Size(kind) == 4 + IF kind \in {"events", "result"} THEN Payload ELSE 0
Cells(packet, kind) == [i \in 1..Size(kind) |-> [packet |-> packet, i |-> i]]

-----------------------------------------------------------------------------
(* Sending *)

\* Without send_lock.
BeginUnlocked(t, kind) ==
  /\ holder' = {t} /\ sent' = Append(sent, kind)
  /\ out' = Cells(Len(sent) + 1, kind)
  /\ UNCHANGED <<direction, failed, done, wire, link, receiver>>

\* Under send_lock; sendall leaves the socket's timeout to GiveUp.
Begin(t, kind) ==
  /\ holder = {}
  /\ holder' = {t} /\ sent' = Append(sent, kind)
  /\ out' = Cells(Len(sent) + 1, kind)
  /\ UNCHANGED <<direction, failed, done, wire, link, receiver>>

SendEvents(t) ==
  /\ direction = "events" /\ t = ResultThread /\ ~done /\ Len(sent) < MaxPackets
  /\ Begin(t, "events") /\ UNCHANGED pc

SendResult(t) ==
  /\ direction = "results" /\ t = ResultThread /\ pc[t] = "run" /\ ~failed /\ ~done
  /\ Len(sent) < MaxPackets
  /\ Begin(t, "result") /\ UNCHANGED pc

\* send_status tests done before it takes the lock.
WantStatus(t) ==
  /\ direction = "results" /\ t = ResultThread /\ pc[t] = "run" /\ holder # {t} /\ ~done
  /\ pc' = [pc EXCEPT ![t] = "status"]
  /\ UNCHANGED <<direction, holder, out, sent, failed, done, wire, link, receiver>>
SendStatus(t) ==
  /\ pc[t] = "status" /\ Len(sent) < MaxPackets /\ Begin(t, "status")
  /\ pc' = [pc EXCEPT ![t] = "run"]

\* fail() tests failed and sets it in two steps, and sends its error after.
WantFail(t) ==
  /\ direction = "results" /\ pc[t] = "run" /\ holder # {t} /\ ~failed
  /\ pc' = [pc EXCEPT ![t] = "failing"]
  /\ UNCHANGED <<direction, holder, out, sent, failed, done, wire, link, receiver>>
SetFailed(t) ==
  /\ pc[t] = "failing" /\ failed' = TRUE
  /\ pc' = [pc EXCEPT ![t] = "fail"]
  /\ UNCHANGED <<direction, holder, out, sent, done, wire, link, receiver>>
SendError(t) == pc[t] = "fail" /\ Begin(t, "error") /\ UNCHANGED pc

WrittenNotDone(t) ==
  /\ holder' = {}
  /\ pc' = IF pc[t] = "fail" THEN [pc EXCEPT ![t] = "end"] ELSE pc
  /\ UNCHANGED done
Written(t) ==
  /\ holder' = {}
  /\ IF pc[t] = "fail" THEN pc' = [pc EXCEPT ![t] = "end"] /\ done' = TRUE
     ELSE UNCHANGED <<pc, done>>

Write(t) ==
  /\ holder = {t} /\ link = "up" /\ Len(wire) < Capacity
  /\ wire' = Append(wire, Head(out)) /\ out' = Tail(out)
  /\ IF Len(out) = 1 THEN Written(t) ELSE UNCHANGED <<holder, pc, done>>
  /\ UNCHANGED <<direction, sent, failed, link, receiver>>

\* sendall times out, or the connection or stopped_ ends it, part of the packet
\* written or none (it is not counted then). It ends the sending of the bridge
\* and of a thread that fails; the result thread fails, unless the session is
\* ending or the peer has gone.
GiveUp(t) ==
  /\ holder = {t} /\ holder' = {} /\ out' = <<>>
  /\ sent' = IF Len(out) = Size(sent[Len(sent)])
             THEN SubSeq(sent, 1, Len(sent) - 1) ELSE sent
  /\ \/ /\ direction = "events" \/ pc[t] = "fail" \/ reader # "reading"
        /\ pc' = [pc EXCEPT ![t] = "end"] /\ done' = TRUE
     \/ /\ direction = "results" /\ pc[t] # "fail"
        /\ pc' = [pc EXCEPT ![t] = IF failed \/ done THEN "end" ELSE "failing"]
        /\ UNCHANGED done
  /\ UNCHANGED <<direction, failed, wire, link, receiver>>

\* The end of the other direction or of the session, pause() or close().
EndSession ==
  /\ ~done /\ done' = TRUE
  /\ UNCHANGED <<direction, pc, holder, out, sent, failed, wire, link, receiver>>

\* The session's owner shuts the connection down, before it joins its threads;
\* the worker's signal handler does at any time. With input unread the peer is
\* reset and may lose what it has not read.
Shutdown ==
  /\ (done \/ direction = "results") /\ link = "up"
  /\ \/ link' = "fin" /\ UNCHANGED wire
     \/ link' = "rst" /\ \E n \in 0..Len(wire) : wire' = SubSeq(wire, 1, n)
  /\ UNCHANGED <<direction, sender, receiver>>

-----------------------------------------------------------------------------
(* Receiving *)

\* The cells are i-th to j-th of one packet.
Own(cells, i, j) == \A k \in i..j : cells[k] = [packet |-> cells[j].packet, i |-> k]

\* Cells a header promises: 0 (it is refused) without the magic; any number, or
\* sizes out of range, if its two cells come from two headers.
Needs(header) ==
  IF header[1].i # 1 THEN {0}
  ELSE IF Own(header, 1, 2) THEN {Size(sent[header[1].packet])}
  ELSE {0} \cup 4..(4 + Payload)

\* The JSON and, of a result, the payload's size agree with the header; the
\* payload is taken as it is.
Accept(cells) ==
  LET p == cells[4].packet
  IN IF Own(cells, 1, 4)
     THEN /\ delivered' = Append(delivered, [packet |-> p, whole |-> Own(cells, 1, Len(cells))])
          /\ reader' = IF sent[p] = "error" THEN "error" ELSE "reading"
     ELSE reader' = "invalid" /\ UNCHANGED delivered

\* What a timeout between two cells leaves of those read.
MayDiscard == {got, <<>>}
Kept == {got}

Recv ==
  /\ reader = "reading" /\ wire # <<>>
  /\ wire' = Tail(wire)
  /\ \E kept \in Kept : LET cells == Append(kept, Head(wire))
     IN CASE Len(cells) = 2 ->
               /\ got' = cells /\ need' \in Needs(cells)
               /\ reader' = (IF need' = 0 THEN "invalid" ELSE "reading")
               /\ UNCHANGED delivered
          [] Len(cells) # 2 /\ Len(cells) = need ->
               got' = <<>> /\ need' = 0 /\ Accept(cells)
          [] OTHER -> got' = cells /\ UNCHANGED <<need, reader, delivered>>
  /\ UNCHANGED <<direction, sender, link>>

Eof ==
  /\ reader = "reading" /\ wire = <<>> /\ link # "up"
  /\ reader' = CASE link = "rst" -> "reset"
                 [] link = "fin" /\ got = <<>> -> "clean"
                 [] OTHER -> "cut"
  /\ UNCHANGED <<direction, sender, wire, link, got, need, delivered>>

-----------------------------------------------------------------------------
Thread(t) ==
  \/ SendEvents(t) \/ SendResult(t) \/ WantStatus(t) \/ SendStatus(t)
  \/ WantFail(t) \/ SetFailed(t) \/ SendError(t) \/ Write(t) \/ GiveUp(t)

FramingNext == (\E t \in Threads : Thread(t)) \/ EndSession \/ Shutdown \/ Recv \/ Eof

\* A thread that has begun to fail goes on, a send ends or times out, the
\* session's owner notices done, and the reader reads.
FramingFairness ==
  /\ \A t \in Threads : WF_framingVars(SetFailed(t)) /\ WF_framingVars(SendError(t))
                        /\ WF_framingVars(Write(t) \/ GiveUp(t))
  /\ WF_framingVars(done /\ Shutdown) /\ WF_framingVars(Recv) /\ WF_framingVars(Eof)

FramingSpec == FramingInit /\ [][FramingNext]_framingVars /\ FramingFairness

-----------------------------------------------------------------------------
(* Properties *)

\* Packets arrive in the order they were started, none left out, and each is
\* what was sent, up to a result that a timeout cuts short: the errors that
\* follow fill its payload. At most one such result is handed on, the last.
DeliveredInOrder ==
  \A i \in DOMAIN delivered :
    /\ delivered[i].whole => \A j \in 1..(i - 1) : delivered[j].packet < delivered[i].packet
    /\ (\A j \in 1..i : delivered[j].whole) => delivered[i].packet = i
    /\ ~delivered[i].whole =>
         /\ delivered[i].packet = i
         /\ sent[i] = "result"
         /\ \A j \in DOMAIN delivered : j > i => sent[delivered[j].packet] # "result"

\* The worker never misreads the events, however they arrive, and takes their
\* end for a clean one only if every packet of which a byte was written has been
\* read whole: one that the bridge's stop cut off is an error.
EventsEndTruly ==
  direction = "events" =>
    /\ reader # "invalid"
    /\ reader = "clean" =>
         \A p \in DOMAIN sent : p < Len(sent) \/ Len(out) < Size(sent[p]) =>
           p \in DOMAIN delivered /\ delivered[p].whole

\* A failure of the worker always ends the session, whatever was being written
\* and however often a write times out, and the bridge's reading: by the error
\* packet, by the stream torn before it, or by the end of the connection.
FailureEnds == failed ~> done /\ reader # "reading"
-----------------------------------------------------------------------------
(* Why packets arrive in order: an inductive invariant                     *)

Cell  == [packet : Nat, i : Nat]
Kinds == IF direction = "events" THEN {"events"} ELSE {"result", "status", "error"}

\* Nothing is written yet of the packet that is being sent; the last packet of
\* which something is
Unwritten == holder # {} /\ Len(out) = Size(sent[Len(sent)])
Begun     == IF Unwritten THEN Len(sent) - 1 ELSE Len(sent)

\* Nothing but errors is sent behind packet p; behind events, nothing at all.
Ended(p) ==
  IF direction = "events" THEN done /\ holder = {} /\ Len(sent) = p
  ELSE pc[ResultThread] \notin {"run", "status"} /\ \A q \in (p + 1)..Len(sent) : sent[q] = "error"

\* Only such a packet, or an error itself, may be cut short.
MayBeCut(p) == Ended(p) \/ sent[p] = "error"

\* Cell d is written next after cell c.
Follows(c, d) ==
  \/ d = [packet |-> c.packet, i |-> c.i + 1] /\ c.i < Size(sent[c.packet])
  \/ /\ d = [packet |-> c.packet + 1, i |-> 1]
     /\ c.i = Size(sent[c.packet]) \/ MayBeCut(c.packet)

\* Cell c is the last one written.
IsEnd(c) ==
  /\ c.packet = Begun
  /\ IF holder # {} /\ ~Unwritten THEN c.i + Len(out) = Size(sent[Begun])
     ELSE c.i = Size(sent[Begun]) \/ MayBeCut(Begun)

\* The cells of a packet not written yet are its last ones; all threads but the
\* result thread send errors only.
Sending ==
  IF holder = {} THEN out = <<>>
  ELSE \E t \in Threads :
         /\ holder = {t}
         /\ IF pc[t] = "fail" THEN sent[Len(sent)] = "error"
            ELSE t = ResultThread /\ pc[t] # "failing"
         /\ Len(sent) > 0 /\ Len(out) \in 1..Size(sent[Len(sent)])
         /\ out = [k \in 1..Len(out) |->
                    [packet |-> Len(sent), i |-> Size(sent[Len(sent)]) - Len(out) + k]]

SenderInv ==
  /\ direction \in {"events", "results"} /\ {failed, done} \subseteq BOOLEAN
  /\ pc \in [Threads -> {"run", "status", "failing", "fail", "end"}]
  /\ \A t \in Threads : /\ pc[t] = "status" => t = ResultThread
                        /\ direction = "events" => pc[t] \in {"run", "end"}
  /\ sent \in Seq(Kinds)
  /\ Sending

WireInv ==
  /\ link \in {"up", "fin", "rst"}
  /\ wire \in Seq(Cell)
  /\ \A k \in DOMAIN wire : wire[k].packet \in 1..Begun
  /\ \A j, k \in DOMAIN wire : /\ j < k => wire[j].packet <= wire[k].packet
                               /\ k = j + 1 => Follows(wire[j], wire[k])
  /\ wire # <<>> /\ link # "rst" => IsEnd(wire[Len(wire)])

\* The reader has always begun with the first cell of a packet, the next one.
Aligned == \A i \in DOMAIN delivered : delivered[i].whole
First   == [packet |-> Len(delivered) + 1, i |-> 1]
AllRead == (holder = {} \/ Unwritten) /\ Begun = Len(delivered)

\* What it has read of a packet is that packet's, up to where it was cut short.
GotInv ==
  LET c == got[Len(got)]
  IN /\ got[1].i = 1 => \/ Own(got, 1, Len(got))
                        \/ MayBeCut(got[1].packet) /\ got[1].packet < c.packet
     /\ Aligned => got[1] = First
     /\ \A k \in DOMAIN wire : c.packet <= wire[k].packet
     /\ IF wire # <<>> THEN Follows(c, wire[1]) ELSE link # "rst" => IsEnd(c)

ReadInv ==
  /\ got \in Seq(Cell) /\ need \in Nat
  /\ \A k \in DOMAIN got : got[k].packet \in 1..Begun
  /\ IF Len(got) < 2 THEN need = 0
     ELSE /\ need >= 4 /\ Len(got) < need
          /\ Own(got, 1, 2) => need = Size(sent[got[1].packet])
  /\ IF got # <<>> THEN GotInv
     ELSE Aligned => IF wire # <<>> THEN wire[1] = First ELSE link # "rst" => AllRead
  /\ \A i \in DOMAIN delivered : ~delivered[i].whole =>
       /\ i = Len(delivered)
       /\ \A k \in DOMAIN got : i < got[k].packet
       /\ \A k \in DOMAIN wire : i < wire[k].packet

DeliveredInv ==
  /\ delivered \in Seq([packet : Nat, whole : BOOLEAN])
  /\ \A i \in DOMAIN delivered : /\ delivered[i].packet \in 1..Begun
                                 /\ ~delivered[i].whole => Ended(i) /\ i < Begun

FramingInv ==
  /\ SenderInv /\ WireInv /\ DeliveredInv /\ DeliveredInOrder
  /\ reader \in {"reading", "error", "invalid", "reset", "clean", "cut"}
  /\ reader = "reading" => ReadInv
  /\ reader = "clean" => link = "fin" /\ (Aligned => AllRead)
  /\ direction = "events" => reader # "invalid"
=============================================================================
