------------------------------ MODULE FreshFifo ------------------------------
(***************************************************************************)
(* What the host event FIFO promises its users (the docstrings of          *)
(* BoundedEventQueue and its trim, examples/e2fai_worker.py): batches come *)
(* out in the order they went in, whole; only the oldest are ever lost; a  *)
(* full FIFO sheds at least half of what it may hold. How many more it     *)
(* sheds, and when, is left open. EventQueue decides by bytes and ages,    *)
(* SessionReceiver by the session's recoveries; both implement this.       *)
(***************************************************************************)
EXTENDS Naturals, Sequences

CONSTANT MaxBatches

VARIABLES fifo, last, got   \* batch_seq queued, newest offered, last taken

vars == <<fifo, last, got>>

Init == fifo = <<>> /\ last = 0 /\ got = 0

Half == IF MaxBatches > 3 THEN MaxBatches \div 2 ELSE 1

\* Whatever may be left of q.
Kept(q) ==
  {SubSeq(q, k + 1, Len(q)) :
     k \in {j \in 0..Len(q) : Len(q) >= MaxBatches => Len(q) - j <= Half}}

\* A batch follows the last one, or, after a loss upstream, replaces the rest.
Offer ==
  /\ last' \in Nat /\ last' > last
  /\ fifo' \in Kept(IF last' = last + 1 THEN Append(fifo, last') ELSE <<last'>>)
  /\ UNCHANGED got

Shed == fifo' \in Kept(fifo) /\ UNCHANGED <<last, got>>

Take ==
  \E q \in Kept(fifo) :
    /\ q # <<>>
    /\ got' = Head(q) /\ fifo' = Tail(q)
    /\ UNCHANGED last

Spec == Init /\ [][Offer \/ Shed \/ Take]_vars
=============================================================================
