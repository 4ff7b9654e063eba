-------------------------- MODULE TimestampDecoder --------------------------
(***************************************************************************)
(* Sensor time as docker/patches/group_aer_timestamps.patch decodes it.    *)
(* The camera states its time in two kinds of words: a reference word      *)
(* with the milliseconds, 22 bits of them, and a sub word with the         *)
(* microseconds, 10 bits; it may leave out reference words. Events are     *)
(* stamped with the time stated last.                                      *)
(*                                                                         *)
(* Any word may come at any time: the camera's clock may stand, go on by   *)
(* any amount with or without a reference word, go back, or contradict     *)
(* what the decoder has inferred. What is left to the header that the      *)
(* patch changes is outside the model: the words before the first          *)
(* reference word of which a frame's end tells, and where events stand.    *)
(* Of those it is assumed that they follow a sub word and not a reference  *)
(* word. Nothing is bounded, so there is no instance for TLC: module       *)
(* PeripheryProofs is about every sequence of words.                       *)
(***************************************************************************)
EXTENDS Integers

kRefPeriodUs == 1000
kRefMax == 4194303
kReferencePeriodUs == (kRefMax + 1) * kRefPeriodUs
kSubMax == 1023

VARIABLES
  heard,               \* the camera's clock when the last word was sent
  refTS, lastRefTS, fullTS, explicitRefPending, haveOrigin,
  wrapAccum,
  \* History. Since the clock was last taken to start anew:
  origin,              \* the cycle it then was in
  top,                 \* the latest of the events' times
  onward,              \* it went on, and every roll-over was told
  told                 \* and so was every millisecond since the last reference word

decoder == <<refTS, lastRefTS, fullTS, explicitRefPending, haveOrigin, wrapAccum>>
decoderVars == <<heard, decoder, origin, top, onward, told>>

\* The roll-overs of the milliseconds are counted in cycle.
Clock == [cycle : Nat, ref : 0..kRefMax, sub : 0..kSubMax]

composeUs(ref, sub) == ref * kRefPeriodUs + sub
Micros(c) == c.cycle * kReferencePeriodUs + composeUs(c.ref, c.sub)

sensorTime == wrapAccum + fullTS

DecoderInit ==
  /\ heard \in Clock
  /\ refTS = 0 /\ lastRefTS = 0 /\ fullTS = 0 /\ wrapAccum = 0
  /\ explicitRefPending = FALSE /\ haveOrigin = FALSE
  /\ origin = heard.cycle /\ top = 0 /\ onward = TRUE /\ told = TRUE

-----------------------------------------------------------------------------
(* The decoder *)

\* A smaller reference is the roll-over only from the last to the first; any
\* other is taken for a reset of the camera's clock.
RollsOver(ref) == haveOrigin /\ ref < refTS /\ refTS = kRefMax /\ ref = 0
Resets(ref) == haveOrigin /\ ref < refTS /\ ~RollsOver(ref)

Reference(ref) ==
  /\ wrapAccum' = IF Resets(ref) THEN 0
                  ELSE wrapAccum + IF RollsOver(ref) THEN kReferencePeriodUs ELSE 0
  /\ refTS' = ref /\ explicitRefPending' = TRUE /\ haveOrigin' = TRUE
  /\ IF haveOrigin THEN UNCHANGED <<lastRefTS, fullTS>>
     ELSE lastRefTS' = ref /\ fullTS' = composeUs(ref, 0)

\* A sub word. That a reference word was left out is inferred only from a time
\* that would go back, with none sent since the last sub word.
Omitted(sub) ==
  ~explicitRefPending /\ composeUs(refTS, sub) < fullTS /\ lastRefTS = refTS

Sub(sub) ==
  /\ refTS' = IF ~Omitted(sub) THEN refTS ELSE IF refTS = kRefMax THEN 0 ELSE refTS + 1
  /\ wrapAccum' = wrapAccum + IF Omitted(sub) /\ refTS = kRefMax
                              THEN kReferencePeriodUs ELSE 0
  /\ fullTS' = composeUs(refTS', sub)
  /\ lastRefTS' = refTS' /\ explicitRefPending' = FALSE
  /\ UNCHANGED haveOrigin

-----------------------------------------------------------------------------
(* The camera *)

Same(c, d) == d.cycle = c.cycle /\ d.ref = c.ref

Tock(c, d) == \* d's millisecond is the next after c's
  \/ d.cycle = c.cycle /\ d.ref = c.ref + 1
  \/ d.cycle = c.cycle + 1 /\ c.ref = kRefMax /\ d.ref = 0

\* Within a cycle, by any number of milliseconds.
GoesOn(c, d) ==
  /\ d.cycle = c.cycle
  /\ d.ref > c.ref \/ (d.ref = c.ref /\ d.sub >= c.sub)

\* A word tells of a roll-over if the last one was in the cycle's last
\* millisecond, to the decoder's knowledge too.
SendReference ==
  \E d \in Clock :
    LET anew == ~haveOrigin \/ Resets(d.ref)
    IN  /\ Reference(d.ref)
        /\ heard' = d
        /\ IF anew THEN origin' = d.cycle /\ top' = 0 ELSE UNCHANGED <<origin, top>>
        /\ onward' = (\/ anew
                      \/ (onward /\ d.cycle = heard.cycle /\ d.ref >= heard.ref)
                      \/ (told /\ Tock(heard, d)))
        /\ told' = onward'

\* Without a reference word a sub word tells of a millisecond that it is the
\* last one's by not being less, that it is the next by being less.
SendSub ==
  /\ haveOrigin
  /\ \E d \in Clock :
       /\ Sub(d.sub)
       /\ heard' = d
       /\ told' = (/\ told
                   /\ IF Same(heard, d) THEN explicitRefPending \/ d.sub >= heard.sub
                      ELSE Tock(heard, d) /\ ~explicitRefPending /\ d.sub < heard.sub)
       /\ onward' = (told' \/ (onward /\ GoesOn(heard, d)))
  /\ UNCHANGED <<origin, top>>

Event ==
  /\ haveOrigin /\ ~explicitRefPending
  /\ top' = IF sensorTime > top THEN sensorTime ELSE top
  /\ UNCHANGED <<heard, decoder, origin, onward, told>>

DecoderNext == SendReference \/ SendSub \/ Event

DecoderSpec == DecoderInit /\ [][DecoderNext]_decoderVars

-----------------------------------------------------------------------------
(* Properties *)

DecoderTypeOK ==
  /\ heard \in Clock /\ origin \in Nat /\ top \in Nat
  /\ onward \in BOOLEAN /\ told \in BOOLEAN
  /\ refTS \in 0..kRefMax /\ lastRefTS \in 0..kRefMax
  /\ fullTS \in Nat /\ wrapAccum \in Nat
  /\ explicitRefPending \in BOOLEAN /\ haveOrigin \in BOOLEAN

\* While the camera's clock goes on and its roll-overs are told, events' times
\* are never ahead of it, whichever milliseconds are left out; and they are
\* the camera's, to the microsecond, as soon as a reference word comes and for
\* as long as the decoder can infer those left out after it. No roll-over is
\* missed, counted twice or invented (test_group_aer_timestamps.cpp).
TimeExact ==
  haveOrigin /\ ~explicitRefPending =>
    LET time == sensorTime + origin * kReferencePeriodUs
    IN  (told => time = Micros(heard)) /\ (onward => time <= Micros(heard))

\* Whatever words are sent, an event's time is behind an earlier one's by at
\* most the sub word's range, if no reference between them was taken for a
\* reset: to adapter and router a time that goes further back means that.
TimeKept == haveOrigin /\ ~explicitRefPending => top <= sensorTime + kSubMax

\* What makes these inductive.
Composed ==
  haveOrigin /\ ~explicitRefPending =>
    lastRefTS = refTS /\ \E s \in 0..kSubMax : fullTS = composeUs(refTS, s)
Tracks ==
  /\ told => onward
  /\ explicitRefPending /\ onward => told
  /\ haveOrigin /\ onward =>
       /\ wrapAccum + origin * kReferencePeriodUs = heard.cycle * kReferencePeriodUs
       /\ refTS <= heard.ref /\ (told => refTS = heard.ref)
       /\ ~explicitRefPending => fullTS = composeUs(refTS, heard.sub)
Covers == IF haveOrigin THEN top <= wrapAccum + composeUs(refTS, kSubMax)
          ELSE top = 0 /\ wrapAccum = 0

DecoderInv == DecoderTypeOK /\ Composed /\ Tracks /\ Covers
=============================================================================
