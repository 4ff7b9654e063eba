--------------------------- MODULE PeripheryProofs ---------------------------
(***************************************************************************)
(* The ends of the pipeline, of which none knows the others: the decoder   *)
(* of the camera's time words (TimestampDecoder), the GUI (GuiSession) and *)
(* the connection between bridge and worker (Framing). For each the        *)
(* inductive invariant its module states holds at first and is preserved   *)
(* by every action; the theorems on its properties follow.                 *)
(***************************************************************************)
EXTENDS Framing, GuiSession, TimestampDecoder, SequenceTheorems, TLAPS

-----------------------------------------------------------------------------
(* The timestamp decoder                                                   *)

Turn(n) == n * kReferencePeriodUs

\* The only facts about the numbers: a cycle is its milliseconds.
LEMMA Constants ==
  /\ kRefMax \in Nat /\ kRefMax > 0 /\ kReferencePeriodUs \in Nat
  /\ kReferencePeriodUs = kRefMax * 1000 + 1000
<1>1. kRefMax \in Nat /\ kRefMax > 0 BY SMT DEF kRefMax
<1> HIDE DEF kRefMax
<1> QED BY <1>1, SMT DEF kReferencePeriodUs, kRefPeriodUs

\* Cycles add up.
LEMMA Turns ==
  ASSUME NEW n \in Nat
  PROVE  Turn(n) \in Nat /\ Turn(n + 1) = Turn(n) + kReferencePeriodUs
<1> USE Constants DEF Turn
<1>1. Turn(n) \in Nat BY SMT
<1>2. Turn(n + 1) = Turn(n) + kReferencePeriodUs BY SMT
<1> QED BY <1>1, <1>2

LEMMA UpTo ==
  ASSUME NEW n \in Nat, NEW x \in 0..n
  PROVE  x \in Nat /\ x <= n
  OBVIOUS

\* Within a millisecond, times are ordered by their microseconds.
LEMMA ComposedSub ==
  ASSUME NEW r \in Nat, NEW s \in Nat, NEW t \in Nat
  PROVE  composeUs(r, s) < composeUs(r, t) <=> s < t
BY SMT DEF composeUs, kRefPeriodUs

\* An earlier millisecond's times are less than a later one's with the greatest
\* sub word, and those of a cycle less than the next cycle's.
LEMMA ComposedOrder ==
  ASSUME NEW r \in Nat, NEW q \in Nat, NEW s \in 0..kSubMax
  PROVE  /\ composeUs(r, s) \in Nat /\ composeUs(r, kSubMax) \in Nat
         /\ composeUs(r, kSubMax) <= composeUs(r, s) + kSubMax
         /\ composeUs(r, s) <= composeUs(r, kSubMax)
         /\ r <= q => /\ composeUs(r, s) <= composeUs(q, s)
                      /\ composeUs(r, kSubMax) <= composeUs(q, kSubMax)
         /\ composeUs(kRefMax, kSubMax) <= kReferencePeriodUs + composeUs(0, kSubMax)
<1> USE DEF composeUs, kRefPeriodUs, kSubMax
<1>1. /\ composeUs(r, s) \in Nat /\ composeUs(r, kSubMax) \in Nat
      /\ composeUs(r, kSubMax) <= composeUs(r, s) + kSubMax
      /\ composeUs(r, s) <= composeUs(r, kSubMax)
  BY SMT
<1>2. ASSUME r <= q
      PROVE  /\ composeUs(r, s) <= composeUs(q, s)
             /\ composeUs(r, kSubMax) <= composeUs(q, kSubMax)
  BY <1>2, SMT
<1>3. composeUs(kRefMax, kSubMax) <= kReferencePeriodUs + composeUs(0, kSubMax)
  BY Constants, SMT
<1> QED BY <1>1, <1>2, <1>3

LEMMA MicrosOf ==
  ASSUME NEW c \in Clock
  PROVE  /\ c.cycle \in Nat /\ c.ref \in 0..kRefMax /\ c.sub \in 0..kSubMax
         /\ c.ref \in Nat /\ c.ref <= kRefMax /\ c.sub \in Nat
         /\ Turn(c.cycle) \in Nat /\ composeUs(c.ref, c.sub) \in Nat
         /\ Micros(c) = Turn(c.cycle) + composeUs(c.ref, c.sub)
<1>1. c.cycle \in Nat /\ c.ref \in 0..kRefMax /\ c.sub \in 0..kSubMax
  BY DEF Clock
<1>2. c.ref \in Nat /\ c.ref <= kRefMax
  <2>1. kRefMax \in Nat /\ c.ref \in 0..kRefMax BY <1>1, Constants
  <2> QED BY ONLY <2>1, UpTo
<1>3. c.sub \in Nat
  <2>1. kSubMax \in Nat BY DEF kSubMax
  <2> QED BY ONLY <1>1, <2>1, UpTo
<1>4. Turn(c.cycle) \in Nat BY <1>1, Turns
<1>5. composeUs(c.ref, c.sub) \in Nat BY <1>1, <1>2, ComposedOrder
<1>6. Micros(c) = Turn(c.cycle) + composeUs(c.ref, c.sub) BY DEF Micros, Turn
<1> QED BY <1>1, <1>2, <1>3, <1>4, <1>5, <1>6

-----------------------------------------------------------------------------
(* The invariant, step by step                                             *)

\* Before the first word.
LEMMA InitInv == DecoderInit => DecoderInv
<1> SUFFICES ASSUME DecoderInit PROVE DecoderInv OBVIOUS
<1> USE DEF DecoderInit
<1>1. heard \in Clock /\ origin \in Nat BY MicrosOf
<1>2. 0 \in 0..kRefMax BY Constants
<1>3. DecoderTypeOK BY <1>1, <1>2 DEF DecoderTypeOK
<1> QED BY <1>3 DEF DecoderInv, Composed, Tracks, Covers

\* A reference word that is not taken for a reset is no less than what the
\* decoder has, or the roll-over.
LEMMA ReferenceKinds ==
  ASSUME DecoderTypeOK, NEW ref \in 0..kRefMax, ~Resets(ref)
  PROVE  \/ ~haveOrigin /\ ~RollsOver(ref)
         \/ haveOrigin /\ RollsOver(ref) /\ refTS = kRefMax /\ ref = 0
         \/ haveOrigin /\ ~RollsOver(ref) /\ refTS <= ref
<1>1. refTS \in Nat /\ ref \in Nat BY Constants, UpTo DEF DecoderTypeOK
<1> QED BY <1>1 DEF Resets, RollsOver

\* With a reference word the events' times so far are still less than the
\* greatest that can follow.
LEMMA ReferenceCovers ==
  ASSUME DecoderInv, NEW ref \in 0..kRefMax, Reference(ref),
         top' = IF ~haveOrigin \/ Resets(ref) THEN 0 ELSE top
  PROVE  wrapAccum' \in Nat /\ Covers'
<1> USE DEF DecoderInv
<1>1. /\ refTS \in Nat /\ ref \in Nat /\ refTS' = ref /\ haveOrigin' = TRUE
      /\ wrapAccum \in Nat /\ top \in Nat /\ kReferencePeriodUs \in Nat
  BY Constants, UpTo DEF DecoderTypeOK, Reference
<1>2. /\ composeUs(ref, kSubMax) \in Nat /\ composeUs(refTS, kSubMax) \in Nat
      /\ refTS <= ref => composeUs(refTS, kSubMax) <= composeUs(ref, kSubMax)
      /\ composeUs(kRefMax, kSubMax) <= kReferencePeriodUs + composeUs(0, kSubMax)
  <2>1. 0 \in 0..kSubMax BY DEF kSubMax
  <2> QED BY <1>1, <2>1, ComposedOrder
<1>3. CASE Resets(ref)
  <2>1. wrapAccum' = 0 /\ top' = 0 BY <1>3 DEF Reference
  <2> QED BY <1>1, <1>2, <2>1 DEF Covers
<1>4. CASE ~Resets(ref)
  <2>1. CASE ~haveOrigin /\ ~RollsOver(ref)
    <3>1. wrapAccum' = wrapAccum /\ top' = 0 BY <1>1, <1>4, <2>1 DEF Reference
    <3> QED BY <1>1, <1>2, <3>1 DEF Covers
  <2>2. CASE haveOrigin /\ RollsOver(ref) /\ refTS = kRefMax /\ ref = 0
    <3>1. wrapAccum' = wrapAccum + kReferencePeriodUs /\ top' = top
      BY <1>4, <2>2 DEF Reference
    <3>2. top <= wrapAccum + composeUs(kRefMax, kSubMax) BY <2>2 DEF Covers
    <3> QED BY <1>1, <1>2, <2>2, <3>1, <3>2 DEF Covers
  <2>3. CASE haveOrigin /\ ~RollsOver(ref) /\ refTS <= ref
    <3>1. wrapAccum' = wrapAccum /\ top' = top BY <1>1, <1>4, <2>3 DEF Reference
    <3>2. top <= wrapAccum + composeUs(refTS, kSubMax) BY <2>3 DEF Covers
    <3> QED BY <1>1, <1>2, <2>3, <3>1, <3>2 DEF Covers
  <2> QED BY <1>4, <2>1, <2>2, <2>3, ReferenceKinds
<1> QED BY <1>3, <1>4

\* A reference word that tells of the clock's going on keeps the count of the
\* cycles: it adds one exactly at the roll-over.
LEMMA ReferenceTracks ==
  ASSUME DecoderInv, NEW d \in Clock, Reference(d.ref), ~Resets(d.ref), haveOrigin,
         origin' = origin,
         \/ onward /\ d.cycle = heard.cycle /\ d.ref >= heard.ref
         \/ told /\ Tock(heard, d)
  PROVE  wrapAccum' + Turn(origin') = Turn(d.cycle)
<1> USE DEF DecoderInv
<1>1. /\ heard \in Clock /\ origin \in Nat /\ wrapAccum \in Nat
      /\ kReferencePeriodUs \in Nat /\ refTS \in Nat
  BY Constants, UpTo DEF DecoderTypeOK
<1>2. /\ d.ref \in Nat /\ heard.ref \in Nat /\ d.ref \in 0..kRefMax
      /\ heard.cycle \in Nat /\ d.cycle \in Nat
      /\ d.ref <= kRefMax /\ heard.ref <= kRefMax
      /\ Turn(heard.cycle) \in Nat /\ Turn(origin) \in Nat
      /\ Turn(heard.cycle + 1) = Turn(heard.cycle) + kReferencePeriodUs
  BY <1>1, MicrosOf, Turns
<1>3. onward /\ (told => refTS = heard.ref) /\ refTS <= heard.ref
      /\ wrapAccum + Turn(origin) = Turn(heard.cycle)
  BY DEF Tracks, Turn
<1>4. CASE d.cycle = heard.cycle /\ d.ref >= heard.ref
  <2>1. ~RollsOver(d.ref) BY <1>1, <1>2, <1>3, <1>4 DEF RollsOver
  <2>2. wrapAccum' = wrapAccum BY <1>1, <2>1 DEF Reference
  <2> QED BY <1>3, <1>4, <2>2
<1>5. CASE told /\ Tock(heard, d) /\ d.cycle = heard.cycle + 1 /\ heard.ref = kRefMax /\ d.ref = 0
  <2>1. RollsOver(d.ref) BY <1>3, <1>5, Constants DEF RollsOver
  <2>2. wrapAccum' = wrapAccum + kReferencePeriodUs BY <2>1 DEF Reference
  <2>3. Turn(d.cycle) = Turn(heard.cycle) + kReferencePeriodUs BY <1>2, <1>5
  <2> QED BY <1>1, <1>2, <1>3, <2>2, <2>3
<1> QED BY <1>2, <1>4, <1>5 DEF Tock

LEMMA ReferenceStep == DecoderInv /\ SendReference => DecoderInv'
<1> SUFFICES ASSUME DecoderInv, SendReference PROVE DecoderInv' OBVIOUS
<1> DEFINE Anew(d) == ~haveOrigin \/ Resets(d.ref)
<1>1. PICK d \in Clock :
        /\ Reference(d.ref) /\ heard' = d
        /\ IF Anew(d) THEN origin' = d.cycle /\ top' = 0 ELSE UNCHANGED <<origin, top>>
        /\ onward' = (\/ Anew(d)
                      \/ (onward /\ d.cycle = heard.cycle /\ d.ref >= heard.ref)
                      \/ (told /\ Tock(heard, d)))
        /\ told' = onward'
  BY DEF SendReference
<1>2. /\ d.ref \in 0..kRefMax /\ d.ref \in Nat /\ d.cycle \in Nat
      /\ Turn(d.cycle) \in Nat /\ composeUs(d.ref, 0) \in Nat
  <2>1. 0 \in 0..kSubMax BY DEF kSubMax
  <2> QED BY <2>1, MicrosOf, ComposedOrder
<1>3. /\ refTS' = d.ref /\ explicitRefPending' = TRUE /\ haveOrigin' = TRUE
      /\ lastRefTS' \in {lastRefTS, d.ref} /\ fullTS' \in {fullTS, composeUs(d.ref, 0)}
  BY <1>1 DEF Reference
<1>4. top' = IF Anew(d) THEN 0 ELSE top BY <1>1
<1>5. wrapAccum' \in Nat /\ Covers' BY <1>1, <1>2, <1>4, ReferenceCovers
<1>6. DecoderTypeOK'
  <2>1. DecoderTypeOK BY DEF DecoderInv
  <2>2. origin' \in Nat /\ top' \in Nat BY <1>1, <1>2, <2>1 DEF DecoderTypeOK
  <2>3. onward' \in BOOLEAN /\ told' \in BOOLEAN BY <1>1
  <2> QED BY <1>1, <1>2, <1>3, <1>5, <2>1, <2>2, <2>3 DEF DecoderTypeOK
<1>7. Composed' BY <1>3 DEF Composed
<1>8. onward' => wrapAccum' + Turn(origin') = Turn(d.cycle)
  <2> SUFFICES ASSUME onward' PROVE wrapAccum' + Turn(origin') = Turn(d.cycle) OBVIOUS
  <2>1. CASE Anew(d)
    <3>1. origin' = d.cycle BY <1>1, <2>1
    <3>2. wrapAccum' = 0
      BY <1>1, <2>1 DEF Reference, Resets, RollsOver, DecoderInv, Covers, DecoderTypeOK
    <3> QED BY <1>2, <3>1, <3>2
  <2>2. CASE ~Anew(d)
    <3>1. origin' = origin BY <1>1, <2>2
    <3>2. \/ onward /\ d.cycle = heard.cycle /\ d.ref >= heard.ref
          \/ told /\ Tock(heard, d)
      BY <1>1, <2>2
    <3> QED BY <1>1, <2>2, <3>1, <3>2, ReferenceTracks
  <2> QED BY <2>1, <2>2
<1>9. Tracks'
  <2>1. heard' = d /\ told' = onward' BY <1>1
  <2> QED BY <1>2, <1>3, <1>8, <2>1 DEF Tracks, Turn
<1> QED BY <1>5, <1>6, <1>7, <1>9 DEF DecoderInv

\* A sub word makes the time complete, and leaves the milliseconds or adds one.
LEMMA SubCovers ==
  ASSUME DecoderInv, haveOrigin, NEW s \in 0..kSubMax, Sub(s), top' = top
  PROVE  /\ wrapAccum' \in Nat /\ refTS' \in 0..kRefMax /\ fullTS' \in Nat
         /\ Covers' /\ Composed'
<1> USE DEF DecoderInv
<1>1. /\ refTS \in Nat /\ refTS \in 0..kRefMax /\ wrapAccum \in Nat /\ top \in Nat
      /\ kReferencePeriodUs \in Nat /\ refTS <= kRefMax /\ kRefMax \in Nat
  BY Constants, UpTo DEF DecoderTypeOK
<1>2. refTS' \in 0..kRefMax /\ refTS' \in Nat
  <2>1. refTS' = refTS \/ refTS' = 0 \/ (refTS' = refTS + 1 /\ refTS # kRefMax)
    BY DEF Sub
  <2> QED BY <1>1, <2>1
<1>3. /\ fullTS' = composeUs(refTS', s) /\ lastRefTS' = refTS' /\ haveOrigin' = haveOrigin
      /\ explicitRefPending' = FALSE
  BY DEF Sub
<1>4. fullTS' \in Nat BY <1>2, <1>3, ComposedOrder
<1>5. /\ composeUs(refTS', kSubMax) \in Nat /\ composeUs(refTS, kSubMax) \in Nat
      /\ refTS <= refTS' => composeUs(refTS, kSubMax) <= composeUs(refTS', kSubMax)
      /\ composeUs(kRefMax, kSubMax) <= kReferencePeriodUs + composeUs(0, kSubMax)
  BY <1>1, <1>2, ComposedOrder
<1>6. top <= wrapAccum + composeUs(refTS, kSubMax) BY DEF Covers
<1>7. wrapAccum' \in Nat /\ top <= wrapAccum' + composeUs(refTS', kSubMax)
  <2>1. CASE Omitted(s) /\ refTS = kRefMax
    <3>1. refTS' = 0 /\ wrapAccum' = wrapAccum + kReferencePeriodUs BY <2>1 DEF Sub
    <3> QED BY <1>1, <1>5, <1>6, <2>1, <3>1
  <2>2. CASE ~(Omitted(s) /\ refTS = kRefMax)
    <3>1. wrapAccum' = wrapAccum /\ refTS <= refTS' BY <1>1, <2>2 DEF Sub
    <3> QED BY <1>1, <1>5, <1>6, <3>1
  <2> QED BY <2>1, <2>2
<1>8. Covers' BY <1>3, <1>7 DEF Covers
<1>9. Composed' BY <1>3 DEF Composed
<1> QED BY <1>2, <1>4, <1>7, <1>8, <1>9

\* What a sub word tells of is what the decoder infers from it: nothing, one
\* millisecond, or less than has gone by.
LEMMA SubTracks ==
  ASSUME DecoderInv, haveOrigin, NEW d \in Clock, Sub(d.sub), onward,
         \/ Same(heard, d) /\ (explicitRefPending \/ d.sub >= heard.sub)
         \/ told /\ Tock(heard, d) /\ ~explicitRefPending /\ d.sub < heard.sub
         \/ GoesOn(heard, d)
  PROVE  /\ wrapAccum' + Turn(origin) = Turn(d.cycle)
         /\ refTS' <= d.ref
         /\ told /\ (\/ Same(heard, d) /\ (explicitRefPending \/ d.sub >= heard.sub)
                     \/ Tock(heard, d) /\ ~explicitRefPending /\ d.sub < heard.sub)
            => refTS' = d.ref
<1> USE DEF DecoderInv
<1>1. /\ heard \in Clock /\ origin \in Nat /\ wrapAccum \in Nat
      /\ kReferencePeriodUs \in Nat /\ refTS \in Nat /\ kRefMax \in Nat /\ kRefMax > 0
  BY Constants, UpTo DEF DecoderTypeOK
<1>2. /\ d.ref \in Nat /\ heard.ref \in Nat /\ heard.cycle \in Nat /\ d.cycle \in Nat
      /\ d.ref <= kRefMax /\ heard.ref <= kRefMax /\ d.sub \in Nat /\ heard.sub \in Nat
      /\ Turn(heard.cycle) \in Nat /\ Turn(origin) \in Nat
      /\ Turn(heard.cycle + 1) = Turn(heard.cycle) + kReferencePeriodUs
  BY <1>1, MicrosOf, Turns
<1>3. /\ told => refTS = heard.ref
      /\ refTS <= heard.ref /\ wrapAccum + Turn(origin) = Turn(heard.cycle)
      /\ ~explicitRefPending => fullTS = composeUs(refTS, heard.sub) /\ lastRefTS = refTS
  BY DEF Tracks, Composed, Turn
<1>4. Omitted(d.sub) <=> ~explicitRefPending /\ d.sub < heard.sub
  BY <1>1, <1>2, <1>3, ComposedSub DEF Omitted
<1>5. CASE Same(heard, d) /\ (explicitRefPending \/ d.sub >= heard.sub)
  <2>1. refTS' = refTS /\ wrapAccum' = wrapAccum BY <1>1, <1>2, <1>4, <1>5 DEF Sub
  <2> QED BY <1>3, <1>5, <2>1 DEF Same
<1>6. CASE told /\ Tock(heard, d) /\ ~explicitRefPending /\ d.sub < heard.sub
  <2>1. Omitted(d.sub) BY <1>4, <1>6
  <2>2. CASE d.cycle = heard.cycle /\ d.ref = heard.ref + 1
    <3>1. refTS # kRefMax BY <1>1, <1>2, <1>3, <1>6, <2>2
    <3>2. refTS' = refTS + 1 /\ wrapAccum' = wrapAccum BY <1>1, <2>1, <3>1 DEF Sub
    <3> QED BY <1>1, <1>2, <1>3, <1>6, <2>2, <3>2
  <2>3. CASE d.cycle = heard.cycle + 1 /\ heard.ref = kRefMax /\ d.ref = 0
    <3>1. refTS = kRefMax BY <1>3, <1>6, <2>3
    <3>2. refTS' = 0 /\ wrapAccum' = wrapAccum + kReferencePeriodUs BY <2>1, <3>1 DEF Sub
    <3>3. Turn(d.cycle) = Turn(heard.cycle) + kReferencePeriodUs BY <1>2, <2>3
    <3> QED BY <1>1, <1>2, <1>3, <2>3, <3>2, <3>3
  <2> QED BY <1>6, <2>2, <2>3 DEF Tock
<1>7. CASE /\ GoesOn(heard, d)
           /\ ~(Same(heard, d) /\ (explicitRefPending \/ d.sub >= heard.sub))
           /\ ~(told /\ Tock(heard, d) /\ ~explicitRefPending /\ d.sub < heard.sub)
  <2>1. d.cycle = heard.cycle /\ d.ref >= heard.ref /\ (d.ref = heard.ref => d.sub >= heard.sub)
    BY <1>2, <1>7 DEF GoesOn
  <2>2. d.ref > heard.ref BY <1>2, <1>7, <2>1 DEF Same
  <2>3. wrapAccum' = wrapAccum /\ refTS' <= d.ref
    <3>1. refTS # kRefMax BY <1>1, <1>2, <1>3, <2>2
    <3>2. wrapAccum' = wrapAccum /\ refTS' \in {refTS, refTS + 1}
      BY <1>1, <3>1 DEF Sub
    <3> QED BY <1>1, <1>2, <1>3, <2>2, <3>2
  <2> QED BY <1>3, <1>7, <2>1, <2>3
<1> QED BY <1>5, <1>6, <1>7

LEMMA SubStep == DecoderInv /\ SendSub => DecoderInv'
<1> SUFFICES ASSUME DecoderInv, SendSub PROVE DecoderInv' OBVIOUS
<1> DEFINE Tells(d) == IF Same(heard, d) THEN explicitRefPending \/ d.sub >= heard.sub
                       ELSE Tock(heard, d) /\ ~explicitRefPending /\ d.sub < heard.sub
<1>1. /\ haveOrigin /\ origin' = origin /\ top' = top
      /\ told => onward
  BY DEF SendSub, DecoderInv, Tracks
<1>2. PICK d \in Clock :
        /\ Sub(d.sub) /\ heard' = d /\ told' = (told /\ Tells(d))
        /\ onward' = (told' \/ (onward /\ GoesOn(heard, d)))
  BY DEF SendSub
<1>3. d.sub \in 0..kSubMax BY MicrosOf
<1>4. /\ wrapAccum' \in Nat /\ refTS' \in 0..kRefMax /\ fullTS' \in Nat
      /\ Covers' /\ Composed'
  BY <1>1, <1>2, <1>3, SubCovers
<1>5. /\ fullTS' = composeUs(refTS', d.sub) /\ lastRefTS' = refTS' /\ haveOrigin' = haveOrigin
      /\ explicitRefPending' = FALSE
  BY <1>2 DEF Sub
<1>6. told' \in BOOLEAN /\ onward' \in BOOLEAN BY <1>2
<1>7. DecoderTypeOK' BY <1>1, <1>2, <1>4, <1>5, <1>6 DEF DecoderInv, DecoderTypeOK
<1>8. onward' => /\ wrapAccum' + Turn(origin) = Turn(d.cycle) /\ refTS' <= d.ref
                 /\ told' => refTS' = d.ref
  <2> SUFFICES ASSUME onward'
               PROVE  /\ wrapAccum' + Turn(origin) = Turn(d.cycle) /\ refTS' <= d.ref
                      /\ told' => refTS' = d.ref
    OBVIOUS
  <2>1. onward BY <1>1, <1>2
  <2>2. (told /\ Tells(d)) \/ GoesOn(heard, d) BY <1>2
  <2>3. Tells(d) <=> \/ Same(heard, d) /\ (explicitRefPending \/ d.sub >= heard.sub)
                     \/ Tock(heard, d) /\ ~explicitRefPending /\ d.sub < heard.sub
    <3>1. ~(Same(heard, d) /\ Tock(heard, d))
      <4>1. heard \in Clock BY DEF DecoderInv, DecoderTypeOK
      <4>2. /\ heard.ref \in Nat /\ heard.cycle \in Nat /\ d.ref \in Nat /\ d.cycle \in Nat
        BY <4>1, MicrosOf
      <4> QED BY <4>2 DEF Same, Tock
    <3> QED BY <3>1
  <2> HIDE DEF Tells
  <2> QED BY <1>1, <1>2, <2>1, <2>2, <2>3, SubTracks
<1>9. Tracks'
  <2>1. heard' = d /\ origin' = origin /\ (told' => onward') BY <1>1, <1>2
  <2> QED BY <1>5, <1>8, <2>1 DEF Tracks, Turn
<1> QED BY <1>4, <1>7, <1>9 DEF DecoderInv

\* The time of an event is complete: it lies in the decoder's millisecond.
LEMMA Stamp ==
  ASSUME DecoderInv, haveOrigin, ~explicitRefPending
  PROVE  /\ sensorTime \in Nat
         /\ sensorTime <= wrapAccum + composeUs(refTS, kSubMax)
         /\ wrapAccum + composeUs(refTS, kSubMax) <= sensorTime + kSubMax
<1> USE DEF DecoderInv
<1>1. refTS \in Nat /\ wrapAccum \in Nat /\ kSubMax \in Nat
  BY Constants, UpTo DEF DecoderTypeOK, kSubMax
<1>2. PICK s \in 0..kSubMax : fullTS = composeUs(refTS, s) BY DEF Composed
<1>3. /\ composeUs(refTS, s) \in Nat /\ composeUs(refTS, kSubMax) \in Nat
      /\ composeUs(refTS, kSubMax) <= composeUs(refTS, s) + kSubMax
      /\ composeUs(refTS, s) <= composeUs(refTS, kSubMax)
  BY <1>1, ComposedOrder
<1> QED BY <1>1, <1>2, <1>3 DEF sensorTime

LEMMA EventStep == DecoderInv /\ Event => DecoderInv'
<1> SUFFICES ASSUME DecoderInv, Event PROVE DecoderInv' OBVIOUS
<1> USE DEF DecoderInv, Event, decoder
<1>1. /\ sensorTime \in Nat /\ sensorTime <= wrapAccum + composeUs(refTS, kSubMax)
  BY Stamp
<1>2. top' \in {sensorTime, top} BY DEF Event
<1>3. DecoderTypeOK' BY <1>1, <1>2 DEF DecoderTypeOK
<1>4. Composed' /\ Tracks' BY DEF Composed, Tracks
<1>5. Covers' BY <1>1, <1>2 DEF Covers
<1> QED BY <1>3, <1>4, <1>5

LEMMA NextInv == DecoderInv /\ [DecoderNext]_decoderVars => DecoderInv'
<1> SUFFICES ASSUME DecoderInv, [DecoderNext]_decoderVars PROVE DecoderInv' OBVIOUS
<1>1. CASE SendReference BY <1>1, ReferenceStep
<1>2. CASE SendSub BY <1>2, SubStep
<1>3. CASE Event BY <1>3, EventStep
<1>4. CASE UNCHANGED decoderVars
  BY <1>4 DEF decoderVars, decoder, DecoderInv, DecoderTypeOK, Composed, Tracks, Covers
<1> QED BY <1>1, <1>2, <1>3, <1>4 DEF DecoderNext

-----------------------------------------------------------------------------
(* The theorems                                                            *)

\* What the decoder knows of the camera's clock, after any words.
THEOREM DecoderInvariance == DecoderSpec => []DecoderInv
BY InitInv, NextInv, PTL DEF DecoderSpec

\* Whichever milliseconds the camera repeats or leaves out while its roll-overs
\* are told, an event's time is never ahead of its clock; and it is its clock's,
\* with every roll-over of the 22 bits counted once, from each reference word
\* until one is left out that the decoder cannot infer.
THEOREM Exact == DecoderSpec => []TimeExact
<1>1. DecoderInv => TimeExact
  <2> SUFFICES ASSUME DecoderInv, haveOrigin, ~explicitRefPending, onward
               PROVE  /\ told => sensorTime + Turn(origin) = Micros(heard)
                      /\ sensorTime + Turn(origin) <= Micros(heard)
    BY DEF TimeExact, Turn, DecoderInv, Tracks
  <2> USE DEF DecoderInv
  <2>1. heard \in Clock /\ origin \in Nat /\ wrapAccum \in Nat /\ refTS \in Nat
    BY Constants, UpTo DEF DecoderTypeOK
  <2>2. /\ Turn(heard.cycle) \in Nat /\ Turn(origin) \in Nat /\ heard.ref \in Nat
        /\ heard.sub \in 0..kSubMax
        /\ Micros(heard) = Turn(heard.cycle) + composeUs(heard.ref, heard.sub)
    BY <2>1, MicrosOf, Turns
  <2>3. /\ wrapAccum + Turn(origin) = Turn(heard.cycle)
        /\ refTS <= heard.ref /\ (told => refTS = heard.ref)
        /\ fullTS = composeUs(refTS, heard.sub)
    BY DEF Tracks, Turn
  <2>4. /\ composeUs(refTS, heard.sub) \in Nat /\ composeUs(heard.ref, heard.sub) \in Nat
        /\ composeUs(refTS, heard.sub) <= composeUs(heard.ref, heard.sub)
    BY <2>1, <2>2, <2>3, ComposedOrder
  <2> QED BY <2>1, <2>2, <2>3, <2>4 DEF sensorTime
<1> QED BY <1>1, DecoderInvariance, PTL

\* No words make events' times go back by more than the sub word's range, but a
\* lower reference word that is not the roll-over's.
THEOREM Ordered == DecoderSpec => []TimeKept
<1>1. DecoderInv => TimeKept
  <2> SUFFICES ASSUME DecoderInv, haveOrigin, ~explicitRefPending
               PROVE  top <= sensorTime + kSubMax
    BY DEF TimeKept
  <2>1. /\ sensorTime \in Nat
        /\ wrapAccum + composeUs(refTS, kSubMax) <= sensorTime + kSubMax
    BY Stamp
  <2>2. top <= wrapAccum + composeUs(refTS, kSubMax) BY DEF DecoderInv, Covers
  <2>3. /\ top \in Nat /\ wrapAccum \in Nat /\ composeUs(refTS, kSubMax) \in Nat
        /\ kSubMax \in Nat
    <3>1. refTS \in Nat /\ 0 \in 0..kSubMax /\ kSubMax \in Nat
      BY Constants, UpTo DEF DecoderInv, DecoderTypeOK, kSubMax
    <3> QED BY <3>1, ComposedOrder DEF DecoderInv, DecoderTypeOK
  <2> QED BY <2>1, <2>2, <2>3
<1> QED BY <1>1, DecoderInvariance, PTL

-----------------------------------------------------------------------------
(* The GUI                                                                 *)

LEMMA NothingTyped == ASSUME BoundsAssumption PROVE Nothing \in Results
BY DEF Nothing, Results, Sessions, BoundsAssumption

LEMMA OneIs ==
  ASSUME NEW b \in BOOLEAN
  PROVE  One(b) \in {0, 1} /\ One(TRUE) = 1 /\ One(FALSE) = 0
BY DEF One

\* Starts, in numbers: p and q are what is to come.
LEMMA StartsIs ==
  ASSUME BoundsAssumption, TypeOK, Starts
  PROVE  /\ One("start" \in posted) \in {0, 1} /\ One(restartPending) \in {0, 1}
         /\ One("start" \in posted) + One(restartPending) <= active + 1
         /\ started + One("start" \in posted) + One(restartPending) <= MaxStarts + active + 1
         /\ started \in Nat /\ active \in Nat /\ MaxStarts \in Nat /\ MaxApplied \in Nat
<1>1. /\ started \in Nat /\ active \in Nat /\ MaxStarts \in Nat /\ MaxApplied \in Nat
      /\ restartPending \in BOOLEAN
  BY DEF TypeOK, Sessions, BoundsAssumption
<1>2. One("start" \in posted) \in {0, 1} /\ One(restartPending) \in {0, 1}
  BY <1>1 DEF One
<1>3. PICK p, q \in {0, 1} : p = One("start" \in posted) /\ q = One(restartPending)
  BY <1>2
<1>4. p + q <= active + 1 /\ started + (p + q) <= MaxStarts + active + 1
  BY <1>3 DEF Starts
<1>5. started + p + q <= MaxStarts + active + 1
  BY <1>1, <1>3, <1>4
<1> QED
  BY <1>1, <1>2, <1>3, <1>4, <1>5

\* The number of sessions is bounded.
LEMMA StartedTyped ==
  ASSUME BoundsAssumption, NEW s \in Nat, NEW a \in 0..MaxApplied, NEW c \in Nat,
         s + c <= MaxStarts + a + 1
  PROVE  s \in Sessions
<1>1. MaxStarts \in Nat /\ MaxApplied \in Nat
  BY DEF BoundsAssumption
<1>2. s <= MaxStarts + MaxApplied + 1
  BY <1>1
<1> QED
  BY <1>1, <1>2 DEF Sessions

LEMMA GuiInitially == ASSUME BoundsAssumption, Init PROVE IInv
<1> USE DEF Init
<1>1. Nothing \in Results
  BY NothingTyped
<1>2. TypeOK
  <2>1. shown \in [Views -> Results] /\ frame \in Results /\ taken \in Results
    BY <1>1
  <2>2. todo \in Seq(Views) /\ posted \subseteq {"start", "close"}
    OBVIOUS
  <2>3. 0 \in Sessions /\ 0 \in 0..MaxApplied /\ 0 \in 0..MaxGen
    BY DEF Sessions, BoundsAssumption
  <2>4. /\ {restartPending, stopping, closing, canStart, shut, stuck, checked, stopAsked}
             \subseteq BOOLEAN
        /\ proc = "none"
    OBVIOUS
  <2> QED
    BY <2>1, <2>2, <2>3, <2>4 DEF TypeOK
<1>3. Starts
  BY DEF Starts, One, BoundsAssumption
<1>4. Fresh /\ Stopped
  BY DEF Fresh, Stopped
<1> QED
  BY <1>2, <1>3, <1>4 DEF IInv

\* A process started, and a session with it, which a signal may close at once
LEMMA StartProcessKeeps ==
  ASSUME BoundsAssumption, IInv, proc = "none", StartProcess, session' \in {0, started'}, Starts',
         todo = <<>>, UNCHANGED <<active, stuck, todo, taken, checked>>,
         posted' \subseteq posted, {restartPending, closing, shut, stopAsked}' \subseteq BOOLEAN
  PROVE  TypeOK' /\ Fresh'
<1>1. /\ proc' = "starting" /\ stopping' = FALSE /\ canStart' = FALSE
      /\ started' = started + 1 /\ launched' = active
      /\ frame' = Nothing /\ modelGen' = 0
      /\ shown' = [v \in Views |-> Nothing]
  BY DEF StartProcess
<1>2. started \in Nat /\ active \in 0..MaxApplied /\ started' \in Nat
  BY <1>1 DEF IInv, TypeOK, Sessions
<1>3. started' \in Sessions
  <2>1. PICK c : c = One("start" \in posted)' + One(restartPending)'
    OBVIOUS
  <2>2. c \in Nat
    BY <2>1 DEF One
  <2>3. started' + c <= MaxStarts + active + 1
    BY <2>1 DEF Starts
  <2> QED
    BY <1>2, <2>2, <2>3, StartedTyped
<1>4. Nothing \in Results /\ 0 \in 0..MaxGen
  BY NothingTyped DEF BoundsAssumption
<1>5. frame' \in Results /\ shown' \in [Views -> Results]
  BY <1>1, <1>4
<1>6. TypeOK'
  BY <1>1, <1>2, <1>3, <1>4, <1>5 DEF IInv, TypeOK
<1>7. Fresh'
  BY <1>1 DEF Fresh
<1> QED
  BY <1>6, <1>7

\* start(), which does nothing while a process is there
LEMMA LaunchKeeps ==
  ASSUME BoundsAssumption, IInv, Launch, Idle, Starts',
         UNCHANGED <<active, restartPending, closing, shut, stuck, todo, taken, checked>>,
         posted' \subseteq posted, stopAsked' \in BOOLEAN
  PROVE  TypeOK' /\ Fresh'
<1>1. CASE proc # "none"
  <2>1. UNCHANGED <<proc, started, session, launched, stopping, canStart, frame, modelGen, shown>>
    BY <1>1 DEF Launch
  <2>2. TypeOK'
    BY <2>1 DEF IInv, TypeOK
  <2>3. Fresh'
    BY <2>1 DEF IInv, Fresh, Ours
  <2> QED
    BY <2>2, <2>3
<1>2. CASE proc = "none"
  <2>1. StartProcess /\ session' \in {0, started'} /\ todo = <<>>
    BY <1>2 DEF Launch, Idle
  <2>2. {restartPending, closing, shut, stopAsked}' \subseteq BOOLEAN
    BY DEF IInv, TypeOK
  <2> QED
    BY <1>2, <2>1, <2>2, StartProcessKeeps
<1> QED
  BY <1>1, <1>2

\* A session more, by the button
LEMMA OneMore ==
  ASSUME BoundsAssumption, IInv, started < MaxStarts, started' \in {started, started + 1},
         UNCHANGED <<active, posted>>, restartPending' \in BOOLEAN,
         restartPending' => restartPending
  PROVE  Starts'
<1>1. PICK p, q \in {0, 1} : p = One("start" \in posted) /\ q = One(restartPending)
  BY StartsIs DEF IInv
<1>2. PICK y \in {0, 1} : y = One(restartPending)' /\ y <= q
  BY <1>1 DEF One, IInv, TypeOK
<1>3. /\ p + q <= active + 1 /\ started + p + q <= MaxStarts + active + 1
      /\ started \in Nat /\ active \in Nat /\ MaxStarts \in Nat
  BY <1>1, StartsIs DEF IInv
<1>4. p + y <= active + 1
  BY <1>1, <1>2, <1>3
<1>5. started' + (p + y) <= MaxStarts + active + 1
  BY <1>1, <1>2, <1>3, <1>4
<1> QED
  BY <1>1, <1>2, <1>4, <1>5 DEF Starts

\* ... or by the event posted for it
LEMMA OnePosted ==
  ASSUME BoundsAssumption, IInv, "start" \in posted, posted' = posted \ {"start"},
         started' \in {started, started + 1}, active' = active, restartPending' \in BOOLEAN,
         restartPending' => restartPending
  PROVE  Starts'
<1>1. PICK q \in {0, 1} : q = One(restartPending)
  BY StartsIs DEF IInv
<1>2. PICK y \in {0, 1} : y = One(restartPending)' /\ y <= q
  BY <1>1 DEF One, IInv, TypeOK
<1>3. One("start" \in posted) = 1 /\ One("start" \in posted)' = 0
  BY DEF One
<1>4. /\ 1 + q <= active + 1 /\ started + 1 + q <= MaxStarts + active + 1
      /\ started \in Nat /\ active \in Nat /\ MaxStarts \in Nat
  BY <1>1, <1>3, StartsIs DEF IInv
<1>5. started' + (0 + y) <= MaxStarts + active + 1 /\ 0 + y <= active + 1
  BY <1>1, <1>2, <1>4
<1> QED
  BY <1>2, <1>3, <1>5 DEF Starts

LEMMA StartKeeps == ASSUME BoundsAssumption, IInv, Start PROVE IInv'
<1>1. /\ Idle /\ Launch /\ stopAsked' = FALSE /\ started < MaxStarts
      /\ UNCHANGED <<active, restartPending, closing, posted, shut, stuck, todo, taken, checked>>
  BY DEF Start, Pressed, Usable
<1>2. Starts'
  <2>1. started' \in {started, started + 1}
    BY <1>1 DEF Launch, StartProcess
  <2>2. restartPending' \in BOOLEAN
    BY <1>1 DEF IInv, TypeOK
  <2> QED
    BY <1>1, <2>1, <2>2, OneMore
<1>3. TypeOK' /\ Fresh'
  BY <1>1, <1>2, LaunchKeeps
<1>4. Stopped'
  BY <1>1 DEF Stopped
<1> QED
  BY <1>2, <1>3, <1>4 DEF IInv

LEMMA PostedStartKeeps == ASSUME BoundsAssumption, IInv, PostedStart PROVE IInv'
<1>1. /\ Idle /\ Launch /\ "start" \in posted /\ posted' = posted \ {"start"}
      /\ UNCHANGED <<active, restartPending, closing, shut, stuck, stopAsked, todo, taken, checked>>
  BY DEF PostedStart, Served
<1>2. Starts'
  <2>1. started' \in {started, started + 1}
    BY <1>1 DEF Launch, StartProcess
  <2>2. restartPending' \in BOOLEAN
    BY <1>1 DEF IInv, TypeOK
  <2> QED
    BY <1>1, <2>1, <2>2, OnePosted
<1>3. TypeOK' /\ Fresh'
  <2>1. stopAsked' \in BOOLEAN
    BY <1>1 DEF IInv, TypeOK
  <2> QED
    BY <1>1, <1>2, <2>1, LaunchKeeps
<1>4. Stopped'
  BY <1>1 DEF IInv, Stopped
<1> QED
  BY <1>2, <1>3, <1>4 DEF IInv

\* Nothing more to come
LEMMA FewerStarts ==
  ASSUME BoundsAssumption, TypeOK, Starts, UNCHANGED <<started, active>>,
         "start" \in posted' => "start" \in posted, restartPending' \in BOOLEAN,
         restartPending' => restartPending
  PROVE  Starts'
<1>1. PICK p, q \in {0, 1} : p = One("start" \in posted) /\ q = One(restartPending)
  BY StartsIs
<1>2. PICK x, y \in {0, 1} : x = One("start" \in posted)' /\ y = One(restartPending)'
  BY DEF One
<1>3. x <= p /\ y <= q
  BY <1>1, <1>2 DEF One, TypeOK
<1>4. /\ p + q <= active + 1 /\ started + p + q <= MaxStarts + active + 1
      /\ started \in Nat /\ active \in Nat /\ MaxStarts \in Nat
  BY <1>1, StartsIs
<1>5. x + y <= active + 1 /\ started + (x + y) <= MaxStarts + active + 1
  BY <1>1, <1>2, <1>3, <1>4
<1> QED
  BY <1>2, <1>5 DEF Starts

LEMMA InterruptKeeps ==
  ASSUME BoundsAssumption, IInv, Interrupt, todo = <<>> \/ closing',
         UNCHANGED <<proc, started, launched, canStart, stuck, modelGen, refreshVars>>,
         active' \in 0..MaxApplied, active' = active \/ proc # "none",
         {restartPending, closing, shut, stopAsked}' \subseteq BOOLEAN, posted' \subseteq posted
  PROVE  TypeOK' /\ Fresh'
<1>1. /\ session' = 0 /\ frame' = Nothing /\ stopping' = (stopping \/ proc # "none")
      /\ UNCHANGED <<todo, taken, checked, shown>>
  BY DEF Interrupt, refreshVars
<1>2. frame' \in Results
  BY <1>1, NothingTyped
<1>3. stopping' \in BOOLEAN
  BY <1>1
<1>4. (proc # "none" /\ launched # active => stopping)'
  BY <1>1 DEF IInv, TypeOK
<1>5. TypeOK'
  BY <1>1, <1>2, <1>3, <1>4 DEF IInv, TypeOK
<1>6. Fresh'
  BY <1>1 DEF IInv, Fresh, Ours
<1> QED
  BY <1>5, <1>6

LEMMA FinalTyped == Final \in BOOLEAN
BY DEF Final

LEMMA StopKeeps == ASSUME BoundsAssumption, IInv, Stop PROVE IInv'
<1>1. /\ todo = <<>> /\ Interrupt /\ restartPending' = FALSE /\ stopAsked' = Final
      /\ UNCHANGED <<proc, started, active, launched, closing, canStart, posted, shut, stuck,
                     modelGen, refreshVars>>
  BY DEF Stop, Usable, Idle, StopForgetsRestart
<1>2. Starts'
  BY <1>1, FewerStarts DEF IInv
<1>3. TypeOK' /\ Fresh'
  <2>1. active' \in 0..MaxApplied /\ {restartPending, closing, shut, stopAsked}' \subseteq BOOLEAN
    BY <1>1, FinalTyped DEF IInv, TypeOK
  <2> QED
    BY <1>1, <2>1, InterruptKeeps
<1>4. Stopped'
  BY <1>1 DEF Stopped, Final
<1> QED
  BY <1>2, <1>3, <1>4 DEF IInv

\* Each change of parameters may ask for a session more.
LEMMA AskedMore ==
  ASSUME BoundsAssumption, IInv, active' = active + 1, UNCHANGED <<started, posted>>,
         restartPending' \in BOOLEAN
  PROVE  Starts'
<1>1. PICK p, q \in {0, 1} : p = One("start" \in posted) /\ q = One(restartPending)
  BY StartsIs DEF IInv
<1>2. PICK y \in {0, 1} : y = One(restartPending)'
  BY DEF One
<1>3. /\ p + q <= active + 1 /\ started + p + q <= MaxStarts + active + 1
      /\ started \in Nat /\ active \in Nat /\ MaxStarts \in Nat
  BY <1>1, StartsIs DEF IInv
<1>4. p + y <= active' + 1
  BY <1>1, <1>2, <1>3
<1>5. started + (p + y) <= MaxStarts + active' + 1
  <2>1. p \in Nat /\ q \in Nat /\ y \in Nat /\ y <= q + 1
    BY <1>1, <1>2
  <2>2. started + p + y <= started + p + q + 1
    BY <1>3, <2>1
  <2>3. started + p + q + 1 <= MaxStarts + (active + 1) + 1
    BY <1>3, <2>1
  <2> QED
    BY <1>3, <2>1, <2>2, <2>3
<1> QED
  BY <1>1, <1>2, <1>4, <1>5 DEF Starts

LEMMA ApplyKeeps == ASSUME BoundsAssumption, IInv, Apply PROVE IInv'
<1>1. /\ todo = <<>> /\ active < MaxApplied /\ active' = active + 1
      /\ UNCHANGED <<proc, started, launched, closing, canStart, posted, shut, stuck, modelGen,
                     refreshVars>>
  BY DEF Apply, Usable, Idle
<1>2. active' \in 0..MaxApplied
  BY <1>1 DEF IInv, TypeOK, BoundsAssumption
<1>3. restartPending' \in BOOLEAN
  BY DEF Apply, IInv, TypeOK
<1>4. Starts'
  BY <1>1, <1>3, AskedMore
<1>5. CASE proc = "none"
  <2>1. UNCHANGED <<restartPending, session, frame, stopping, stopAsked>>
    BY <1>5 DEF Apply
  <2>2. TypeOK'
    BY <1>1, <1>2, <1>5, <2>1 DEF IInv, TypeOK, refreshVars
  <2>3. Fresh' /\ Stopped'
    BY <1>1, <2>1 DEF IInv, Fresh, Ours, Stopped, refreshVars
  <2> QED
    BY <1>4, <2>2, <2>3 DEF IInv
<1>6. CASE proc # "none"
  <2>1. Interrupt /\ stopAsked' = FALSE
    BY <1>6 DEF Apply
  <2>2. {restartPending, closing, shut, stopAsked}' \subseteq BOOLEAN
    BY <1>1, <1>3, <2>1 DEF IInv, TypeOK
  <2>3. TypeOK' /\ Fresh'
    BY <1>1, <1>2, <1>6, <2>1, <2>2, InterruptKeeps
  <2> QED
    BY <1>4, <2>1, <2>3 DEF IInv, Stopped
<1> QED
  BY <1>5, <1>6

\* Closed, between two handlers or by a signal within refresh
LEMMA CloseKeeps == ASSUME BoundsAssumption, IInv, Close \/ PostedClose PROVE IInv'
<1>1. /\ Interrupt /\ restartPending' = FALSE /\ stopAsked' = Final
      /\ closing' = TRUE /\ shut' = (proc = "none") /\ posted' \subseteq posted
      /\ "start" \in posted' => "start" \in posted
      /\ UNCHANGED <<proc, started, active, launched, canStart, stuck, modelGen, refreshVars>>
  BY DEF Close, PostedClose, CloseWindow, StopForgetsRestart
<1>2. Starts'
  BY <1>1, FewerStarts DEF IInv
<1>3. TypeOK' /\ Fresh'
  <2>1. active' \in 0..MaxApplied /\ {restartPending, closing, shut, stopAsked}' \subseteq BOOLEAN
    BY <1>1, FinalTyped DEF IInv, TypeOK
  <2> QED
    BY <1>1, <2>1, InterruptKeeps
<1>4. Stopped'
  BY <1>1 DEF Stopped, Final
<1> QED
  BY <1>2, <1>3, <1>4 DEF IInv

\* A signal inside start(): the process starts in a window that is closed.
LEMMA SignalInStartKeeps == ASSUME BoundsAssumption, IInv, SignalInStart PROVE IInv'
<1>1. /\ proc = "none" /\ StartProcess /\ session' \in {0, started'} /\ todo = <<>>
      /\ closing' = TRUE /\ restartPending' = FALSE /\ shut' = TRUE /\ stopAsked' = FALSE
      /\ posted' \subseteq posted /\ started' = started + 1
      /\ UNCHANGED <<active, stuck, todo, taken, checked>>
  BY DEF SignalInStart, StopForgetsRestart, Pressed, Served, Usable, Idle, StartProcess
<1>2. Starts'
  <2>1. CASE Pressed
    BY <1>1, <2>1, OneMore DEF Pressed
  <2>2. CASE Served
    BY <1>1, <2>2, OnePosted DEF Served
  <2> QED
    BY <2>1, <2>2 DEF SignalInStart
<1>3. TypeOK' /\ Fresh'
  BY <1>1, <1>2, StartProcessKeeps
<1> QED
  BY <1>1, <1>2, <1>3 DEF IInv, Stopped

\* A signal inside apply_parameters: the restart stays pending in a window that closes.
LEMMA SignalInApplyKeeps == ASSUME BoundsAssumption, IInv, SignalInApply PROVE IInv'
<1>1. /\ todo = <<>> /\ proc # "none" /\ active < MaxApplied /\ active' = active + 1
      /\ closing' = TRUE /\ restartPending' = TRUE /\ Interrupt /\ stopAsked' = TRUE
      /\ UNCHANGED <<proc, started, launched, canStart, posted, shut, stuck, modelGen,
                     refreshVars>>
  BY DEF SignalInApply, Usable, Idle
<1>2. active' \in 0..MaxApplied /\ {restartPending, closing, shut, stopAsked}' \subseteq BOOLEAN
  BY <1>1 DEF IInv, TypeOK, BoundsAssumption
<1>3. Starts'
  BY <1>1, <1>2, AskedMore
<1>4. TypeOK' /\ Fresh'
  BY <1>1, <1>2, InterruptKeeps
<1> QED
  BY <1>1, <1>3, <1>4 DEF IInv, Stopped

\* A signal while the lock is held: nothing goes on.
LEMMA SignalUnderLockKeeps == ASSUME BoundsAssumption, IInv, SignalUnderLock PROVE IInv'
<1>1. /\ closing' = TRUE /\ restartPending' = FALSE /\ stuck' = TRUE
      /\ UNCHANGED <<proc, started, active, launched, stopping, canStart, posted, shut,
                     stopAsked, session, frame, modelGen, refreshVars>>
  BY DEF SignalUnderLock, StopForgetsRestart
<1>2. Starts'
  BY <1>1, FewerStarts DEF IInv
<1>3. TypeOK' /\ Fresh' /\ Stopped'
  BY <1>1 DEF IInv, TypeOK, Fresh, Ours, Stopped, refreshVars
<1> QED
  BY <1>2, <1>3 DEF IInv

LEMMA ProcessKeeps == ASSUME BoundsAssumption, IInv, ProcessRuns \/ ProcessFails PROVE IInv'
<1>1. /\ proc = "starting" /\ proc' \in {"running", "none"} /\ posted = {}
      /\ UNCHANGED <<started, active, launched, restartPending, stopping, closing, canStart,
                     posted, shut, stuck, stopAsked, session, frame, modelGen, refreshVars>>
  BY DEF ProcessRuns, ProcessFails, Notice
<1>2. TypeOK'
  BY <1>1 DEF IInv, TypeOK, refreshVars
<1>3. Starts'
  BY <1>1 DEF IInv, Starts
<1>4. Fresh'
  BY <1>1 DEF IInv, Fresh, Ours, refreshVars
<1>5. Stopped'
  BY <1>1 DEF IInv, Stopped
<1> QED
  BY <1>2, <1>3, <1>4, <1>5 DEF IInv

LEMMA ProcessEndsKeeps == ASSUME BoundsAssumption, IInv, ProcessEnds PROVE IInv'
<1>1. /\ Idle /\ posted = {} /\ proc' = "none" /\ session' = 0 /\ frame' = Nothing
      /\ canStart' = TRUE /\ posted' = NextStep
      /\ restartPending' = (restartPending /\ closing)
      /\ UNCHANGED <<started, active, launched, stopping, closing, shut, stuck, stopAsked, modelGen,
                     todo, taken, checked, shown>>
  BY DEF ProcessEnds, Notice, refreshVars
<1>2. TypeOK'
  <2>1. frame' \in Results /\ posted' \subseteq {"start", "close"}
    BY <1>1, NothingTyped DEF NextStep
  <2>2. restartPending' \in BOOLEAN
    BY <1>1
  <2> QED
    BY <1>1, <2>1, <2>2 DEF IInv, TypeOK
<1>3. Starts'
  <2>1. PICK q \in {0, 1} : q = One(restartPending)
    BY StartsIs DEF IInv
  <2>2. One("start" \in posted) = 0
    BY <1>1 DEF One
  <2>3. /\ 0 + q <= active + 1 /\ started + 0 + q <= MaxStarts + active + 1
        /\ started \in Nat /\ active \in Nat /\ MaxStarts \in Nat
    BY <2>1, <2>2, StartsIs DEF IInv
  <2>4. One("start" \in posted)' + One(restartPending)' = q
    BY <1>1, <2>1 DEF One, NextStep, IInv, TypeOK
  <2>5. q <= active + 1 /\ started + q <= MaxStarts + active + 1
    BY <2>1, <2>3
  <2> QED
    BY <1>1, <2>4, <2>5 DEF Starts
<1>4. Fresh'
  BY <1>1 DEF IInv, Fresh, Ours, Idle
<1>5. Stopped'
  BY <1>1 DEF IInv, Stopped, NextStep
<1> QED
  BY <1>2, <1>3, <1>4, <1>5 DEF IInv

\* A result or a status of the open session
LEMMA MessageKeeps == ASSUME BoundsAssumption, IInv, OnResult \/ OnStatus PROVE IInv'
<1>1. UNCHANGED <<processVars, session, refreshVars>>
  BY DEF OnResult, OnStatus
<1>2. PICK s \in 1..started, g \in 0..MaxGen :
        /\ s = session /\ g >= modelGen /\ modelGen' = g
        /\ frame' \in {[session |-> s, gen |-> g], Nothing, frame}
        /\ frame' = frame => g = modelGen \/ frame = [session |-> s, gen |-> g] \/ frame = Nothing
  BY DEF OnResult, OnStatus, IInv, TypeOK
<1>3. /\ session # 0 /\ session = started /\ s = started
      /\ modelGen \in Nat /\ g \in Nat
  BY <1>2 DEF IInv, TypeOK, Sessions
<1>4. frame' \in Results
  <2>1. [session |-> s, gen |-> g] \in Results
    BY <1>2 DEF IInv, TypeOK, Results
  <2> QED
    BY <1>2, <2>1, NothingTyped DEF IInv, TypeOK
<1>5. TypeOK'
  BY <1>1, <1>2, <1>4 DEF IInv, TypeOK, processVars, refreshVars
<1>6. Starts' /\ Stopped'
  BY <1>1 DEF IInv, Starts, Stopped, processVars
<1>7. ASSUME NEW r \in Results, Ours(r) PROVE r.session = started /\ r.gen <= g
  BY <1>2, <1>3, <1>7 DEF Ours, Results
<1>8. Fresh'
  <2>1. frame' # Nothing => frame'.session = started /\ frame'.gen <= g
    <3>1. CASE frame' = [session |-> s, gen |-> g]
      BY <1>2, <1>3, <3>1
    <3>2. CASE frame' = frame
      BY <1>7, <3>2 DEF IInv, Fresh, TypeOK
    <3> QED
      BY <1>2, <3>1, <3>2
  <2>2. todo # <<>> => taken.session = started /\ taken.gen <= g /\ taken # Nothing
    BY <1>7 DEF IInv, Fresh, TypeOK
  <2>3. \A v \in Views : shown[v] # Nothing => shown[v].session = started /\ shown[v].gen <= g
    BY <1>7 DEF IInv, Fresh, TypeOK
  <2> QED
    BY <1>1, <1>2, <1>3, <2>1, <2>2, <2>3 DEF Fresh, Ours, refreshVars, processVars
<1> QED
  BY <1>5, <1>6, <1>8 DEF IInv

LEMMA RefreshTakeKeeps == ASSUME BoundsAssumption, IInv, RefreshTake PROVE IInv'
<1>1. /\ frame # Nothing /\ taken' = frame /\ frame' = Nothing
      /\ todo' = <<"e2fai_gray", "e2fai_flow">>
      /\ UNCHANGED <<processVars, session, modelGen, checked, shown>>
  BY DEF RefreshTake
<1>2. TypeOK'
  <2>1. frame' \in Results /\ taken' \in Results
    BY <1>1, NothingTyped DEF IInv, TypeOK
  <2>2. todo' \in Seq(Views)
    BY <1>1 DEF Views
  <2> QED
    BY <1>1, <2>1, <2>2 DEF IInv, TypeOK, processVars
<1>3. Starts' /\ Stopped'
  BY <1>1 DEF IInv, Starts, Stopped, processVars
<1>4. Fresh'
  BY <1>1 DEF IInv, Fresh, Ours, processVars
<1> QED
  BY <1>2, <1>3, <1>4 DEF IInv

\* A view dealt with: the others are left.
LEMMA SkipKeeps ==
  ASSUME BoundsAssumption, IInv, Refreshing, Skip
  PROVE  /\ todo' \in Seq(Views) /\ taken' \in Results /\ checked' = FALSE
         /\ todo' # <<>> => taken' = taken
<1>1. todo \in Seq(Views) /\ todo # <<>>
  BY DEF IInv, TypeOK, Refreshing
<1>2. todo' = Tail(todo) /\ checked' = FALSE /\ taken' \in {Nothing, taken}
  BY DEF Skip
<1>3. todo' # <<>> => Len(todo) # 1
  BY <1>1, <1>2
<1>4. todo' # <<>> => taken' = taken
  BY <1>3 DEF Skip
<1> QED
  BY <1>1, <1>2, <1>4, NothingTyped DEF IInv, TypeOK

LEMMA RefreshCheckKeeps == ASSUME BoundsAssumption, IInv, RefreshCheck PROVE IInv'
<1>1. Refreshing /\ UNCHANGED <<processVars, session, frame, modelGen, shown>>
  BY DEF RefreshCheck
<1>2. /\ todo' \in Seq(Views) /\ taken' \in Results /\ checked' \in BOOLEAN
      /\ todo' # <<>> => taken' = taken
  <2>1. CASE Skip
    BY <1>1, <2>1, SkipKeeps
  <2>2. CASE checked' = TRUE /\ UNCHANGED <<todo, taken>>
    BY <2>2 DEF IInv, TypeOK
  <2> QED
    BY <2>1, <2>2 DEF RefreshCheck
<1>3. TypeOK'
  BY <1>1, <1>2 DEF IInv, TypeOK, processVars
<1>4. Starts' /\ Stopped'
  BY <1>1 DEF IInv, Starts, Stopped, processVars
<1>5. Fresh'
  BY <1>1, <1>2 DEF IInv, Fresh, Ours, Refreshing, processVars
<1> QED
  BY <1>3, <1>4, <1>5 DEF IInv

\* What is presented is of the last session and its newest generation.
LEMMA Presented ==
  ASSUME BoundsAssumption, IInv, RefreshPresent
  PROVE  /\ Ours(taken) /\ taken \in Results /\ taken # Nothing
         /\ session = started \/ closing
         /\ \A v \in Views : shown'[v] \in {shown[v], taken}
         /\ \A v \in Views : shown'[v] # shown[v] => taken.gen >= modelGen
         /\ shown' \in [Views -> Results]
<1>1. /\ Ours(taken) /\ taken \in Results /\ taken # Nothing
      /\ (session = started \/ closing) /\ shown \in [Views -> Results]
  BY DEF RefreshPresent, Refreshing, IInv, Fresh, TypeOK
<1>2. shown' = IF Current THEN [shown EXCEPT ![Head(todo)] = taken] ELSE shown
  BY DEF RefreshPresent
<1> QED
  BY <1>1, <1>2 DEF Current

LEMMA RefreshPresentKeeps == ASSUME BoundsAssumption, IInv, RefreshPresent PROVE IInv'
<1>1. Refreshing /\ Skip /\ UNCHANGED <<processVars, session, frame, modelGen>>
  BY DEF RefreshPresent
<1>2. /\ todo' \in Seq(Views) /\ taken' \in Results /\ checked' = FALSE
      /\ todo' # <<>> => taken' = taken
  BY <1>1, SkipKeeps
<1>3. TypeOK'
  BY <1>1, <1>2, Presented DEF IInv, TypeOK, processVars
<1>4. Starts' /\ Stopped'
  BY <1>1 DEF IInv, Starts, Stopped, processVars
<1>5. Fresh'
  <2>1. ASSUME NEW v \in Views, shown'[v] # Nothing PROVE Ours(shown'[v])
    <3>1. CASE shown'[v] = taken
      BY <3>1, Presented
    <3>2. CASE shown'[v] = shown[v]
      BY <2>1, <3>2, Presented DEF IInv, Fresh
    <3> QED
      BY <3>1, <3>2, Presented
  <2> QED
    BY <1>1, <1>2, <2>1 DEF IInv, Fresh, Ours, Refreshing, processVars
<1> QED
  BY <1>3, <1>4, <1>5 DEF IInv

LEMMA GuiStep == ASSUME BoundsAssumption, IInv, [Next]_vars PROVE IInv'
<1>1. CASE UNCHANGED vars
  BY <1>1 DEF vars, processVars, refreshVars, IInv, TypeOK, Starts, Fresh, Ours, Stopped
<1>2. CASE Next
  BY <1>2, StartKeeps, StopKeeps, ApplyKeeps, CloseKeeps, PostedStartKeeps, SignalInStartKeeps,
     SignalInApplyKeeps, SignalUnderLockKeeps, ProcessKeeps,
     ProcessEndsKeeps, MessageKeeps, RefreshTakeKeeps, RefreshCheckKeeps, RefreshPresentKeeps
     DEF Next
<1> QED
  BY <1>1, <1>2

\* Types are right, a process runs the active parameters unless it is being stopped,
\* and a session is only open while it runs.
THEOREM GuiTyped == Spec => []TypeOK
<1>1. Init => IInv
  BY BoundsAssumption, GuiInitially
<1>2. IInv /\ [Next]_vars => IInv'
  BY BoundsAssumption, GuiStep
<1>3. IInv => TypeOK
  BY DEF IInv
<1> QED
  BY <1>1, <1>2, <1>3, PTL DEF Spec

\* A view never goes back: what is put into it is of the acquisition started last and of its
\* newest generation, whatever the order in which results and statuses arrive, and of an open
\* session unless a signal closed it while refresh had the result.
THEOREM GuiFresh == Spec => PresentedFresh
<1> DEFINE New(v) == /\ shown'[v].session = started /\ (session = started \/ closing)
                     /\ shown'[v].gen >= modelGen
                     /\ shown[v] # Nothing => shown[v].session = started
                                              /\ shown'[v].gen >= shown[v].gen
           A == \A v \in Views : shown'[v] # shown[v] /\ shown'[v] # Nothing => New(v)
<1>1. Init => IInv
  BY BoundsAssumption, GuiInitially
<1>2. IInv /\ [Next]_vars => IInv'
  BY BoundsAssumption, GuiStep
<1>3. IInv /\ [Next]_vars => [A]_vars
  <2> SUFFICES ASSUME IInv, Next, NEW v \in Views, shown'[v] # shown[v], shown'[v] # Nothing
               PROVE  New(v)
    OBVIOUS
  <2>1. RefreshPresent
    <3>1. CASE UNCHANGED shown
      BY <3>1
    <3>2. CASE Launch
      BY <3>2 DEF Launch, StartProcess
    <3>3. CASE StartProcess
      BY <3>3 DEF StartProcess
    <3> QED
      BY <3>1, <3>2, <3>3 DEF Next, Start, Stop, Apply, Close, PostedStart, PostedClose,
         CloseWindow, SignalInStart, SignalInApply, SignalUnderLock, ProcessRuns, ProcessFails,
         ProcessEnds, OnResult, OnStatus, RefreshTake, RefreshCheck, refreshVars
  <2>2. /\ shown'[v] = taken /\ taken.session = started /\ taken.gen >= modelGen
        /\ session = started \/ closing
    BY BoundsAssumption, <2>1, Presented DEF Ours
  <2>3. shown[v] # Nothing => shown[v].session = started /\ shown[v].gen <= modelGen
    BY DEF IInv, Fresh, Ours
  <2>4. shown[v].gen \in Nat /\ taken.gen \in Nat /\ modelGen \in Nat
    BY DEF IInv, TypeOK, Results
  <2>5. shown[v] # Nothing => taken.gen >= shown[v].gen
    BY <2>2, <2>3, <2>4
  <2> QED
    BY <2>2, <2>3, <2>5
<1> QED
  BY <1>1, <1>2, <1>3, PTL DEF Spec, PresentedFresh

\* Behind a Stop or a Close no acquisition starts that the user has not asked for since, but
\* for a start() that was posted, or had begun, when there was no process to stop.
THEOREM GuiStops == Spec => StopFinal
<1>1. Init => IInv
  BY BoundsAssumption, GuiInitially
<1>2. IInv /\ [Next]_vars => IInv'
  BY BoundsAssumption, GuiStep
<1>3. IInv /\ [Next]_vars => [proc = "none" /\ proc' = "starting" => ~stopAsked']_vars
  <2> SUFFICES ASSUME IInv, Next, proc = "none", proc' = "starting" PROVE ~stopAsked'
    OBVIOUS
  <2>1. Start \/ PostedStart \/ SignalInStart
    BY DEF Next, Stop, Apply, Close, PostedClose, CloseWindow, SignalInApply, SignalUnderLock,
       ProcessRuns, ProcessFails, ProcessEnds, OnResult, OnStatus, RefreshTake, RefreshCheck,
       RefreshPresent, processVars
  <2>2. CASE Start \/ SignalInStart
    BY <2>2 DEF Start, SignalInStart
  <2>3. CASE PostedStart
    BY <2>3 DEF PostedStart, Served, IInv, Stopped
  <2> QED
    BY <2>1, <2>2, <2>3
<1> QED
  BY <1>1, <1>2, <1>3, PTL DEF Spec, StopFinal

-----------------------------------------------------------------------------
(* The connection                                                          *)

LEMMA Sizes ==
  ASSUME FramingAssumption, NEW kind
  PROVE  /\ Size(kind) \in Nat /\ Size(kind) >= 4
         /\ Size(kind) > 4 => kind \in {"events", "result"}
BY DEF Size, FramingAssumption

LEMMA SentFacts ==
  ASSUME FramingAssumption, SenderInv
  PROVE  /\ sent \in Seq(Kinds) /\ Len(sent) \in Nat /\ DOMAIN sent = 1..Len(sent)
         /\ \A p \in 1..Len(sent) : sent[p] \in Kinds
         /\ Begun \in Nat /\ Begun <= Len(sent)
         /\ ~Unwritten => Begun = Len(sent)
         /\ Unwritten => Len(sent) > 0 /\ Begun = Len(sent) - 1
<1>1. sent \in Seq(Kinds) /\ Len(sent) \in Nat /\ DOMAIN sent = 1..Len(sent)
  BY DEF SenderInv
<1>2. \A p \in 1..Len(sent) : sent[p] \in Kinds
  BY <1>1
<1>3. Unwritten => Len(sent) > 0
  BY DEF SenderInv, Sending, Unwritten
<1>4. /\ ~Unwritten => Begun = Len(sent)
      /\ Unwritten => Begun = Len(sent) - 1
  BY DEF Begun
<1>5. Begun \in Nat /\ Begun <= Len(sent)
  BY <1>1, <1>3, <1>4
<1> QED
  BY <1>1, <1>2, <1>3, <1>4, <1>5

LEMMA FrameInitially == ASSUME FramingAssumption, FramingInit PROVE FramingInv
<1> USE DEF FramingInit
<1>1. Begun = 0
  BY DEF Begun, Unwritten
<1>2. SenderInv
  <2>1. pc \in [Threads -> {"run", "status", "failing", "fail", "end"}]
    OBVIOUS
  <2>2. \A t \in Threads : pc[t] = "run"
    OBVIOUS
  <2>3. sent \in Seq(Kinds) /\ Sending
    BY DEF Sending
  <2> QED
    BY <2>1, <2>2, <2>3 DEF SenderInv
<1>3. WireInv
  BY DEF WireInv
<1>4. DeliveredInv /\ DeliveredInOrder
  BY DEF DeliveredInv, DeliveredInOrder
<1>5. ReadInv
  BY <1>1 DEF ReadInv, AllRead
<1> QED
  BY <1>2, <1>3, <1>4, <1>5 DEF FramingInv

-----------------------------------------------------------------------------
(* What steps of the sending end leave of the packets begun                *)

SentKept ==
  /\ direction' = direction /\ Begun' >= Begun /\ Begun' \in Nat
  /\ \A p \in 1..Begun : sent'[p] = sent[p] /\ (Ended(p) => Ended(p)')

LEMMA CutKept ==
  ASSUME SentKept, NEW p \in 1..Begun
  PROVE  /\ MayBeCut(p) => MayBeCut(p)'
         /\ sent'[p] = sent[p]
BY DEF SentKept, MayBeCut

LEMMA FollowsKept ==
  ASSUME SentKept, NEW c, NEW d, c.packet \in 1..Begun, Follows(c, d)
  PROVE  Follows(c, d)'
<1>1. PICK p : p = c.packet
  OBVIOUS
<1>2. /\ MayBeCut(p) => MayBeCut(p)'
      /\ sent'[p] = sent[p]
  BY <1>1, CutKept
<1>3. CASE d = [packet |-> c.packet, i |-> c.i + 1] /\ c.i < Size(sent[p])
  BY <1>1, <1>2, <1>3 DEF Follows
<1>4. CASE d = [packet |-> c.packet + 1, i |-> 1] /\ (c.i = Size(sent[p]) \/ MayBeCut(p))
  BY <1>1, <1>2, <1>4 DEF Follows
<1> QED
  BY <1>1, <1>3, <1>4 DEF Follows

\* What was handed on stays in order.
LEMMA DeliveredKept ==
  ASSUME FramingAssumption, SenderInv, DeliveredInv, DeliveredInOrder, SentKept, delivered' = delivered
  PROVE  DeliveredInv' /\ DeliveredInOrder'
<1>1. DOMAIN delivered = 1..Len(delivered) /\ Len(delivered) \in Nat
  BY DEF DeliveredInv
<1>2. Begun \in Nat /\ Begun' \in Nat /\ Begun' >= Begun
  BY SentFacts DEF SentKept
<1>3. ASSUME NEW i \in DOMAIN delivered
      PROVE  /\ delivered[i].packet \in 1..(Begun')
             /\ sent'[delivered[i].packet] = sent[delivered[i].packet]
  <2>1. PICK p : p = delivered[i].packet
    OBVIOUS
  <2>2. p \in 1..Begun
    BY <2>1 DEF DeliveredInv
  <2>3. p \in 1..(Begun') /\ sent'[p] = sent[p]
    BY <1>2, <2>2 DEF SentKept
  <2> QED
    BY <2>1, <2>3
<1>4. ASSUME NEW i \in DOMAIN delivered, ~delivered[i].whole
      PROVE  Ended(i)' /\ i < Begun' /\ sent'[i] = sent[i]
  <2>1. Ended(i) /\ i < Begun
    BY <1>4 DEF DeliveredInv
  <2>2. i \in 1..Begun
    BY <1>1, <1>2, <2>1
  <2>3. i < Begun'
    BY <1>1, <1>2, <2>1
  <2> QED
    BY <2>1, <2>2, <2>3 DEF SentKept
<1>5. \A i \in DOMAIN delivered : delivered[i].packet \in 1..(Begun')
  BY <1>3
<1>6. DeliveredInv'
  <2>1. \A i \in DOMAIN delivered : ~delivered[i].whole => Ended(i)' /\ i < Begun'
    BY <1>4
  <2>2. delivered' \in Seq([packet : Nat, whole : BOOLEAN])
    BY DEF DeliveredInv
  <2> QED
    BY <1>5, <2>1, <2>2 DEF DeliveredInv
<1>7. DeliveredInOrder'
  BY <1>3, <1>4 DEF DeliveredInOrder
<1> QED
  BY <1>6, <1>7
\* Steps of the sending end that write nothing
LEMMA QuietKeeps ==
  ASSUME FramingAssumption, FramingInv, SenderInv', SentKept, Begun' = Begun,
         UNCHANGED <<wire, link, receiver>>,
         \A c : c.packet \in 1..Begun /\ IsEnd(c) => IsEnd(c)',
         AllRead => AllRead'
  PROVE  FramingInv'
<1>1. UNCHANGED <<got, need, reader, delivered>> /\ direction' = direction
  BY DEF receiver, SentKept
<1>2. DeliveredInv' /\ DeliveredInOrder'
  BY <1>1, DeliveredKept DEF FramingInv
<1>3. WireInv'
  <2>1. ASSUME NEW j \in DOMAIN wire, NEW k \in DOMAIN wire
        PROVE  /\ wire[k].packet \in 1..(Begun')
               /\ j < k => wire[j].packet <= wire[k].packet
               /\ k = j + 1 => Follows(wire[j], wire[k])'
    <3>1. PICK c, d : c = wire[j] /\ d = wire[k]
      OBVIOUS
    <3>2. /\ c.packet \in 1..Begun /\ d.packet \in 1..Begun
          /\ j < k => c.packet <= d.packet
          /\ k = j + 1 => Follows(c, d)
      BY <3>1 DEF FramingInv, WireInv
    <3>3. k = j + 1 => Follows(c, d)'
      BY <3>2, FollowsKept
    <3> QED
      BY <1>1, <3>1, <3>2, <3>3
  <2>2. wire # <<>> /\ link # "rst" => IsEnd(wire[Len(wire)])'
    <3> SUFFICES ASSUME wire # <<>>, link # "rst"
                 PROVE  IsEnd(wire[Len(wire)])'
      OBVIOUS
    <3>1. PICK c : c = wire[Len(wire)]
      OBVIOUS
    <3>2. Len(wire) \in DOMAIN wire
      BY DEF FramingInv, WireInv
    <3>3. c.packet \in 1..Begun /\ IsEnd(c)
      BY <3>1, <3>2 DEF FramingInv, WireInv
    <3>4. IsEnd(c)'
      BY <3>3
    <3> QED
      BY <3>1, <3>4
  <2>3. link' \in {"up", "fin", "rst"} /\ wire' \in Seq(Cell)
    BY DEF FramingInv, WireInv
  <2> QED
    BY <2>1, <2>2, <2>3 DEF WireInv
<1>4. ASSUME reader = "reading" PROVE ReadInv'
  <2> USE DEF FramingInv
  <2>1. ReadInv
    BY <1>4
  <2>2. ASSUME got # <<>> PROVE GotInv'
    <3>1. GotInv /\ Len(got) \in DOMAIN got /\ 1 \in DOMAIN got
      BY <2>1, <2>2 DEF ReadInv
    <3>2. PICK c, d, f : c = got[Len(got)] /\ d = wire[1] /\ f = got[1]
      OBVIOUS
    <3>3. c.packet \in 1..Begun /\ f.packet \in 1..Begun
      BY <2>1, <3>1, <3>2 DEF ReadInv
    <3>4. wire # <<>> => Follows(c, d)'
      BY <3>1, <3>2, <3>3, FollowsKept DEF GotInv
    <3>5. wire = <<>> /\ link # "rst" => IsEnd(c)'
      BY <3>1, <3>2, <3>3 DEF GotInv
    <3>6. MayBeCut(f.packet) => MayBeCut(f.packet)'
      <4>1. PICK p : p = f.packet
        OBVIOUS
      <4> QED
        BY <3>3, <4>1, CutKept
    <3>7. f.i = 1 => \/ Own(got, 1, Len(got))
                     \/ MayBeCut(f.packet)' /\ f.packet < c.packet
      BY <3>1, <3>2, <3>6 DEF GotInv
    <3>8. Own(got, 1, Len(got))' <=> Own(got, 1, Len(got))
      BY <1>1 DEF Own
    <3>9. Aligned' => got'[1] = First'
      BY <1>1, <3>1 DEF GotInv, Aligned, First
    <3>10. \A k \in DOMAIN wire' : got'[Len(got')].packet <= wire'[k].packet
      BY <1>1, <3>1 DEF GotInv
    <3>11. got'[1].i = 1 => \/ Own(got, 1, Len(got))'
                            \/ MayBeCut(got[1].packet)' /\ got'[1].packet < got'[Len(got')].packet
      BY <1>1, <3>2, <3>7, <3>8
    <3>12. IF wire' # <<>> THEN Follows(got[Len(got)], wire[1])'
           ELSE link' # "rst" => IsEnd(got[Len(got)])'
      BY <1>1, <3>2, <3>4, <3>5
    <3> QED
      BY <3>9, <3>10, <3>11, <3>12 DEF GotInv
  <2>3. got = <<>> => (Aligned' => IF wire' # <<>> THEN wire'[1] = First'
                                   ELSE link' # "rst" => AllRead')
    BY <1>1, <2>1 DEF ReadInv, Aligned, First
  <2>4. Own(got, 1, 2) /\ Len(got) >= 2 => need = Size(sent'[got[1].packet])
    <3> SUFFICES ASSUME Own(got, 1, 2), Len(got) >= 2
                 PROVE  need = Size(sent'[got[1].packet])
      OBVIOUS
    <3>1. PICK p : p = got[1].packet
      OBVIOUS
    <3>2. p \in 1..Begun /\ need = Size(sent[p])
      BY <2>1, <3>1 DEF ReadInv
    <3> QED
      BY <3>1, <3>2, CutKept
  <2>5. Own(got, 1, 2)' <=> Own(got, 1, 2)
    BY <1>1 DEF Own
  <2>6. IF Len(got') < 2 THEN need' = 0
        ELSE /\ need' >= 4 /\ Len(got') < need'
             /\ Own(got, 1, 2)' => need' = Size(sent'[got'[1].packet])
    BY <1>1, <2>1, <2>4, <2>5 DEF ReadInv
  <2>7. /\ got' \in Seq(Cell) /\ need' \in Nat
        /\ \A k \in DOMAIN got' : got'[k].packet \in 1..(Begun')
    BY <1>1, <2>1 DEF ReadInv
  <2>8. \A i \in DOMAIN delivered' : ~delivered'[i].whole =>
          /\ i = Len(delivered')
          /\ \A k \in DOMAIN got' : i < got'[k].packet
          /\ \A k \in DOMAIN wire' : i < wire'[k].packet
    BY <1>1, <2>1 DEF ReadInv
  <2>9. IF got' # <<>> THEN GotInv'
        ELSE Aligned' => IF wire' # <<>> THEN wire'[1] = First' ELSE link' # "rst" => AllRead'
    BY <1>1, <2>2, <2>3
  <2> QED
    BY <2>6, <2>7, <2>8, <2>9 DEF ReadInv
<1>5. reader' = "clean" => link' = "fin" /\ (Aligned' => AllRead')
  BY <1>1 DEF FramingInv, Aligned
<1> QED
  BY <1>1, <1>2, <1>3, <1>4, <1>5 DEF FramingInv

-----------------------------------------------------------------------------
(* The sending end: steps that write nothing                               *)

\* A thread that decides to send or to fail
LEMMA DecisionKeeps ==
  ASSUME FramingAssumption, FramingInv, UNCHANGED <<direction, holder, out, sent, wire, link, receiver>>,
         failed' \in BOOLEAN, done' \in BOOLEAN, done => done',
         NEW t \in Threads, NEW s \in {"run", "status", "failing", "fail", "end"},
         pc' = [pc EXCEPT ![t] = s],
         s # pc[t] => holder # {t},
         s = "status" => t = ResultThread,
         direction = "events" => s \in {"run", "end"},
         pc[t] \in {"failing", "fail", "end"} => s \notin {"run", "status"}
  PROVE  FramingInv'
<1>1. pc \in [Threads -> {"run", "status", "failing", "fail", "end"}]
  BY DEF FramingInv, SenderInv
<1>2. pc'[t] = s /\ \A u \in Threads : u # t => pc'[u] = pc[u]
  BY <1>1
<1>3. ResultThread \in Threads
  BY DEF FramingAssumption
<1>4. Sending'
  <2>1. CASE holder = {}
    BY <2>1 DEF FramingInv, SenderInv, Sending
  <2>2. CASE holder # {}
    <3>1. PICK u \in Threads :
            /\ holder = {u}
            /\ IF pc[u] = "fail" THEN sent[Len(sent)] = "error" ELSE u = ResultThread /\ pc[u] # "failing"
            /\ Len(sent) > 0 /\ Len(out) \in 1..Size(sent[Len(sent)])
            /\ out = [k \in 1..Len(out) |->
                       [packet |-> Len(sent), i |-> Size(sent[Len(sent)]) - Len(out) + k]]
      BY <2>2 DEF FramingInv, SenderInv, Sending
    <3>2. pc'[u] = pc[u]
      BY <1>2, <3>1
    <3> QED
      BY <2>2, <3>1, <3>2 DEF Sending
  <2> QED
    BY <2>1, <2>2
<1>5. SenderInv'
  <2>1. \A u \in Threads : /\ pc'[u] = "status" => u = ResultThread
                           /\ direction = "events" => pc'[u] \in {"run", "end"}
    BY <1>2 DEF FramingInv, SenderInv
  <2>2. pc' \in [Threads -> {"run", "status", "failing", "fail", "end"}]
    BY <1>1
  <2>3. Kinds' = Kinds
    BY DEF Kinds
  <2> QED
    BY <1>4, <2>1, <2>2, <2>3 DEF FramingInv, SenderInv
<1>6. pc[ResultThread] \notin {"run", "status"} => pc'[ResultThread] \notin {"run", "status"}
  BY <1>1, <1>2, <1>3
<1>7. Unwritten' = Unwritten /\ Begun' = Begun
  BY DEF Unwritten, Begun
<1>8. \A p : Ended(p) => Ended(p)'
  BY <1>6 DEF Ended
<1>9. SentKept
  <2>1. Begun \in Nat
    BY SentFacts DEF FramingInv
  <2> QED
    BY <1>7, <1>8, <2>1 DEF SentKept
<1>10. \A c : c.packet \in 1..Begun /\ IsEnd(c) => IsEnd(c)'
  <2> SUFFICES ASSUME NEW c, c.packet \in 1..Begun, IsEnd(c)
               PROVE  IsEnd(c)'
    OBVIOUS
  <2>1. MayBeCut(Begun) => MayBeCut(Begun)'
    BY <1>7, <1>8 DEF MayBeCut
  <2> QED
    BY <1>7, <2>1 DEF IsEnd
<1>11. AllRead => AllRead'
  BY <1>7 DEF AllRead, receiver
<1> QED
  BY <1>5, <1>7, <1>9, <1>10, <1>11, QuietKeeps

\* A thread that takes send_lock for a packet and is in place s then
MayBegin(t, kind, s) ==
  /\ kind \in Kinds /\ Begin(t, kind)
  /\ s \in {"run", "status", "failing", "fail", "end"}
  /\ pc' = [pc EXCEPT ![t] = s]
  /\ s = pc[t] \/ (pc[t] = "status" /\ s = "run")
  /\ pc[t] = "fail" => kind = "error"
  /\ pc[t] # "fail" => t = ResultThread /\ s # "failing"
  /\ kind # "error" =>
       IF direction = "events" THEN ~done ELSE pc[ResultThread] \in {"run", "status"}

LEMMA BeginKeeps ==
  ASSUME FramingAssumption, FramingInv, NEW t \in Threads, NEW kind, NEW s, MayBegin(t, kind, s)
  PROVE  FramingInv'
<1>0. /\ kind \in Kinds /\ Begin(t, kind)
      /\ s \in {"run", "status", "failing", "fail", "end"}
      /\ pc' = [pc EXCEPT ![t] = s]
      /\ s = pc[t] \/ (pc[t] = "status" /\ s = "run")
      /\ pc[t] = "fail" => kind = "error"
      /\ pc[t] # "fail" => t = ResultThread /\ s # "failing"
      /\ kind # "error" =>
           IF direction = "events" THEN ~done ELSE pc[ResultThread] \in {"run", "status"}
  BY DEF MayBegin
<1> USE DEF FramingInv
<1>1. /\ holder = {} /\ holder' = {t} /\ sent' = Append(sent, kind)
      /\ out' = Cells(Len(sent) + 1, kind)
      /\ UNCHANGED <<direction, failed, done, wire, link, receiver>>
  BY <1>0 DEF Begin
<1>2. pc \in [Threads -> {"run", "status", "failing", "fail", "end"}]
  BY DEF SenderInv
<1>3. pc'[t] = s /\ \A u \in Threads : u # t => pc'[u] = pc[u]
  BY <1>0, <1>2
<1>4. ResultThread \in Threads
  BY DEF FramingAssumption
<1>5. PICK n : n = Len(sent)
  OBVIOUS
<1>6. /\ n \in Nat /\ sent \in Seq(Kinds)
      /\ Len(sent') = n + 1 /\ sent'[n + 1] = kind
      /\ \A p \in 1..n : sent'[p] = sent[p]
      /\ sent' \in Seq(Kinds)
  BY <1>0, <1>1, <1>5, SentFacts
<1>7. Size(kind) \in Nat /\ Size(kind) >= 4
  BY Sizes
<1>8. Len(out') = Size(kind) /\ out' = [k \in 1..Size(kind) |-> [packet |-> n + 1, i |-> k]]
  <2>1. DOMAIN out' = 1..Size(kind) /\ out' = [k \in 1..Size(kind) |-> [packet |-> n + 1, i |-> k]]
    BY <1>1, <1>5 DEF Cells
  <2> QED
    BY <1>7, <2>1
<1>9. Unwritten' /\ ~Unwritten /\ Begun = n /\ Begun' = n
  BY <1>1, <1>5, <1>6, <1>8 DEF Unwritten, Begun
<1>10. Sending'
  <2>1. \A k \in 1..Size(kind) : Size(kind) - Size(kind) + k = k
    BY <1>7
  <2>2. out' = [k \in 1..Size(kind) |-> [packet |-> n + 1, i |-> Size(kind) - Size(kind) + k]]
    BY <1>8, <2>1
  <2>3. IF pc'[t] = "fail" THEN kind = "error" ELSE t = ResultThread /\ pc'[t] # "failing"
    BY <1>0, <1>3
  <2>4. Size(kind) \in 1..Size(kind) /\ n + 1 > 0
    BY <1>6, <1>7
  <2>5. Len(sent') = n + 1 /\ Size(sent'[Len(sent')]) = Size(kind) /\ Len(out') = Size(kind)
    BY <1>6, <1>8
  <2>6. /\ IF pc'[t] = "fail" THEN sent'[Len(sent')] = "error" ELSE t = ResultThread /\ pc'[t] # "failing"
        /\ Len(sent') > 0 /\ Len(out') \in 1..Size(sent'[Len(sent')])
        /\ out' = [k \in 1..Len(out') |->
                    [packet |-> Len(sent'), i |-> Size(sent'[Len(sent')]) - Len(out') + k]]
    BY <1>6, <2>2, <2>3, <2>4, <2>5
  <2>7. holder' = {t} /\ holder' # {}
    BY <1>1
  <2> QED
    BY <2>6, <2>7 DEF Sending
<1>11. SenderInv'
  <2>1. \A u \in Threads : /\ pc'[u] = "status" => u = ResultThread
                           /\ direction = "events" => pc'[u] \in {"run", "end"}
    BY <1>0, <1>3 DEF SenderInv
  <2>2. pc' \in [Threads -> {"run", "status", "failing", "fail", "end"}]
    BY <1>0, <1>2
  <2>3. Kinds' = Kinds
    BY <1>1 DEF Kinds
  <2> QED
    BY <1>1, <1>6, <1>10, <2>1, <2>2, <2>3 DEF SenderInv
<1>12. ASSUME NEW p \in 1..n, Ended(p) PROVE Ended(p)'
  <2>1. CASE direction = "events"
    <3>1. kind = "events"
      BY <1>0, <2>1 DEF Kinds
    <3> QED
      BY <1>0, <1>12, <2>1, <3>1 DEF Ended
  <2>2. CASE direction # "events"
    <3>1. pc[ResultThread] \notin {"run", "status"} /\ \A q \in (p + 1)..n : sent[q] = "error"
      BY <1>5, <1>12, <2>2 DEF Ended
    <3>2. kind = "error" /\ pc'[ResultThread] = pc[ResultThread]
      BY <1>0, <1>3, <1>4, <2>2, <3>1
    <3>3. ASSUME NEW q \in (p + 1)..(n + 1) PROVE sent'[q] = "error"
      <4>1. CASE q = n + 1
        BY <1>6, <3>2, <4>1
      <4>2. CASE q # n + 1
        <5>1. q \in 1..n /\ q \in (p + 1)..n
          BY <1>6, <4>2
        <5> QED
          BY <1>6, <3>1, <5>1
      <4> QED
        BY <4>1, <4>2
    <3> QED
      BY <1>1, <1>6, <2>2, <3>1, <3>2, <3>3 DEF Ended
  <2> QED
    BY <2>1, <2>2
<1>13. SentKept
  BY <1>1, <1>6, <1>9, <1>12 DEF SentKept
<1>14. \A c : c.packet \in 1..Begun /\ IsEnd(c) => IsEnd(c)'
  <2> SUFFICES ASSUME NEW c, c.packet \in 1..Begun, IsEnd(c)
               PROVE  IsEnd(c)'
    OBVIOUS
  <2>1. c.packet = n /\ n \in 1..n /\ (c.i = Size(sent[n]) \/ MayBeCut(n))
    BY <1>1, <1>9 DEF IsEnd
  <2>2. sent'[n] = sent[n] /\ (MayBeCut(n) => MayBeCut(n)')
    BY <1>9, <1>13, <2>1, CutKept
  <2> QED
    BY <1>9, <2>1, <2>2 DEF IsEnd
<1>15. AllRead => AllRead'
  BY <1>1, <1>9 DEF AllRead, receiver
<1> QED
  BY <1>1, <1>9, <1>11, <1>13, <1>14, <1>15, QuietKeeps
\* A send that ends with part of the packet written, or none
LEMMA GiveUpKeeps ==
  ASSUME FramingAssumption, FramingInv, NEW t \in Threads, GiveUp(t)
  PROVE  FramingInv'
<1> USE DEF FramingInv
<1>1. /\ holder = {t} /\ holder' = {} /\ out' = <<>>
      /\ UNCHANGED <<direction, failed, wire, link, receiver>>
  BY DEF GiveUp
<1>2. PICK s : /\ pc' = [pc EXCEPT ![t] = s] /\ s \in {"end", "failing"}
               /\ direction = "events" => s = "end" /\ done'
               /\ done' \in BOOLEAN
  BY DEF GiveUp, SenderInv
<1>3. pc \in [Threads -> {"run", "status", "failing", "fail", "end"}] /\ ResultThread \in Threads
  BY DEF SenderInv, FramingAssumption
<1>4. pc'[t] = s /\ \A u \in Threads : u # t => pc'[u] = pc[u]
  BY <1>2, <1>3
<1>5. /\ IF pc[t] = "fail" THEN sent[Len(sent)] = "error" ELSE t = ResultThread
      /\ Len(sent) > 0 /\ Len(out) \in 1..Size(sent[Len(sent)])
  BY <1>1 DEF SenderInv, Sending
<1>6. PICK n : n = Len(sent) /\ n \in Nat /\ n > 0
  BY <1>5, SentFacts
<1>7. PICK m : m = Begun /\ m \in Nat /\ m <= n
  BY <1>6, SentFacts
<1>8. sent \in Seq(Kinds)
  BY DEF SenderInv
<1>9. Unwritten <=> Len(out) = Size(sent[n])
  BY <1>1, <1>6 DEF Unwritten
<1>10. /\ sent' \in Seq(Kinds) /\ Len(sent') = m /\ \A p \in 1..m : sent'[p] = sent[p]
  <2>1. CASE Unwritten
    <3>1. m = n - 1 /\ sent' = SubSeq(sent, 1, n - 1)
      BY <1>6, <1>7, <1>9, <2>1 DEF GiveUp, Begun
    <3>2. n - 1 \in Nat /\ n - 1 <= n
      BY <1>6
    <3> QED
      BY <1>6, <1>8, <3>1, <3>2
  <2>2. CASE ~Unwritten
    BY <1>6, <1>7, <1>8, <1>9, <2>2 DEF GiveUp, Begun
  <2> QED
    BY <2>1, <2>2
<1>11. ~(Unwritten') /\ Begun' = m
  BY <1>1, <1>10 DEF Unwritten, Begun
<1>12. SenderInv'
  <2>1. \A u \in Threads : /\ pc'[u] = "status" => u = ResultThread
                           /\ direction = "events" => pc'[u] \in {"run", "end"}
    BY <1>2, <1>4 DEF SenderInv
  <2>2. pc' \in [Threads -> {"run", "status", "failing", "fail", "end"}]
    BY <1>2, <1>3
  <2>3. Kinds' = Kinds
    BY <1>1 DEF Kinds
  <2>4. Sending'
    BY <1>1 DEF Sending
  <2> QED
    BY <1>1, <1>2, <1>10, <2>1, <2>2, <2>3, <2>4 DEF SenderInv
<1>13. pc[ResultThread] \notin {"run", "status"} => pc'[ResultThread] \notin {"run", "status"}
  BY <1>2, <1>3, <1>4
<1>14. ASSUME NEW p \in 1..m, Ended(p) PROVE Ended(p)'
  <2>1. direction # "events"
    BY <1>1, <1>14 DEF Ended
  <2>2. pc[ResultThread] \notin {"run", "status"} /\ \A q \in (p + 1)..n : sent[q] = "error"
    BY <1>6, <1>14, <2>1 DEF Ended
  <2>3. \A q \in (p + 1)..m : q \in (p + 1)..n /\ q \in 1..m
    BY <1>6, <1>7
  <2> QED
    BY <1>1, <1>10, <1>13, <2>1, <2>2, <2>3 DEF Ended
<1>15. SentKept
  BY <1>1, <1>7, <1>10, <1>11, <1>14 DEF SentKept
<1>16. ~Unwritten => MayBeCut(m)'
  <2> SUFFICES ASSUME ~Unwritten PROVE MayBeCut(m)'
    OBVIOUS
  <2>1. m = n /\ m \in 1..m
    BY <1>6, <1>7 DEF Begun
  <2>2. CASE direction = "events"
    BY <1>1, <1>2, <1>10, <2>2 DEF MayBeCut, Ended
  <2>3. CASE direction # "events" /\ pc[t] = "fail"
    <3>1. sent'[m] = "error"
      BY <1>5, <1>6, <1>10, <2>1, <2>3
    <3> QED
      BY <3>1 DEF MayBeCut
  <2>4. CASE direction # "events" /\ pc[t] # "fail"
    <3>1. pc'[ResultThread] \notin {"run", "status"}
      BY <1>2, <1>4, <1>5, <2>4
    <3>2. \A q \in (m + 1)..m : FALSE
      BY <1>7
    <3> QED
      BY <1>1, <1>10, <2>4, <3>1, <3>2 DEF MayBeCut, Ended
  <2> QED
    BY <2>2, <2>3, <2>4
<1>17. \A c : c.packet \in 1..Begun /\ IsEnd(c) => IsEnd(c)'
  <2> SUFFICES ASSUME NEW c, c.packet \in 1..Begun, IsEnd(c)
               PROVE  IsEnd(c)'
    OBVIOUS
  <2>1. c.packet = m /\ m \in 1..m /\ (Unwritten => c.i = Size(sent[m]) \/ MayBeCut(m))
    BY <1>7 DEF IsEnd
  <2>2. sent'[m] = sent[m] /\ (MayBeCut(m) => MayBeCut(m)')
    BY <1>7, <1>15, <2>1, CutKept
  <2> QED
    BY <1>1, <1>11, <1>16, <2>1, <2>2 DEF IsEnd
<1>18. AllRead => AllRead'
  BY <1>1, <1>7, <1>11 DEF AllRead, receiver
<1> QED
  BY <1>1, <1>7, <1>11, <1>12, <1>15, <1>17, <1>18, QuietKeeps
-----------------------------------------------------------------------------
(* Steps on the connection                                                 *)

\* The cell that follows the last one written is the first of those that wait.
LEMMA NextCell ==
  ASSUME FramingAssumption, SenderInv, holder # {}, NEW c, c.i \in Nat, IsEnd(c)
  PROVE  Follows(c, [packet |-> Len(sent), i |-> Size(sent[Len(sent)]) - Len(out) + 1])
<1>1. PICK n, z, l, m : n = Len(sent) /\ z = Size(sent[n]) /\ l = Len(out) /\ m = Begun
  OBVIOUS
<1>2. /\ n \in Nat /\ n > 0 /\ z \in Nat /\ l \in 1..z
      /\ ~Unwritten => m = n
      /\ Unwritten => m = n - 1 /\ l = z
  BY <1>1, SentFacts, Sizes DEF SenderInv, Sending, Unwritten
<1>3. CASE Unwritten
  <2>1. z - l + 1 = 1 /\ m + 1 = n
    BY <1>2, <1>3
  <2>2. c.packet = m /\ (c.i = Size(sent[m]) \/ MayBeCut(m))
    BY <1>1, <1>3 DEF IsEnd
  <2> QED
    BY <1>1, <2>1, <2>2 DEF Follows
<1>4. CASE ~Unwritten
  <2>1. c.packet = n /\ c.i + l = z
    BY <1>1, <1>2, <1>4 DEF IsEnd
  <2>2. z - l + 1 = c.i + 1 /\ c.i < z
    BY <1>2, <2>1
  <2> QED
    BY <1>1, <2>1, <2>2 DEF Follows
<1> QED
  BY <1>3, <1>4

LEMMA WriteKeeps ==
  ASSUME FramingAssumption, FramingInv, NEW t \in Threads, Write(t)
  PROVE  FramingInv'
<1> USE DEF FramingInv
<1>1. /\ holder = {t} /\ link = "up"
      /\ wire' = Append(wire, Head(out)) /\ out' = Tail(out)
      /\ UNCHANGED <<direction, sent, failed, link, receiver>>
      /\ UNCHANGED <<got, need, reader, delivered>>
  BY DEF Write, receiver
<1>2. PICK n, z, l, m : n = Len(sent) /\ z = Size(sent[n]) /\ l = Len(out) /\ m = Begun
  OBVIOUS
<1>3. /\ IF pc[t] = "fail" THEN sent[n] = "error" ELSE t = ResultThread /\ pc[t] # "failing"
      /\ n > 0 /\ l \in 1..z
      /\ out = [k \in 1..l |-> [packet |-> n, i |-> z - l + k]]
  BY <1>1, <1>2 DEF SenderInv, Sending
<1>4. n \in Nat /\ z \in Nat /\ z >= 4 /\ m \in Nat /\ m <= n /\ n \in 1..n
  BY <1>2, <1>3, SentFacts, Sizes
<1>5. PICK d : d = [packet |-> n, i |-> z - l + 1]
  OBVIOUS
<1>6. Head(out) = d /\ d \in Cell /\ d.packet = n /\ d.i = z - l + 1
  <2>1. 1 \in 1..l /\ l \in Nat /\ z - l + 1 \in Nat
    BY <1>3, <1>4
  <2>2. out[1] = d /\ out # <<>>
    BY <1>2, <1>3, <1>5, <2>1
  <2> QED
    BY <1>4, <1>5, <2>1, <2>2 DEF Cell
<1>7. /\ Len(out') = l - 1
      /\ out' = [k \in 1..(l - 1) |-> [packet |-> n, i |-> z - (l - 1) + k]]
  <2>1. l \in Nat \ {0} /\ \A k \in 1..(l - 1) : k + 1 \in 1..l /\ z - l + (k + 1) = z - (l - 1) + k
    BY <1>3, <1>4
  <2>2. out \in Seq(Cell)
    <3>1. \A k \in 1..l : [packet |-> n, i |-> z - l + k] \in Cell
      BY <1>3, <1>4 DEF Cell
    <3> QED
      BY <1>3, <2>1, <3>1
  <2>3. out # <<>> /\ Len(out) = l
    BY <1>2, <2>1
  <2>4. Len(Tail(out)) = l - 1 /\ \A k \in 1..(l - 1) : Tail(out)[k] = out[k + 1]
    BY <2>1, <2>2, <2>3
  <2>5. Tail(out) = [k \in 1..(l - 1) |-> Tail(out)[k]]
    <3>1. Tail(out) \in Seq(Cell)
      BY <2>2, <2>3
    <3>2. Tail(out) \in [1..Len(Tail(out)) -> Cell]
      BY <3>1, LenProperties
    <3> QED
      BY <2>4, <3>2
  <2>6. \A k \in 1..(l - 1) : Tail(out)[k] = [packet |-> n, i |-> z - (l - 1) + k]
    <3> SUFFICES ASSUME NEW k \in 1..(l - 1)
                 PROVE  Tail(out)[k] = [packet |-> n, i |-> z - (l - 1) + k]
      OBVIOUS
    <3>1. Tail(out)[k] = out[k + 1] /\ k + 1 \in 1..l
      BY <2>1, <2>4
    <3>2. out[k + 1] = [packet |-> n, i |-> z - l + (k + 1)]
      BY <1>3, <3>1
    <3>3. z - l + (k + 1) = z - (l - 1) + k
      BY <2>1
    <3> QED
      BY <3>1, <3>2, <3>3
  <2> QED
    BY <1>1, <2>4, <2>5, <2>6
<1>8. pc \in [Threads -> {"run", "status", "failing", "fail", "end"}] /\ ResultThread \in Threads
  BY DEF SenderInv, FramingAssumption
<1>9. PICK s : /\ pc' = [pc EXCEPT ![t] = s] /\ s = IF l = 1 /\ pc[t] = "fail" THEN "end" ELSE pc[t]
               /\ done' \in BOOLEAN
               /\ holder' = IF l = 1 THEN {} ELSE {t}
  BY <1>1, <1>2, <1>8 DEF Write, Written, SenderInv
<1>10. pc'[t] = s /\ \A u \in Threads : u # t => pc'[u] = pc[u]
  BY <1>8, <1>9
<1>11. Begun' = n /\ ~(Unwritten')
  <2>1. l - 1 # z
    BY <1>3, <1>4
  <2>2. Len(sent') = n /\ Size(sent'[Len(sent')]) = z /\ Len(out') = l - 1
    BY <1>1, <1>2, <1>7
  <2> QED
    BY <2>1, <2>2 DEF Unwritten, Begun
<1>12. Sending'
  <2>1. CASE l = 1
    BY <1>7, <1>9, <2>1 DEF Sending
  <2>2. CASE l # 1
    <3>1. l - 1 \in 1..z /\ holder' = {t} /\ holder' # {} /\ pc'[t] = pc[t]
      BY <1>3, <1>4, <1>9, <1>10, <2>2
    <3>2. /\ IF pc'[t] = "fail" THEN sent'[Len(sent')] = "error" ELSE t = ResultThread /\ pc'[t] # "failing"
          /\ Len(sent') > 0 /\ Len(out') \in 1..Size(sent'[Len(sent')])
          /\ out' = [k \in 1..Len(out') |->
                      [packet |-> Len(sent'), i |-> Size(sent'[Len(sent')]) - Len(out') + k]]
      BY <1>1, <1>2, <1>3, <1>7, <3>1
    <3> QED
      BY <3>1, <3>2 DEF Sending
  <2> QED
    BY <2>1, <2>2
<1>13. SenderInv'
  <2>1. \A u \in Threads : /\ pc'[u] = "status" => u = ResultThread
                           /\ direction = "events" => pc'[u] \in {"run", "end"}
    BY <1>9, <1>10 DEF SenderInv
  <2>2. pc' \in [Threads -> {"run", "status", "failing", "fail", "end"}]
    BY <1>8, <1>9
  <2>3. Kinds' = Kinds
    BY <1>1 DEF Kinds
  <2> QED
    BY <1>1, <1>9, <1>12, <2>1, <2>2, <2>3 DEF SenderInv
<1>14. SentKept
  <2>1. pc[ResultThread] \notin {"run", "status"} => pc'[ResultThread] \notin {"run", "status"}
    BY <1>8, <1>9, <1>10
  <2>2. \A p : Ended(p) => Ended(p)'
    BY <1>1, <2>1 DEF Ended
  <2> QED
    BY <1>1, <1>2, <1>4, <1>11, <2>2 DEF SentKept
<1>15. DeliveredInv' /\ DeliveredInOrder'
  BY <1>1, <1>14, DeliveredKept
<1>16. IsEnd(d)'
  <2>1. l = 1 => d.i = z
    BY <1>3, <1>4, <1>6
  <2>2. l # 1 => d.i + (l - 1) = z
    BY <1>3, <1>4, <1>6
  <2> QED
    BY <1>1, <1>2, <1>6, <1>7, <1>9, <1>11, <2>1, <2>2 DEF IsEnd
<1>17. ASSUME NEW c \in Cell, c.packet \in 1..m, IsEnd(c) PROVE Follows(c, d)'
  <2>1. Follows(c, d)
    <3>1. c.i \in Nat /\ holder # {}
      BY <1>1 DEF Cell
    <3> QED
      BY <1>2, <1>5, <1>17, <3>1, NextCell
  <2> QED
    BY <1>2, <1>14, <1>17, <2>1, FollowsKept
<1>18. PICK w : w = Len(wire)
  OBVIOUS
<1>19. /\ w \in Nat /\ DOMAIN wire = 1..w /\ wire \in Seq(Cell)
       /\ Len(wire') = w + 1 /\ DOMAIN wire' = 1..(w + 1) /\ wire' \in Seq(Cell)
       /\ \A k \in 1..w : wire'[k] = wire[k]
       /\ wire'[w + 1] = d /\ wire' # <<>>
  BY <1>1, <1>6, <1>18 DEF WireInv
<1>20. WireInv'
  <2>1. ASSUME NEW k \in DOMAIN wire' PROVE wire'[k].packet \in 1..n
    <3>1. CASE k \in 1..w
      <4>1. wire'[k] = wire[k] /\ wire[k].packet \in 1..m
        BY <1>2, <1>19, <3>1 DEF WireInv
      <4> QED
        BY <1>4, <4>1
    <3>2. CASE k = w + 1
      BY <1>4, <1>6, <1>19, <3>2
    <3> QED
      BY <1>19, <3>1, <3>2
  <2>2. ASSUME NEW j \in DOMAIN wire', NEW k \in DOMAIN wire'
        PROVE  /\ j < k => wire'[j].packet <= wire'[k].packet
               /\ k = j + 1 => Follows(wire[j], wire[k])'
    <3>1. PICK c, e : c = wire'[j] /\ e = wire'[k]
      OBVIOUS
    <3> SUFFICES ASSUME j < k
                 PROVE  c.packet <= e.packet /\ (k = j + 1 => Follows(c, e)')
      BY <1>19, <3>1
    <3>2. j \in 1..w /\ c = wire[j] /\ c.packet \in 1..m /\ c \in Cell
      BY <1>2, <1>19, <3>1 DEF WireInv
    <3>3. CASE k \in 1..w
      <4>1. e = wire[k] /\ c.packet <= e.packet /\ (k = j + 1 => Follows(c, e))
        BY <1>19, <3>1, <3>2, <3>3 DEF WireInv
      <4> QED
        BY <1>2, <1>14, <3>2, <4>1, FollowsKept
    <3>4. CASE k = w + 1
      <4>1. e = d /\ c.packet <= e.packet
        BY <1>4, <1>6, <1>19, <3>1, <3>2, <3>4
      <4>2. k = j + 1 => IsEnd(c)
        <5>1. k = j + 1 => j = w
          BY <1>19, <3>2, <3>4
        <5>2. wire # <<>>
          BY <1>19, <3>2
        <5> QED
          BY <1>1, <1>18, <3>2, <5>1, <5>2 DEF WireInv
      <4> QED
        BY <1>17, <3>2, <4>1, <4>2
    <3> QED
      BY <1>19, <3>3, <3>4
  <2>3. IsEnd(wire[Len(wire)])'
    BY <1>16, <1>19
  <2>4. link' \in {"up", "fin", "rst"}
    BY <1>1
  <2> QED
    BY <1>11, <1>19, <2>1, <2>2, <2>3, <2>4 DEF WireInv
<1>21. ASSUME reader = "reading" PROVE ReadInv'
  <2>1. ReadInv
    BY <1>21
  <2>2. ASSUME got # <<>> PROVE GotInv'
    <3>1. GotInv /\ Len(got) \in DOMAIN got /\ 1 \in DOMAIN got
      BY <2>1, <2>2 DEF ReadInv
    <3>2. PICK c, e, f : c = got[Len(got)] /\ e = wire'[1] /\ f = got[1]
      OBVIOUS
    <3>3. c.packet \in 1..m /\ f.packet \in 1..m /\ c \in Cell
      BY <1>2, <2>1, <3>1, <3>2 DEF ReadInv
    <3>4. Follows(c, e)'
      <4>1. CASE w = 0
        <5>1. wire = <<>> /\ e = d
          BY <1>18, <1>19, <3>2, <4>1
        <5> QED
          BY <1>1, <1>17, <3>1, <3>2, <3>3, <5>1 DEF GotInv
      <4>2. CASE w # 0
        <5>1. wire # <<>> /\ e = wire[1]
          BY <1>18, <1>19, <3>2, <4>2
        <5>2. Follows(c, e)
          BY <3>1, <3>2, <5>1 DEF GotInv
        <5> QED
          BY <1>2, <1>14, <3>3, <5>2, FollowsKept
      <4> QED
        BY <4>1, <4>2
    <3>5. MayBeCut(f.packet) => MayBeCut(f.packet)'
      <4>1. PICK p : p = f.packet
        OBVIOUS
      <4> QED
        BY <1>2, <1>14, <3>3, <4>1, CutKept
    <3>6. f.i = 1 => \/ Own(got, 1, Len(got))
                     \/ MayBeCut(f.packet)' /\ f.packet < c.packet
      BY <3>1, <3>2, <3>5 DEF GotInv
    <3>7. Own(got, 1, Len(got))' <=> Own(got, 1, Len(got))
      BY <1>1 DEF Own
    <3>8. Aligned' => got'[1] = First'
      BY <1>1, <3>1 DEF GotInv, Aligned, First
    <3>9. \A k \in DOMAIN wire' : c.packet <= wire'[k].packet
      <4> SUFFICES ASSUME NEW k \in DOMAIN wire' PROVE c.packet <= wire'[k].packet
        OBVIOUS
      <4>1. CASE k \in 1..w
        BY <1>19, <3>1, <3>2, <4>1 DEF GotInv
      <4>2. CASE k = w + 1
        BY <1>4, <1>6, <1>19, <3>3, <4>2
      <4> QED
        BY <1>19, <4>1, <4>2
    <3>10. got'[1].i = 1 => \/ Own(got, 1, Len(got))'
                            \/ MayBeCut(got[1].packet)' /\ got'[1].packet < got'[Len(got')].packet
      BY <1>1, <3>2, <3>6, <3>7
    <3>11. wire' # <<>> /\ Follows(got[Len(got)], wire[1])'
      BY <1>1, <1>19, <3>2, <3>4
    <3>12. \A k \in DOMAIN wire' : got'[Len(got')].packet <= wire'[k].packet
      BY <1>1, <3>2, <3>9
    <3> QED
      BY <3>8, <3>10, <3>11, <3>12 DEF GotInv
  <2>3. ASSUME got = <<>>, Aligned' PROVE wire'[1] = First'
    <3>1. Aligned /\ First' = First
      BY <1>1, <2>3 DEF Aligned, First
    <3>2. CASE w = 0
      <4>1. wire = <<>> /\ AllRead
        BY <1>1, <1>18, <1>19, <2>1, <2>3, <3>1, <3>2 DEF ReadInv
      <4>2. Unwritten /\ m = Len(delivered) /\ m = n - 1 /\ l = z
        BY <1>1, <1>2, <4>1, SentFacts DEF AllRead, Unwritten
      <4>3. z - l + 1 = 1 /\ n = m + 1
        BY <1>4, <4>2
      <4> QED
        BY <1>5, <1>19, <3>1, <3>2, <4>2, <4>3 DEF First
    <3>3. CASE w # 0
      <4>1. wire # <<>> /\ wire'[1] = wire[1]
        BY <1>18, <1>19, <3>3
      <4> QED
        BY <2>1, <2>3, <3>1, <4>1 DEF ReadInv
    <3> QED
      BY <3>2, <3>3
  <2>4. Own(got, 1, 2)' <=> Own(got, 1, 2)
    BY <1>1 DEF Own
  <2>5. IF Len(got') < 2 THEN need' = 0
        ELSE /\ need' >= 4 /\ Len(got') < need'
             /\ Own(got, 1, 2)' => need' = Size(sent'[got'[1].packet])
    BY <1>1, <2>1, <2>4 DEF ReadInv
  <2>6. got' \in Seq(Cell) /\ need' \in Nat
    BY <1>1, <2>1 DEF ReadInv
  <2>7. ASSUME NEW k \in DOMAIN got' PROVE got'[k].packet \in 1..n
    <3>1. got[k].packet \in 1..m
      BY <1>1, <1>2, <2>1, <2>7 DEF ReadInv
    <3> QED
      BY <1>1, <1>4, <3>1
  <2>8. ASSUME NEW i \in DOMAIN delivered', ~delivered'[i].whole
        PROVE  /\ i = Len(delivered')
               /\ \A k \in DOMAIN got' : i < got'[k].packet
               /\ \A k \in DOMAIN wire' : i < wire'[k].packet
    <3>1. /\ i = Len(delivered)
          /\ \A k \in DOMAIN got : i < got[k].packet
          /\ \A k \in DOMAIN wire : i < wire[k].packet
      BY <1>1, <2>1, <2>8 DEF ReadInv
    <3>2. i < m /\ i \in Nat
      BY <1>1, <1>2, <2>8 DEF DeliveredInv
    <3>3. i < n
      BY <1>4, <3>2
    <3>4. \A k \in 1..(w + 1) : i < wire'[k].packet
      BY <1>6, <1>19, <3>1, <3>3
    <3> QED
      BY <1>1, <1>19, <3>1, <3>4
  <2>9. IF got' # <<>> THEN GotInv' ELSE Aligned' => wire' # <<>> /\ wire'[1] = First'
    BY <1>1, <1>19, <2>2, <2>3
  <2> QED
    BY <1>11, <2>5, <2>6, <2>7, <2>8, <2>9 DEF ReadInv
<1>22. reader' # "clean" /\ (direction' = "events" => reader' # "invalid")
  BY <1>1
<1>23. reader' \in {"reading", "error", "invalid", "reset", "clean", "cut"}
       /\ (reader' = "reading" => ReadInv')
  BY <1>1, <1>21
<1> QED
  BY <1>13, <1>15, <1>20, <1>22, <1>23
\* Steps that leave the sending end alone
LEMMA SenderFrame ==
  ASSUME FramingAssumption, SenderInv, UNCHANGED <<direction, sender>>
  PROVE  /\ SenderInv' /\ SentKept /\ Begun' = Begun /\ sent' = sent
         /\ AllRead' <=> (holder = {} \/ Unwritten) /\ Begun = Len(delivered')
         /\ \A p : (Ended(p)' <=> Ended(p)) /\ (MayBeCut(p)' <=> MayBeCut(p))
         /\ \A c : IsEnd(c)' <=> IsEnd(c)
         /\ \A c, d : Follows(c, d)' <=> Follows(c, d)
<1>1. UNCHANGED <<direction, pc, holder, out, sent, failed, done>>
  BY DEF sender
<1>2. Unwritten' = Unwritten /\ Begun' = Begun /\ Kinds' = Kinds
  BY <1>1 DEF Unwritten, Begun, Kinds
<1>3. \A p : Ended(p)' <=> Ended(p)
  BY <1>1 DEF Ended
<1>4. \A p : MayBeCut(p)' <=> MayBeCut(p)
  BY <1>1, <1>3 DEF MayBeCut
<1>5. \A c : IsEnd(c)' <=> IsEnd(c)
  BY <1>1, <1>2, <1>4 DEF IsEnd
<1>6. \A c, d : Follows(c, d)' <=> Follows(c, d)
  BY <1>1, <1>4 DEF Follows
<1>7. Sending' <=> Sending
  BY <1>1 DEF Sending
<1>8. SenderInv'
  BY <1>1, <1>2, <1>7 DEF SenderInv
<1>9. SentKept
  <2>1. Begun \in Nat /\ Begun >= Begun
    BY SentFacts
  <2> QED
    BY <1>1, <1>2, <1>3, <2>1 DEF SentKept
<1> QED
  BY <1>1, <1>2, <1>3, <1>4, <1>5, <1>6, <1>8, <1>9 DEF AllRead

\* Nothing follows a packet that the bridge's stop cut off: the worker has read
\* whole packets of events only.
LEMMA EventsWhole ==
  ASSUME FramingAssumption, SenderInv, DeliveredInv, direction = "events"
  PROVE  /\ Aligned
         /\ \A p \in 1..Begun, q \in 1..Begun : p < q => ~MayBeCut(p)
<1>1. /\ Begun \in Nat /\ Len(sent) \in Nat /\ Begun <= Len(sent)
      /\ \A p \in 1..Len(sent) : sent[p] = "events"
  BY SentFacts DEF Kinds
<1>2. Aligned
  <2> SUFFICES ASSUME NEW i \in DOMAIN delivered, ~delivered[i].whole PROVE FALSE
    BY DEF Aligned
  <2>1. i \in Nat /\ i < Begun /\ Len(sent) = i
    BY DEF DeliveredInv, Ended
  <2> QED
    BY <1>1, <2>1
<1>3. ASSUME NEW p \in 1..Begun, NEW q \in 1..Begun, p < q PROVE ~MayBeCut(p)
  BY <1>1, <1>3 DEF MayBeCut, Ended
<1> QED
  BY <1>2, <1>3

LEMMA ShutdownKeeps ==
  ASSUME FramingAssumption, FramingInv, Shutdown
  PROVE  FramingInv'
<1> USE DEF FramingInv
<1>1. /\ link = "up" /\ link' \in {"fin", "rst"}
      /\ UNCHANGED <<direction, sender, got, need, reader, delivered>>
  BY DEF Shutdown, receiver
<1>2. /\ SenderInv' /\ SentKept /\ Begun' = Begun /\ sent' = sent
      /\ AllRead' <=> (holder = {} \/ Unwritten) /\ Begun = Len(delivered')
      /\ \A p : (Ended(p)' <=> Ended(p)) /\ (MayBeCut(p)' <=> MayBeCut(p))
      /\ \A c : IsEnd(c)' <=> IsEnd(c)
      /\ \A c, d : Follows(c, d)' <=> Follows(c, d)
  BY <1>1, SenderFrame
<1>3. DeliveredInv' /\ DeliveredInOrder'
  BY <1>1, <1>2, DeliveredKept
<1>4. PICK w : w = Len(wire) /\ w \in Nat /\ DOMAIN wire = 1..w /\ wire \in Seq(Cell)
  BY DEF WireInv
<1>5. PICK n \in 0..w :
        /\ wire' \in Seq(Cell) /\ Len(wire') = n /\ DOMAIN wire' = 1..n
        /\ \A k \in 1..n : wire'[k] = wire[k]
        /\ link' # "rst" => n = w
  <2>1. CASE link' = "fin" /\ wire' = wire
    BY <1>4, <2>1
  <2>2. CASE link' = "rst" /\ \E n \in 0..Len(wire) : wire' = SubSeq(wire, 1, n)
    BY <1>4, <2>2
  <2> QED
    BY <1>1, <2>1, <2>2 DEF Shutdown
<1>6. \A k \in 1..n : k \in 1..w
  BY <1>4
<1>7. WireInv'
  <2>1. /\ \A k \in 1..n : wire'[k].packet \in 1..Begun
        /\ \A j, k \in 1..n : /\ j < k => wire'[j].packet <= wire'[k].packet
                              /\ k = j + 1 => Follows(wire[j], wire[k])
    BY <1>4, <1>5, <1>6 DEF WireInv
  <2>2. ASSUME NEW j \in 1..n, NEW k \in 1..n, k = j + 1 PROVE Follows(wire[j], wire[k])'
    <3>1. PICK c, d : c = wire[j] /\ d = wire[k]
      OBVIOUS
    <3>2. Follows(c, d)'
      BY <1>2, <2>1, <2>2, <3>1
    <3> QED
      BY <1>5, <3>1, <3>2
  <2>3. ASSUME wire' # <<>>, link' # "rst" PROVE IsEnd(wire[Len(wire)])'
    <3>1. PICK c : c = wire[Len(wire)]
      OBVIOUS
    <3>2. n = w /\ w \in 1..n /\ wire # <<>>
      BY <1>4, <1>5, <2>3
    <3>3. IsEnd(c)
      BY <1>1, <3>1, <3>2 DEF WireInv
    <3>4. IsEnd(c)'
      BY <1>2, <3>3
    <3>5. c = wire'[Len(wire')]
      BY <1>4, <1>5, <3>1, <3>2
    <3> QED
      BY <3>4, <3>5
  <2> QED
    BY <1>1, <1>2, <1>5, <2>1, <2>2, <2>3 DEF WireInv
<1>8. ASSUME reader = "reading" PROVE ReadInv'
  <2>1. ReadInv
    BY <1>8
  <2>2. n > 0 => wire # <<>> /\ wire' # <<>> /\ wire'[1] = wire[1]
    BY <1>4, <1>5
  <2>3. n = 0 => wire' = <<>>
    BY <1>5
  <2>4. n = 0 /\ link' # "rst" => wire = <<>>
    BY <1>4, <1>5
  <2>5. ASSUME got # <<>> PROVE GotInv'
    <3>1. GotInv
      BY <2>1, <2>5 DEF ReadInv
    <3>2. PICK c, d : c = got[Len(got)] /\ d = wire[1]
      OBVIOUS
    <3>3. n > 0 => Follows(c, d)'
      BY <1>2, <2>2, <3>1, <3>2 DEF GotInv
    <3>4. n = 0 /\ link' # "rst" => IsEnd(c)'
      BY <1>1, <1>2, <2>4, <3>1, <3>2 DEF GotInv
    <3>5. IF wire' # <<>> THEN Follows(got[Len(got)], wire[1])'
          ELSE link' # "rst" => IsEnd(got[Len(got)])'
      BY <1>1, <1>5, <2>2, <2>3, <3>2, <3>3, <3>4
    <3>6. Own(got, 1, Len(got))' <=> Own(got, 1, Len(got))
      BY <1>1 DEF Own
    <3>7. MayBeCut(got[1].packet)' <=> MayBeCut(got[1].packet)
      <4>1. PICK p : p = got[1].packet
        OBVIOUS
      <4> QED
        BY <1>1, <1>2, <4>1
    <3>8. Aligned' => got'[1] = First'
      BY <1>1, <3>1 DEF GotInv, Aligned, First
    <3>9. \A k \in DOMAIN wire' : got'[Len(got')].packet <= wire'[k].packet
      BY <1>1, <1>4, <1>5, <1>6, <3>1 DEF GotInv
    <3>10. got'[1].i = 1 => \/ Own(got, 1, Len(got))'
                            \/ MayBeCut(got[1].packet)' /\ got'[1].packet < got'[Len(got')].packet
      BY <1>1, <3>1, <3>6, <3>7 DEF GotInv
    <3> QED
      BY <3>5, <3>8, <3>9, <3>10 DEF GotInv
  <2>6. ASSUME got = <<>>, Aligned'
        PROVE  IF wire' # <<>> THEN wire'[1] = First' ELSE link' # "rst" => AllRead'
    <3>1. Aligned /\ First' = First /\ (AllRead' <=> AllRead)
      BY <1>1, <1>2, <2>6 DEF Aligned, First, AllRead
    <3> QED
      BY <1>1, <1>5, <2>1, <2>2, <2>3, <2>4, <2>6, <3>1 DEF ReadInv
  <2>7. Own(got, 1, 2)' <=> Own(got, 1, 2)
    BY <1>1 DEF Own
  <2>8. IF Len(got') < 2 THEN need' = 0
        ELSE /\ need' >= 4 /\ Len(got') < need'
             /\ Own(got, 1, 2)' => need' = Size(sent'[got'[1].packet])
    BY <1>1, <1>2, <2>1, <2>7 DEF ReadInv
  <2>9. /\ got' \in Seq(Cell) /\ need' \in Nat
        /\ \A k \in DOMAIN got' : got'[k].packet \in 1..(Begun')
    BY <1>1, <1>2, <2>1 DEF ReadInv
  <2>10. ASSUME NEW i \in DOMAIN delivered', ~delivered'[i].whole
         PROVE  /\ i = Len(delivered')
                /\ \A k \in DOMAIN got' : i < got'[k].packet
                /\ \A k \in DOMAIN wire' : i < wire'[k].packet
    BY <1>1, <1>4, <1>5, <1>6, <2>1, <2>10 DEF ReadInv
  <2> QED
    BY <1>1, <2>5, <2>6, <2>8, <2>9, <2>10 DEF ReadInv
<1> QED
  BY <1>1, <1>2, <1>3, <1>7, <1>8

LEMMA EofKeeps ==
  ASSUME FramingAssumption, FramingInv, Eof
  PROVE  FramingInv'
<1> USE DEF FramingInv
<1>1. /\ reader = "reading" /\ wire = <<>>
      /\ reader' \in {"reset", "clean", "cut"}
      /\ reader' = "clean" => link = "fin" /\ got = <<>>
      /\ UNCHANGED <<direction, sender, wire, link, got, need, delivered>>
  BY DEF Eof
<1>2. /\ SenderInv' /\ SentKept /\ Begun' = Begun /\ sent' = sent
      /\ AllRead' <=> (holder = {} \/ Unwritten) /\ Begun = Len(delivered')
  BY <1>1, SenderFrame
<1>3. DeliveredInv' /\ DeliveredInOrder'
  BY <1>1, <1>2, DeliveredKept
<1>4. WireInv'
  BY <1>1, <1>2 DEF WireInv
<1>5. reader' = "clean" => link' = "fin" /\ (Aligned' => AllRead')
  <2>1. ReadInv
    BY <1>1
  <2>2. (Aligned' <=> Aligned) /\ (AllRead' <=> AllRead)
    BY <1>1, <1>2 DEF Aligned, AllRead
  <2> QED
    BY <1>1, <2>1, <2>2 DEF ReadInv
<1> QED
  BY <1>1, <1>2, <1>3, <1>4, <1>5
-----------------------------------------------------------------------------
(* Steps of the reader: it takes the next cell off the connection          *)

\* What it has then read of a packet
NowRead(d, cells) ==
  /\ d \in Cell /\ d.packet \in 1..Begun
  /\ cells \in Seq(Cell) /\ Len(got) \in Nat /\ Len(cells) = Len(got) + 1
  /\ cells[Len(cells)] = d /\ \A k \in 1..Len(got) : cells[k] = got[k]
  /\ \A k \in 1..Len(cells) : cells[k].packet \in 1..Begun
  /\ Aligned => cells[1] = First
  /\ cells[1].i = 1 => \/ Own(cells, 1, Len(cells))
                       \/ MayBeCut(cells[1].packet) /\ cells[1].packet < d.packet

LEMMA NextRead ==
  ASSUME FramingAssumption, FramingInv, reader = "reading", wire # <<>>,
         NEW d, d = Head(wire), NEW cells, cells = Append(got, d)
  PROVE  NowRead(d, cells)
<1> USE DEF FramingInv
<1>1. ReadInv
  OBVIOUS
<1>2. /\ wire \in Seq(Cell) /\ 1 \in DOMAIN wire /\ d = wire[1]
      /\ d \in Cell /\ d.packet \in 1..Begun
  BY DEF WireInv
<1>3. PICK n : n = Len(got)
  OBVIOUS
<1>4. /\ n \in Nat /\ got \in Seq(Cell) /\ DOMAIN got = 1..n
      /\ cells \in Seq(Cell) /\ Len(cells) = n + 1 /\ cells[n + 1] = d
      /\ \A k \in 1..n : cells[k] = got[k]
      /\ got = <<>> <=> n = 0
  BY <1>1, <1>2, <1>3 DEF ReadInv
<1>5. \A k \in 1..(n + 1) : cells[k].packet \in 1..Begun
  <2>1. \A k \in 1..n : cells[k].packet \in 1..Begun
    BY <1>1, <1>4 DEF ReadInv
  <2>2. \A k \in 1..(n + 1) : k \in 1..n \/ k = n + 1
    BY <1>4
  <2> QED
    BY <1>2, <1>4, <2>1, <2>2
<1>6. CASE n = 0
  <2>1. cells[1] = d /\ got = <<>>
    BY <1>4, <1>6
  <2>2. Aligned => cells[1] = First
    BY <1>1, <1>2, <2>1 DEF ReadInv
  <2>3. d.i = 1 => Own(cells, 1, 1)
    <3>1. d.i = 1 => d = [packet |-> d.packet, i |-> 1]
      BY <1>2 DEF Cell
    <3>2. \A k \in 1..1 : k = 1
      OBVIOUS
    <3> QED
      BY <2>1, <3>1, <3>2 DEF Own
  <2> QED
    BY <1>2, <1>3, <1>4, <1>5, <1>6, <2>1, <2>2, <2>3 DEF NowRead
<1>7. CASE n # 0
  <2>1. GotInv /\ 1 \in 1..n /\ n \in 1..n
    BY <1>1, <1>4, <1>7 DEF ReadInv
  <2>2. PICK c, f, p : c = got[n] /\ f = got[1] /\ p = f.packet
    OBVIOUS
  <2>3. /\ cells[1] = f /\ c \in Cell /\ f \in Cell /\ p \in Nat
        /\ c.packet \in Nat /\ c.i \in Nat /\ d.packet \in Nat
    <3>1. cells[1] = f /\ c \in Cell /\ f \in Cell
      BY <1>4, <2>1, <2>2
    <3> QED
      BY <1>2, <2>2, <3>1 DEF Cell
  <2>4. /\ Aligned => f = First
        /\ c.packet <= d.packet /\ Follows(c, d)
        /\ f.i = 1 => Own(got, 1, n) \/ (MayBeCut(p) /\ p < c.packet)
    BY <1>2, <1>3, <2>1, <2>2 DEF GotInv
  <2>5. ASSUME f.i = 1
        PROVE  Own(cells, 1, n + 1) \/ (MayBeCut(p) /\ p < d.packet)
    <3>1. CASE MayBeCut(p) /\ p < c.packet
      BY <2>3, <2>4, <3>1
    <3>2. CASE Own(got, 1, n)
      <4>1. /\ p = c.packet /\ c.i = n
            /\ \A k \in 1..n : cells[k] = [packet |-> p, i |-> k]
        BY <1>4, <2>1, <2>2, <3>2 DEF Own
      <4>2. CASE d = [packet |-> c.packet, i |-> c.i + 1] /\ c.i < Size(sent[c.packet])
        <5>1. d = [packet |-> p, i |-> n + 1] /\ d.packet = p
          BY <4>1, <4>2
        <5>2. ASSUME NEW k \in 1..(n + 1) PROVE cells[k] = [packet |-> cells[n + 1].packet, i |-> k]
          <6>1. CASE k \in 1..n
            BY <1>4, <4>1, <5>1, <6>1
          <6>2. CASE k = n + 1
            BY <1>4, <5>1, <6>2
          <6> QED
            BY <1>4, <6>1, <6>2
        <5> QED
          BY <5>2 DEF Own
      <4>3. CASE d = [packet |-> c.packet + 1, i |-> 1] /\ MayBeCut(c.packet)
        BY <2>3, <4>1, <4>3
      <4>4. CASE d = [packet |-> c.packet + 1, i |-> 1] /\ c.i = Size(sent[c.packet])
        <5>1. n = Size(sent[p]) /\ n >= 4
          BY <4>1, <4>4, Sizes
        <5>2. /\ n >= 2 /\ n < need /\ need \in Nat
              /\ Own(got, 1, 2) => need = Size(sent[p])
          BY <1>1, <1>3, <1>4, <2>2, <5>1 DEF ReadInv
        <5>3. Own(got, 1, 2)
          <6>1. \A k \in 1..2 : got[k] = [packet |-> p, i |-> k] /\ 2 \in 1..2
            BY <1>4, <4>1, <5>2
          <6>2. got[2].packet = p
            BY <6>1
          <6> QED
            BY <6>1, <6>2 DEF Own
        <5>4. need = n
          BY <5>1, <5>2, <5>3
        <5> QED
          BY <1>4, <5>2, <5>4
      <4> QED
        BY <2>4, <4>2, <4>3, <4>4 DEF Follows
    <3> QED
      BY <2>4, <2>5, <3>1, <3>2
  <2> QED
    BY <1>2, <1>3, <1>4, <1>5, <2>2, <2>3, <2>4, <2>5 DEF NowRead
<1> QED
  BY <1>6, <1>7

\* What is left in the socket buffers
LEMMA RestOfWire ==
  ASSUME FramingAssumption, FramingInv, wire # <<>>, NEW d, d = Head(wire),
         wire' = Tail(wire), UNCHANGED <<direction, sender, link>>
  PROVE  /\ WireInv'
         /\ \A k \in DOMAIN wire' : d.packet <= wire'[k].packet
         /\ \A i : (\A k \in DOMAIN wire : i < wire[k].packet)
                     => i < d.packet /\ \A k \in DOMAIN wire' : i < wire'[k].packet
         /\ IF wire' # <<>> THEN Follows(d, wire'[1]) ELSE link # "rst" => IsEnd(d)
<1> USE DEF FramingInv
<1>1. /\ SenderInv' /\ SentKept /\ Begun' = Begun /\ sent' = sent
      /\ \A c : IsEnd(c)' <=> IsEnd(c)
      /\ \A c, e : Follows(c, e)' <=> Follows(c, e)
  BY SenderFrame
<1>2. PICK w : w = Len(wire)
  OBVIOUS
<1>3. /\ w \in Nat /\ w > 0 /\ DOMAIN wire = 1..w /\ wire \in Seq(Cell)
      /\ wire' \in Seq(Cell) /\ Len(wire') = w - 1 /\ DOMAIN wire' = 1..(w - 1)
      /\ \A k \in 1..(w - 1) : wire'[k] = wire[k + 1]
      /\ d = wire[1]
  BY <1>2 DEF WireInv
<1>4. \A k \in 1..(w - 1) : k + 1 \in 1..w /\ 1 < k + 1
  BY <1>3
<1>5. \A k \in 1..(w - 1) : wire'[k].packet \in 1..Begun /\ d.packet <= wire'[k].packet
  <2> SUFFICES ASSUME NEW k \in 1..(w - 1)
               PROVE  wire'[k].packet \in 1..Begun /\ d.packet <= wire'[k].packet
    OBVIOUS
  <2>1. /\ wire'[k] = wire[k + 1] /\ k + 1 \in DOMAIN wire /\ 1 \in DOMAIN wire /\ 1 < k + 1
        /\ d = wire[1]
    BY <1>3, <1>4
  <2>2. wire[k + 1].packet \in 1..Begun /\ wire[1].packet <= wire[k + 1].packet
    BY <2>1 DEF WireInv
  <2> QED
    BY <2>1, <2>2
<1>6. ASSUME NEW j \in 1..(w - 1), NEW k \in 1..(w - 1)
      PROVE  /\ j < k => wire'[j].packet <= wire'[k].packet
             /\ k = j + 1 => Follows(wire[j], wire[k])'
  <2>1. PICK c, e : c = wire'[j] /\ e = wire'[k]
    OBVIOUS
  <2>2. /\ j + 1 \in 1..w /\ k + 1 \in 1..w /\ c = wire[j + 1] /\ e = wire[k + 1]
        /\ j < k => j + 1 < k + 1
        /\ k = j + 1 => k + 1 = (j + 1) + 1
    BY <1>3, <1>4, <2>1
  <2>3. (j < k => c.packet <= e.packet) /\ (k = j + 1 => Follows(c, e))
    BY <1>3, <2>2 DEF WireInv
  <2> QED
    BY <1>1, <2>1, <2>3
<1>7. w > 1 => /\ w - 1 \in 1..(w - 1) /\ wire'[w - 1] = wire[w] /\ wire' # <<>>
               /\ wire'[1] = wire[2] /\ Follows(d, wire[2])
  <2> SUFFICES ASSUME w > 1
               PROVE  /\ w - 1 \in 1..(w - 1) /\ wire'[w - 1] = wire[w] /\ wire' # <<>>
                      /\ wire'[1] = wire[2] /\ Follows(d, wire[2])
    OBVIOUS
  <2>1. w - 1 \in 1..(w - 1) /\ 1 \in 1..(w - 1) /\ (w - 1) + 1 = w /\ 1 + 1 = 2
        /\ 1 \in 1..w /\ 2 \in 1..w
    BY <1>3
  <2>2. Follows(wire[1], wire[2])
    BY <1>3, <2>1 DEF WireInv
  <2>3. Follows(d, wire[2])
    BY <1>3, <2>2
  <2>4. wire'[w - 1] = wire[w] /\ wire'[1] = wire[2]
    BY <1>3, <2>1
  <2>5. wire' # <<>>
    <3>1. Len(wire') = w - 1 /\ w - 1 # 0
      BY <1>3, <2>1
    <3> QED
      BY <3>1
  <2> QED
    BY <2>1, <2>3, <2>4, <2>5
<1>8. w = 1 => wire' = <<>> /\ d = wire[w]
  BY <1>3
<1>9. IsEnd(wire[w]) \/ link = "rst"
  BY <1>2 DEF WireInv
<1>10. wire' # <<>> /\ link' # "rst" => IsEnd(wire[Len(wire)])'
  <2> SUFFICES ASSUME wire' # <<>>, link' # "rst" PROVE IsEnd(wire[Len(wire)])'
    OBVIOUS
  <2>1. PICK c : c = wire[w]
    OBVIOUS
  <2>2. IsEnd(c) /\ c = wire'[Len(wire')]
    BY <1>3, <1>7, <1>8, <1>9, <2>1
  <2>3. IsEnd(c)'
    BY <1>1, <2>2
  <2> QED
    BY <2>2, <2>3
<1>11. WireInv'
  <2>1. link' \in {"up", "fin", "rst"}
    BY DEF WireInv
  <2> QED
    BY <1>1, <1>3, <1>5, <1>6, <1>10, <2>1 DEF WireInv
<1>12. IF wire' # <<>> THEN Follows(d, wire'[1]) ELSE link # "rst" => IsEnd(d)
  BY <1>3, <1>7, <1>8, <1>9
<1>13. ASSUME NEW i, \A k \in DOMAIN wire : i < wire[k].packet
       PROVE  i < d.packet /\ \A k \in DOMAIN wire' : i < wire'[k].packet
  BY <1>3, <1>4, <1>13
<1> QED
  BY <1>3, <1>5, <1>11, <1>12, <1>13
\* A cell that completes neither the header's sizes wrongly nor a packet
LEMMA GrowKeeps ==
  ASSUME FramingAssumption, FramingInv, reader = "reading", wire # <<>>,
         UNCHANGED <<direction, sender, link, delivered>>, wire' = Tail(wire),
         NEW d, d = Head(wire), NEW cells, cells = Append(got, d), got' = cells, reader' = "reading",
         need' \in Nat,
         IF Len(cells) < 2 THEN need' = 0
         ELSE /\ need' >= 4 /\ Len(cells) < need'
              /\ Own(cells, 1, 2) => need' = Size(sent[cells[1].packet])
  PROVE  FramingInv'
<1>2. /\ SenderInv' /\ SentKept /\ Begun' = Begun /\ sent' = sent
      /\ \A p : (Ended(p)' <=> Ended(p)) /\ (MayBeCut(p)' <=> MayBeCut(p))
      /\ \A c : IsEnd(c)' <=> IsEnd(c)
      /\ \A c, e : Follows(c, e)' <=> Follows(c, e)
  BY SenderFrame DEF FramingInv
<1>3. /\ d \in Cell /\ d.packet \in 1..Begun
      /\ cells \in Seq(Cell) /\ Len(got) \in Nat /\ Len(cells) = Len(got) + 1
      /\ cells[Len(cells)] = d /\ \A k \in 1..Len(got) : cells[k] = got[k]
      /\ \A k \in 1..Len(cells) : cells[k].packet \in 1..Begun
      /\ Aligned => cells[1] = First
      /\ cells[1].i = 1 => \/ Own(cells, 1, Len(cells))
                           \/ MayBeCut(cells[1].packet) /\ cells[1].packet < d.packet
  <2>1. NowRead(d, cells)
    BY NextRead
  <2> QED
    BY <2>1 DEF NowRead
<1>4. /\ WireInv'
      /\ \A k \in DOMAIN wire' : d.packet <= wire'[k].packet
      /\ \A i : (\A k \in DOMAIN wire : i < wire[k].packet)
                  => i < d.packet /\ \A k \in DOMAIN wire' : i < wire'[k].packet
      /\ IF wire' # <<>> THEN Follows(d, wire'[1]) ELSE link # "rst" => IsEnd(d)
  BY RestOfWire
<1> USE DEF FramingInv
<1>5. DeliveredInv' /\ DeliveredInOrder'
  BY <1>2, DeliveredKept
<1>6. GotInv'
  <2>1. cells[1].i = 1 => \/ Own(got, 1, Len(got))'
                          \/ MayBeCut(got[1].packet)' /\ got'[1].packet < d.packet
    <3>1. Own(got, 1, Len(got))' <=> Own(cells, 1, Len(cells))
      BY DEF Own
    <3>2. PICK p : p = cells[1].packet
      OBVIOUS
    <3>3. MayBeCut(p)' <=> MayBeCut(p)
      BY <1>2
    <3> QED
      BY <1>3, <3>1, <3>2, <3>3
  <2>2. Aligned' => got'[1] = First'
    BY <1>3 DEF Aligned, First
  <2>3. PICK e : e = wire'[1]
    OBVIOUS
  <2>4. IF wire' # <<>> THEN Follows(d, e)' ELSE link' # "rst" => IsEnd(d)'
    BY <1>2, <1>4, <2>3
  <2>5. IF wire' # <<>> THEN Follows(got[Len(got)], wire[1])'
        ELSE link' # "rst" => IsEnd(got[Len(got)])'
    BY <1>3, <2>3, <2>4
  <2>6. \A k \in DOMAIN wire' : got'[Len(got')].packet <= wire'[k].packet
    BY <1>3, <1>4
  <2>7. got'[1].i = 1 => \/ Own(got, 1, Len(got))'
                         \/ MayBeCut(got[1].packet)' /\ got'[1].packet < got'[Len(got')].packet
    BY <1>3, <2>1
  <2> QED
    BY <2>2, <2>5, <2>6, <2>7 DEF GotInv
<1>7. ReadInv'
  <2>1. Own(got, 1, 2)' <=> Own(cells, 1, 2)
    BY DEF Own
  <2>2. IF Len(got') < 2 THEN need' = 0
        ELSE /\ need' >= 4 /\ Len(got') < need'
             /\ Own(got, 1, 2)' => need' = Size(sent'[got'[1].packet])
    BY <1>2, <2>1
  <2>3. /\ got' \in Seq(Cell) /\ got' # <<>>
        /\ \A k \in DOMAIN got' : got'[k].packet \in 1..(Begun')
    BY <1>2, <1>3
  <2>4. ASSUME NEW i \in DOMAIN delivered', ~delivered'[i].whole
        PROVE  /\ i = Len(delivered')
               /\ \A k \in DOMAIN got' : i < got'[k].packet
               /\ \A k \in DOMAIN wire' : i < wire'[k].packet
    <3>1. /\ i = Len(delivered)
          /\ \A k \in DOMAIN got : i < got[k].packet
          /\ \A k \in DOMAIN wire : i < wire[k].packet
      BY <2>4 DEF ReadInv
    <3>2. i < d.packet /\ \A k \in DOMAIN wire' : i < wire'[k].packet
      BY <1>4, <3>1
    <3>3. DOMAIN got = 1..Len(got) /\ DOMAIN cells = 1..Len(cells)
      BY <1>3 DEF ReadInv
    <3>4. \A k \in 1..Len(cells) : k \in 1..Len(got) \/ k = Len(cells)
      BY <1>3
    <3>5. \A k \in 1..Len(cells) : i < cells[k].packet
      BY <1>3, <3>1, <3>2, <3>3, <3>4
    <3> QED
      BY <3>1, <3>2, <3>3, <3>5
  <2> QED
    BY <1>6, <2>2, <2>3, <2>4 DEF ReadInv
<1> QED
  BY <1>2, <1>4, <1>5, <1>7

\* The last cell of a packet
LEMMA AcceptKeeps ==
  ASSUME FramingAssumption, FramingInv, reader = "reading", wire # <<>>,
         UNCHANGED <<direction, sender, link>>, wire' = Tail(wire),
         NEW d, d = Head(wire), NEW cells, cells = Append(got, d), Len(cells) # 2, Len(cells) = need,
         got' = <<>>, need' = 0, Accept(cells)
  PROVE  FramingInv'
<1>2. /\ SenderInv' /\ SentKept /\ Begun' = Begun /\ sent' = sent
      /\ AllRead' <=> (holder = {} \/ Unwritten) /\ Begun = Len(delivered')
      /\ \A p : (Ended(p)' <=> Ended(p)) /\ (MayBeCut(p)' <=> MayBeCut(p))
  BY SenderFrame DEF FramingInv
<1>3. /\ d \in Cell /\ d.packet \in 1..Begun
      /\ cells \in Seq(Cell) /\ Len(got) \in Nat /\ Len(cells) = Len(got) + 1
      /\ cells[Len(cells)] = d /\ \A k \in 1..Len(got) : cells[k] = got[k]
      /\ \A k \in 1..Len(cells) : cells[k].packet \in 1..Begun
      /\ Aligned => cells[1] = First
      /\ cells[1].i = 1 => \/ Own(cells, 1, Len(cells))
                           \/ MayBeCut(cells[1].packet) /\ cells[1].packet < d.packet
  <2>1. NowRead(d, cells)
    BY NextRead
  <2> QED
    BY <2>1 DEF NowRead
<1>4. /\ WireInv'
      /\ \A k \in DOMAIN wire' : d.packet <= wire'[k].packet
      /\ \A i : (\A k \in DOMAIN wire : i < wire[k].packet)
                  => i < d.packet /\ \A k \in DOMAIN wire' : i < wire'[k].packet
      /\ IF wire' # <<>> THEN Follows(d, wire'[1]) ELSE link # "rst" => IsEnd(d)
  BY RestOfWire
<1> USE DEF FramingInv
<1>5. /\ Len(got) >= 2 /\ need \in Nat /\ need >= 4 /\ DOMAIN got = 1..Len(got)
      /\ Own(got, 1, 2) => need = Size(sent[got[1].packet])
  BY <1>3 DEF ReadInv
<1>6. PICK s : /\ s = Len(delivered) /\ s \in Nat /\ DOMAIN delivered = 1..s
               /\ delivered \in Seq([packet : Nat, whole : BOOLEAN])
  <2>1. delivered \in Seq([packet : Nat, whole : BOOLEAN]) BY DEF DeliveredInv
  <2>2. Len(delivered) \in Nat /\ DOMAIN delivered = 1..Len(delivered) BY ONLY <2>1
  <2> QED BY ONLY <2>1, <2>2
<1>7. \A i \in 1..s : ~delivered[i].whole =>
        /\ i = s /\ Ended(i) /\ i < cells[1].packet /\ i < cells[4].packet
  <2> SUFFICES ASSUME NEW i \in 1..s, ~delivered[i].whole
               PROVE  i = s /\ Ended(i) /\ i < cells[1].packet /\ i < cells[4].packet
    OBVIOUS
  <2>1. /\ i = s /\ Ended(i)
        /\ \A k \in DOMAIN got : i < got[k].packet
        /\ \A k \in DOMAIN wire : i < wire[k].packet
    BY <1>6 DEF ReadInv, DeliveredInv
  <2>2. i < d.packet
    BY <1>4, <2>1
  <2>3. \A k \in 1..Len(cells) : k \in 1..Len(got) \/ k = Len(cells)
    BY <1>3
  <2>4. \A k \in 1..Len(cells) : i < cells[k].packet
    BY <1>3, <1>5, <2>1, <2>2, <2>3
  <2>5. 1 \in 1..Len(cells) /\ 4 \in 1..Len(cells)
    BY <1>5
  <2> QED
    BY <2>1, <2>4, <2>5
<1>8. direction = "events" => Aligned /\ Own(cells, 1, need)
  <2> SUFFICES ASSUME direction = "events" PROVE Aligned /\ Own(cells, 1, need)
    OBVIOUS
  <2>1. Aligned /\ \A p \in 1..Begun, q \in 1..Begun : p < q => ~MayBeCut(p)
    BY EventsWhole
  <2>2. cells[1].i = 1
    BY <1>3, <2>1 DEF First
  <2>3. 1 \in 1..Len(cells)
    BY <1>3
  <2>4. ~(MayBeCut(cells[1].packet) /\ cells[1].packet < d.packet)
    <3>1. PICK p, q : p = cells[1].packet /\ q = d.packet
      OBVIOUS
    <3>2. p \in 1..Begun /\ q \in 1..Begun
      BY <1>3, <2>3, <3>1
    <3> QED
      BY <2>1, <3>1, <3>2
  <2> QED
    BY <1>3, <2>1, <2>2, <2>4
<1>9. CASE ~Own(cells, 1, 4)
  <2>1. reader' = "invalid" /\ delivered' = delivered
    BY <1>9 DEF Accept
  <2>2. direction # "events"
    <3>1. Own(cells, 1, need) => Own(cells, 1, 4)
      <4> SUFFICES ASSUME \A k \in 1..need : cells[k] = [packet |-> cells[need].packet, i |-> k]
                   PROVE  \A k \in 1..4 : cells[k] = [packet |-> cells[4].packet, i |-> k]
        BY DEF Own
      <4>1. \A k \in 1..4 : k \in 1..need
        BY <1>5
      <4>2. cells[4] = [packet |-> cells[need].packet, i |-> 4]
        BY <4>1
      <4> QED
        BY <4>1, <4>2
    <3> QED
      BY <1>8, <1>9, <3>1
  <2>3. DeliveredInv' /\ DeliveredInOrder'
    BY <1>2, <2>1, DeliveredKept
  <2> QED
    BY <1>2, <1>4, <2>1, <2>2, <2>3
<1>10. CASE Own(cells, 1, 4)
  <2>1. PICK p, v : p = cells[4].packet /\ v = Own(cells, 1, need)
    OBVIOUS
  <2>2. /\ delivered' = Append(delivered, [packet |-> p, whole |-> v])
        /\ reader' = IF sent[p] = "error" THEN "error" ELSE "reading"
        /\ v \in BOOLEAN
    BY <1>10, <2>1 DEF Accept, Own
  <2>3. /\ \A k \in 1..4 : cells[k] = [packet |-> p, i |-> k]
        /\ cells[1].packet = p /\ cells[1].i = 1 /\ p \in 1..Begun /\ p \in Nat
    <3>1. \A k \in 1..4 : cells[k] = [packet |-> p, i |-> k]
      BY <1>10, <2>1 DEF Own
    <3>2. 1 \in 1..4 /\ 4 \in 1..Len(cells)
      BY <1>5
    <3>3. Begun \in Nat
      BY SentFacts
    <3>4. p \in 1..Begun
      BY <1>3, <2>1, <3>2
    <3>5. cells[1] = [packet |-> p, i |-> 1] /\ p \in Nat
      BY <3>1, <3>2, <3>3, <3>4
    <3>6. cells[1].packet = p /\ cells[1].i = 1
      BY <3>5
    <3> QED
      BY <3>1, <3>4, <3>5, <3>6, Zenon
  <2>4. need = Size(sent[p])
    <3>1. 1 \in 1..Len(got) /\ 2 \in 1..Len(got) /\ 1 \in 1..4 /\ 2 \in 1..4
      BY <1>3, <1>5
    <3>2. got[1] = [packet |-> p, i |-> 1] /\ got[2] = [packet |-> p, i |-> 2]
      BY <1>3, <2>3, <3>1
    <3>3. \A k \in 1..2 : k = 1 \/ k = 2
      OBVIOUS
    <3>4. Own(got, 1, 2) /\ got[1].packet = p
      BY <3>2, <3>3 DEF Own
    <3> QED
      BY <1>5, <3>4
  <2>5. Aligned => p = s + 1
    BY <1>3, <1>6, <2>3 DEF First
  <2>6. \A i \in 1..s : ~delivered[i].whole => i = s /\ Ended(i) /\ i < p
    BY <1>7, <2>1
  <2>7. ~Aligned => sent[p] = "error"
    <3> SUFFICES ASSUME ~Aligned PROVE sent[p] = "error"
      OBVIOUS
    <3>1. PICK i \in 1..s : ~delivered[i].whole
      BY <1>6 DEF Aligned
    <3>2. i = s /\ Ended(i) /\ i < p /\ direction # "events"
      BY <1>8, <2>6, <3>1
    <3>3. Begun <= Len(sent) /\ Begun \in Nat /\ Len(sent) \in Nat
      BY SentFacts
    <3>4. p \in (i + 1)..Len(sent)
      BY <2>3, <3>2, <3>3
    <3> QED
      BY <3>2, <3>4 DEF Ended
  <2>8. ~v => /\ Aligned /\ p = s + 1 /\ sent[p] = "result" /\ Ended(p) /\ p < d.packet
    <3> SUFFICES ASSUME ~v
                 PROVE  /\ Aligned /\ p = s + 1 /\ sent[p] = "result" /\ Ended(p) /\ p < d.packet
      OBVIOUS
    <3>1. need > 4
      BY <1>5, <1>10, <2>1
    <3>2. sent[p] \in {"events", "result"} /\ sent[p] # "error"
      BY <2>4, <3>1, Sizes
    <3>3. direction # "events"
      BY <1>8, <2>1
    <3>4. sent[p] = "result"
      <4>1. p \in 1..Len(sent)
        BY <2>3, SentFacts
      <4>2. sent[p] \in Kinds
        BY <4>1, SentFacts
      <4> QED
        BY <3>2, <3>3, <4>2 DEF Kinds
    <3>5. MayBeCut(p) /\ p < d.packet
      BY <1>3, <2>1, <2>3
    <3> QED
      BY <2>5, <2>7, <3>2, <3>4, <3>5 DEF MayBeCut
  <2>9. /\ Len(delivered') = s + 1 /\ DOMAIN delivered' = 1..(s + 1)
        /\ delivered' \in Seq([packet : Nat, whole : BOOLEAN])
        /\ \A i \in 1..s : delivered'[i] = delivered[i]
        /\ delivered'[s + 1].packet = p /\ delivered'[s + 1].whole = v
        /\ \A i \in 1..(s + 1) : i \in 1..s \/ i = s + 1
    <3>1. PICK x : x = [packet |-> p, whole |-> v]
      OBVIOUS
    <3>2. x \in [packet : Nat, whole : BOOLEAN] /\ x.packet = p /\ x.whole = v
      BY <2>2, <2>3, <3>1
    <3>3. delivered' = Append(delivered, x)
      BY <2>2, <3>1
    <3> QED
      BY <1>6, <3>2, <3>3
  <2>10. DeliveredInv'
    <3> SUFFICES ASSUME NEW i \in 1..(s + 1)
                 PROVE  /\ delivered'[i].packet \in 1..Begun
                        /\ ~delivered'[i].whole => Ended(i)' /\ i < Begun
      BY <1>2, <2>9 DEF DeliveredInv
    <3>1. CASE i \in 1..s
      BY <1>2, <1>6, <2>9, <3>1 DEF DeliveredInv
    <3>2. CASE i = s + 1
      <4>1. ~v => p < Begun
        <5>1. Begun \in Nat
          BY SentFacts
        <5> QED
          BY <1>3, <2>3, <2>8, <5>1
      <4> QED
        BY <1>2, <2>3, <2>8, <2>9, <3>2, <4>1
    <3> QED
      BY <2>9, <3>1, <3>2
  <2>11. \A i \in 1..s : delivered[i].packet < p
    <3> SUFFICES ASSUME NEW i \in 1..s PROVE delivered[i].packet < p
      OBVIOUS
    <3>1. delivered[i].packet = i
      <4>1. CASE ~delivered[i].whole
        BY <1>6, <4>1 DEF DeliveredInOrder
      <4>2. CASE delivered[i].whole
        <5>1. \A j \in 1..i : j \in 1..s /\ delivered[j].whole
          BY <1>6, <2>6, <4>2
        <5> QED
          BY <1>6, <5>1 DEF DeliveredInOrder
      <4> QED
        BY <4>1, <4>2
    <3>2. CASE Aligned
      BY <1>6, <2>5, <3>1, <3>2
    <3>3. CASE ~Aligned
      <4>1. PICK j \in 1..s : ~delivered[j].whole
        BY <1>6, <3>3 DEF Aligned
      <4>2. j = s /\ s < p
        BY <2>6, <4>1
      <4> QED
        BY <1>6, <2>3, <3>1, <4>2
    <3> QED
      BY <3>2, <3>3
  <2>12. DeliveredInOrder'
    <3> SUFFICES ASSUME NEW i \in 1..(s + 1)
                 PROVE  /\ delivered'[i].whole =>
                             \A j \in 1..(i - 1) : delivered'[j].packet < delivered'[i].packet
                        /\ (\A j \in 1..i : delivered'[j].whole) => delivered'[i].packet = i
                        /\ ~delivered'[i].whole =>
                             /\ delivered'[i].packet = i
                             /\ sent[i] = "result"
                             /\ \A j \in 1..(s + 1) : j > i => sent[delivered'[j].packet] # "result"
      <4>1. sent' = sent /\ DOMAIN delivered' = 1..(s + 1)
        BY <1>2, <2>9
      <4> QED
        BY <4>1 DEF DeliveredInOrder
    <3>1. CASE i = s + 1
      <4>1. \A j \in 1..(i - 1) : j \in 1..s
        BY <1>6, <3>1
      <4>2. delivered'[i].whole =>
              \A j \in 1..(i - 1) : delivered'[j].packet < delivered'[i].packet
        BY <2>9, <2>11, <3>1, <4>1
      <4>3. (\A j \in 1..i : delivered'[j].whole) => delivered'[i].packet = i
        <5>1. (\A j \in 1..i : delivered'[j].whole) => Aligned
          <6>1. \A j \in 1..s : j \in 1..i
            BY <1>6, <3>1
          <6>2. \A j \in 1..s : delivered'[j] = delivered[j]
            BY <2>9
          <6> QED
            BY <1>6, <6>1, <6>2 DEF Aligned
        <5> QED
          BY <2>5, <2>9, <3>1, <5>1
      <4>4. \A j \in 1..(s + 1) : ~(j > i)
        BY <1>6, <3>1
      <4> QED
        BY <2>8, <2>9, <3>1, <4>2, <4>3, <4>4
    <3>2. CASE i \in 1..s
      <4>1. \A j \in 1..i : j \in 1..s
        BY <1>6, <3>2
      <4>2. \A j \in 1..(i - 1) : j \in 1..s
        BY <1>6, <3>2
      <4>3. delivered[i].whole => \A j \in 1..(i - 1) : delivered[j].packet < delivered[i].packet
        BY <1>6, <3>2 DEF DeliveredInOrder
      <4>4. (\A j \in 1..i : delivered[j].whole) => delivered[i].packet = i
        BY <1>6, <3>2 DEF DeliveredInOrder
      <4>5. ASSUME ~delivered[i].whole
            PROVE  /\ delivered[i].packet = i /\ sent[i] = "result"
                   /\ \A j \in 1..(s + 1) : j > i => sent[delivered'[j].packet] # "result"
        <5>1. /\ delivered[i].packet = i /\ sent[i] = "result"
              /\ \A j \in 1..s : j > i => sent[delivered[j].packet] # "result"
          BY <1>6, <3>2, <4>5 DEF DeliveredInOrder
        <5>2. sent[p] = "error"
          BY <1>6, <2>7, <3>2, <4>5 DEF Aligned
        <5> QED
          BY <2>9, <5>1, <5>2
      <4> QED
        BY <2>9, <3>2, <4>1, <4>2, <4>3, <4>4, <4>5
    <3> QED
      BY <2>9, <3>1, <3>2
  <2>13. ASSUME reader' = "reading" PROVE ReadInv'
    <3>1. sent[p] # "error" /\ Aligned
      BY <2>2, <2>7, <2>13
    <3>2. ASSUME NEW i \in 1..(s + 1), ~delivered'[i].whole
          PROVE  i = s + 1 /\ \A k \in DOMAIN wire' : i < wire'[k].packet
      <4>1. i = s + 1 /\ ~v
        BY <1>6, <2>9, <3>1, <3>2 DEF Aligned
      <4>2. i = p /\ p < d.packet
        BY <2>8, <4>1
      <4>3. ASSUME NEW k \in DOMAIN wire' PROVE i < wire'[k].packet
        <5>1. wire' \in Seq(Cell) /\ d.packet <= wire'[k].packet
          BY <1>4 DEF WireInv
        <5>2. wire'[k] \in Cell /\ d \in Cell
          BY <1>3, <5>1
        <5>3. wire'[k].packet \in Nat /\ d.packet \in Nat
          BY <5>2 DEF Cell
        <5>4. PICK x, y \in Nat : x = wire'[k].packet /\ y = d.packet /\ y <= x
          BY <5>1, <5>3
        <5>5. i < y /\ p \in Nat
          BY <2>3, <4>2, <5>4
        <5> QED
          BY <4>2, <5>4, <5>5
      <4> QED
        BY <4>1, <4>3
    <3>3. ASSUME Aligned'
          PROVE  IF wire' # <<>> THEN wire'[1] = First' ELSE link' # "rst" => AllRead'
      <4>1. v /\ p = s + 1
        <5>1. s + 1 \in DOMAIN delivered'
          BY <1>6, <2>9
        <5>2. delivered'[s + 1].whole
          BY <3>3, <5>1 DEF Aligned
        <5> QED
          BY <2>5, <2>9, <3>1, <5>2
      <4>2. d.packet = p /\ d.i = need
        <5>1. need \in 1..need /\ 1 \in 1..need
          BY <1>5
        <5>2. \A k \in 1..need : cells[k] = [packet |-> cells[need].packet, i |-> k]
          BY <2>1, <4>1 DEF Own
        <5>3. cells[need] = d
          BY <1>3
        <5>4. cells[1] = [packet |-> d.packet, i |-> 1] /\ cells[need] = [packet |-> d.packet, i |-> need]
          BY <5>1, <5>2, <5>3
        <5> QED
          BY <2>3, <5>3, <5>4
      <4>3. ASSUME NEW e, Follows(d, e) PROVE e = [packet |-> p + 1, i |-> 1]
        BY <1>5, <2>4, <4>2, <4>3 DEF Follows
      <4>4. IsEnd(d) => (holder = {} \/ Unwritten) /\ Begun = p
        <5> SUFFICES ASSUME IsEnd(d) PROVE (holder = {} \/ Unwritten) /\ Begun = p
          OBVIOUS
        <5>1. Begun = p
          BY <4>2 DEF IsEnd
        <5>2. ASSUME holder # {}, ~Unwritten PROVE FALSE
          <6>1. need + Len(out) = need
            BY <2>4, <4>2, <5>1, <5>2 DEF IsEnd
          <6>2. Len(out) \in 1..Size(sent[Len(sent)]) /\ Size(sent[Len(sent)]) \in Nat
            BY <5>2, Sizes DEF SenderInv, Sending
          <6> QED
            BY <1>5, <6>1, <6>2
        <5> QED
          BY <5>1, <5>2
      <4>5. First' = [packet |-> p + 1, i |-> 1]
        BY <2>9, <4>1 DEF First
      <4> QED
        BY <1>2, <1>4, <2>9, <4>1, <4>3, <4>4, <4>5
    <3>4. /\ got' \in Seq(Cell) /\ need' \in Nat /\ need' = 0 /\ Len(got') < 2 /\ got' = <<>>
          /\ \A k \in DOMAIN got' : FALSE
      OBVIOUS
    <3>5. \A i \in DOMAIN delivered' : ~delivered'[i].whole =>
            /\ i = Len(delivered')
            /\ \A k \in DOMAIN got' : i < got'[k].packet
            /\ \A k \in DOMAIN wire' : i < wire'[k].packet
      BY <2>9, <3>2, <3>4
    <3> QED
      BY <3>3, <3>4, <3>5 DEF ReadInv
  <2>14. reader' \in {"reading", "error"}
    BY <2>2
  <2> QED
    BY <1>2, <1>4, <2>10, <2>12, <2>13, <2>14
<1> QED
  BY <1>9, <1>10
\* A header that is refused: never one of the bridge's
LEMMA RefuseKeeps ==
  ASSUME FramingAssumption, FramingInv, reader = "reading", wire # <<>>,
         UNCHANGED <<direction, sender, link, delivered>>, wire' = Tail(wire),
         NEW d, d = Head(wire), NEW cells, cells = Append(got, d), Len(cells) = 2,
         0 \in Needs(cells), reader' = "invalid"
  PROVE  FramingInv'
<1>1. /\ SenderInv' /\ SentKept /\ Begun' = Begun /\ sent' = sent
  BY SenderFrame DEF FramingInv
<1>2. WireInv'
  BY RestOfWire
<1>3. NowRead(d, cells)
  BY NextRead
<1> USE DEF FramingInv
<1>4. DeliveredInv' /\ DeliveredInOrder'
  BY <1>1, DeliveredKept
<1>5. ASSUME direction = "events" PROVE FALSE
  <2>1. Aligned /\ \A p \in 1..Begun, q \in 1..Begun : p < q => ~MayBeCut(p)
    BY <1>5, EventsWhole
  <2>2. PICK p, q : p = cells[1].packet /\ q = d.packet
    OBVIOUS
  <2>3. 1 \in 1..Len(cells)
    OBVIOUS
  <2>4. p \in 1..Begun /\ q \in 1..Begun /\ cells[1].i = 1
    BY <1>3, <2>1, <2>2, <2>3 DEF NowRead, First
  <2>5. Own(cells, 1, 2)
    BY <1>3, <2>1, <2>2, <2>4 DEF NowRead
  <2>6. Size(sent[p]) = 0
    BY <2>2, <2>4, <2>5 DEF Needs
  <2> QED
    BY <2>6, Sizes
<1> QED
  BY <1>1, <1>2, <1>4, <1>5

LEMMA RecvKeeps ==
  ASSUME FramingAssumption, FramingInv, Recv
  PROVE  FramingInv'
<1>1. /\ reader = "reading" /\ wire # <<>> /\ wire' = Tail(wire)
      /\ UNCHANGED <<direction, sender, link>>
  BY DEF Recv
<1>2. PICK d, cells : d = Head(wire) /\ cells = Append(got, d)
  OBVIOUS
<1>3. /\ Len(cells) = 2 =>
            /\ got' = cells /\ need' \in Needs(cells) /\ delivered' = delivered
            /\ reader' = (IF need' = 0 THEN "invalid" ELSE "reading")
      /\ Len(cells) # 2 /\ Len(cells) = need => got' = <<>> /\ need' = 0 /\ Accept(cells)
      /\ Len(cells) # 2 /\ Len(cells) # need =>
            got' = cells /\ need' = need /\ reader' = reader /\ delivered' = delivered
  BY <1>2 DEF Recv, Kept
<1>4. CASE Len(cells) = 2
  <2>1. /\ got' = cells /\ need' \in Needs(cells) /\ delivered' = delivered
        /\ reader' = (IF need' = 0 THEN "invalid" ELSE "reading")
    BY <1>3, <1>4
  <2>2. CASE need' = 0
    BY <1>1, <1>2, <1>4, <2>1, <2>2, RefuseKeeps
  <2>3. CASE need' # 0
    <3>1. PICK p : p = cells[1].packet
      OBVIOUS
    <3>2. Size(sent[p]) \in Nat /\ Size(sent[p]) >= 4 /\ Payload \in Nat
      BY Sizes DEF FramingAssumption
    <3>3. /\ need' \in Nat /\ need' >= 4
          /\ Own(cells, 1, 2) => need' = Size(sent[p])
      BY <2>1, <2>3, <3>1, <3>2 DEF Needs
    <3>4. Len(cells) < need'
      BY <1>4, <3>3
    <3> QED
      <4>1. reader' = "reading"
        BY <2>1, <2>3
      <4>2. IF Len(cells) < 2 THEN need' = 0
            ELSE /\ need' >= 4 /\ Len(cells) < need'
                 /\ Own(cells, 1, 2) => need' = Size(sent[cells[1].packet])
        BY <1>4, <3>1, <3>3, <3>4
      <4> QED
        BY <1>1, <1>2, <2>1, <3>3, <4>1, <4>2, GrowKeeps
  <2> QED
    BY <2>2, <2>3
<1>5. CASE Len(cells) # 2 /\ Len(cells) = need
  BY <1>1, <1>2, <1>3, <1>5, AcceptKeeps
<1>6. CASE Len(cells) # 2 /\ Len(cells) # need
  <2>1. got' = cells /\ need' = need /\ reader' = reader /\ delivered' = delivered
    BY <1>3, <1>6
  <2>2. NowRead(d, cells) /\ ReadInv
    BY <1>1, <1>2, NextRead DEF FramingInv
  <2>3. /\ need' \in Nat /\ Len(got) \in Nat /\ Len(cells) = Len(got) + 1
        /\ Len(got) < 2 => need = 0
        /\ Len(got) >= 2 => /\ need >= 4 /\ Len(got) < need
                            /\ Own(got, 1, 2) => need = Size(sent[got[1].packet])
    BY <2>1, <2>2 DEF NowRead, ReadInv
  <2>4. Len(got) >= 2 => (Own(got, 1, 2) <=> Own(cells, 1, 2)) /\ got[1] = cells[1]
    <3> SUFFICES ASSUME Len(got) >= 2
                 PROVE  (Own(got, 1, 2) <=> Own(cells, 1, 2)) /\ got[1] = cells[1]
      OBVIOUS
    <3>1. \A k \in 1..2 : k \in 1..Len(got)
      BY <2>3
    <3>2. cells[1] = got[1] /\ cells[2] = got[2]
      BY <2>2, <3>1 DEF NowRead
    <3>3. \A k \in 1..2 : k = 1 \/ k = 2
      OBVIOUS
    <3> QED
      BY <3>2, <3>3 DEF Own
  <2>5. IF Len(cells) < 2 THEN need' = 0
        ELSE /\ need' >= 4 /\ Len(cells) < need'
             /\ Own(cells, 1, 2) => need' = Size(sent[cells[1].packet])
    BY <1>6, <2>1, <2>3, <2>4
  <2> QED
    BY <1>1, <1>2, <2>1, <2>3, <2>5, GrowKeeps
<1> QED
  BY <1>4, <1>5, <1>6

-----------------------------------------------------------------------------
(* Every step, and the theorems                                            *)

LEMMA ThreadKeeps ==
  ASSUME FramingAssumption, FramingInv, NEW t \in Threads, Thread(t)
  PROVE  FramingInv'
<1> DEFINE Places == {"run", "status", "failing", "fail", "end"}
<1>1. pc \in [Threads -> Places] /\ pc[t] \in Places
      /\ failed \in BOOLEAN /\ done \in BOOLEAN
      /\ (pc[t] = "status" => t = ResultThread) /\ (direction = "events" => pc[t] \in {"run", "end"})
      /\ direction \in {"events", "results"}
  BY DEF FramingInv, SenderInv
<1>2. PICK s \in Places : s = pc[t] /\ pc = [pc EXCEPT ![t] = s]
  BY <1>1
<1>3. CASE SendEvents(t)
  <2>1. MayBegin(t, "events", s)
    BY <1>1, <1>2, <1>3 DEF SendEvents, Kinds, MayBegin
  <2> QED
    BY <2>1, BeginKeeps
<1>4. CASE SendResult(t)
  <2>1. MayBegin(t, "result", s)
    BY <1>1, <1>2, <1>4 DEF SendResult, Kinds, MayBegin
  <2> QED
    BY <2>1, BeginKeeps
<1>5. CASE SendStatus(t)
  <2>1. MayBegin(t, "status", "run")
    BY <1>1, <1>2, <1>5 DEF SendStatus, Kinds, MayBegin
  <2> QED
    BY <2>1, BeginKeeps
<1>6. CASE SendError(t)
  <2>1. MayBegin(t, "error", s)
    BY <1>1, <1>2, <1>6 DEF SendError, Kinds, MayBegin
  <2> QED
    BY <2>1, BeginKeeps
<1>7. CASE WantStatus(t)
  BY <1>1, <1>7, DecisionKeeps DEF WantStatus
<1>8. CASE WantFail(t)
  BY <1>1, <1>8, DecisionKeeps DEF WantFail
<1>9. CASE SetFailed(t)
  <2>1. holder # {t}
    <3> SUFFICES ASSUME holder = {t} PROVE FALSE
      OBVIOUS
    <3> QED
      BY <1>9 DEF SetFailed, FramingInv, SenderInv, Sending
  <2> QED
    BY <1>1, <1>9, <2>1, DecisionKeeps DEF SetFailed
<1>10. CASE Write(t)
  BY <1>10, WriteKeeps
<1>11. CASE GiveUp(t)
  BY <1>11, GiveUpKeeps
<1> QED
  BY <1>3, <1>4, <1>5, <1>6, <1>7, <1>8, <1>9, <1>10, <1>11 DEF Thread

LEMMA EndSessionKeeps == ASSUME FramingAssumption, FramingInv, EndSession PROVE FramingInv'
<1>1. pc \in [Threads -> {"run", "status", "failing", "fail", "end"}] /\ ResultThread \in Threads
      /\ failed \in BOOLEAN
      /\ pc[ResultThread] \in {"run", "status", "failing", "fail", "end"}
      /\ (direction = "events" => pc[ResultThread] \in {"run", "end"})
  BY DEF FramingInv, SenderInv, FramingAssumption
<1>2. pc' = [pc EXCEPT ![ResultThread] = pc[ResultThread]]
  BY <1>1 DEF EndSession
<1> QED
  BY <1>1, <1>2, DecisionKeeps DEF EndSession

LEMMA FramingStutters == ASSUME FramingAssumption, FramingInv, UNCHANGED framingVars PROVE FramingInv'
<1>1. UNCHANGED <<direction, pc, holder, out, sent, failed, done, wire, link, receiver>>
  BY DEF framingVars, sender
<1>2. pc \in [Threads -> {"run", "status", "failing", "fail", "end"}] /\ ResultThread \in Threads
      /\ failed \in BOOLEAN /\ done \in BOOLEAN
      /\ pc[ResultThread] \in {"run", "status", "failing", "fail", "end"}
      /\ (direction = "events" => pc[ResultThread] \in {"run", "end"})
      /\ (pc[ResultThread] = "status" => ResultThread = ResultThread)
  BY DEF FramingInv, SenderInv, FramingAssumption
<1>3. pc' = [pc EXCEPT ![ResultThread] = pc[ResultThread]]
  BY <1>1, <1>2
<1> QED
  BY <1>1, <1>2, <1>3, DecisionKeeps

\* The inductive invariant holds of every behaviour of the connection.
THEOREM FramingInvariance == FramingSpec => []FramingInv
<1>1. FramingInit => FramingInv
  BY FramingAssumption, FrameInitially
<1>2. FramingInv /\ [FramingNext]_framingVars => FramingInv'
  <2> SUFFICES ASSUME FramingInv, [FramingNext]_framingVars PROVE FramingInv'
    OBVIOUS
  <2>1. CASE \E t \in Threads : Thread(t)
    BY <2>1, FramingAssumption, ThreadKeeps
  <2>2. CASE EndSession
    BY <2>2, FramingAssumption, EndSessionKeeps
  <2>3. CASE Shutdown
    BY <2>3, FramingAssumption, ShutdownKeeps
  <2>4. CASE Recv
    BY <2>4, FramingAssumption, RecvKeeps
  <2>5. CASE Eof
    BY <2>5, FramingAssumption, EofKeeps
  <2>6. CASE UNCHANGED framingVars
    BY <2>6, FramingAssumption, FramingStutters
  <2> QED
    BY <2>1, <2>2, <2>3, <2>4, <2>5, <2>6 DEF FramingNext
<1> QED
  BY <1>1, <1>2, PTL DEF FramingSpec

\* Whatever threads share send_lock, wherever a timeout or a stop cuts a write
\* and wherever the connection ends, packets are handed on in the order they
\* were started and each is what was sent, up to one result that was cut short.
THEOREM PacketsInOrder == FramingSpec => []DeliveredInOrder
<1>1. FramingInv => DeliveredInOrder
  BY DEF FramingInv
<1> QED
  BY <1>1, FramingInvariance, PTL

\* The worker never misreads the bridge's stream, and takes its end for a clean
\* one only if it has read every packet of which a byte was written.
THEOREM CleanEndIsTrue == FramingSpec => []EventsEndTruly
<1>1. FramingInv => EventsEndTruly
  <2> SUFFICES ASSUME FramingInv, direction = "events"
               PROVE  /\ reader # "invalid"
                      /\ reader = "clean" =>
                           \A p \in DOMAIN sent : p < Len(sent) \/ Len(out) < Size(sent[p]) =>
                             p \in DOMAIN delivered /\ delivered[p].whole
    BY DEF EventsEndTruly
  <2>1. reader # "invalid"
    BY DEF FramingInv
  <2>2. ASSUME reader = "clean", NEW p \in DOMAIN sent,
               p < Len(sent) \/ Len(out) < Size(sent[p])
        PROVE  p \in DOMAIN delivered /\ delivered[p].whole
    <3>1. SenderInv /\ DeliveredInv
      BY DEF FramingInv
    <3>2. Aligned
      BY <3>1, FramingAssumption, EventsWhole
    <3>3. (holder = {} \/ Unwritten) /\ Begun = Len(delivered)
      BY <2>2, <3>2 DEF FramingInv, AllRead
    <3>4. /\ Len(sent) \in Nat /\ p \in 1..Len(sent) /\ Begun \in Nat
          /\ ~Unwritten => Begun = Len(sent)
          /\ Unwritten => Begun = Len(sent) - 1
      BY <2>2, <3>1, FramingAssumption, SentFacts
    <3>5. p = Len(sent) => ~Unwritten
      <4> SUFFICES ASSUME p = Len(sent), Unwritten PROVE FALSE
        OBVIOUS
      <4>1. Len(out) = Size(sent[p]) /\ Size(sent[p]) \in Nat
        BY FramingAssumption, Sizes DEF Unwritten
      <4> QED
        BY <2>2, <3>4, <4>1
    <3>6. p \in 1..Begun
      BY <3>4, <3>5
    <3>7. DOMAIN delivered = 1..Len(delivered)
      BY <3>1 DEF DeliveredInv
    <3> QED
      BY <3>2, <3>3, <3>6, <3>7 DEF Aligned
  <2> QED
    BY <2>1, <2>2
<1> QED
  BY <1>1, FramingInvariance, PTL
=============================================================================
