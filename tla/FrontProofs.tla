---------------------------- MODULE FrontProofs -----------------------------
(***************************************************************************)
(* The way of a frame through the frontend, part by part (MCFront).        *)
(*                                                                         *)
(* The pacer: that it never runs ahead of the clock, that a core which     *)
(* cannot keep up leaves the mutex alone for a frame after each burst, and *)
(* that the device hears the stream in order: for every frame interval,    *)
(* cap on a burst, size of the ring, frame's samples and callback, however *)
(* the clock and the callback fall between the thread's steps.             *)
(*                                                                         *)
(* The triple buffer: that it is a mailbox of one frame, that what the     *)
(* window holds has the dimensions it was produced with, and that has_new  *)
(* never announces a slot that is empty or half written: for any frames    *)
(* and any geometries, in every interleaving of the two threads.           *)
(*                                                                         *)
(* The threads: that no frame of an earlier machine is shown once the      *)
(* window is between two events, however many menu actions end a machine,  *)
(* and however they and the emulation thread's steps interleave.           *)
(***************************************************************************)
EXTENDS Pacer, PresentBuffer, Presentation, SequenceTheorems, TLAPS

\* Linear facts about products, which the provers find hard in larger goals.
LEMMA OneMoreFrame ==
  ASSUME NEW a \in Nat, NEW n \in Int
  PROVE  /\ a * (n + 1) = a * n + a /\ a * n \in Int
         /\ n \in Nat => a * n \in Nat
OBVIOUS

\* No more frames are due than intervals have begun.
LEMMA DueFits ==
  ASSUME NEW p \in Nat \ {0}, NEW behind \in Nat, NEW n \in Nat, n <= behind \div p
  PROVE  p * n <= behind
<1> DEFINE q == behind \div p
<1>1. q \in Nat /\ p * q <= behind
  OBVIOUS
<1> HIDE DEF q
<1>2. p * n <= p * q /\ p * n \in Nat /\ p * q \in Nat
  BY <1>1 DEF q
<1> QED  BY <1>1, <1>2

-----------------------------------------------------------------------------
\* The target is never behind the frames produced; a burst ends, at the latest, one
\* interval past the clock.
PaceInv ==
  /\ now \in 0 .. MaxNow /\ target \in Nat /\ frames \in Nat
  /\ due \in 0 .. MAX_CATCHUP_FRAMES /\ behindAt \in Int
  /\ pc \in {"measure", "frame", "push", "snap", "wait"}
  /\ PERIOD * frames <= target + (IF pc = "push" THEN PERIOD ELSE 0)
  /\ pc = "measure" => target <= now
  /\ pc \in {"frame", "push"} => due >= 1 /\ target + PERIOD * (due - 1) <= now
  /\ target <= now + PERIOD
  /\ -PERIOD <= behindAt /\ behindAt <= now /\ behindAt + PERIOD <= target

\* The pacer starts paced.
LEMMA InitPaced ==
  ASSUME Init PROVE PaceInv
BY PacerAssumption DEF Init, PaceInv

\* Every step of the pacer keeps it paced, whatever the clock does meanwhile.
LEMMA StepPaced ==
  ASSUME PaceInv, [Next]_vars PROVE PaceInv'
<1> USE PacerAssumption
<1>1. CASE Elapse
  BY <1>1 DEF Elapse, PaceInv, audio
<1>2. CASE Measure
  <2>1. target <= now /\ now - target \in Nat
    BY <1>2 DEF Measure, PaceInv
  <2> DEFINE q == (now - target) \div PERIOD
  <2>2. q \in Nat
    BY <2>1
  <2>3. due' = Least(q + 1, MAX_CATCHUP_FRAMES)
    BY <1>2, <2>1 DEF Measure, FramesDue, PaceInv
  <2>4. due' \in 1 .. MAX_CATCHUP_FRAMES /\ due' - 1 \in Nat /\ due' - 1 <= q
    BY <2>2, <2>3 DEF Least
  <2>5. PERIOD * (due' - 1) <= now - target
    BY <2>1, <2>4, DueFits
  <2>6. PERIOD * (due' - 1) \in Nat
    <3>1. due' - 1 \in Nat
      BY <2>4
    <3> QED  BY <3>1, OneMoreFrame
  <2>7. pc = "measure" /\ pc' = "frame"
    BY <1>2, <2>4 DEF Measure
  <2>8. target + PERIOD * (due' - 1) <= now
    BY <2>1, <2>5, <2>6 DEF PaceInv
  <2> HIDE DEF q
  <2> QED  BY <1>2, <2>4, <2>7, <2>8 DEF Measure, PaceInv, audio
<1>3. CASE Frame
  <2>1. PERIOD * (frames + 1) = PERIOD * frames + PERIOD /\ PERIOD * frames \in Nat
    BY OneMoreFrame DEF PaceInv
  <2> QED  BY <1>3, <2>1 DEF Frame, PaceInv, audio
<1>4. CASE Push
  <2>1. due \in Nat /\ due >= 1 /\ target + PERIOD * (due - 1) <= now /\ pc = "push"
    BY <1>4 DEF Push, PaceInv
  <2>2. due' = due - 1 /\ target' = target + PERIOD
    BY <1>4 DEF Push
  <2>3. PERIOD * (due - 1) \in Nat /\ PERIOD * (due - 1) = PERIOD * (due - 1 - 1) + PERIOD
    BY <2>1, OneMoreFrame
  <2>4. PERIOD * (due - 1 - 1) \in Int
    BY <2>1, OneMoreFrame
  <2>5. target' + PERIOD * (due' - 1) <= now
    BY <2>1, <2>2, <2>3, <2>4 DEF PaceInv
  <2>6. target <= now
    BY <2>1, <2>3 DEF PaceInv
  <2>7. PERIOD * frames \in Nat
    BY OneMoreFrame DEF PaceInv
  <2> QED  BY <1>4, <2>1, <2>2, <2>5, <2>6, <2>7 DEF Push, PaceInv
<1>5. CASE Snap
  <2>1. PERIOD * frames \in Nat
    BY OneMoreFrame DEF PaceInv
  <2> QED  BY <1>5, <2>1 DEF Snap, PaceInv, Rebased, audio
<1>6. CASE Woken
  BY <1>6 DEF Woken, PaceInv, audio
<1>7. CASE Pull
  BY <1>7 DEF Pull, PaceInv
<1>8. CASE UNCHANGED vars
  BY <1>8 DEF vars, PaceInv
<1> QED
  BY <1>1, <1>2, <1>3, <1>4, <1>5, <1>6, <1>7, <1>8 DEF Next

\* The invariant of the pacer holds in every reachable state.
LEMMA PaceCorrect == Spec => []PaceInv
<1>1. Init => PaceInv
  BY InitPaced
<1>2. PaceInv /\ [Next]_vars => PaceInv'
  BY StepPaced
<1> QED  BY <1>1, <1>2, PTL DEF Spec

\* The machine never runs faster than real time.
THEOREM NeverFastCorrect == Spec => []NeverFast
<1>1. PaceInv => NeverFast
  <2> SUFFICES ASSUME PaceInv PROVE NeverFast
    OBVIOUS
  <2>1. PERIOD * frames \in Nat
    BY PacerAssumption, OneMoreFrame DEF PaceInv
  <2>2. CASE pc = "push"
    <3>1. due - 1 \in Nat /\ target + PERIOD * (due - 1) <= now
      BY <2>2 DEF PaceInv
    <3>2. PERIOD * (due - 1) \in Nat
      BY <3>1, PacerAssumption, OneMoreFrame
    <3> QED  BY <2>1, <2>2, <3>1, <3>2, PacerAssumption DEF PaceInv, NeverFast
  <2>3. CASE pc # "push"
    BY <2>1, <2>3, PacerAssumption DEF PaceInv, NeverFast
  <2> QED  BY <2>2, <2>3
<1> QED  BY <1>1, PaceCorrect, PTL

\* A burst that could not be finished in time is followed by a frame interval's rest.
THEOREM YieldCorrect == Spec => []SlowCoreYields
<1>1. PaceInv => SlowCoreYields
  <2> SUFFICES ASSUME PaceInv, pc = "frame" PROVE now >= behindAt + PERIOD
    BY DEF SlowCoreYields
  <2>1. due - 1 \in Nat /\ target + PERIOD * (due - 1) <= now
    BY DEF PaceInv
  <2>2. PERIOD * (due - 1) \in Nat
    BY <2>1, PacerAssumption, OneMoreFrame
  <2> QED  BY <2>1, <2>2, PacerAssumption DEF PaceInv
<1> QED  BY <1>1, PaceCorrect, PTL

-----------------------------------------------------------------------------
\* What a push keeps: the newest of the two together, as many as there is room for, the
\* old ones first.
LEMMA KeptIsNewest ==
  ASSUME NEW q \in Seq(Nat), Len(q) <= Capacity, NEW w \in Seq(Nat), NEW base \in Int,
         \A i \in 1 .. Len(q) : q[i] = base - Len(q) + i,
         \A i \in 1 .. Len(w) : w[i] = base + i
  PROVE  /\ Kept(q, w) \in Seq(Nat)
         /\ Len(Kept(q, w)) <= Capacity
         /\ Len(Kept(q, w)) <= Len(q) + Len(w)
         /\ \A i \in 1 .. Len(Kept(q, w)) :
              Kept(q, w)[i] = base + Len(w) - Len(Kept(q, w)) + i
<1> DEFINE keep == Least(Len(w), Capacity)
           over == Len(q) + keep - Capacity
           evict == IF over < 0 THEN 0 ELSE Least(over, Len(q))
           old == SubSeq(q, evict + 1, Len(q))
           new == SubSeq(w, Len(w) - keep + 1, Len(w))
<1>1. Len(q) \in Nat /\ Len(w) \in Nat /\ Capacity \in Nat
  BY LenProperties, PacerAssumption
<1>2. keep \in 0 .. Len(w) /\ keep <= Capacity /\ (keep < Len(w) => keep = Capacity)
  BY <1>1 DEF Least
<1>3. /\ evict \in 0 .. Len(q) /\ Len(q) - evict + keep <= Capacity
      /\ keep = Capacity => evict = Len(q)
  BY <1>1, <1>2 DEF Least
<1>4. Kept(q, w) = old \o new
  BY DEF Kept
<1> HIDE DEF keep, evict, over
<1>5. /\ old \in Seq(Nat) /\ Len(old) = Len(q) - evict
      /\ \A i \in 1 .. Len(old) : old[i] = q[evict + i]
  <2>1. \A i \in evict + 1 .. Len(q) : q[i] \in Nat
    BY <1>1, <1>3, ElementOfSeq
  <2>2. /\ old \in Seq(Nat) /\ Len(old) = IF evict + 1 <= Len(q) THEN Len(q) - (evict + 1) + 1 ELSE 0
        /\ \A i \in 1 .. Len(q) - (evict + 1) + 1 : old[i] = q[(evict + 1) + i - 1]
    BY <1>1, <1>3, <2>1, SubSeqProperties
  <2> HIDE DEF old
  <2>3. Len(old) = Len(q) - evict
    BY <1>1, <1>3, <2>2
  <2>4. ASSUME NEW i \in 1 .. Len(old) PROVE old[i] = q[evict + i]
    <3>1. i \in 1 .. Len(q) - (evict + 1) + 1 /\ (evict + 1) + i - 1 = evict + i
      BY <1>1, <1>3, <2>3
    <3> QED  BY <2>2, <3>1
  <2> QED  BY <2>2, <2>3, <2>4
<1>6. /\ new \in Seq(Nat) /\ Len(new) = keep
      /\ \A i \in 1 .. Len(new) : new[i] = w[Len(w) - keep + i]
  <2> DEFINE m == Len(w) - keep + 1
  <2>0. m \in Int /\ m >= 1 /\ Len(w) - m + 1 = keep
    BY <1>1, <1>2
  <2>1. \A i \in m .. Len(w) : w[i] \in Nat
    BY <1>1, <2>0, ElementOfSeq
  <2>2. /\ new \in Seq(Nat) /\ Len(new) = IF m <= Len(w) THEN Len(w) - m + 1 ELSE 0
        /\ \A i \in 1 .. Len(w) - m + 1 : new[i] = w[m + i - 1]
    BY <1>1, <2>0, <2>1, SubSeqProperties
  <2> HIDE DEF new
  <2>3. Len(new) = keep
    BY <1>1, <1>2, <2>2
  <2>4. ASSUME NEW i \in 1 .. Len(new) PROVE new[i] = w[Len(w) - keep + i]
    <3>1. i \in 1 .. Len(w) - m + 1 /\ m + i - 1 = Len(w) - keep + i
      BY <1>1, <1>2, <2>0, <2>3
    <3> QED  BY <2>2, <3>1
  <2> QED  BY <2>2, <2>3, <2>4
<1> HIDE DEF old, new
<1>7. PICK stay \in Nat : stay = Len(q) - evict
  <2>1. Len(q) - evict \in Nat
    BY <1>1, <1>3
  <2> QED  BY <2>1
<1>8. /\ Kept(q, w) \in Seq(Nat) /\ Len(Kept(q, w)) = stay + keep
      /\ \A i \in 1 .. stay + keep :
           Kept(q, w)[i] = IF i <= stay THEN old[i] ELSE new[i - stay]
  <2>1. /\ old \o new \in Seq(Nat) /\ Len(old \o new) = Len(old) + Len(new)
        /\ \A i \in 1 .. Len(old) + Len(new) :
             (old \o new)[i] = IF i <= Len(old) THEN old[i] ELSE new[i - Len(old)]
    BY <1>5, <1>6, ConcatProperties
  <2>2. Len(old) = stay /\ Len(new) = keep
    BY <1>5, <1>6, <1>7
  <2> QED  BY <1>4, <2>1, <2>2
<1>. keep \in Nat
  BY <1>1, <1>2
<1>9. /\ \A i \in 1 .. stay : Kept(q, w)[i] = q[evict + i]
      /\ \A i \in 1 .. keep : Kept(q, w)[stay + i] = w[Len(w) - keep + i]
  <2>1. ASSUME NEW i \in 1 .. stay PROVE Kept(q, w)[i] = q[evict + i]
    <3>1. i \in 1 .. stay + keep /\ i <= stay /\ i \in 1 .. Len(old)
      BY <1>5, <1>7
    <3> QED  BY <1>5, <1>8, <3>1
  <2>2. ASSUME NEW i \in 1 .. keep PROVE Kept(q, w)[stay + i] = w[Len(w) - keep + i]
    <3>1. /\ stay + i \in 1 .. stay + keep /\ ~(stay + i <= stay) /\ stay + i - stay = i
          /\ i \in 1 .. Len(new)
      BY <1>6
    <3>2. Kept(q, w)[stay + i] = new[i]
      BY <1>8, <3>1
    <3> QED  BY <1>6, <3>2
  <2> QED  BY <2>1, <2>2
<1>10. ASSUME NEW i \in 1 .. stay + keep
       PROVE  Kept(q, w)[i] = base + Len(w) - (stay + keep) + i
  <2>1. CASE i <= stay
    <3>1. evict + i \in 1 .. Len(q) /\ keep = Len(w)
      BY <1>1, <1>2, <1>3, <1>7, <2>1
    <3>2. q[evict + i] = base - Len(q) + (evict + i)
      BY <3>1
    <3>3. Kept(q, w)[i] = q[evict + i]
      BY <1>8, <1>9, <2>1
    <3> QED  BY <1>1, <1>3, <1>7, <3>1, <3>2, <3>3
  <2>2. CASE i > stay
    <3>1. PICK j \in 1 .. keep : i = stay + j
      <4>1. i - stay \in 1 .. keep /\ i = stay + (i - stay)
        BY <1>8, <2>2
      <4> QED  BY <4>1
    <3>2. Len(w) - keep + j \in 1 .. Len(w)
      BY <1>1, <1>2
    <3>3. w[Len(w) - keep + j] = base + (Len(w) - keep + j)
      BY <3>2
    <3>4. Kept(q, w)[i] = w[Len(w) - keep + j]
      BY <1>9, <3>1
    <3> QED  BY <1>1, <1>8, <3>1, <3>3, <3>4
  <2> QED  BY <1>8, <2>1, <2>2
<1> QED  BY <1>1, <1>2, <1>3, <1>7, <1>8, <1>10

\* The ring ends with the last sample pushed: those of the frame just produced are still
\* to come while they wait for the ring's lock.
Pushed == Staged - (IF pc = "push" THEN PerFrame ELSE 0)

RingInv ==
  /\ frames \in Nat
  /\ pc = "push" => frames >= 1
  /\ ring \in Seq(Nat) /\ Len(ring) <= Capacity
  /\ \A i \in 1 .. Len(ring) : ring[i] = Pushed - Len(ring) + i
  /\ heard \in Nat /\ heard <= Pushed - Len(ring)
  /\ occupancy = Len(ring)

\* What the counters of the ring are.
LEMMA PushedIsNat ==
  ASSUME RingInv
  PROVE  Staged \in Nat /\ Pushed \in Nat /\ PerFrame \in Nat
<1>1. PerFrame \in Nat /\ frames \in Nat
  BY PacerAssumption DEF RingInv
<1>2. Staged \in Nat
  BY <1>1, OneMoreFrame DEF Staged
<1>3. ASSUME pc = "push" PROVE Staged - PerFrame \in Nat
  <2>1. frames - 1 \in Nat
    BY <1>1, <1>3 DEF RingInv
  <2>2. Staged = PerFrame * (frames - 1) + PerFrame /\ PerFrame * (frames - 1) \in Nat
    <3>1. frames = (frames - 1) + 1
      BY <1>1
    <3> QED  BY <1>1, <2>1, <3>1, OneMoreFrame DEF Staged
  <2> QED  BY <1>1, <2>2
<1> QED  BY <1>1, <1>2, <1>3 DEF Pushed

\* The samples of a callback leave the ring from its front.
LEMMA PullHeard ==
  ASSUME RingInv, Pull PROVE RingInv'
<1>1. PICK n \in Pulls :
        LET taken == Least(n, Len(ring)) IN
          /\ heard' = IF taken = 0 THEN heard ELSE ring[taken]
          /\ ring' = SubSeq(ring, taken + 1, Len(ring))
          /\ occupancy' = Len(ring')
  BY DEF Pull
<1> DEFINE taken == Least(n, Len(ring))
<1>2. Len(ring) \in Nat /\ n \in Nat
  BY LenProperties, PacerAssumption DEF RingInv
<1>3. taken \in 0 .. Len(ring)
  BY <1>2 DEF Least
<1>4. /\ heard' = IF taken = 0 THEN heard ELSE ring[taken]
      /\ ring' = SubSeq(ring, taken + 1, Len(ring))
      /\ occupancy' = Len(ring')
  BY <1>1
<1> HIDE DEF taken
<1>5. /\ ring' \in Seq(Nat)
      /\ Len(ring') = IF taken + 1 <= Len(ring) THEN Len(ring) - (taken + 1) + 1 ELSE 0
      /\ \A i \in 1 .. Len(ring) - (taken + 1) + 1 : ring'[i] = ring[(taken + 1) + i - 1]
  <2>1. \A i \in taken + 1 .. Len(ring) : ring[i] \in Nat
    BY <1>2, <1>3, ElementOfSeq DEF RingInv
  <2> QED  BY <1>2, <1>3, <1>4, <2>1, SubSeqProperties
<1>6. Len(ring') = Len(ring) - taken
  BY <1>2, <1>3, <1>5
<1>7. Pushed' = Pushed /\ frames' = frames /\ pc' = pc /\ Pushed \in Nat
  BY PushedIsNat DEF Pull, Pushed, Staged
<1>8. ASSUME NEW i \in 1 .. Len(ring') PROVE ring'[i] = Pushed' - Len(ring') + i
  <2>1. i \in 1 .. Len(ring) - (taken + 1) + 1 /\ (taken + 1) + i - 1 = taken + i
        /\ taken + i \in 1 .. Len(ring)
    BY <1>2, <1>3, <1>6
  <2>2. ring'[i] = ring[taken + i]
    BY <1>5, <2>1
  <2>3. ring[taken + i] = Pushed - Len(ring) + (taken + i)
    BY <2>1 DEF RingInv
  <2> QED  BY <1>2, <1>3, <1>6, <1>7, <2>2, <2>3
<1>9. heard' \in Nat /\ heard' <= Pushed' - Len(ring')
  <2>1. CASE taken = 0
    BY <1>2, <1>4, <1>6, <1>7, <2>1 DEF RingInv
  <2>2. CASE taken # 0
    <3>1. taken \in 1 .. Len(ring)
      BY <1>2, <1>3, <2>2
    <3>2. ring[taken] = Pushed - Len(ring) + taken /\ ring[taken] \in Nat
      BY <3>1, ElementOfSeq DEF RingInv
    <3> QED  BY <1>2, <1>4, <1>6, <1>7, <2>2, <3>1, <3>2
  <2> QED  BY <2>1, <2>2
<1>10. Len(ring') <= Capacity
  BY <1>2, <1>3, <1>6, PacerAssumption DEF RingInv
<1> QED
  BY <1>4, <1>5, <1>7, <1>8, <1>9, <1>10 DEF RingInv

\* A push appends the samples of one frame.
LEMMA PushHeard ==
  ASSUME RingInv, Push PROVE RingInv'
<1> DEFINE w == [i \in 1 .. PerFrame |-> Staged - PerFrame + i]
<1>1. Staged \in Nat /\ PerFrame \in Nat /\ Pushed \in Nat /\ pc = "push"
  BY PushedIsNat DEF Push
<1>2. Pushed = Staged - PerFrame /\ Len(ring) \in Nat
  BY <1>1, LenProperties DEF Pushed, RingInv
<1>3. w \in Seq(Nat) /\ Len(w) = PerFrame
  <2>1. \A i \in 1 .. PerFrame : Staged - PerFrame + i \in Nat
    BY <1>1, <1>2
  <2> QED  BY <1>1, <2>1
<1>4. \A i \in 1 .. Len(w) : w[i] = Pushed + i
  BY <1>1, <1>2, <1>3
<1>5. ring' = Kept(ring, w)
  BY DEF Push
<1>6. Pushed' = Staged /\ frames' = frames
  BY <1>1 DEF Push, Pushed, Staged
<1> HIDE DEF w
<1>7. /\ ring' \in Seq(Nat)
      /\ Len(ring') <= Capacity /\ Len(ring') <= Len(ring) + PerFrame
      /\ \A i \in 1 .. Len(ring') : ring'[i] = Pushed + PerFrame - Len(ring') + i
  <2>1. /\ ring \in Seq(Nat) /\ Len(ring) <= Capacity /\ Pushed \in Int
        /\ \A i \in 1 .. Len(ring) : ring[i] = Pushed - Len(ring) + i
    BY <1>1 DEF RingInv
  <2>2. /\ Kept(ring, w) \in Seq(Nat)
        /\ Len(Kept(ring, w)) <= Capacity
        /\ Len(Kept(ring, w)) <= Len(ring) + Len(w)
        /\ \A i \in 1 .. Len(Kept(ring, w)) :
             Kept(ring, w)[i] = Pushed + Len(w) - Len(Kept(ring, w)) + i
    <3> HIDE DEF Pushed
    <3> QED  BY <1>3, <1>4, <2>1, KeptIsNewest
  <2> QED  BY <1>3, <1>5, <2>2
<1>8. Len(ring') \in Nat
  BY <1>7, LenProperties
<1>9. heard' = heard /\ heard \in Nat /\ heard <= Pushed - Len(ring)
  BY DEF Push, RingInv
<1>10. heard' <= Pushed' - Len(ring')
  BY <1>1, <1>2, <1>6, <1>7, <1>8, <1>9
<1>11. pc' # "push" /\ occupancy' = Len(ring')
  BY DEF Push
<1>12. \A i \in 1 .. Len(ring') : ring'[i] = Pushed' - Len(ring') + i
  <2>1. Pushed + PerFrame = Pushed'
    BY <1>1, <1>2, <1>6
  <2> QED  BY <1>1, <1>7, <1>8, <2>1
<1>13. frames \in Nat
  BY DEF RingInv
<1> QED
  BY <1>6, <1>7, <1>9, <1>10, <1>11, <1>12, <1>13 DEF RingInv

\* Production, eviction and the device callback keep the ring in order.
LEMMA StepHeard ==
  ASSUME RingInv, [Next]_vars PROVE RingInv'
<1>1. CASE Pull
  BY <1>1, PullHeard
<1>2. CASE Push
  BY <1>2, PushHeard
<1>3. CASE Frame
  <2>1. Pushed' = Staged' - PerFrame /\ Pushed = Staged
    <3>1. Staged \in Nat
      BY PushedIsNat
    <3> QED  BY <1>3, <3>1 DEF Frame, Pushed
  <2>2. Staged' = Staged + PerFrame
    BY <1>3, PacerAssumption, OneMoreFrame DEF Frame, Staged, RingInv
  <2>3. Pushed' = Pushed
    BY <2>1, <2>2, PushedIsNat
  <2> QED  BY <1>3, <2>3 DEF Frame, RingInv, audio
<1>4. CASE Elapse \/ Measure \/ Snap \/ Woken \/ UNCHANGED vars
  <2>1. UNCHANGED <<audio, frames>>
    BY <1>4 DEF Elapse, Measure, Snap, Woken, vars, audio
  <2>2. pc' = "push" <=> pc = "push"
    BY <1>4 DEF Elapse, Measure, Snap, Woken, vars
  <2>3. Pushed' = Pushed
    BY <2>1, <2>2 DEF Pushed, Staged
  <2> QED  BY <2>1, <2>2, <2>3 DEF RingInv, audio
<1> QED
  BY <1>1, <1>2, <1>3, <1>4 DEF Next

\* The device hears the stream in order and without repeats, whatever was evicted.
THEOREM HeardCorrect == Spec => []HeardInOrder
<1>1. Init => RingInv
  <2> SUFFICES ASSUME Init PROVE RingInv
    OBVIOUS
  <2>1. Staged = 0 /\ Pushed = 0
    BY PacerAssumption DEF Init, Staged, Pushed
  <2>2. ring \in Seq(Nat) /\ Len(ring) = 0
    BY EmptySeq DEF Init
  <2> QED  BY <2>1, <2>2, PacerAssumption DEF Init, RingInv
<1>2. RingInv /\ [Next]_vars => RingInv'
  BY StepHeard
<1>3. RingInv => HeardInOrder
  <2> SUFFICES ASSUME RingInv, pc # "push"
               PROVE  /\ \A i \in DOMAIN ring : ring[i] = Staged - Len(ring) + i
                      /\ heard <= Staged - Len(ring)
                      /\ occupancy = Len(ring)
    BY DEF HeardInOrder
  <2>1. Pushed = Staged
    BY PushedIsNat DEF Pushed
  <2>2. DOMAIN ring = 1 .. Len(ring)
    BY LenProperties DEF RingInv
  <2> QED  BY <2>1, <2>2 DEF RingInv
<1> QED  BY <1>1, <1>2, <1>3, PTL DEF Spec

-----------------------------------------------------------------------------
\* A slot's bytes and dimensions are of one frame.
Whole(s) == dims[s] = Geometry[bufs[s]]

\* Who holds the mutex is where its holder is.
LockInv ==
  /\ lock = "emu" <=> emuPc \in {"bytes", "dims", "swap", "flag", "unlock"}
  /\ lock = "ui" <=> uiPc \in {"flag", "swap", "copy", "unlock",
                               "rflag", "rindex", "rbufs", "rdims", "runlock"}

\* What the producer's position says of the slots.
EmuInv ==
  /\ \A s \in Slot : Whole(s) \/ uiPc = "rdims" \/ (emuPc = "dims" /\ s = index.back)
  /\ emuPc \in {"dims", "swap"} => bufs[index.back] = frame
  /\ emuPc = "flag" => bufs[index.ready] = frame

\* What the flag and the consumer's position say of them.
UiInv ==
  /\ hasNew => bufs[index.ready] \in Frames
  /\ uiPc = "swap" => ~hasNew /\ bufs[index.ready] \in Frames
  /\ uiPc = "copy" => ~hasNew /\ bufs[index.front] \in Frames
  /\ uiPc \in {"rindex", "rbufs", "rdims"} => ~hasNew
  /\ uiPc = "rdims" => \A s \in Slot : bufs[s] = EmptyFrame
  /\ staging # EmptyFrame /\ fbDims = Geometry[staging]

BufInv == BufferTypeOK /\ LockInv /\ EmuInv /\ UiInv

\* The roles are three different slots.
LEMMA Roles ==
  ASSUME BufferTypeOK
  PROVE  /\ index.front \in Slot /\ index.ready \in Slot /\ index.back \in Slot
         /\ index.front # index.ready /\ index.front # index.back /\ index.ready # index.back
BY DEF BufferTypeOK, Slot

\* The triple buffer starts with its three slots empty and apart.
LEMMA InitBuffered ==
  ASSUME BufferInit PROVE BufInv
<1> USE GeometryAssumption
<1>1. INIT_INDEX \in [front : Slot, ready : Slot, back : Slot]
      /\ {INIT_INDEX.front, INIT_INDEX.ready, INIT_INDEX.back} = Slot
  BY DEF INIT_INDEX, Slot
<1>2. BufferTypeOK
  BY <1>1 DEF BufferInit, BufferTypeOK, Content, Sizes
<1>3. LockInv /\ EmuInv /\ UiInv
  BY DEF BufferInit, LockInv, EmuInv, UiInv, Whole
<1> QED  BY <1>2, <1>3 DEF BufInv

-----------------------------------------------------------------------------
\* A publish, lock by lock, keeps the invariant of the buffer.
LEMMA EmuStep ==
  ASSUME BufInv, EmuRun PROVE BufInv'
<1> USE GeometryAssumption DEF Emu
<1>0. BufferTypeOK /\ LockInv /\ EmuInv /\ UiInv
  BY DEF BufInv
<1>1. CASE PublishLock
  BY <1>0, <1>1 DEF PublishLock, BufInv, BufferTypeOK, LockInv, EmuInv, UiInv, Whole
<1>2. CASE PublishBytes
  <2>1. lock = "emu" /\ uiPc # "rdims" /\ uiPc # "swap" /\ uiPc # "copy"
    BY <1>0, <1>2 DEF PublishBytes, LockInv
  <2>2. BufferTypeOK'
    BY <1>0, <1>2, Roles DEF PublishBytes, BufferTypeOK, Content, WriteSlot
  <2>3. LockInv'
    BY <1>0, <1>2 DEF PublishBytes, LockInv
  <2>4. /\ bufs'[index.back] = frame
        /\ \A s \in Slot : s # index.back => bufs'[s] = bufs[s]
    BY <1>0, <1>2, Roles DEF PublishBytes, BufferTypeOK, WriteSlot
  <2>5. EmuInv'
    BY <1>0, <1>2, <2>1, <2>4 DEF PublishBytes, EmuInv, Whole
  <2>6. UiInv'
    BY <1>0, <1>2, <2>1, <2>4, Roles DEF PublishBytes, UiInv
  <2> QED  BY <2>2, <2>3, <2>5, <2>6 DEF BufInv
<1>3. CASE PublishDims
  <2>1. lock = "emu" /\ uiPc # "rdims" /\ frame \in Frames
    BY <1>0, <1>3 DEF PublishDims, LockInv, BufferTypeOK
  <2>2. BufferTypeOK'
    BY <1>0, <1>3, <2>1, Roles DEF PublishDims, BufferTypeOK, Sizes, WriteSlot, DimsOf
  <2>3. LockInv'
    BY <1>0, <1>3 DEF PublishDims, LockInv
  <2>4. /\ dims'[index.back] = Geometry[frame]
        /\ \A s \in Slot : s # index.back => dims'[s] = dims[s]
    BY <1>0, <1>3, Roles DEF PublishDims, BufferTypeOK, WriteSlot, DimsOf
  <2>5. EmuInv'
    BY <1>0, <1>3, <2>1, <2>4 DEF PublishDims, EmuInv, Whole
  <2>6. UiInv'
    BY <1>0, <1>3 DEF PublishDims, UiInv
  <2> QED  BY <2>2, <2>3, <2>5, <2>6 DEF BufInv
<1>4. CASE PublishSwap
  <2>1. lock = "emu" /\ uiPc # "rdims" /\ uiPc # "swap" /\ uiPc # "copy" /\ frame \in Frames
    BY <1>0, <1>4 DEF PublishSwap, LockInv, BufferTypeOK
  <2>2. /\ index' \in [front : Slot, ready : Slot, back : Slot]
        /\ index'.front = index.front /\ index'.ready = index.back
        /\ index'.back = index.ready
    BY <1>0, <1>4 DEF PublishSwap, BufferTypeOK, SwapReadyBack
  <2>3. BufferTypeOK'
    BY <1>0, <1>4, <2>2 DEF PublishSwap, BufferTypeOK
  <2>4. LockInv'
    BY <1>0, <1>4 DEF PublishSwap, LockInv
  <2>5. EmuInv' /\ UiInv'
    BY <1>0, <1>4, <2>1, <2>2 DEF PublishSwap, EmuInv, UiInv, Whole
  <2> QED  BY <2>3, <2>4, <2>5 DEF BufInv
<1>5. CASE PublishFlag
  BY <1>0, <1>5 DEF PublishFlag, BufInv, BufferTypeOK, LockInv, EmuInv, UiInv, Whole
<1>6. CASE PublishUnlock
  BY <1>0, <1>6 DEF PublishUnlock, BufInv, BufferTypeOK, LockInv, EmuInv, UiInv, Whole
<1>7. CASE PublishBump
  BY <1>0, <1>7 DEF PublishBump, BufInv, BufferTypeOK, LockInv, EmuInv, UiInv, Whole
<1> QED
  BY <1>1, <1>2, <1>3, <1>4, <1>5, <1>6, <1>7 DEF EmuRun

\* The consumer's steps in take_into.
LEMMA TakeStep ==
  ASSUME BufInv, TakeCheck \/ TakeLock \/ TakeFlag \/ TakeSwap \/ TakeCopy \/ TakeUnlock
  PROVE  BufInv'
<1> USE GeometryAssumption DEF Ui, shared
<1>0. BufferTypeOK /\ LockInv /\ EmuInv /\ UiInv
  BY DEF BufInv
<1>1. CASE TakeCheck
  BY <1>0, <1>1 DEF TakeCheck, BufInv, BufferTypeOK, LockInv, EmuInv, UiInv, Whole
<1>2. CASE TakeLock
  BY <1>0, <1>2 DEF TakeLock, BufInv, BufferTypeOK, LockInv, EmuInv, UiInv, Whole
<1>3. CASE TakeFlag
  BY <1>0, <1>3
     DEF TakeFlag, FlagAfterTake, BufInv, BufferTypeOK, LockInv, EmuInv, UiInv, Whole
<1>4. CASE TakeSwap
  <2>1. lock = "ui" /\ emuPc \notin {"dims", "swap", "flag"} /\ ~hasNew
        /\ bufs[index.ready] \in Frames
    BY <1>0, <1>4 DEF TakeSwap, LockInv, UiInv
  <2>2. /\ index' \in [front : Slot, ready : Slot, back : Slot]
        /\ index'.front = index.ready /\ index'.ready = index.front
        /\ index'.back = index.back
    BY <1>0, <1>4 DEF TakeSwap, BufferTypeOK, SwapFrontReady
  <2>3. BufferTypeOK'
    BY <1>0, <1>4, <2>2 DEF TakeSwap, BufferTypeOK
  <2>4. LockInv'
    BY <1>0, <1>4 DEF TakeSwap, LockInv
  <2>5. EmuInv' /\ UiInv'
    BY <1>0, <1>4, <2>1, <2>2 DEF TakeSwap, EmuInv, UiInv, Whole
  <2> QED  BY <2>3, <2>4, <2>5 DEF BufInv
<1>5. CASE TakeCopy
  <2>1. lock = "ui" /\ emuPc # "dims" /\ bufs[index.front] \in Frames
        /\ Whole(index.front)
    BY <1>0, <1>5, Roles DEF TakeCopy, LockInv, UiInv, EmuInv
  <2>2. staging' \in Frames /\ fbDims' = Geometry[staging'] /\ fbDims' \in Sizes
    BY <1>5, <2>1 DEF TakeCopy, Whole, Sizes
  <2> QED
    BY <1>0, <1>5, <2>2
       DEF TakeCopy, BufInv, BufferTypeOK, LockInv, EmuInv, UiInv, Whole
<1>6. CASE TakeUnlock
  BY <1>0, <1>6 DEF TakeUnlock, BufInv, BufferTypeOK, LockInv, EmuInv, UiInv, Whole
<1> QED
  BY <1>1, <1>2, <1>3, <1>4, <1>5, <1>6

\* The consumer's steps in reset, and the blanking of its own copy.
LEMMA ResetStep ==
  ASSUME BufInv,
         \/ ResetCall \/ ResetLock \/ ResetFlag \/ ResetIndex \/ ResetBufs
         \/ ResetDims \/ ResetUnlock \/ BlankStaging
  PROVE  BufInv'
<1> USE GeometryAssumption DEF Ui, shared, FlagInReset, FlagClearedAt
<1>0. BufferTypeOK /\ LockInv /\ EmuInv /\ UiInv
  BY DEF BufInv
<1>1. CASE ResetCall
  BY <1>0, <1>1 DEF ResetCall, BufInv, BufferTypeOK, LockInv, EmuInv, UiInv, Whole
<1>2. CASE ResetLock
  BY <1>0, <1>2 DEF ResetLock, BufInv, BufferTypeOK, LockInv, EmuInv, UiInv, Whole
<1>3. CASE ResetFlag
  BY <1>0, <1>3 DEF ResetFlag, BufInv, BufferTypeOK, LockInv, EmuInv, UiInv, Whole
<1>4. CASE ResetIndex
  <2>1. lock = "ui" /\ emuPc \notin {"dims", "swap", "flag"} /\ ~hasNew
    BY <1>0, <1>4 DEF ResetIndex, LockInv, UiInv
  <2>2. INIT_INDEX \in [front : Slot, ready : Slot, back : Slot]
        /\ {INIT_INDEX.front, INIT_INDEX.ready, INIT_INDEX.back} = Slot
    BY DEF INIT_INDEX, Slot
  <2>3. BufferTypeOK' /\ LockInv'
    BY <1>0, <1>4, <2>2 DEF ResetIndex, BufferTypeOK, LockInv
  <2>4. EmuInv' /\ UiInv'
    BY <1>0, <1>4, <2>1 DEF ResetIndex, EmuInv, UiInv, Whole
  <2> QED  BY <2>3, <2>4 DEF BufInv
<1>5. CASE ResetBufs
  <2>1. lock = "ui" /\ emuPc \notin {"dims", "swap", "flag"} /\ ~hasNew
    BY <1>0, <1>5 DEF ResetBufs, LockInv, UiInv
  <2>2. BufferTypeOK' /\ LockInv'
    BY <1>0, <1>5 DEF ResetBufs, BufferTypeOK, LockInv, Content
  <2>3. EmuInv' /\ UiInv'
    BY <1>0, <1>5, <2>1 DEF ResetBufs, EmuInv, UiInv, Whole
  <2> QED  BY <2>2, <2>3 DEF BufInv
<1>6. CASE ResetDims
  <2>1. lock = "ui" /\ emuPc \notin {"dims", "swap", "flag"} /\ ~hasNew
        /\ \A s \in Slot : bufs[s] = EmptyFrame
    BY <1>0, <1>6 DEF ResetDims, LockInv, UiInv
  <2>2. BufferTypeOK' /\ LockInv'
    BY <1>0, <1>6 DEF ResetDims, BufferTypeOK, LockInv, Sizes
  <2>3. EmuInv' /\ UiInv'
    BY <1>0, <1>6, <2>1 DEF ResetDims, EmuInv, UiInv, Whole
  <2> QED  BY <2>2, <2>3 DEF BufInv
<1>7. CASE ResetUnlock
  BY <1>0, <1>7 DEF ResetUnlock, BufInv, BufferTypeOK, LockInv, EmuInv, UiInv, Whole
<1>8. CASE BlankStaging
  BY <1>0, <1>8
     DEF BlankStaging, BufInv, BufferTypeOK, LockInv, EmuInv, UiInv, Whole, Sizes
<1> QED
  BY <1>1, <1>2, <1>3, <1>4, <1>5, <1>6, <1>7, <1>8

\* So does every step of the two threads.
LEMMA StepBuffered ==
  ASSUME BufInv, [BufferNext]_bufferVars PROVE BufInv'
<1>1. ASSUME NEW f \in Frames, PublishCall(f) PROVE BufInv'
  BY <1>1 DEF PublishCall, Emu, shared, BufInv, BufferTypeOK, LockInv, EmuInv, UiInv, Whole
<1>2. CASE UNCHANGED bufferVars
  BY <1>2 DEF bufferVars, shared, BufInv, BufferTypeOK, LockInv, EmuInv, UiInv, Whole
<1> QED
  BY <1>1, <1>2, EmuStep, TakeStep, ResetStep DEF BufferNext, UiLocks, UiRun

\* The invariant of the triple buffer holds in every reachable state.
LEMMA BufferCorrect == BufferSpec => []BufInv
<1>1. BufferInit => BufInv
  BY InitBuffered
<1>2. BufInv /\ [BufferNext]_bufferVars => BufInv'
  BY StepBuffered
<1> QED  BY <1>1, <1>2, PTL DEF BufferSpec

\* What the window holds between two calls has the dimensions it was produced with.
THEOREM ContractCorrect == BufferSpec => []BytesMatchDims
<1>1. BufInv => BytesMatchDims
  BY DEF BufInv, UiInv, BytesMatchDims
<1> QED  BY <1>1, BufferCorrect, PTL

\* The flag never announces a slot that is empty or half written.
THEOREM FlagCorrect == BufferSpec => []FlagMeansFrame
<1>1. BufInv => FlagMeansFrame
  BY Roles DEF BufInv, LockInv, EmuInv, UiInv, FlagMeansFrame, Whole
<1> QED  BY <1>1, BufferCorrect, PTL

-----------------------------------------------------------------------------
\* The mailbox the buffer stands for, and what the window shows of it.
Box == IF hasNew THEN bufs[index.ready] ELSE EmptyFrame
Shown == CASE uiPc = "swap" -> bufs[index.ready]
           [] uiPc = "copy" -> bufs[index.front]
           [] OTHER         -> staging

\* What the shared boxes do in one step is a step of the mailbox, or none.
LEMMA MailboxSteps ==
  \/ \E f \in Frames : Box' = f /\ Shown' = Shown
  \/ Box # EmptyFrame /\ Shown' = Box /\ Box' = EmptyFrame
  \/ Box' = EmptyFrame /\ Shown' = Shown
  \/ Shown' = BlackFrame /\ Box' = Box
  \/ Box' = Box /\ Shown' = Shown
  => [Mailbox!Next]_(Mailbox!vars)
BY DEF Mailbox!Next, Mailbox!Put, Mailbox!Take, Mailbox!Clear, Mailbox!Blank, Mailbox!vars,
       Box, Shown

\* The producer's steps: a put where the flag and the index both name the frame.
LEMMA EmuRefines ==
  ASSUME BufInv, EmuRun PROVE [Mailbox!Next]_(Mailbox!vars)
<1> USE DEF Emu
<1>0. BufferTypeOK /\ LockInv /\ EmuInv /\ UiInv
  BY DEF BufInv
<1>1. CASE PublishLock \/ PublishUnlock \/ PublishBump \/ PublishDims
  <2>1. UNCHANGED <<bufs, index, hasNew, uiPc, staging>>
    BY <1>1 DEF PublishLock, PublishUnlock, PublishBump, PublishDims
  <2> QED  BY <2>1, MailboxSteps DEF Box, Shown
<1>2. CASE PublishBytes
  <2>1. uiPc # "swap" /\ uiPc # "copy"
    BY <1>0, <1>2 DEF PublishBytes, LockInv
  <2>2. bufs'[index.ready] = bufs[index.ready]
    BY <1>0, <1>2, Roles DEF PublishBytes, BufferTypeOK, WriteSlot
  <2> QED  BY <1>2, <2>1, <2>2, MailboxSteps DEF PublishBytes, Box, Shown
<1>3. CASE PublishSwap
  <2>1. uiPc # "swap" /\ uiPc # "copy" /\ bufs[index.back] = frame /\ frame \in Frames
    BY <1>0, <1>3 DEF PublishSwap, LockInv, EmuInv, BufferTypeOK
  <2>2. index'.ready = index.back
    BY <1>0, <1>3 DEF PublishSwap, BufferTypeOK, SwapReadyBack
  <2>3. Shown' = Shown
    BY <1>3, <2>1 DEF PublishSwap, Shown
  <2>4. CASE hasNew
    BY <1>3, <2>1, <2>2, <2>3, <2>4, MailboxSteps DEF PublishSwap, Box
  <2>5. CASE ~hasNew
    BY <1>3, <2>3, <2>5, MailboxSteps DEF PublishSwap, Box
  <2> QED  BY <2>4, <2>5
<1>4. CASE PublishFlag
  <2>1. bufs[index.ready] = frame /\ frame \in Frames
    BY <1>0, <1>4 DEF PublishFlag, EmuInv, BufferTypeOK
  <2> QED  BY <1>4, <2>1, MailboxSteps DEF PublishFlag, Box, Shown
<1> QED
  BY <1>1, <1>2, <1>3, <1>4 DEF EmuRun

\* The consumer's: a take where it wins the flag, a clear where reset clears it, and the
\* blanking of the window's own copy.
LEMMA UiRefines ==
  ASSUME BufInv, UiRun \/ UiLocks \/ ResetCall PROVE [Mailbox!Next]_(Mailbox!vars)
<1> USE GeometryAssumption DEF Ui, shared, FlagInReset, FlagClearedAt
<1>0. BufferTypeOK /\ LockInv /\ EmuInv /\ UiInv
  BY DEF BufInv
<1>1. CASE TakeCheck \/ TakeLock \/ TakeUnlock \/ ResetCall \/ ResetLock \/ ResetUnlock
           \/ ResetDims
  <2>1. /\ UNCHANGED <<bufs, index, hasNew, staging>>
        /\ {uiPc, uiPc'} \cap {"swap", "copy"} = {}
    BY <1>1
       DEF TakeCheck, TakeLock, TakeUnlock, ResetCall, ResetLock, ResetUnlock, ResetDims
  <2> QED  BY <2>1, MailboxSteps DEF Box, Shown
<1>2. CASE TakeFlag
  <2>1. CASE hasNew
    <3>1. Box = bufs[index.ready] /\ Box # EmptyFrame /\ Box' = EmptyFrame
      BY <1>0, <1>2, <2>1 DEF TakeFlag, FlagAfterTake, Box, UiInv
    <3>2. Shown' = Box
      BY <1>2, <2>1, <3>1 DEF TakeFlag, Shown
    <3> QED  BY <3>1, <3>2, MailboxSteps
  <2>2. CASE ~hasNew
    BY <1>2, <2>2, MailboxSteps DEF TakeFlag, FlagAfterTake, Box, Shown
  <2> QED  BY <2>1, <2>2
<1>3. CASE TakeSwap
  <2>1. ~hasNew /\ ~hasNew' /\ index'.front = index.ready
    BY <1>0, <1>3 DEF TakeSwap, UiInv, BufferTypeOK, SwapFrontReady
  <2> QED  BY <1>3, <2>1, MailboxSteps DEF TakeSwap, Box, Shown
<1>4. CASE TakeCopy
  BY <1>4, MailboxSteps DEF TakeCopy, Box, Shown
<1>5. CASE ResetFlag
  BY <1>5, MailboxSteps DEF ResetFlag, Box, Shown
<1>6. CASE ResetIndex \/ ResetBufs
  <2>1. ~hasNew /\ UNCHANGED <<hasNew, staging>>
        /\ {uiPc, uiPc'} \cap {"swap", "copy"} = {}
    BY <1>0, <1>6 DEF ResetIndex, ResetBufs, UiInv
  <2> QED  BY <2>1, MailboxSteps DEF Box, Shown
<1>7. CASE BlankStaging
  BY <1>7, MailboxSteps DEF BlankStaging, Box, Shown
<1> QED
  BY <1>1, <1>2, <1>3, <1>4, <1>5, <1>6, <1>7 DEF UiRun, UiLocks

\* The triple buffer, with its lock, its flag and its three slots, is a mailbox of one
\* frame: a frame is shown once, and never after a newer one or after the blanking that
\* dropped it.
THEOREM MailboxRefined == BufferSpec => RefinesMailbox
<1>1. BufferInit => Mailbox!Init
  BY DEF BufferInit, Mailbox!Init
<1>2. BufInv /\ [BufferNext]_bufferVars => [Mailbox!Next]_(Mailbox!vars)
  <2> SUFFICES ASSUME BufInv, [BufferNext]_bufferVars
               PROVE  [Mailbox!Next]_(Mailbox!vars)
    OBVIOUS
  <2>1. CASE UNCHANGED bufferVars
    BY <2>1, MailboxSteps DEF bufferVars, shared, Box, Shown
  <2>2. ASSUME NEW f \in Frames, PublishCall(f) PROVE [Mailbox!Next]_(Mailbox!vars)
    BY <2>2, MailboxSteps DEF PublishCall, Emu, shared, Box, Shown
  <2> QED  BY <2>1, <2>2, EmuRefines, UiRefines DEF BufferNext
<1> QED
  BY <1>1, <1>2, BufferCorrect, PTL DEF BufferSpec, RefinesMailbox, Mailbox!Spec

-----------------------------------------------------------------------------
\* Who holds the emu mutex is where its holder is.
HolderInv ==
  /\ emuLock = "emu" <=> threadPc \in {"run", "publish", "unlock"}
  /\ emuLock = "ui" <=> windowPc \in {"open", "close", "reset", "pause", "unlock"}

\* What waits in the handoff is of the current machine, or about to be dropped; so is
\* what the window holds.
DroppedInv ==
  /\ windowPc \notin {"unlock", "clear"} => box = Empty \/ box.in = machine
  /\ windowPc \notin {"unlock", "clear", "black"} => shown.in = machine

\* A session has room for the machine a menu action is about to start.
SessionInv == windowPc \in {"open", "close", "reset"} => machine < MaxActions

PresInv == ThreadsTypeOK /\ HolderInv /\ DroppedInv /\ SessionInv

\* The sessions counted are those the bound allows.
LEMMA Numbers ==
  ASSUME ActionsAssumption
  PROVE  /\ 0 \in Machines /\ None \notin Machines
         /\ \A m \in Machines : m < MaxActions => m + 1 \in Machines
         /\ Empty \notin Pictures /\ Black \in Pictures
BY DEF ActionsAssumption, Machines, None, Drawings, Empty, Black, Pictures

\* Before the first ROM there is nothing to show.
LEMMA InitShown ==
  ASSUME ActionsAssumption, ThreadsInit PROVE PresInv
BY Numbers DEF ThreadsInit, PresInv, ThreadsTypeOK, HolderInv, DroppedInv, SessionInv, Drawings, Black

-----------------------------------------------------------------------------
\* The emulation thread publishes under the emu mutex, so for the current machine.
LEMMA EmuShown ==
  ASSUME ActionsAssumption, PresInv, ThreadRun \/ EmuTakeLock PROVE PresInv'
<1> USE DEF Thread, core
<1>0. ThreadsTypeOK /\ HolderInv /\ DroppedInv /\ SessionInv
  BY DEF PresInv
<1>1. CASE EmuCheck \/ Wait
  BY <1>0, <1>1 DEF EmuCheck, Wait, PresInv, ThreadsTypeOK, HolderInv, DroppedInv, SessionInv
<1>2. CASE EmuTakeLock
  BY <1>0, <1>2 DEF EmuTakeLock, PresInv, ThreadsTypeOK, HolderInv, DroppedInv, SessionInv
<1>3. CASE RunFrame
  <2>1. {drawn', staged'} \subseteq Drawings
    BY <1>0, <1>3 DEF RunFrame, ThreadsTypeOK
  <2> QED
    BY <1>0, <1>3, <2>1 DEF RunFrame, PresInv, ThreadsTypeOK, HolderInv, DroppedInv, SessionInv
<1>4. CASE Publish
  <2>1. windowPc # "unlock"
    BY <1>0, <1>4 DEF Publish, HolderInv
  <2>2. box' \in Pictures /\ box'.in = machine
    BY <1>0, <1>4 DEF Publish, Handoff!Put, Published, Pictures, ThreadsTypeOK
  <2>3. shown' = shown
    BY <1>4 DEF Publish, Handoff!Put
  <2> QED
    BY <1>0, <1>4, <2>1, <2>2, <2>3 DEF Publish, PresInv, ThreadsTypeOK, HolderInv, DroppedInv, SessionInv
<1>5. CASE EmuUnlock
  BY <1>0, <1>5 DEF EmuUnlock, PresInv, ThreadsTypeOK, HolderInv, DroppedInv, SessionInv
<1> QED
  BY <1>1, <1>2, <1>3, <1>4, <1>5 DEF ThreadRun

\* The menu actions hold the emu mutex until the machine is replaced, and show nothing
\* before both the handoff and the window's own copy are emptied.
LEMMA MenuShown ==
  ASSUME ActionsAssumption, PresInv,
         \/ CloseRom \/ Reset \/ TogglePause \/ UiUnlock \/ ClearHandoff \/ BlankWindow
         \/ \E ok \in BOOLEAN : OpenRom(ok)
         \/ \E action \in {"open", "close", "reset", "pause"} : Menu(action)
  PROVE  PresInv'
<1> USE DEF Window, core
<1>0. ThreadsTypeOK /\ HolderInv /\ DroppedInv /\ SessionInv
  BY DEF PresInv
<1>1. ASSUME NEW action \in {"open", "close", "reset", "pause"}, Menu(action)
      PROVE  PresInv'
  BY <1>0, <1>1 DEF Menu, PresInv, ThreadsTypeOK, HolderInv, DroppedInv, SessionInv
<1>2. ASSUME NEW ok \in BOOLEAN, OpenRom(ok) PROVE PresInv'
  <2>1. machine + 1 \in Machines /\ emuLock = "ui"
    BY <1>0, <1>2, Numbers DEF OpenRom, ThreadsTypeOK, HolderInv, SessionInv
  <2>2. {cart', program', drawn', staged'} \subseteq Drawings
    BY <1>0, <1>2, <2>1 DEF OpenRom, ThreadsTypeOK, Drawings
  <2> QED
    BY <1>0, <1>2, <2>1, <2>2 DEF OpenRom, PresInv, ThreadsTypeOK, HolderInv, DroppedInv, SessionInv
<1>3. CASE CloseRom
  <2>1. machine + 1 \in Machines /\ emuLock = "ui" /\ None \in Drawings
    BY <1>0, <1>3, Numbers DEF CloseRom, ThreadsTypeOK, HolderInv, SessionInv, Drawings
  <2> QED
    BY <1>0, <1>3, <2>1 DEF CloseRom, PresInv, ThreadsTypeOK, HolderInv, DroppedInv, SessionInv
<1>4. CASE Reset
  <2>1. machine + 1 \in Machines /\ emuLock = "ui" /\ None \in Drawings
    BY <1>0, <1>4, Numbers DEF Reset, ThreadsTypeOK, HolderInv, SessionInv, Drawings
  <2> QED
    BY <1>0, <1>4, <2>1 DEF Reset, PresInv, ThreadsTypeOK, HolderInv, DroppedInv, SessionInv
<1>5. CASE TogglePause
  BY <1>0, <1>5 DEF TogglePause, PresInv, ThreadsTypeOK, HolderInv, DroppedInv, SessionInv
<1>6. CASE UiUnlock
  BY <1>0, <1>6 DEF UiUnlock, PresInv, ThreadsTypeOK, HolderInv, DroppedInv, SessionInv
<1>7. CASE ClearHandoff
  BY <1>0, <1>7
     DEF ClearHandoff, ClearsHandoff, Handoff!Clear,
         PresInv, ThreadsTypeOK, HolderInv, DroppedInv, SessionInv
<1>8. CASE BlankWindow
  <2>1. shown' \in Pictures /\ shown'.in = machine
    BY <1>0, <1>8 DEF BlankWindow, Black, Pictures, ThreadsTypeOK, Drawings
  <2> QED
    BY <1>0, <1>8, <2>1 DEF BlankWindow, PresInv, ThreadsTypeOK, HolderInv, DroppedInv, SessionInv
<1> QED
  BY <1>1, <1>2, <1>3, <1>4, <1>5, <1>6, <1>7, <1>8

\* Redraws take what waits, which is of the current machine while the window is between
\* two events.
LEMMA WindowShown ==
  ASSUME ActionsAssumption, PresInv, Redraw \/ Quit \/ Join \/ UNCHANGED threadVars
  PROVE  PresInv'
<1> USE DEF Window, core
<1>0. ThreadsTypeOK /\ HolderInv /\ DroppedInv /\ SessionInv
  BY DEF PresInv
<1>1. CASE Redraw
  <2>1. shown' = box /\ box' = Empty /\ box \in Pictures /\ box.in = machine
    BY <1>0, <1>1 DEF Redraw, Handoff!Take, ThreadsTypeOK, DroppedInv
  <2> QED
    BY <1>0, <1>1, <2>1 DEF Redraw, PresInv, ThreadsTypeOK, HolderInv, DroppedInv, SessionInv
<1>2. CASE Quit
  BY <1>0, <1>2 DEF Quit, PresInv, ThreadsTypeOK, HolderInv, DroppedInv, SessionInv
<1>3. CASE Join
  BY <1>0, <1>3 DEF Join, PresInv, ThreadsTypeOK, HolderInv, DroppedInv, SessionInv
<1>4. CASE UNCHANGED threadVars
  BY <1>0, <1>4 DEF threadVars, PresInv, ThreadsTypeOK, HolderInv, DroppedInv, SessionInv
<1> QED  BY <1>1, <1>2, <1>3, <1>4

\* The invariant of the emulation thread and the window holds in every reachable state.
LEMMA PresentationCorrect ==
  ASSUME ActionsAssumption PROVE ThreadsSpec => []PresInv
<1>1. ThreadsInit => PresInv
  BY InitShown
<1>2. PresInv /\ [ThreadsNext]_threadVars => PresInv'
  BY EmuShown, MenuShown, WindowShown DEF ThreadsNext, ThreadRun, WindowRun, Ended
<1> QED  BY <1>1, <1>2, PTL DEF ThreadsSpec

\* What the window holds between two events was published by the current machine, and
\* each mutex is held by the thread that is where it says.
THEOREM OldFramesCorrect ==
  ASSUME ActionsAssumption PROVE ThreadsSpec => [](OldFramesDropped /\ ThreadsTypeOK)
<1>1. PresInv => OldFramesDropped /\ ThreadsTypeOK
  BY DEF PresInv, DroppedInv, OldFramesDropped
<1> QED  BY <1>1, PresentationCorrect, PTL
=============================================================================
