-------------------------- MODULE SaveStatesProofs --------------------------
(***************************************************************************)
(* Save-states, rewind and run-ahead: that a step leaves the machine one   *)
(* frame on from where it began and saves nothing else, for any number of  *)
(* speculative frames; and that rewinds go back in time, for any interval  *)
(* and capacity of the ring, wherever the window's requests fall.          *)
(***************************************************************************)
EXTENDS SaveStates, TLAPS

\* There is room for the speculative frames that are left, and for one at least.
Room ==
  stepPc = "ahead" => ahead >= 1 /\ (~held => sys.pos + ahead <= MaxPos)

\* What the step has committed is one frame on from where it began.
OneFrameOn ==
  /\ stepPc \in {"ahead", "restore"} => committed = Ran(begun)
  /\ stepPc \in {"capture", "save"} => sys = Ran(begun)

\* On an undisturbed timeline the snapshots are an interval apart, and the machine is
\* since frames past the newest, and one more while the step has yet to count its frame.
Spaced == \A i \in 1 .. Len(snaps) - 1 : snaps[i + 1].pos >= snaps[i].pos + Interval

SinceNewest ==
  snaps # <<>> =>
    /\ stepPc \in {"idle", "rewind", "commit", "save"} => sys.pos >= Newest.pos + since
    /\ stepPc \in {"ahead", "restore"} =>
         committed.pos >= Newest.pos + since + (IF held THEN 0 ELSE 1)
    /\ stepPc = "capture" => sys.pos >= Newest.pos + since + (IF held THEN 0 ELSE 1)

\* After a rewind the newest snapshot is earlier than where it landed, and the countdown
\* starts anew, so that the step that rewinds captures nothing.
Earlier ==
  rewound # <<>> =>
    /\ stepPc \in {"commit", "ahead", "restore", "capture"} => since = 0
    /\ snaps # <<>> => Newest.pos < rewound[1]

StatesInv ==
  /\ StatesTypeOK /\ Room /\ OneFrameOn
  /\ ~disturbed => Spaced /\ SinceNewest /\ (Interval > 1 => Earlier)

-----------------------------------------------------------------------------
\* A frame run within the bound is a machine state, one position on unless it is held.
LEMMA RanMachine ==
  ASSUME ConfigAssumption, NEW m \in Machine, held \in BOOLEAN, ~held => m.pos + 1 <= MaxPos
  PROVE  Ran(m) \in Machine /\ Ran(m).pos = m.pos + (IF held THEN 0 ELSE 1)
<1>1. CASE held
  BY <1>1 DEF Ran, Machine
<1>2. CASE ~held
  BY <1>2 DEF Ran, Machine, ConfigAssumption
<1> QED  BY <1>1, <1>2

\* A machine just booted, and none at all.
LEMMA FreshMachine ==
  ASSUME ConfigAssumption
  PROVE  /\ Nothing \in Machine /\ Nothing.pos = 0
         /\ \A r \in Roms : [rom |-> r, pos |-> 0] \in Machine
         /\ \A m \in Machine : [m EXCEPT !.pos = 0] \in Machine /\ m.pos \in 0 .. MaxPos
BY DEF ConfigAssumption, Machine, Nothing

\* A snapshot is a machine state, the newest one too.
LEMMA SnapsMachines ==
  ASSUME StatesTypeOK, ConfigAssumption
  PROVE  /\ \A i \in 1 .. Len(snaps) : snaps[i] \in Machine /\ snaps[i].pos \in 0 .. MaxPos
         /\ Len(snaps) \in Nat /\ (snaps # <<>> => Len(snaps) >= 1)
         /\ snaps # <<>> => Newest \in Machine /\ Newest.pos \in 0 .. MaxPos
<1>1. snaps \in Seq(Machine)
  BY DEF StatesTypeOK
<1>2. Len(snaps) \in Nat /\ (snaps # <<>> => Len(snaps) >= 1)
  BY <1>1
<1>3. ASSUME NEW i \in 1 .. Len(snaps) PROVE snaps[i] \in Machine /\ snaps[i].pos \in 0 .. MaxPos
  <2>1. snaps[i] \in Machine
    BY <1>1
  <2> QED  BY <2>1, FreshMachine
<1>4. snaps # <<>> => Len(snaps) \in 1 .. Len(snaps)
  BY <1>2
<1> QED  BY <1>2, <1>3, <1>4 DEF Newest

\* StatesInv holds initially.
LEMMA StatesInitInv ==
  ASSUME ConfigAssumption, StatesInit
  PROVE  StatesInv
<1>1. StatesTypeOK
  <2>1. sys \in Machine /\ committed \in Machine /\ begun \in Machine
    BY FreshMachine DEF StatesInit
  <2>2. inserted \in Roms \cup {NoRom} /\ snaps \in Seq(Machine) /\ Len(snaps) = 0
    BY DEF StatesInit
  <2>3. since \in 0 .. Interval - 1 /\ ahead \in 0 .. AheadFrames /\ actions \in 0 .. MaxUserActions
        /\ 0 <= RingCapacity
    BY DEF StatesInit, ConfigAssumption
  <2>4. slot \in {<<>>} /\ rewound \in {<<>>} /\ stepPc = "idle"
    BY DEF StatesInit
  <2>5. /\ held \in BOOLEAN /\ saveReq \in BOOLEAN /\ loadReq \in BOOLEAN
        /\ rewindReq \in BOOLEAN /\ disturbed \in BOOLEAN
    BY Zenon DEF StatesInit
  <2> QED  BY <2>1, <2>2, <2>3, <2>4, <2>5 DEF StatesTypeOK
<1>2. Room /\ OneFrameOn /\ Spaced /\ SinceNewest /\ Earlier
  BY DEF StatesInit, Room, OneFrameOn, Spaced, SinceNewest, Earlier
<1> QED  BY <1>1, <1>2 DEF StatesInv

\* A slot that is loaded replaces the machine, and with it the timeline.
LEMMA LoadStep ==
  ASSUME ConfigAssumption, StatesInv, ServeLoad, UNCHANGED actions
  PROVE  StatesInv'
<1> USE DEF StatesInv
<1>1. /\ stepPc = "idle" /\ stepPc' = "rewind" /\ loadReq' = FALSE
      /\ UNCHANGED <<inserted, held, snaps, since, saveReq, rewindReq, slot, ahead,
                     committed, begun, rewound, actions>>
  BY DEF ServeLoad, Step, rewind
<1>2. \/ slot # <<>> /\ sys' = slot[1] /\ disturbed' = TRUE
      \/ UNCHANGED <<sys, disturbed>>
  BY DEF ServeLoad
<1>3. sys' \in Machine /\ disturbed' \in BOOLEAN
  <2>1. CASE slot # <<>> /\ sys' = slot[1] /\ disturbed' = TRUE
    <3>1. PICK m \in Machine : slot = <<m>>
      BY <2>1 DEF StatesTypeOK
    <3> QED  BY <2>1, <3>1
  <2>2. CASE UNCHANGED <<sys, disturbed>>
    BY <2>2 DEF StatesTypeOK
  <2> QED  BY <1>2, <2>1, <2>2
<1>4. StatesTypeOK'
  BY <1>1, <1>3 DEF StatesTypeOK
<1>5. Room' /\ OneFrameOn'
  BY <1>1 DEF Room, OneFrameOn
<1>6. ~disturbed' => Spaced' /\ SinceNewest' /\ (Interval > 1 => Earlier')
  BY <1>1, <1>2 DEF Spaced, SinceNewest, Earlier, Newest
<1> QED  BY <1>4, <1>5, <1>6

\* A rewind lands on the newest snapshot, and leaves the earlier ones.
LEMMA RewindStep ==
  ASSUME ConfigAssumption, StatesInv, ServeRewind, UNCHANGED actions
  PROVE  StatesInv'
<1> USE DEF StatesInv
<1>1. /\ stepPc = "rewind" /\ stepPc' = "commit" /\ rewindReq' = FALSE
      /\ UNCHANGED <<inserted, held, saveReq, loadReq, slot, ahead, committed, begun, actions>>
  BY DEF ServeRewind, Step
<1>2. Room' /\ OneFrameOn'
  BY <1>1 DEF Room, OneFrameOn
<1>3. CASE rewindReq /\ snaps # <<>>
  <2> DEFINE n == Len(snaps)
  <2>1. /\ sys' = snaps[n] /\ snaps' = SubSeq(snaps, 1, n - 1) /\ since' = 0
        /\ rewound' = <<snaps[n].pos>> /\ disturbed' = (disturbed /\ n > 1)
    BY <1>3 DEF ServeRewind, Popped, Countdown
  <2>2. /\ n \in Nat /\ n >= 1 /\ snaps[n] \in Machine
        /\ \A i \in 1 .. n : snaps[i] \in Machine /\ snaps[i].pos \in 0 .. MaxPos
    <3>1. n \in Nat /\ n >= 1 /\ n \in 1 .. n
      BY <1>3, SnapsMachines
    <3> QED  BY <3>1, SnapsMachines
  <2>3. /\ snaps' \in Seq(Machine) /\ Len(snaps') = n - 1
        /\ \A i \in 1 .. n - 1 : snaps'[i] = snaps[i]
    BY <2>1, <2>2 DEF StatesTypeOK
  <2>4. StatesTypeOK'
    <3>1. rewound' \in {<<p>> : p \in 0 .. MaxPos}
      BY <2>1, <2>2
    <3>2. since' \in 0 .. Interval - 1 /\ Len(snaps') <= RingCapacity
      BY <2>1, <2>2, <2>3 DEF ConfigAssumption, StatesTypeOK
    <3>3. disturbed' \in BOOLEAN
      BY <2>1 DEF StatesTypeOK
    <3> QED  BY <1>1, <2>1, <2>2, <2>3, <3>1, <3>2, <3>3 DEF StatesTypeOK
  <2>5. ASSUME ~disturbed'
        PROVE  Spaced' /\ SinceNewest' /\ (Interval > 1 => Earlier')
    <3>1. CASE n = 1
      <4>1. Len(snaps') = 0 /\ snaps' = <<>>
        BY <2>3, <3>1
      <4>2. Spaced' /\ SinceNewest'
        BY <4>1 DEF Spaced, SinceNewest
      <4>3. Earlier'
        BY <1>1, <2>1, <4>1 DEF Earlier
      <4> QED  BY <4>2, <4>3
    <3>2. CASE n > 1
      <4>1. ~disturbed /\ Spaced
        BY <2>1, <2>5, <3>2
      <4>2. snaps[n].pos >= snaps[n - 1].pos + Interval
        <5>1. n - 1 \in 1 .. n - 1
          BY <2>2, <3>2
        <5> QED  BY <2>2, <4>1, <5>1 DEF Spaced
      <4>3. Newest' = snaps[n - 1]
        BY <2>2, <2>3, <3>2 DEF Newest
      <4>4. Spaced'
        <5>1. ASSUME NEW i \in 1 .. n - 2
              PROVE  snaps'[i + 1].pos >= snaps'[i].pos + Interval
          <6>1. i \in 1 .. n - 1 /\ i + 1 \in 1 .. n - 1
            BY <2>2
          <6> QED  BY <2>3, <4>1, <6>1 DEF Spaced
        <5>2. Len(snaps') - 1 = n - 2
          BY <2>2, <2>3
        <5> QED  BY <5>1, <5>2 DEF Spaced
      <4>5. SinceNewest'
        BY <1>1, <2>1, <2>2, <4>2, <4>3, <3>2 DEF SinceNewest, ConfigAssumption
      <4>6. Earlier'
        BY <2>1, <2>2, <4>2, <4>3, <3>2 DEF Earlier, ConfigAssumption
      <4> QED  BY <4>4, <4>5, <4>6
    <3>3. n = 1 \/ n > 1
      <4>1. n \in Nat /\ n >= 1
        BY <2>2
      <4> HIDE DEF n
      <4> QED  BY <4>1
    <3> HIDE DEF n
    <3> QED  BY <3>1, <3>2, <3>3
  <2> QED  BY <1>2, <2>4, <2>5
<1>4. CASE ~(rewindReq /\ snaps # <<>>)
  <2>1. rewound' = <<>> /\ UNCHANGED <<sys, snaps, since, disturbed>>
    BY <1>4 DEF ServeRewind
  <2>2. StatesTypeOK'
    BY <1>1, <2>1 DEF StatesTypeOK
  <2>3. ~disturbed' => Spaced' /\ SinceNewest' /\ (Interval > 1 => Earlier')
    BY <1>1, <2>1 DEF Spaced, SinceNewest, Earlier, Newest
  <2> QED  BY <1>2, <2>2, <2>3
<1> QED  BY <1>3, <1>4

\* The frame of the real timeline.
LEMMA CommitStep ==
  ASSUME ConfigAssumption, StatesInv, Commit, UNCHANGED actions
  PROVE  StatesInv'
<1> USE DEF StatesInv
<1>1. /\ stepPc = "commit" /\ begun' = sys /\ sys' = Ran(sys) /\ committed' = sys'
      /\ ahead' = AheadFrames
      /\ stepPc' = IF AheadFrames = 0 THEN "capture" ELSE "ahead"
      /\ UNCHANGED <<inserted, held, snaps, since, saveReq, loadReq, rewindReq, slot,
                     rewound, disturbed, actions>>
  BY DEF Commit, RunCoreFrame, rewind, requests
<1>2. /\ sys \in Machine /\ sys.pos \in 0 .. MaxPos /\ AheadFrames \in Nat
      /\ held \in BOOLEAN /\ MaxPos \in Nat
  BY FreshMachine DEF StatesTypeOK, ConfigAssumption
<1>3. ~held => sys.pos + 1 + AheadFrames <= MaxPos
  <2>1. ~AtBound
    BY DEF Commit
  <2> QED  BY <1>2, <2>1 DEF AtBound
<1>4. sys' \in Machine /\ sys'.pos = sys.pos + (IF held THEN 0 ELSE 1)
  BY <1>1, <1>2, <1>3, RanMachine
<1>5. StatesTypeOK'
  BY <1>1, <1>3, <1>4 DEF StatesTypeOK
<1>6. Room'
  BY <1>1, <1>2, <1>3, <1>4 DEF Room
<1>7. OneFrameOn'
  BY <1>1 DEF OneFrameOn, Ran
<1>8. ~disturbed' => Spaced' /\ SinceNewest' /\ (Interval > 1 => Earlier')
  <2> SUFFICES ASSUME ~disturbed PROVE Spaced' /\ SinceNewest' /\ (Interval > 1 => Earlier')
    BY <1>1
  <2>1. SinceNewest'
    <3> SUFFICES ASSUME snaps # <<>> PROVE SinceNewest'
      BY <1>1 DEF SinceNewest
    <3>1. Newest' = Newest /\ Newest.pos \in 0 .. MaxPos /\ since \in Nat
      BY <1>1, SnapsMachines DEF Newest, StatesTypeOK, ConfigAssumption
    <3>2. sys.pos >= Newest.pos + since
      BY <1>1 DEF SinceNewest
    <3> QED  BY <1>1, <1>2, <1>4, <3>1, <3>2 DEF SinceNewest
  <2>2. Spaced' /\ (Interval > 1 => Earlier')
    BY <1>1 DEF Spaced, Earlier, Newest
  <2> QED  BY <2>1, <2>2
<1> QED  BY <1>5, <1>6, <1>7, <1>8

\* A speculative frame.
LEMMA AheadStep ==
  ASSUME ConfigAssumption, StatesInv, RunAhead, UNCHANGED actions
  PROVE  StatesInv'
<1> USE DEF StatesInv
<1>1. /\ stepPc = "ahead" /\ sys' = Ran(sys) /\ ahead' = ahead - 1
      /\ stepPc' = IF ahead = 1 THEN "restore" ELSE "ahead"
      /\ UNCHANGED <<inserted, held, snaps, since, saveReq, loadReq, rewindReq, slot,
                     committed, begun, rewound, disturbed, actions>>
  BY DEF RunAhead, RunCoreFrame, rewind, requests
<1>2. ahead >= 1 /\ (~held => sys.pos + ahead <= MaxPos)
  BY <1>1 DEF Room
<1>3. /\ sys \in Machine /\ sys.pos \in 0 .. MaxPos /\ AheadFrames \in Nat
      /\ held \in BOOLEAN /\ MaxPos \in Nat /\ ahead \in 0 .. AheadFrames
  BY FreshMachine DEF StatesTypeOK, ConfigAssumption
<1>4. sys' \in Machine /\ sys'.pos = sys.pos + (IF held THEN 0 ELSE 1)
  BY <1>1, <1>2, <1>3, RanMachine
<1>5. StatesTypeOK'
  BY <1>1, <1>2, <1>3, <1>4 DEF StatesTypeOK
<1>6. Room'
  BY <1>1, <1>2, <1>3, <1>4 DEF Room
<1>7. OneFrameOn'
  BY <1>1 DEF OneFrameOn, Ran
<1>8. ~disturbed' => Spaced' /\ SinceNewest' /\ (Interval > 1 => Earlier')
  BY <1>1 DEF Spaced, SinceNewest, Earlier, Newest
<1> QED  BY <1>5, <1>6, <1>7, <1>8

\* Back to what was committed.
LEMMA RestoreStep ==
  ASSUME ConfigAssumption, StatesInv, Restore, UNCHANGED actions
  PROVE  StatesInv'
<1> USE DEF StatesInv
<1>1. /\ stepPc = "restore" /\ stepPc' = "capture" /\ sys' = committed
      /\ UNCHANGED <<inserted, held, snaps, since, saveReq, loadReq, rewindReq, slot,
                     ahead, committed, begun, rewound, disturbed, actions>>
  BY DEF Restore, BackTo, Step, rewind, requests, history
<1>2. StatesTypeOK'
  BY <1>1 DEF StatesTypeOK
<1>3. Room' /\ OneFrameOn'
  BY <1>1 DEF Room, OneFrameOn, Ran
<1>4. ~disturbed' => Spaced' /\ SinceNewest' /\ (Interval > 1 => Earlier')
  BY <1>1 DEF Spaced, SinceNewest, Earlier, Newest
<1> QED  BY <1>2, <1>3, <1>4

\* The oldest snapshot dropped, if the ring is full, and one put in behind the others.
LEMMA AppendSpaced ==
  ASSUME ConfigAssumption, StatesTypeOK, Spaced, snaps' = Append(KeptSnaps, sys),
         snaps # <<>> => sys.pos >= Newest.pos + Interval
  PROVE  Spaced' /\ snaps' # <<>> /\ Newest' = sys
<1> DEFINE q == KeptSnaps
           n == Len(q)
<1>1. /\ q \in Seq(Machine) /\ n \in Nat /\ (n > 0 => snaps # <<>> /\ q[n] = Newest)
      /\ \A i \in 1 .. n - 1 : q[i + 1].pos >= q[i].pos + Interval
  <2>1. CASE Len(snaps) >= RingCapacity
    <3>1. snaps # <<>> /\ Len(snaps) >= 1
      BY <2>1 DEF StatesTypeOK, ConfigAssumption
    <3>2. q = Tail(snaps) /\ q \in Seq(Machine) /\ n = Len(snaps) - 1
      BY <2>1, <3>1 DEF KeptSnaps, StatesTypeOK
    <3>3. \A i \in 1 .. n : q[i] = snaps[i + 1]
      BY <2>1, <3>1, <3>2 DEF KeptSnaps, StatesTypeOK
    <3>4. n > 0 => q[n] = Newest
      BY <3>1, <3>2, <3>3 DEF Newest, StatesTypeOK
    <3>5. ASSUME NEW i \in 1 .. n - 1 PROVE q[i + 1].pos >= q[i].pos + Interval
      <4>1. /\ i + 1 \in 1 .. Len(snaps) - 1 /\ i + 1 \in 1 .. n /\ i \in 1 .. n
        BY <3>1, <3>2
      <4> QED  BY <3>3, <4>1 DEF Spaced
    <3> QED  BY <3>1, <3>2, <3>4, <3>5
  <2>2. CASE ~(Len(snaps) >= RingCapacity)
    BY <2>2 DEF KeptSnaps, StatesTypeOK, Spaced, Newest
  <2> QED  BY <2>1, <2>2
<1>2. /\ Len(snaps') = n + 1 /\ snaps'[n + 1] = sys /\ snaps' # <<>>
      /\ \A i \in 1 .. n : snaps'[i] = q[i]
  BY <1>1 DEF StatesTypeOK
<1> HIDE DEF q, n
<1>3. Newest' = sys
  BY <1>2 DEF Newest
<1>4. ASSUME NEW i \in 1 .. n PROVE snaps'[i + 1].pos >= snaps'[i].pos + Interval
  <2>1. CASE i = n
    BY <1>1, <1>2, <2>1
  <2>2. CASE i # n
    <3>1. i \in 1 .. n - 1 /\ i + 1 \in 1 .. n
      BY <1>1, <2>2
    <3> QED  BY <1>1, <1>2, <3>1
  <2> QED  BY <2>1, <2>2
<1> QED  BY <1>1, <1>2, <1>3, <1>4 DEF Spaced

\* A frame counted, and a snapshot taken when it is due.
LEMMA CaptureStep ==
  ASSUME ConfigAssumption, StatesInv, Capture, UNCHANGED actions
  PROVE  StatesInv'
<1> USE DEF StatesInv
<1>1. /\ stepPc = "capture" /\ stepPc' = "save" /\ disturbed' = (disturbed \/ held)
      /\ UNCHANGED <<sys, inserted, held, saveReq, loadReq, rewindReq, slot, ahead,
                     committed, begun, rewound, actions>>
  BY DEF Capture, Step, emuCore, requests
<1>2. Room' /\ OneFrameOn'
  BY <1>1 DEF Room, OneFrameOn, Ran
<1>3. since \in 0 .. Interval - 1 /\ Interval \in Nat \ {0} /\ sys \in Machine
      /\ sys.pos \in 0 .. MaxPos /\ held \in BOOLEAN /\ disturbed \in BOOLEAN
  BY FreshMachine DEF StatesTypeOK, ConfigAssumption
<1>4. disturbed' \in BOOLEAN
  BY <1>1, <1>3
<1>5. ASSUME snaps # <<>> PROVE Newest \in Machine /\ Newest.pos \in 0 .. MaxPos
  BY <1>5, SnapsMachines
<1>6. ASSUME ~disturbed', snaps # <<>> PROVE sys.pos >= Newest.pos + since + 1
  BY <1>1, <1>6 DEF SinceNewest
<1>7. CASE since + 1 >= Interval
  <2>1. snaps' = Append(KeptSnaps, sys) /\ since' = 0
    BY <1>7 DEF Capture, Due
  <2>2. snaps' \in Seq(Machine) /\ Len(snaps') <= RingCapacity
    BY <1>3, <2>1 DEF KeptSnaps, StatesTypeOK, ConfigAssumption
  <2>3. StatesTypeOK'
    BY <1>1, <1>3, <1>4, <2>1, <2>2 DEF StatesTypeOK
  <2>4. ASSUME ~disturbed' PROVE Spaced' /\ SinceNewest' /\ (Interval > 1 => Earlier')
    <3>1. snaps # <<>> => sys.pos >= Newest.pos + Interval
      BY <1>3, <1>5, <1>6, <1>7, <2>4
    <3>2. Spaced' /\ Newest' = sys
      BY <1>1, <2>1, <2>4, <3>1, AppendSpaced
    <3>3. SinceNewest'
      BY <1>1, <1>3, <2>1, <3>2 DEF SinceNewest
    <3>4. ASSUME Interval > 1 PROVE rewound = <<>>
      BY <1>1, <1>3, <1>7, <2>4, <3>4 DEF Earlier
    <3> QED  BY <1>1, <3>2, <3>3, <3>4 DEF Earlier
  <2> QED  BY <1>2, <2>3, <2>4
<1>8. CASE ~(since + 1 >= Interval)
  <2>1. snaps' = snaps /\ since' = since + 1
    BY <1>8 DEF Capture, Due
  <2>2. since' \in 0 .. Interval - 1
    BY <1>3, <1>8, <2>1
  <2>3. StatesTypeOK'
    BY <1>1, <1>4, <2>1, <2>2 DEF StatesTypeOK
  <2>4. ASSUME ~disturbed' PROVE Spaced' /\ SinceNewest' /\ (Interval > 1 => Earlier')
    <3>1. Newest' = Newest /\ ~disturbed
      BY <1>1, <2>1, <2>4 DEF Newest
    <3>2. SinceNewest'
      BY <1>1, <1>3, <1>5, <1>6, <2>1, <2>4, <3>1 DEF SinceNewest
    <3> QED  BY <1>1, <2>1, <3>1, <3>2 DEF Spaced, Earlier
  <2> QED  BY <1>2, <2>3, <2>4
<1> QED  BY <1>7, <1>8

\* A save, and the end of the step.
LEMMA SaveStep ==
  ASSUME ConfigAssumption, StatesInv, ServeSave, UNCHANGED actions
  PROVE  StatesInv'
<1> USE DEF StatesInv
<1>1. /\ stepPc = "save" /\ stepPc' = "idle" /\ saveReq' = FALSE
      /\ slot' = (IF saveReq THEN <<sys>> ELSE slot)
      /\ ahead' = 0 /\ committed' = Nothing /\ begun' = Nothing
      /\ UNCHANGED <<sys, inserted, held, snaps, since, loadReq, rewindReq, rewound,
                     disturbed, actions>>
  BY DEF ServeSave, Saved, Step, emuCore, rewind
<1>2. slot' \in {<<>>} \cup {<<m>> : m \in Machine}
  BY <1>1 DEF StatesTypeOK
<1>3. StatesTypeOK'
  <2>1. ahead' \in 0 .. AheadFrames /\ committed' \in Machine /\ begun' \in Machine
    BY <1>1, FreshMachine DEF ConfigAssumption
  <2>2. saveReq' \in BOOLEAN
    BY <1>1
  <2> QED  BY <1>1, <1>2, <2>1, <2>2 DEF StatesTypeOK
<1>4. Room' /\ OneFrameOn'
  BY <1>1 DEF Room, OneFrameOn
<1>5. ~disturbed' => Spaced' /\ SinceNewest' /\ (Interval > 1 => Earlier')
  BY <1>1 DEF Spaced, SinceNewest, Earlier, Newest
<1> QED  BY <1>3, <1>4, <1>5

\* What the window does: a flag raised, the machine replaced, a pause.
LEMMA WindowStep ==
  ASSUME ConfigAssumption, StatesInv, Request \/ Replace \/ PauseOrResume
  PROVE  StatesInv'
<1> USE DEF StatesInv
<1>1. actions' \in 0 .. MaxUserActions
  BY DEF Request, Replace, PauseOrResume, User, StatesTypeOK, ConfigAssumption
<1>2. CASE Request
  <2>1. UNCHANGED <<sys, inserted, held, snaps, since, slot, stepPc, ahead, committed,
                    begun, rewound, disturbed>>
    BY <1>2 DEF Request, emuCore, rewind, history
  <2>2. saveReq' \in BOOLEAN /\ loadReq' \in BOOLEAN /\ rewindReq' \in BOOLEAN
    BY <1>2 DEF Request, StatesTypeOK
  <2>3. StatesTypeOK'
    BY <1>1, <2>1, <2>2 DEF StatesTypeOK
  <2> QED
    BY <2>1, <2>3 DEF Room, OneFrameOn, Ran, Spaced, SinceNewest, Earlier, Newest
<1>3. CASE Replace
  <2>1. /\ stepPc = "idle" /\ disturbed' = TRUE
        /\ UNCHANGED <<snaps, since, saveReq, loadReq, rewindReq, slot, stepPc, ahead,
                       committed, begun, rewound>>
    BY <1>3 DEF Replace, rewind, requests
  <2>2. sys' \in Machine /\ inserted' \in Roms \cup {NoRom} /\ held' \in BOOLEAN
    BY <1>3, FreshMachine DEF Replace, StatesTypeOK
  <2>3. StatesTypeOK'
    BY <1>1, <2>1, <2>2 DEF StatesTypeOK
  <2> QED  BY <2>1, <2>3 DEF Room, OneFrameOn
<1>4. CASE PauseOrResume
  <2>1. /\ stepPc = "idle" /\ held' = ~held
        /\ UNCHANGED <<sys, inserted, snaps, since, saveReq, loadReq, rewindReq, slot, stepPc,
                       ahead, committed, begun, rewound, disturbed>>
    BY <1>4 DEF PauseOrResume, rewind, requests, history
  <2>2. held' \in BOOLEAN
    BY <2>1 DEF StatesTypeOK
  <2>3. StatesTypeOK'
    BY <1>1, <2>1, <2>2 DEF StatesTypeOK
  <2> QED
    BY <2>1, <2>3 DEF Room, OneFrameOn, Spaced, SinceNewest, Earlier, Newest
<1> QED  BY <1>2, <1>3, <1>4

\* Every step keeps StatesInv.
LEMMA StatesStepInv ==
  ASSUME ConfigAssumption, StatesInv, [StatesNext]_stateVars
  PROVE  StatesInv'
<1>1. CASE StepRun
  BY <1>1, LoadStep, RewindStep, CommitStep, AheadStep, RestoreStep, CaptureStep, SaveStep
  DEF StepRun
<1>2. CASE Request \/ Replace \/ PauseOrResume
  BY <1>2, WindowStep
<1>3. CASE UNCHANGED stateVars
  <2>1. UNCHANGED <<sys, inserted, held, snaps, since, saveReq, loadReq, rewindReq, slot,
                    stepPc, ahead, committed, begun, rewound, disturbed, actions>>
    BY <1>3 DEF stateVars, emuCore, rewind, requests, history
  <2>2. StatesTypeOK'
    BY <2>1 DEF StatesInv, StatesTypeOK
  <2>3. Room' /\ OneFrameOn'
    BY <2>1 DEF StatesInv, Room, OneFrameOn, Ran
  <2>4. ~disturbed' => Spaced' /\ SinceNewest' /\ (Interval > 1 => Earlier')
    BY <2>1 DEF StatesInv, Spaced, SinceNewest, Earlier, Newest
  <2> QED  BY <2>2, <2>3, <2>4 DEF StatesInv
<1> QED  BY <1>1, <1>2, <1>3 DEF StatesNext

\* What StatesInv says of StatesSpec.
LEMMA StatesInvariant ==
  ASSUME ConfigAssumption
  PROVE  StatesSpec => []StatesInv
<1>1. StatesInit => StatesInv
  BY StatesInitInv
<1>2. StatesInv /\ [StatesNext]_stateVars => StatesInv'
  BY StatesStepInv
<1> QED  BY <1>1, <1>2, PTL DEF StatesSpec

\* The ring goes back in time in order and, if it leaves a frame between two snapshots,
\* a rewind that follows a rewind goes further back: for any such interval, any capacity
\* and any number of speculative frames (RewindRing).
THEOREM RewindsCorrect ==
  ASSUME ConfigAssumption, Interval > 1
  PROVE  StatesSpec => []RewindsInOrder
<1>1. ASSUME StatesInv PROVE RewindsInOrder
  <2>1. RingInOrder
    <3> SUFFICES ASSUME ~disturbed PROVE RingInOrder
      BY DEF RingInOrder
    <3>1. Spaced /\ SinceNewest /\ held \in BOOLEAN
      BY <1>1 DEF StatesInv, StatesTypeOK
    <3>2. ASSUME stepPc # "ahead", stepPc # "restore", snaps # <<>>
          PROVE  Newest.pos <= sys.pos
      <4>1. Newest.pos \in 0 .. MaxPos /\ sys.pos \in 0 .. MaxPos /\ since \in Nat
        <5>1. Newest.pos \in 0 .. MaxPos
          BY <1>1, <3>2, SnapsMachines DEF StatesInv
        <5>2. sys \in Machine /\ since \in Nat
          BY <1>1 DEF StatesInv, StatesTypeOK, ConfigAssumption
        <5> QED  BY <5>1, <5>2, FreshMachine
      <4>2. \/ sys.pos >= Newest.pos + since
            \/ sys.pos >= Newest.pos + since + (IF held THEN 0 ELSE 1)
        BY <1>1, <3>1, <3>2 DEF SinceNewest, StatesInv, StatesTypeOK
      <4> QED  BY <3>1, <4>1, <4>2 DEF ConfigAssumption
    <3> QED  BY <3>1, <3>2 DEF Spaced, RingInOrder
  <2>2. RewindProgresses
    BY <1>1 DEF StatesInv, Earlier, RewindProgresses
  <2> QED  BY <2>1, <2>2 DEF RewindsInOrder
<1> QED  BY <1>1, StatesInvariant, PTL

\* What a step leaves for the ring and the slot is one frame on from where it began, for
\* any number of speculative frames (RunAhead::step, SaveStateCoordinator::step).
THEOREM RunAheadCorrect ==
  ASSUME ConfigAssumption
  PROVE  StatesSpec => RunAheadUnseen
<1> DEFINE Kept == /\ stepPc' \in {"capture", "save"} => sys' = Ran(begun')
                   /\ slot' # slot => slot' = <<Ran(begun)>>
<1>1. ASSUME StatesInv, StatesInv', [StatesNext]_stateVars PROVE [Kept]_stateVars
  <2> SUFFICES ASSUME StatesNext PROVE Kept
    BY <1>1
  <2>1. ASSUME stepPc' \in {"capture", "save"} PROVE sys' = Ran(begun')
    <3>1. held' = held
      BY <2>1 DEF StatesNext, StepRun, ServeLoad, ServeRewind, Commit, RunAhead, Restore,
         Capture, ServeSave, Step, Request, Replace, PauseOrResume, emuCore
    <3> QED  BY <1>1, <2>1, <3>1 DEF StatesInv, OneFrameOn, Ran
  <2>2. ASSUME slot' # slot PROVE slot' = <<Ran(begun)>>
    <3>1. ServeSave
      BY <2>2 DEF StatesNext, StepRun, ServeLoad, ServeRewind, Commit, RunAhead, Restore,
         Capture, Request, Replace, PauseOrResume
    <3>2. stepPc = "save" /\ slot' = <<sys>>
      BY <2>2, <3>1 DEF ServeSave, Saved, Step
    <3> QED  BY <1>1, <3>2 DEF StatesInv, OneFrameOn
  <2> QED  BY <2>1, <2>2
<1> QED  BY <1>1, StatesInvariant, PTL DEF StatesSpec, RunAheadUnseen
=============================================================================
