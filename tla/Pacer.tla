------------------------------- MODULE Pacer -------------------------------
(***************************************************************************)
(* The pace of the emulation thread (emu_thread.rs, Schedule and the       *)
(* produce loop of EmuThread::spawn) and the audio ring it feeds           *)
(* (audio.rs, AudioRing), which the device's callback drains.              *)
(*                                                                         *)
(* The clock runs on by itself, however long a frame, a nap or a callback  *)
(* takes.  A sample is its place in the stream of all samples produced.    *)
(***************************************************************************)
EXTENDS Integers, Sequences

CONSTANTS
  PERIOD,               \* the region's frame interval
  MAX_CATCHUP_FRAMES,
  Capacity,             \* of the ring, in samples
  PerFrame,             \* samples one frame stages
  Pulls,                \* samples one callback may ask for
  MaxNow                \* bound: the clock

\* A burst has room for a frame; the ring may be of any size, and so may a frame's samples.
ASSUME PacerAssumption ==
  /\ PERIOD \in Nat \ {0} /\ MAX_CATCHUP_FRAMES \in Nat \ {0}
  /\ Capacity \in Nat /\ PerFrame \in Nat
  /\ Pulls \subseteq Nat
  /\ MaxNow \in Nat

VARIABLES
  now,
  target,      \* Schedule::target
  pc,
  due,         \* frames left of the burst
  ring,        \* AudioRing::buf
  occupancy,   \* the fill level the servo reads without the lock
  frames,      \* history: frames produced
  behindAt,    \* history: when the thread last found itself behind after a burst
  heard        \* history: the last sample the device played

vars == <<now, target, pc, due, ring, occupancy, frames, behindAt, heard>>
audio == <<ring, occupancy, heard>>

Staged == PerFrame * frames

TypeOK ==
  /\ now \in 0 .. MaxNow /\ target \in 0 .. MaxNow + PERIOD
  /\ pc \in {"measure", "frame", "push", "snap", "wait"}
  /\ due \in 0 .. MAX_CATCHUP_FRAMES
  /\ ring \in Seq(1 .. Staged) /\ Len(ring) <= Capacity
  /\ occupancy \in 0 .. Capacity
  /\ frames \in Nat /\ heard \in 0 .. Staged
  /\ behindAt \in -PERIOD .. MaxNow

\* Schedule::new
Init ==
  /\ now = 0 /\ target = 0
  /\ pc = "measure" /\ due = 0
  /\ ring = <<>> /\ occupancy = 0
  /\ frames = 0 /\ behindAt = -PERIOD /\ heard = 0

-----------------------------------------------------------------------------
Least(a, b) == IF a < b THEN a ELSE b

\* A mutant: the frame due at the target itself is counted twice.
FramesDueBug ==
  IF target > now THEN 0
  ELSE Least((now - target) \div PERIOD + 2, MAX_CATCHUP_FRAMES)

\* Schedule::frames_due
FramesDue ==
  IF target > now THEN 0
  ELSE Least((now - target) \div PERIOD + 1, MAX_CATCHUP_FRAMES)

\* A mutant, the code before it was fixed: the new target is already reached.
RebasedBug == now

\* Schedule::snap_if_behind
Rebased == now + PERIOD

Elapse ==
  /\ now < MaxNow
  /\ now' = now + 1
  /\ UNCHANGED <<target, pc, due, audio, frames, behindAt>>

Measure ==
  /\ pc = "measure"
  /\ due' = FramesDue
  /\ pc' = IF due' = 0 THEN "snap" ELSE "frame"
  /\ UNCHANGED <<now, target, audio, frames, behindAt>>

\* One frame under the emu mutex; the ring's lock is taken afterwards.
Frame ==
  /\ pc = "frame"
  /\ frames' = frames + 1
  /\ pc' = "push"
  /\ UNCHANGED <<now, target, due, audio, behindAt>>

\* A mutant: the ring is full, so the samples that do not fit are dropped.
KeptBug(q, incoming) ==
  LET room == Capacity - Len(q) IN q \o SubSeq(incoming, 1, Least(room, Len(incoming)))

\* AudioRing::push: the oldest samples make room.
Kept(q, incoming) ==
  LET keep == Least(Len(incoming), Capacity)
      over == Len(q) + keep - Capacity
      evict == IF over < 0 THEN 0 ELSE Least(over, Len(q))
  IN SubSeq(q, evict + 1, Len(q)) \o SubSeq(incoming, Len(incoming) - keep + 1, Len(incoming))

\* The push ends: the lock is released, and the frame is charged.
Push ==
  /\ pc = "push"
  /\ ring' = Kept(ring, [i \in 1 .. PerFrame |-> Staged - PerFrame + i])
  /\ occupancy' = Len(ring')
  /\ target' = target + PERIOD
  /\ due' = due - 1
  /\ pc' = IF due' = 0 THEN "snap" ELSE "frame"
  /\ UNCHANGED <<now, frames, behindAt, heard>>

Snap ==
  /\ pc = "snap"
  /\ IF target <= now
       THEN target' = Rebased /\ behindAt' = now
       ELSE UNCHANGED <<target, behindAt>>
  /\ pc' = "wait"
  /\ UNCHANGED <<now, due, audio, frames>>

\* block_until_native
Woken ==
  /\ pc = "wait" /\ now >= target
  /\ pc' = "measure"
  /\ UNCHANGED <<now, target, due, audio, frames, behindAt>>

\* AudioRing::pull.  The rest of the buffer is silence, and so is all of it, with nothing
\* taken (a stutter here), when the producer holds the lock.
Pull ==
  /\ \E n \in Pulls :
       LET taken == Least(n, Len(ring)) IN
       /\ heard' = IF taken = 0 THEN heard ELSE ring[taken]
       /\ ring' = SubSeq(ring, taken + 1, Len(ring))
       /\ occupancy' = Len(ring')
  /\ UNCHANGED <<now, target, pc, due, frames, behindAt>>

Next ==
  \/ Elapse \/ Measure \/ Frame \/ Push \/ Snap \/ Woken
  \/ Pull

Spec == Init /\ [][Next]_vars

-----------------------------------------------------------------------------
\* A machine never runs faster than real time, whatever bursts and re-basing went
\* before: no frame is produced ahead of its place on the wall clock.
NeverFast == PERIOD * frames <= now + PERIOD

\* A core that cannot keep up still leaves the emu mutex alone for a whole frame
\* interval after each burst it could not finish in time, so that the window thread is
\* not starved (Schedule::snap_if_behind).
SlowCoreYields == pc = "frame" => now >= behindAt + PERIOD

\* What the device hears is the stream, in order and without repeats: the ring holds the
\* newest samples without a gap, only the oldest are ever lost, and the servo reads the
\* fill level the ring has.
HeardInOrder ==
  pc # "push" =>
    /\ \A i \in DOMAIN ring : ring[i] = Staged - Len(ring) + i
    /\ heard <= Staged - Len(ring)
    /\ occupancy = Len(ring)
=============================================================================
