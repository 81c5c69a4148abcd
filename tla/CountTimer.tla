----------------------------- MODULE CountTimer -----------------------------
(***************************************************************************)
(* COP0 Count / Compare and the timer interrupt (rustyn64-cpu, cop0.rs),   *)
(* as the pipeline drives them (pipeline.rs: advance_at, wb_stage and      *)
(* sample_interrupt_lines): one step per PClock, Count moving every second *)
(* one.  Count is not stored: it is affine in the scheduler's position.    *)
(* The timer is an edge detector, "was Compare crossed since the last      *)
(* poll", because a stalled pipeline does not poll.                        *)
(*                                                                         *)
(* Count is Modulus values wide (2^32 in the source).  Only the position's *)
(* value modulo the width is ever read (count() truncates to u32), so the  *)
(* position is kept modulo it.                                             *)
(***************************************************************************)
EXTENDS Naturals

CONSTANTS
  Modulus,   \* number of values of Count
  MaxStall   \* bound: the longest run of stall cycles, in PClocks (69 for DDIV)

\* A stall must not last a whole turn of the counter.
ASSUME TimerAssumption ==
  /\ Modulus \in Nat /\ Modulus > 1
  /\ MaxStall \in Nat /\ MaxStall + 2 < Modulus

Word == 0 .. Modulus - 1

\* wrapping_add and wrapping_sub.
Add(a, b) == IF a + b < Modulus THEN a + b ELSE a + b - Modulus
Sub(a, b) == IF a >= b THEN a - b ELSE a + Modulus - b

VARIABLES
  half,        \* position of the PClock within the current Count tick
  now,         \* Cop0::now, the timeline position, modulo Modulus
  epochValue,  \* Cop0::count_epoch_value
  epochTick,   \* Cop0::count_epoch_tick, modulo Modulus
  lastCount,   \* Cop0::last_count
  compare,     \* the Compare register
  ip7,         \* Cause.IP7
  stalled,     \* stall cycles since the last run cycle
  hwIp7,       \* reference: IP7 of a part that compares at every tick
  dropped      \* history: a Count write has discarded a match not yet polled,
               \* made in the same cycle ("cycle") or earlier ("stall")

vars == <<half, now, epochValue, epochTick, lastCount, compare, ip7, stalled,
          hwIp7, dropped>>

TypeOK ==
  /\ half \in {0, 1}
  /\ {now, epochValue, epochTick, lastCount, compare} \subseteq Word
  /\ ip7 \in BOOLEAN
  /\ stalled \in 0 .. MaxStall
  /\ hwIp7 \in BOOLEAN
  /\ dropped \in {"no", "cycle", "stall"}

\* Count at a timeline position.
CountAt(pos) == Add(epochValue, Sub(pos, epochTick))
Count == CountAt(now)

\* An instantaneous comparison, the reading timer_edge's comment rejects.
TimerEdgeBug(last, count, comp) == count = comp /\ count # last
\* timer_edge: Compare is no further from the last poll than Count has
\* travelled, and is not where it started.
TimerEdge(last, count, comp) ==
  LET traveled  == Sub(count, last)
      toCompare == Sub(comp, last)
  IN  traveled # 0 /\ toCompare # 0 /\ toCompare <= traveled

Init ==
  /\ half \in {0, 1}
  /\ now = 0 /\ epochValue = 0 /\ epochTick = 0
  /\ lastCount = 0 /\ compare = 0
  /\ ip7 = FALSE
  /\ stalled = 0
  /\ hwIp7 = FALSE /\ dropped = "no"

-----------------------------------------------------------------------------
NextHalf == 1 - half
NextNow  == IF half = 1 THEN Add(now, 1) ELSE now

\* The reference part at the start of this PClock: it latches when Count moves
\* onto Compare.
HwSees == hwIp7 \/ (half = 1 /\ CountAt(NextNow) = compare)

\* A stall cycle supplies the position and returns: nothing is polled.
Stall ==
  /\ stalled < MaxStall
  /\ half' = NextHalf /\ now' = NextNow
  /\ stalled' = stalled + 1
  /\ hwIp7' = HwSees
  /\ UNCHANGED <<epochValue, epochTick, lastCount, compare, ip7, dropped>>

\* A run cycle without a write to the timer: DC polls.
RunPoll ==
  /\ half' = NextHalf /\ now' = NextNow
  /\ stalled' = 0
  /\ ip7' = (ip7 \/ TimerEdge(lastCount, CountAt(NextNow), compare))
  /\ lastCount' = CountAt(NextNow)
  /\ hwIp7' = HwSees
  /\ UNCHANGED <<epochValue, epochTick, compare, dropped>>

\* Where a write of Compare or Count leaves the edge detector.
RebasedBug(count) == lastCount
Rebased(count) == count

\* A run cycle whose WB stage commits MTC0 Compare: IP7 is cleared and the
\* detector re-based, then DC polls (and sees no distance travelled).
RunWriteCompare(v) ==
  /\ half' = NextHalf /\ now' = NextNow
  /\ stalled' = 0
  /\ compare' = v
  /\ LET last == Rebased(CountAt(NextNow))
     IN  ip7' = TimerEdge(last, CountAt(NextNow), v)
  /\ lastCount' = CountAt(NextNow)
  /\ hwIp7' = FALSE
  /\ UNCHANGED <<epochValue, epochTick, dropped>>

\* The value the affine mapping is re-based on: the position, so that Count
\* reads back v.
EpochTick(pos) == pos

\* A run cycle whose WB stage commits MTC0 Count.  What the detector had not
\* polled is forgotten with the old base.
RunWriteCount(v) ==
  /\ half' = NextHalf /\ now' = NextNow
  /\ stalled' = 0
  /\ dropped' = CASE ip7 \/ ~HwSees -> dropped
                  [] ~ip7 /\ hwIp7   -> "stall"
                  [] OTHER           -> IF dropped = "no" THEN "cycle" ELSE dropped
  /\ epochValue' = v
  /\ epochTick' = EpochTick(NextNow)
  /\ LET count == Add(v, Sub(NextNow, EpochTick(NextNow)))
     IN  /\ ip7' = (ip7 \/ TimerEdge(Rebased(count), count, compare))
         /\ lastCount' = count
  /\ hwIp7' = HwSees
  /\ UNCHANGED compare

Next ==
  \/ Stall
  \/ RunPoll
  \/ \E v \in Word : RunWriteCompare(v) \/ RunWriteCount(v)

Spec == Init /\ [][Next]_vars

-----------------------------------------------------------------------------
\* The edge detector never manufactures an interrupt: rearranging Count and
\* Compare by writes, wrapping, and power-on with both registers at zero do
\* not latch IP7 unless Count counted up to Compare.
NoSpuriousTimer == ip7 => hwIp7

\* And it never loses one to a stall: after any run cycle IP7 is what comparing
\* at every tick would have made it, except where a Count write discarded it.
TimerExact ==
  NoSpuriousTimer /\ (stalled = 0 /\ dropped = "no" => (ip7 <=> hwIp7))

\* cop0.rs, timer_edge: a match the poll steps over must not be "a *lost* one:
\* IP7 never latches, and software waiting on the timer hangs forever", and
\* pipeline.rs, the stall branch: a match inside a stall is "recorded" there.
\* So after a run cycle, a match made in the stall before it has latched IP7.
TimerNeverLost == stalled = 0 /\ hwIp7 /\ dropped # "cycle" => ip7
=============================================================================
