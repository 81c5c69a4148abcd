--------------------------------- MODULE Vi ---------------------------------
(***************************************************************************)
(* The video interface's scan (rustyn64-core, vi.rs): half-lines counted   *)
(* off the master clock, and the interrupt raised on the half-line that    *)
(* VI_V_INTR names.  The division that gives the period of a half-line is  *)
(* skipped while the accumulated time is below a bound no programming can  *)
(* undercut; everything else about the scan depends on that bound being    *)
(* right and on the remainder surviving every way a tick can end.          *)
(*                                                                         *)
(* A tick is the RCP step's call; the loop in it is taken one half-line at *)
(* a time, as pc = "scan", so that the loop is run and not summed up.      *)
(***************************************************************************)
EXTENDS Integers, FiniteSets

CONSTANTS
  MASTER_HZ, VI_FIELD_HZ, VI_FIELD_HZ_PAL,
  VI_MAX_HALFLINES,            \* half-lines the widest V_TOTAL encodes
  VI_PAL_V_TOTAL_THRESHOLD,
  Totals, Intrs,               \* what software programs V_TOTAL and V_INTR to
  Deltas,                      \* master ticks from one RCP step to the next
  MaxNow                       \* bound: the master tick a behaviour reaches

\* The constant assertions of vi.rs.
ASSUME ViAssumption ==
  /\ {MASTER_HZ, VI_FIELD_HZ, VI_FIELD_HZ_PAL, VI_MAX_HALFLINES} \subseteq Nat \ {0}
  /\ VI_FIELD_HZ_PAL <= VI_FIELD_HZ
  /\ VI_FIELD_HZ * VI_MAX_HALFLINES <= MASTER_HZ
  /\ VI_PAL_V_TOTAL_THRESHOLD \in Nat
  /\ Totals \subseteq 0 .. VI_MAX_HALFLINES - 1
  /\ Intrs \subseteq Nat
  /\ Deltas \subseteq Nat \ {0}

\* What a half-line takes under a V_TOTAL of t.
field_hz(t) == IF t > VI_PAL_V_TOTAL_THRESHOLD THEN VI_FIELD_HZ_PAL ELSE VI_FIELD_HZ
Period(t) == MASTER_HZ \div (field_hz(t) * (t + 1))

\* An RCP step, and before it what is left of the longest half-line, which a register
\* write may have cut short, are less than a field and a half-line.
ASSUME TicksAreShort ==
  /\ VI_FIELD_HZ <= VI_FIELD_HZ_PAL * (VI_PAL_V_TOTAL_THRESHOLD + 2)
  /\ \A t \in Totals \cup {0}, d \in Deltas : Period(0) + d <= (t + 2) * Period(t)

VARIABLES
  vTotal, vIntr, on,    \* VI_V_TOTAL, VI_V_INTR, VI_CTRL.TYPE # 0
  vCurrent, acc, prev,  \* v_current, acc, prev_ticks
  now,                  \* System::master_ticks
  line,                 \* mi_intr.vi
  pc, fired,            \* in a tick's loop, and what it will report
  elapsed, lines,       \* history: ticks and half-lines since the registers
  from, start,          \*   were last written or the machine was reset, and
                        \*   acc and v_current at that moment
  hits                  \* history: interrupts raised since then

regs == <<vTotal, vIntr, on>>
scan == <<vCurrent, acc, prev>>
history == <<elapsed, lines, from, start, hits>>
vars == <<regs, scan, now, line, pc, fired, history>>

TypeOK ==
  /\ vTotal \in Totals \cup {0} /\ vIntr \in Intrs \cup {0} /\ on \in BOOLEAN
  /\ vCurrent \in 0 .. VI_MAX_HALFLINES - 1
  /\ {acc, prev, now, elapsed, lines, from, hits} \subseteq Nat
  /\ start \in 0 .. VI_MAX_HALFLINES - 1
  /\ {line, fired} \subseteq BOOLEAN
  /\ pc \in {"idle", "scan"}

Init ==
  /\ vTotal = 0 /\ vIntr = 0 /\ on = FALSE
  /\ vCurrent = 0 /\ acc = 0 /\ prev = 0
  /\ now = 0
  /\ line = FALSE
  /\ pc = "idle" /\ fired = FALSE
  /\ elapsed = 0 /\ lines = 0 /\ from = 0 /\ start = 0 /\ hits = 0

-----------------------------------------------------------------------------
total_halflines == vTotal + 1
ticks_per_halfline == Period(vTotal)

\* A mutant: the bound for a field half as long as V_TOTAL can ask for.
ShortestBug == MASTER_HZ \div (VI_FIELD_HZ * (VI_MAX_HALFLINES \div 2))
VI_MIN_TICKS_PER_HALFLINE == MASTER_HZ \div (VI_FIELD_HZ * VI_MAX_HALFLINES)

\* saturating_sub.
Elapsed(t) == IF t > prev THEN t - prev ELSE 0

\* A tick up to its loop: what has elapsed is accumulated, and the loop entered
\* only if a half-line may be due.
Tick(d) ==
  /\ pc = "idle"
  /\ now + d <= MaxNow
  /\ now' = now + d
  /\ acc' = acc + Elapsed(now + d)
  /\ prev' = now + d
  /\ pc' = IF acc' < VI_MIN_TICKS_PER_HALFLINE THEN "idle" ELSE "scan"
  /\ fired' = FALSE
  /\ elapsed' = elapsed + d
  /\ UNCHANGED <<regs, vCurrent, line, lines, from, start, hits>>

NextLine == (vCurrent + 1) % total_halflines

\* A mutant: only the last half-line of a tick decides what it reports.
FiresBug == on /\ NextLine = vIntr
Fires == fired \/ (on /\ NextLine = vIntr)

\* One turn of the loop.
HalfLine ==
  /\ pc = "scan" /\ acc >= ticks_per_halfline
  /\ acc' = acc - ticks_per_halfline
  /\ vCurrent' = NextLine
  /\ fired' = Fires
  /\ lines' = lines + 1
  /\ UNCHANGED <<regs, prev, now, line, pc, elapsed, from, start, hits>>

\* The loop ends: the caller raises the MI's line if the tick reports it.
EndTick ==
  /\ pc = "scan" /\ acc < ticks_per_halfline
  /\ pc' = "idle"
  /\ line' = (line \/ fired)
  /\ hits' = hits + (IF fired THEN 1 ELSE 0)
  /\ UNCHANGED <<regs, scan, now, fired, elapsed, lines, from, start>>

\* The history starts again: the registers now say something else.
Restart ==
  /\ elapsed' = 0 /\ lines' = 0 /\ hits' = 0
  /\ from' = acc' /\ start' = vCurrent'

\* Software programs the VI; the position and the remainder stay.
Program(t, i, o) ==
  /\ pc = "idle"
  /\ <<t, i, o>> # regs
  /\ vTotal' = t /\ vIntr' = i /\ on' = o
  /\ UNCHANGED <<scan, now, line, pc, fired>>
  /\ Restart

\* A store to VI_V_CURRENT acknowledges, and moves nothing.
Acknowledge ==
  /\ pc = "idle"
  /\ line' = FALSE
  /\ UNCHANGED <<regs, scan, now, pc, fired, history>>

Rebased == 0

\* System::reset: the registers and the MI keep what they hold.
Reset ==
  /\ pc = "idle"
  /\ now' = 0
  /\ vCurrent' = 0 /\ acc' = 0 /\ prev' = Rebased
  /\ UNCHANGED <<regs, line, pc, fired>>
  /\ Restart

Next ==
  \/ \E d \in Deltas : Tick(d)
  \/ HalfLine
  \/ EndTick
  \/ \E t \in Totals, i \in Intrs, o \in BOOLEAN : Program(t, i, o)
  \/ Acknowledge
  \/ Reset

Spec == Init /\ [][Next]_vars

-----------------------------------------------------------------------------
\* The scan is a function of time alone: since the registers were last written
\* the half-lines gone by and the remainder add up to the ticks that passed, and
\* between ticks the remainder is less than a half-line.  So the early-out, the
\* loop, a reprogramming that shortens the period and a reset lose or invent no
\* half-line (vi.rs: "which would skip a half-line").
ScanIsTime ==
  /\ from + elapsed = lines * ticks_per_halfline + acc
  /\ pc = "idle" /\ elapsed > 0 => acc < ticks_per_halfline
  /\ lines > 0 => vCurrent = (start + lines) % total_halflines

\* The half-lines since the registers were written that VI_V_INTR names.
Landings == {k \in 1 .. lines : (start + k) % total_halflines = vIntr}

\* One interrupt for each time the scan lands on the line VI_V_INTR names while
\* the VI is on, none otherwise: "no crossing is skipped", and none is seen twice.
OneInterruptPerLanding ==
  pc = "idle" => hits = IF on THEN Cardinality(Landings) ELSE 0
=============================================================================
