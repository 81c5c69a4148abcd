------------------------------ MODULE RcpProofs -----------------------------
(***************************************************************************)
(* The three parts of the RCP that run by themselves.                      *)
(*                                                                         *)
(* Vi: the scan is a function of time, for every clock, field rate, field  *)
(* length, programming and cadence of ticks, and interrupts once each time *)
(* it lands on the line V_INTR names; in particular the bound below which  *)
(* a tick skips its division is below every period a half-line can be      *)
(* given, and no tick spans two landings.                                  *)
(*                                                                         *)
(* AiFifo: what is played is what was queued, for every page size, address,*)
(* length and rate, whatever order software and the DAC go in.             *)
(*                                                                         *)
(* CommandFifo: every command is executed once, whole and in order, for    *)
(* every set of commands and lengths and wherever DPC_END stops.           *)
(***************************************************************************)
EXTENDS Vi, AiFifo, CommandFifo, FiniteSetTheorems, SequenceTheorems, TLAPS

(* Vi.                                                                     *)

\* A larger divisor gives no larger quotient.
LEMMA QuotientAntitone ==
  ASSUME NEW m \in Nat, NEW a \in Nat \ {0}, NEW b \in Nat \ {0}, a <= b
  PROVE  m \div b <= m \div a
<1> DEFINE p == m \div b
           q == m \div a
<1>1. p \in Nat /\ q \in Nat
  OBVIOUS
<1>2. p * b <= m /\ m < (q + 1) * a
  OBVIOUS
<1>3. SUFFICES ASSUME q + 1 <= p PROVE FALSE
  BY <1>1
<1>4. (q + 1) * a <= p * a
  BY <1>1, <1>3
<1>5. p * a <= p * b
  BY <1>1
<1> QED
  <2> HIDE DEF p, q
  <2>1. (q + 1) * a \in Nat /\ p * a \in Nat /\ p * b \in Nat
    BY <1>1
  <2> QED  BY <1>2, <1>4, <1>5, <2>1

\* A number that lies in the q-th interval of length n has the remainder that
\* it has there.
LEMMA Remainder ==
  ASSUME NEW n \in Nat \ {0}, NEW q \in Nat, NEW r \in 0 .. n - 1
  PROVE  (q * n + r) % n = r
  OBVIOUS

\* One more, modulo n.
LEMMA OneMore ==
  ASSUME NEW n \in Nat \ {0}, NEW a \in Nat
  PROVE  ((a % n) + 1) % n = (a + 1) % n
<1> DEFINE q == a \div n
           r == a % n
<1>1. q \in Nat /\ r \in 0 .. n - 1 /\ a = q * n + r
  OBVIOUS
<1> HIDE DEF q, r
<1>2. ASSUME r + 1 < n PROVE (r + 1) % n = (a + 1) % n
  <2>1. r + 1 \in 0 .. n - 1 /\ a + 1 = q * n + (r + 1)
    BY <1>1, <1>2
  <2>2. (r + 1) % n = r + 1
    BY <1>1, <1>2
  <2>3. (q * n + (r + 1)) % n = r + 1
    BY <1>1, <2>1, Remainder
  <2> QED  BY <2>1, <2>2, <2>3
<1>3. ASSUME r + 1 = n PROVE (r + 1) % n = (a + 1) % n
  <2>1. ((q + 1) * n + 0) % n = 0
    <3>1. q + 1 \in Nat /\ 0 \in 0 .. n - 1  BY <1>1
    <3> QED  BY <3>1, Remainder
  <2>2. a + 1 = (q + 1) * n + 0
    BY <1>1, <1>3
  <2>3. (r + 1) % n = 0
    BY <1>3
  <2> QED  BY <2>1, <2>2, <2>3
<1>4. (r + 1) % n = (a + 1) % n
  BY <1>1, <1>2, <1>3
<1> QED  BY <1>4 DEF r

-----------------------------------------------------------------------------
\* Whatever V_TOTAL is programmed to, a half-line takes at least the bound, and no longer
\* than the whole field it is when there is one of them.
LEMMA PeriodsAreBetween ==
  ASSUME NEW t \in 0 .. VI_MAX_HALFLINES - 1
  PROVE  /\ Period(t) \in Nat \ {0}
         /\ VI_MIN_TICKS_PER_HALFLINE \in Nat
         /\ VI_MIN_TICKS_PER_HALFLINE <= Period(t)
         /\ Period(t) <= Period(0)
<1> DEFINE h == field_hz(t)
           n == t + 1
           a == h * n
           b == VI_FIELD_HZ * VI_MAX_HALFLINES
<1>1. h \in Nat \ {0} /\ h <= VI_FIELD_HZ
  BY ViAssumption DEF field_hz
<1>2. n \in Nat \ {0} /\ n <= VI_MAX_HALFLINES
  BY ViAssumption
<1>3. a \in Nat \ {0} /\ b \in Nat \ {0} /\ a <= b
  <2> HIDE DEF h, n
  <2>1. h * n \in Nat \ {0} /\ h * n <= h * VI_MAX_HALFLINES
    BY <1>1, <1>2, ViAssumption
  <2>2. h * VI_MAX_HALFLINES <= VI_FIELD_HZ * VI_MAX_HALFLINES
    BY <1>1, ViAssumption
  <2>3. VI_FIELD_HZ * VI_MAX_HALFLINES \in Nat \ {0} /\ h * VI_MAX_HALFLINES \in Nat
    BY <1>1, ViAssumption
  <2> QED  BY <2>1, <2>2, <2>3
<1>4. VI_FIELD_HZ \in Nat \ {0} /\ VI_FIELD_HZ <= a
  <2>1. CASE t > VI_PAL_V_TOTAL_THRESHOLD
    <3>1. h = VI_FIELD_HZ_PAL /\ n >= VI_PAL_V_TOTAL_THRESHOLD + 2
      BY <2>1, ViAssumption DEF field_hz
    <3> HIDE DEF h, n
    <3>2. VI_FIELD_HZ_PAL * (VI_PAL_V_TOTAL_THRESHOLD + 2) <= h * n
      BY <1>2, <3>1, ViAssumption
    <3>3. VI_FIELD_HZ_PAL * (VI_PAL_V_TOTAL_THRESHOLD + 2) \in Nat /\ h * n \in Nat
      BY <1>1, <1>2, ViAssumption
    <3> QED  BY <3>2, <3>3, TicksAreShort, ViAssumption
  <2>2. CASE ~(t > VI_PAL_V_TOTAL_THRESHOLD)
    <3>1. h = VI_FIELD_HZ
      BY <2>2 DEF field_hz
    <3> HIDE DEF h, n
    <3> QED  BY <1>2, <3>1, ViAssumption
  <2> QED  BY <2>1, <2>2
<1>5. MASTER_HZ \in Nat /\ b <= MASTER_HZ
  BY ViAssumption
<1>6. Period(t) = MASTER_HZ \div a /\ Period(0) = MASTER_HZ \div VI_FIELD_HZ
  BY ViAssumption DEF Period, field_hz
<1>7. VI_MIN_TICKS_PER_HALFLINE = MASTER_HZ \div b
  BY DEF VI_MIN_TICKS_PER_HALFLINE
<1> HIDE DEF a, b
<1>8. MASTER_HZ \div b <= MASTER_HZ \div a
  BY <1>3, <1>5, QuotientAntitone
<1>9. MASTER_HZ \div a <= MASTER_HZ \div VI_FIELD_HZ
  BY <1>3, <1>4, <1>5, QuotientAntitone
<1>10. MASTER_HZ \div b \in Nat \ {0}
  BY <1>3, <1>5
<1>11. MASTER_HZ \div a \in Nat \ {0}
  BY <1>3, <1>5, <1>8, <1>10
<1> QED
  BY <1>6, <1>7, <1>8, <1>9, <1>10, <1>11

\* A programmed total is one the register can hold.
LEMMA TotalsFit ==
  ASSUME NEW t \in Totals \cup {0}
  PROVE  t \in 0 .. VI_MAX_HALFLINES - 1
BY ViAssumption

\* VI_MIN_TICKS_PER_HALFLINE undercuts the period of every programming.
LEMMA BoundIsBelowEveryPeriod ==
  ASSUME TypeOK
  PROVE  /\ ticks_per_halfline \in Nat \ {0}
         /\ VI_MIN_TICKS_PER_HALFLINE <= ticks_per_halfline
         /\ ticks_per_halfline <= Period(0)
         /\ total_halflines \in 1 .. VI_MAX_HALFLINES
<1>1. vTotal \in 0 .. VI_MAX_HALFLINES - 1
  BY TotalsFit DEF TypeOK
<1>2. total_halflines \in 1 .. VI_MAX_HALFLINES
  BY <1>1, ViAssumption DEF total_halflines
<1> QED
  BY <1>1, <1>2, PeriodsAreBetween DEF ticks_per_halfline

\* The strengthening: the baseline of the last tick is the current position, and
\* until a half-line has passed the scan is where the history began.
ViInv ==
  /\ TypeOK
  /\ prev = now
  /\ ScanIsTime
  /\ lines = 0 => vCurrent = start

\* The VI starts at the first half-line, with nothing elapsed.
LEMMA InitHolds ==
  ASSUME Init PROVE ViInv
<1>1. TypeOK
  <2>1. 0 \in 0 .. VI_MAX_HALFLINES - 1
    BY ViAssumption
  <2>2. {acc, prev, now, elapsed, lines, from, hits} \subseteq Nat
    BY DEF Init
  <2> QED  BY <2>1, <2>2 DEF Init, TypeOK
<1> QED
  BY <1>1, BoundIsBelowEveryPeriod DEF Init, ViInv, ScanIsTime

\* A tick accumulates what has elapsed; if it ends at once, less than a
\* half-line has accumulated.
LEMMA TickHolds ==
  ASSUME ViInv, NEW d \in Deltas, Tick(d) PROVE ViInv'
<1> DEFINE P == ticks_per_halfline
<1>1. d \in Nat \ {0}
  BY ViAssumption
<1>2. acc' = acc + d
  BY <1>1 DEF ViInv, TypeOK, Tick, Elapsed
<1>3. TypeOK'
  <2>1. {acc', prev', now', elapsed', lines', from', hits'} \subseteq Nat
    BY <1>1, <1>2 DEF ViInv, TypeOK, Tick
  <2> QED  BY <2>1 DEF ViInv, TypeOK, Tick, regs
<1>4. ticks_per_halfline' = P /\ total_halflines' = total_halflines
  BY DEF Tick, regs, ticks_per_halfline, total_halflines
<1>5. P \in Nat /\ VI_MIN_TICKS_PER_HALFLINE <= P
  BY BoundIsBelowEveryPeriod DEF ViInv
<1>6. VI_MIN_TICKS_PER_HALFLINE \in Int
  BY TotalsFit, PeriodsAreBetween DEF ViInv, TypeOK
<1> HIDE DEF P
<1>7. from' + elapsed' = lines' * P + acc'
  <2>1. from + elapsed = lines * P + acc
    BY DEF ViInv, ScanIsTime, P
  <2>2. lines * P \in Nat
    BY <1>5 DEF ViInv, TypeOK
  <2> QED  BY <1>1, <1>2, <2>1, <2>2 DEF Tick, ViInv, TypeOK
<1>8. pc' = "idle" => acc' < P
  BY <1>2, <1>3, <1>5, <1>6 DEF Tick, TypeOK
<1>9. ScanIsTime'
  BY <1>4, <1>7, <1>8 DEF ScanIsTime, ViInv, Tick, P
<1> QED
  BY <1>3, <1>9 DEF ViInv, Tick

\* One turn of the loop turns one period of the remainder into one half-line.
LEMMA HalfLineHolds ==
  ASSUME ViInv, HalfLine PROVE ViInv'
<1> DEFINE P == ticks_per_halfline
           T == total_halflines
<1>1. P \in Nat /\ T \in 1 .. VI_MAX_HALFLINES
  BY BoundIsBelowEveryPeriod DEF ViInv
<1>2. ticks_per_halfline' = P /\ total_halflines' = T
  BY DEF HalfLine, regs, ticks_per_halfline, total_halflines
<1>3. vCurrent' = (vCurrent + 1) % T
  BY DEF HalfLine, NextLine
<1> HIDE DEF P, T
<1>4. acc' = acc - P /\ acc >= P /\ lines' = lines + 1
  BY DEF HalfLine, P
<1>5. TypeOK'
  <2>1. vCurrent' \in 0 .. VI_MAX_HALFLINES - 1
    BY <1>1, <1>3, ViAssumption DEF ViInv, TypeOK
  <2>2. fired' \in BOOLEAN
    BY DEF HalfLine, Fires, ViInv, TypeOK
  <2>3. {acc', lines'} \subseteq Nat
    BY <1>1, <1>4 DEF ViInv, TypeOK
  <2> QED  BY <2>1, <2>2, <2>3 DEF ViInv, TypeOK, HalfLine, regs
<1>6. from' + elapsed' = lines' * P + acc'
  <2>1. from + elapsed = lines * P + acc
    BY DEF ViInv, ScanIsTime, P
  <2>2. (lines + 1) * P = lines * P + P /\ lines * P \in Nat
    BY <1>1 DEF ViInv, TypeOK
  <2> QED  BY <1>1, <1>4, <2>1, <2>2 DEF HalfLine, ViInv, TypeOK
<1>7. vCurrent' = (start' + lines') % T
  <2>1. T \in Nat \ {0} /\ start \in Nat /\ lines \in Nat
    BY <1>1, ViAssumption DEF ViInv, TypeOK
  <2>2. CASE lines = 0
    BY <1>3, <1>4, <2>1, <2>2 DEF ViInv, HalfLine
  <2>3. CASE lines > 0
    <3>1. vCurrent = (start + lines) % T
      BY <2>3 DEF ViInv, ScanIsTime, T
    <3>2. (((start + lines) % T) + 1) % T = ((start + lines) + 1) % T
      <4>1. start + lines \in Nat  BY <2>1
      <4> QED  BY <2>1, <4>1, OneMore
    <3>3. (start + lines) + 1 = start' + lines'
      BY <1>4, <2>1 DEF HalfLine
    <3> QED  BY <1>3, <3>1, <3>2, <3>3
  <2> QED  BY <2>1, <2>2, <2>3
<1>8. pc' = "scan" /\ lines' # 0
  BY <1>4 DEF HalfLine, ViInv, TypeOK
<1>9. ScanIsTime'
  BY <1>2, <1>6, <1>7, <1>8 DEF ScanIsTime
<1> QED
  BY <1>5, <1>8, <1>9 DEF ViInv, HalfLine

\* The loop ends with less than a half-line left.
LEMMA EndTickHolds ==
  ASSUME ViInv, EndTick PROVE ViInv'
<1>1. TypeOK'
  BY DEF ViInv, TypeOK, EndTick, regs, scan
<1>2. ticks_per_halfline' = ticks_per_halfline /\ total_halflines' = total_halflines
  BY DEF EndTick, regs, ticks_per_halfline, total_halflines
<1> QED
  BY <1>1, <1>2 DEF ViInv, ScanIsTime, EndTick, scan

\* A history that starts again is empty.
LEMMA RestartHolds ==
  ASSUME ViInv, TypeOK', Restart, prev' = now' PROVE ViInv'
<1>1. ticks_per_halfline' \in Nat
  <2>1. vTotal' \in 0 .. VI_MAX_HALFLINES - 1
    BY TotalsFit DEF TypeOK
  <2> QED  BY <2>1, PeriodsAreBetween DEF ticks_per_halfline
<1> QED
  BY <1>1 DEF ViInv, ScanIsTime, Restart, TypeOK

\* Every step keeps the scan exact.
LEMMA StepHolds ==
  ASSUME ViInv, [Next]_vars PROVE ViInv'
<1>1. ASSUME NEW d \in Deltas, Tick(d) PROVE ViInv'
  BY <1>1, TickHolds
<1>2. CASE HalfLine
  BY <1>2, HalfLineHolds
<1>3. CASE EndTick
  BY <1>3, EndTickHolds
<1>4. ASSUME NEW t \in Totals, NEW i \in Intrs, NEW o \in BOOLEAN, Program(t, i, o)
      PROVE  ViInv'
  <2>1. TypeOK' /\ prev' = now'
    BY <1>4 DEF Program, Restart, ViInv, TypeOK, scan
  <2> QED  BY <1>4, <2>1, RestartHolds DEF Program
<1>5. CASE Acknowledge
  <2>1. TypeOK'
    BY <1>5 DEF Acknowledge, ViInv, TypeOK, regs, scan, history
  <2>2. ticks_per_halfline' = ticks_per_halfline /\ total_halflines' = total_halflines
    BY <1>5 DEF Acknowledge, regs, ticks_per_halfline, total_halflines
  <2> QED  BY <1>5, <2>1, <2>2 DEF Acknowledge, ViInv, ScanIsTime, scan, history
<1>6. CASE Reset
  <2>1. TypeOK' /\ prev' = now'
    BY <1>6, ViAssumption DEF Reset, Restart, Rebased, ViInv, TypeOK, regs
  <2> QED  BY <1>6, <2>1, RestartHolds DEF Reset
<1>7. CASE UNCHANGED vars
  <2>1. TypeOK'
    BY <1>7 DEF ViInv, TypeOK, vars, regs, scan, history
  <2>2. ticks_per_halfline' = ticks_per_halfline /\ total_halflines' = total_halflines
    BY <1>7 DEF vars, regs, ticks_per_halfline, total_halflines
  <2> QED  BY <1>7, <2>1, <2>2 DEF vars, ViInv, ScanIsTime, regs, scan, history
<1> QED
  BY <1>1, <1>2, <1>3, <1>4, <1>5, <1>6, <1>7 DEF Next

\* The invariant of the scan holds in every reachable state.
LEMMA ViInvCorrect == Spec => []ViInv
<1>1. Init => ViInv
  BY InitHolds
<1>2. ViInv /\ [Next]_vars => ViInv'
  BY StepHolds
<1> QED  BY <1>1, <1>2, PTL DEF Spec

\* Between writes of its registers the scan is exact, for ever.
THEOREM ScanCorrect == Spec => []ScanIsTime
<1>1. ViInv => ScanIsTime
  BY DEF ViInv
<1> QED  BY <1>1, ViInvCorrect, PTL

-----------------------------------------------------------------------------
\* Two numbers with the same remainder are at least a modulus apart.
LEMMA SameRemainder ==
  ASSUME NEW n \in Nat \ {0}, NEW a \in Nat, NEW b \in Nat, a < b, a % n = b % n
  PROVE  a + n <= b
<1> DEFINE p == a \div n
           q == b \div n
           r == a % n
<1>1. p \in Nat /\ q \in Nat /\ r \in 0 .. n - 1 /\ a = p * n + r /\ b = q * n + r
  OBVIOUS
<1> HIDE DEF p, q, r
<1>2. p < q
  <2> SUFFICES ASSUME q <= p PROVE FALSE
    BY <1>1
  <2>1. q * n <= p * n /\ q * n \in Nat /\ p * n \in Nat
    BY <1>1
  <2> QED  BY <1>1, <2>1
<1>3. p + 1 <= q
  BY <1>1, <1>2
<1>4. (p + 1) * n <= q * n /\ (p + 1) * n = p * n + n /\ p * n \in Nat /\ q * n \in Nat
  BY <1>1, <1>3
<1> QED  BY <1>1, <1>4

\* The strengthening: before a tick less than the longest half-line has accumulated; in
\* its loop there is less than a field and a half-line to go, and if it has landed, less
\* than that since; so it cannot land again.  A landing is counted, or about to be.
Field == (total_halflines + 1) * ticks_per_halfline
Pending == IF pc = "scan" /\ fired THEN 1 ELSE 0
OnceInv ==
  /\ pc = "idle" => acc < Period(0)
  /\ pc = "scan" => acc < Field
  /\ hits + Pending = IF on THEN Cardinality(Landings) ELSE 0
  /\ pc = "scan" /\ fired =>
       on /\ \E k \in Landings : acc + (lines - k + 1) * ticks_per_halfline < Field

\* The landings of a history are finite in number, and none when it is empty.
LEMMA LandingsFinite ==
  ASSUME TypeOK
  PROVE  /\ IsFiniteSet(Landings) /\ Cardinality(Landings) \in Nat
         /\ lines = 0 => Cardinality(Landings) = 0
<1>1. lines \in Nat
  BY DEF TypeOK
<1>2. IsFiniteSet(1 .. lines)
  BY <1>1, FS_Interval
<1>3. Landings \in SUBSET (1 .. lines)
  BY DEF Landings
<1>4. IsFiniteSet(Landings)
  BY <1>2, <1>3, FS_Subset
<1>5. ASSUME lines = 0 PROVE Landings = {}
  BY <1>5 DEF Landings
<1> QED  BY <1>4, <1>5, FS_CardinalityType, FS_EmptySet

\* What a step keeps that moves neither scan nor registers.
LEMMA Unmoved ==
  ASSUME OnceInv, UNCHANGED <<regs, scan, pc, fired, lines, start, hits>>
  PROVE  OnceInv'
<1>1. ticks_per_halfline' = ticks_per_halfline /\ Field' = Field /\ Landings' = Landings
  BY DEF regs, ticks_per_halfline, total_halflines, Field, Landings
<1> QED  BY <1>1 DEF OnceInv, Pending, regs, scan

\* A tick that begins has not landed, and no field ahead of it.
LEMMA TickOnce ==
  ASSUME ViInv, OnceInv, NEW d \in Deltas, Tick(d) PROVE OnceInv'
<1> DEFINE P == ticks_per_halfline
<1>1. d \in Nat \ {0} /\ acc \in Nat /\ vTotal \in Totals \cup {0}
  BY ViAssumption DEF ViInv, TypeOK
<1>2. acc' = acc + d /\ acc < Period(0)
  BY <1>1 DEF ViInv, TypeOK, Tick, Elapsed, OnceInv
<1>3. P' = P /\ total_halflines' = total_halflines /\ Landings' = Landings /\ on' = on
  BY DEF Tick, regs, ticks_per_halfline, total_halflines, Landings
<1>4. P \in Nat /\ total_halflines \in Nat /\ Period(0) \in Nat
      /\ VI_MIN_TICKS_PER_HALFLINE \in Nat /\ VI_MIN_TICKS_PER_HALFLINE <= Period(0)
  <2>1. 0 \in 0 .. VI_MAX_HALFLINES - 1
    BY ViAssumption
  <2> QED  BY <2>1, BoundIsBelowEveryPeriod, PeriodsAreBetween DEF ViInv
<1>5. Period(0) + d <= Field /\ Field \in Nat
  <2>1. Field = (vTotal + 2) * Period(vTotal)
    BY <1>1, ViAssumption DEF Field, total_halflines, ticks_per_halfline
  <2>2. Field \in Nat
    BY <1>4 DEF Field
  <2> QED  BY <1>1, <2>1, <2>2, TicksAreShort
<1>6. acc' < Field /\ Field' = Field
  BY <1>1, <1>2, <1>3, <1>4, <1>5 DEF Field
<1>7. pc = "idle" /\ fired' = FALSE /\ hits' = hits
  BY DEF Tick
<1>8. pc' = "idle" => acc' < Period(0)
  BY <1>1, <1>2, <1>4 DEF Tick
<1> QED  BY <1>3, <1>6, <1>7, <1>8 DEF OnceInv, Pending

\* A half-line that lands is the tick's first to do so: a second would be a field later.
LEMMA HalfLineOnce ==
  ASSUME ViInv, ViInv', OnceInv, HalfLine PROVE OnceInv'
<1> DEFINE P == ticks_per_halfline
           T == total_halflines
           next == lines + 1
<1>1. P \in Nat \ {0} /\ T \in Nat \ {0} /\ acc \in Nat /\ lines \in Nat /\ start \in Nat
  BY BoundIsBelowEveryPeriod, ViAssumption DEF ViInv, TypeOK
<1>2. P' = P /\ T' = T /\ Field' = Field /\ vIntr' = vIntr /\ on' = on /\ start' = start
      /\ hits' = hits
  BY DEF HalfLine, regs, ticks_per_halfline, total_halflines, Field
<1>3. pc = "scan" /\ pc' = "scan" /\ acc >= P /\ acc' = acc - P /\ lines' = next
  BY DEF HalfLine
<1>4. fired' = (fired \/ (on /\ vCurrent' = vIntr))
  BY DEF HalfLine, Fires
<1>5. vCurrent' = (start + next) % T
  BY <1>1, <1>2, <1>3 DEF ViInv, ScanIsTime
<1>6. Field = (T + 1) * P /\ Field \in Nat /\ acc < Field
  BY <1>1, <1>3 DEF Field, OnceInv
<1> DEFINE lands == (start + next) % T = vIntr
<1>7. Landings' = IF lands THEN Landings \cup {next} ELSE Landings
  <2>1. Landings' = {k \in 1 .. next : (start + k) % T = vIntr}
    BY <1>2, <1>3 DEF Landings
  <2>2. 1 .. next = (1 .. lines) \cup {next}
    BY <1>1
  <2> QED  BY <2>1, <2>2 DEF Landings
<1>8. next \notin Landings
  BY <1>1 DEF Landings
<1>9. IsFiniteSet(Landings) /\ Cardinality(Landings) \in Nat
  BY LandingsFinite DEF ViInv
<1>10. Cardinality(Landings') = IF lands THEN Cardinality(Landings) + 1 ELSE Cardinality(Landings)
  BY <1>7, <1>8, <1>9, FS_AddElement
<1> HIDE DEF P, T, next
<1>11. ASSUME fired PROVE on /\ ~lands
  <2>1. on
    BY <1>3, <1>11 DEF OnceInv
  <2>2. PICK k \in Landings : acc + (lines - k + 1) * P < Field
    BY <1>3, <1>11 DEF OnceInv, P
  <2>3. k \in 1 .. lines /\ (start + k) % T = vIntr
    BY DEF Landings, T
  <2> SUFFICES ASSUME lands PROVE FALSE
    BY <2>1
  <2>4. (start + k) + T <= start + next
    <3>1. start + k \in Nat /\ start + next \in Nat /\ start + k < start + next
      BY <1>1, <2>3 DEF next
    <3> QED  BY <1>1, <2>3, <3>1, SameRemainder
  <2>5. T <= lines - k + 1 /\ lines - k + 1 \in Nat
    BY <1>1, <2>3, <2>4 DEF next
  <2>6. T * P <= (lines - k + 1) * P /\ T * P \in Nat /\ (lines - k + 1) * P \in Nat
    BY <1>1, <2>5
  <2>7. (T + 1) * P = T * P + P
    BY <1>1
  <2> QED  BY <1>1, <1>3, <1>6, <2>2, <2>6, <2>7
<1>12. hits' + Pending' = IF on' THEN Cardinality(Landings') ELSE 0
  <2>1. hits + (IF fired THEN 1 ELSE 0) = IF on THEN Cardinality(Landings) ELSE 0
    BY <1>3 DEF OnceInv, Pending
  <2>2. hits \in Nat /\ fired \in BOOLEAN /\ on \in BOOLEAN
    BY DEF ViInv, TypeOK
  <2>3. Pending' = IF fired' THEN 1 ELSE 0
    BY <1>3 DEF Pending
  <2>4. CASE fired
    <3>1. on /\ ~lands /\ fired'
      BY <1>4, <1>11, <2>4
    <3>2. Cardinality(Landings') = Cardinality(Landings)
      BY <1>10, <3>1
    <3> QED  BY <1>2, <2>1, <2>3, <2>4, <3>1, <3>2
  <2>5. CASE ~fired
    <3>1. fired' <=> on /\ lands
      BY <1>4, <1>5, <2>5
    <3> QED  BY <1>2, <1>9, <1>10, <2>1, <2>2, <2>3, <2>5, <3>1
  <2> QED  BY <2>2, <2>4, <2>5
<1>13. ASSUME fired'
       PROVE  on' /\ \E k \in Landings' : acc' + (lines' - k + 1) * P < Field
  <2>1. CASE fired
    <3>1. on /\ ~lands
      BY <1>11, <2>1
    <3>2. PICK k \in Landings : acc + (lines - k + 1) * P < Field
      BY <1>3, <2>1 DEF OnceInv, P
    <3>3. k \in 1 .. lines /\ k \in Landings'
      BY <1>7, <3>1 DEF Landings
    <3>4. (lines' - k + 1) * P = (lines - k + 1) * P + P
      <4>1. lines' - k + 1 = (lines - k + 1) + 1 /\ lines - k + 1 \in Nat
        BY <1>1, <1>3, <3>3 DEF next
      <4> QED  BY <1>1, <4>1
    <3>5. (lines - k + 1) * P \in Nat
      BY <1>1, <3>3
    <3>6. acc' + (lines' - k + 1) * P = acc + (lines - k + 1) * P
      BY <1>1, <1>3, <3>4, <3>5
    <3> QED  BY <1>2, <3>1, <3>2, <3>3, <3>6
  <2>2. CASE ~fired
    <3>1. on /\ lands
      BY <1>4, <1>5, <1>13, <2>2
    <3>2. next \in Landings'
      BY <1>7, <3>1
    <3>3. acc' + (lines' - next + 1) * P = acc
      <4>1. lines' - next + 1 = 1
        BY <1>1, <1>3 DEF next
      <4> QED  BY <1>1, <1>3, <4>1
    <3> QED  BY <1>2, <1>6, <3>1, <3>2, <3>3
  <2> QED  BY <2>1, <2>2
<1>14. acc' < Field'
  BY <1>1, <1>2, <1>3, <1>6
<1> QED  BY <1>2, <1>3, <1>12, <1>13, <1>14 DEF OnceInv, P

\* The tick reports what it landed on.
LEMMA EndTickOnce ==
  ASSUME ViInv, OnceInv, EndTick PROVE OnceInv'
<1>1. Landings' = Landings /\ on' = on
  BY DEF EndTick, regs, scan, total_halflines, Landings
<1>2. acc' = acc /\ acc < ticks_per_halfline /\ ticks_per_halfline <= Period(0)
      /\ ticks_per_halfline \in Nat /\ Period(0) \in Nat /\ acc \in Nat
  <2>1. 0 \in 0 .. VI_MAX_HALFLINES - 1
    BY ViAssumption
  <2> QED  BY <2>1, BoundIsBelowEveryPeriod, PeriodsAreBetween DEF ViInv, TypeOK, EndTick, scan
<1>3. pc = "scan" /\ pc' = "idle" /\ hits' = hits + (IF fired THEN 1 ELSE 0)
  BY DEF EndTick
<1>4. hits' + Pending' = hits + Pending
  BY <1>3 DEF Pending, ViInv, TypeOK
<1> QED  BY <1>1, <1>2, <1>3, <1>4 DEF OnceInv

\* A history that starts again has landed nowhere.
LEMMA RestartOnce ==
  ASSUME OnceInv, TypeOK', Restart, pc = "idle", pc' = "idle", acc' < Period(0)
  PROVE  OnceInv'
<1>1. lines' = 0 /\ hits' = 0
  BY DEF Restart
<1>2. Landings' = {}
  BY <1>1 DEF Landings
<1> QED  BY <1>1, <1>2, FS_EmptySet DEF OnceInv, Pending

\* Every step keeps the count of interrupts that of the landings.
LEMMA StepOnce ==
  ASSUME ViInv, ViInv', OnceInv, [Next]_vars PROVE OnceInv'
<1>1. ASSUME NEW d \in Deltas, Tick(d) PROVE OnceInv'
  BY <1>1, TickOnce
<1>2. CASE HalfLine
  BY <1>2, HalfLineOnce
<1>3. CASE EndTick
  BY <1>3, EndTickOnce
<1>4. ASSUME NEW t \in Totals, NEW i \in Intrs, NEW o \in BOOLEAN, Program(t, i, o)
      PROVE  OnceInv'
  <2>1. pc = "idle" /\ pc' = "idle" /\ acc' < Period(0)
    BY <1>4 DEF Program, scan, OnceInv
  <2> QED  BY <1>4, <2>1, RestartOnce DEF Program, ViInv
<1>5. CASE Acknowledge
  BY <1>5, Unmoved DEF Acknowledge, history
<1>6. CASE Reset
  <2>1. pc = "idle" /\ pc' = "idle" /\ acc' = 0
    BY <1>6 DEF Reset
  <2>2. 0 < Period(0)
    <3>1. 0 \in 0 .. VI_MAX_HALFLINES - 1
      BY ViAssumption
    <3> QED  BY <3>1, PeriodsAreBetween
  <2> QED  BY <1>6, <2>1, <2>2, RestartOnce DEF Reset, ViInv
<1>7. CASE UNCHANGED vars
  BY <1>7, Unmoved DEF vars, history
<1> QED
  BY <1>1, <1>2, <1>3, <1>4, <1>5, <1>6, <1>7 DEF Next

\* One interrupt for each landing, for every programming, and none while the VI is off.
THEOREM InterruptsCorrect == Spec => []OneInterruptPerLanding
<1>1. Init => OnceInv
  <2> SUFFICES ASSUME Init PROVE OnceInv
    OBVIOUS
  <2>1. 0 < Period(0)
    <3>1. 0 \in 0 .. VI_MAX_HALFLINES - 1
      BY ViAssumption
    <3> QED  BY <3>1, PeriodsAreBetween
  <2> QED  BY <2>1 DEF Init, OnceInv, Pending
<1>2. ViInv /\ ViInv' /\ OnceInv /\ [Next]_vars => OnceInv'
  BY StepOnce
<1>3. ViInv /\ OnceInv => OneInterruptPerLanding
  BY DEF ViInv, TypeOK, OnceInv, Pending, OneInterruptPerLanding
<1> QED  BY <1>1, <1>2, <1>3, ViInvCorrect, PTL DEF Spec

-----------------------------------------------------------------------------
(* AiFifo.                                                                 *)

\* An address within its page and the carry out of it make up the next address.
LEMMA NextWord ==
  ASSUME NEW n \in Nat \ {0}, NEW a \in Nat
  PROVE  /\ (a \div n) * n + ((a + 1) % n) \in Nat
         /\ (a \div n) * n + ((a + 1) % n) + (IF (a + 1) % n = 0 THEN 1 ELSE 0) * n = a + 1
<1> DEFINE q == a \div n
           r == a % n
<1>1. q \in Nat /\ r \in 0 .. n - 1 /\ a = q * n + r /\ q * n \in Nat
  OBVIOUS
<1> HIDE DEF q, r
<1>2. CASE r + 1 < n
  <2>1. a + 1 = q * n + (r + 1) /\ r + 1 \in 1 .. n - 1
    BY <1>1, <1>2
  <2>2. (a + 1) % n = r + 1
    <3>1. (q * n + (r + 1)) % n = r + 1
      BY <1>1, <2>1, Remainder
    <3> QED  BY <2>1, <3>1
  <2>3. (a + 1) % n # 0
    BY <2>1, <2>2
  <2> QED  BY <1>1, <2>1, <2>2, <2>3 DEF q
<1>3. CASE r + 1 = n
  <2>1. a + 1 = (q + 1) * n /\ q + 1 \in Nat
    BY <1>1, <1>3
  <2>2. (a + 1) % n = 0
    <3>1. ((q + 1) * n + 0) % n = 0
      <4>1. 0 \in 0 .. n - 1
        OBVIOUS
      <4> QED  BY <2>1, <4>1, Remainder
    <3>2. (q + 1) * n \in Nat
      BY <2>1
    <3> QED  BY <2>1, <3>1, <3>2
  <2>3. q * n + n = a + 1
    BY <1>1, <1>3
  <2> QED  BY <1>1, <2>2, <2>3 DEF q
<1> QED
  BY <1>1, <1>2, <1>3

\* The strengthening: what is staged is in the slot that the next transfer will use; and
\* a transfer that has not begun to play has the carry it started under, so that an empty
\* one, which never plays, passes it on.
AiInv ==
  /\ AiTypeOK
  /\ staged # {} => count < 2 /\ staged = {addr[count + 1]}
  /\ count > 0 =>
       /\ addr[1] + carry * PAGE = base[1] + late * PAGE + played
       /\ played = 0 => carry = late
       /\ len[1] = 0 => played = 0
  /\ count = 2 => addr[2] = base[2]

\* The AI starts with its queue empty.
LEMMA AiInitHolds ==
  ASSUME AiInit PROVE AiInv
<1>1. AiTypeOK
  <2>1. addr \in [AiSlots -> Nat] /\ len \in [AiSlots -> Nat] /\ base \in [AiSlots -> Nat]
    BY DEF AiInit
  <2>2. {enable, irq} \subseteq BOOLEAN /\ anchored \in BOOLEAN /\ ~anchored
    BY DEF AiInit
  <2>3. resets \in 0 .. MaxResets /\ count \in 0 .. 2 /\ carry \in 0 .. 1 /\ late \in 0 .. 1
    BY AiAssumption DEF AiInit
  <2> QED  BY <2>1, <2>2, <2>3 DEF AiInit, AiTypeOK
<1> QED  BY <1>1 DEF AiInit, AiInv

\* A sample: the front transfer moves on by a word, or gives way to the one behind it,
\* which starts under the carry just left.
LEMMA EmitHolds ==
  ASSUME AiInv, Emit, UNCHANGED <<enable, period, resets>>,
         anchored' = TRUE, due' \in Nat, due' > 0
  PROVE  AiInv'
<1> USE AiAssumption
<1>1. /\ PAGE \in Nat \ {0} /\ addr[1] \in Nat /\ addr[2] \in Nat /\ base[1] \in Nat
      /\ len[1] \in Nat /\ len[2] \in Nat /\ played \in Nat
      /\ carry \in 0 .. 1 /\ late \in 0 .. 1 /\ count \in 0 .. 2
  BY DEF AiInv, AiTypeOK, AiSlots
<1>2. carry * PAGE \in Nat /\ From \in Nat
  BY <1>1 DEF From
<1>3. Onward \in Nat /\ CarryOut \in 0 .. 1 /\ Onward + CarryOut * PAGE = From + 1
  <2>1. CarryOut \in 0 .. 1
    BY DEF CarryOut
  <2>2. Onward \in Nat /\ Onward + (IF (From + 1) % PAGE = 0 THEN 1 ELSE 0) * PAGE = From + 1
    BY <1>1, <1>2, NextWord, Zenon DEF Onward
  <2> QED  BY <2>1, <2>2, Zenon DEF CarryOut
<1>4. ASSUME Active
      PROVE  /\ From + 1 = base[1] + late * PAGE + played + 1
             /\ CarryOut = IF EndsPage THEN 1 ELSE 0
  <2>1. From = base[1] + late * PAGE + played
    BY <1>4 DEF Active, AiInv, From
  <2> QED  BY <1>1, <2>1 DEF CarryOut, EndsPage
<1>5. Left \in Nat /\ (Active => Left = len[1] - 1 /\ count > 0 /\ len[1] > 0)
  BY <1>1 DEF Left, Active
<1>6. staged' # {} => count' < 2 /\ staged' = {addr'[count' + 1]}
  <2> SUFFICES ASSUME staged' # {} PROVE count' < 2 /\ staged' = {addr'[count' + 1]}
    OBVIOUS
  <2>1. ~Retired /\ staged' = staged /\ count' = count
    BY DEF Emit
  <2>2. count < 2 /\ staged = {addr[count + 1]}
    BY <2>1 DEF AiInv
  <2>3. addr' = [addr EXCEPT ![1] = IF Active THEN Onward ELSE addr[1]]
    BY <2>1 DEF Emit
  <2>4. addr'[count + 1] = addr[count + 1]
    <3>1. CASE count = 0
      <4>1. ~Active
        BY <3>1 DEF Active
      <4> QED  BY <2>3, <3>1, <4>1
    <3>2. CASE count = 1
      BY <2>3, <3>2
    <3> QED  BY <1>1, <2>2, <3>1, <3>2
  <2> QED  BY <2>1, <2>2, <2>4
<1>7. CASE Retired /\ count = 2
  <2>1. /\ addr' = [addr EXCEPT ![1] = addr[2]] /\ len' = [len EXCEPT ![1] = len[2]]
        /\ base' = [base EXCEPT ![1] = base[2]] /\ irq' \in BOOLEAN
        /\ played' = 0 /\ count' = 1 /\ staged' = {}
        /\ carry' = IF Active THEN CarryOut ELSE carry
        /\ late' = IF ~Active THEN late ELSE IF EndsPage THEN 1 ELSE 0
    BY <1>7 DEF Emit, AiInv, AiTypeOK
  <2>2. carry' = late' /\ carry' \in 0 .. 1
    <3>1. CASE Active
      BY <1>3, <1>4, <2>1, <3>1
    <3>2. CASE ~Active
      BY <1>1, <1>7, <2>1, <3>2 DEF AiInv, Retired, Left
    <3> QED  BY <3>1, <3>2
  <2>3. AiTypeOK'
    BY <2>1, <2>2 DEF AiInv, AiTypeOK, AiSlots
  <2>4. addr'[1] = addr[2] /\ base'[1] = base[2] /\ addr[2] = base[2]
    BY <1>7, <2>1 DEF AiInv, AiTypeOK, AiSlots
  <2>5. addr'[1] + carry' * PAGE = base'[1] + late' * PAGE + played'
    BY <1>1, <2>1, <2>2, <2>4
  <2> QED  BY <1>6, <2>1, <2>2, <2>3, <2>5 DEF AiInv
<1>8. CASE ~(Retired /\ count = 2)
  <2>1. /\ addr' = [addr EXCEPT ![1] = IF Active THEN Onward ELSE addr[1]]
        /\ len' = [len EXCEPT ![1] = Left]
        /\ base' = base /\ late' = late /\ irq' = irq
        /\ count' = IF Retired THEN count - 1 ELSE count
        /\ staged' = IF Retired THEN {} ELSE staged
        /\ carry' = IF Active THEN CarryOut ELSE carry
        /\ played' = IF Active THEN played + 1 ELSE played
    BY <1>8 DEF Emit
  <2>2. count' \in 0 .. 2
    BY <1>1, <2>1 DEF Retired
  <2>3. AiTypeOK'
    BY <1>1, <1>3, <1>5, <2>1, <2>2 DEF AiInv, AiTypeOK, AiSlots
  <2>4. addr'[1] = IF Active THEN Onward ELSE addr[1]
    BY <2>1 DEF AiInv, AiTypeOK, AiSlots
  <2>5. addr'[2] = addr[2] /\ len'[1] = Left
    BY <2>1 DEF AiInv, AiTypeOK, AiSlots
  <2>6. ASSUME count' > 0
        PROVE  /\ addr'[1] + carry' * PAGE = base'[1] + late' * PAGE + played'
               /\ played' = 0 => carry' = late'
               /\ len'[1] = 0 => played' = 0
    <3>1. count > 0 /\ ~Retired /\ Left # 0
      BY <1>1, <1>8, <2>1, <2>6 DEF Retired
    <3>2. CASE Active
      <4>1. addr'[1] + carry' * PAGE = Onward + CarryOut * PAGE
        BY <2>1, <2>4, <3>2
      <4>2. base'[1] + late' * PAGE + played' = base[1] + late * PAGE + played + 1
        BY <1>1, <2>1, <3>2
      <4> QED  BY <1>1, <1>3, <1>4, <2>1, <2>5, <3>1, <3>2, <4>1, <4>2
    <3>3. CASE ~Active
      BY <2>1, <2>4, <2>5, <3>1, <3>3 DEF AiInv
    <3> QED  BY <3>2, <3>3
  <2>7. count' = 2 => addr'[2] = base'[2]
    BY <1>1, <2>1, <2>5 DEF AiInv, Retired
  <2> QED  BY <1>6, <2>3, <2>6, <2>7 DEF AiInv
<1> QED  BY <1>7, <1>8

\* Every register write, sample and reset keeps the invariant of the AI.
LEMMA AiStepHolds ==
  ASSUME AiInv, [AiNext]_aiVars PROVE AiInv'
<1> USE AiAssumption
<1>1. ASSUME NEW a \in Bases, WriteAddr(a) PROVE AiInv'
  BY <1>1 DEF WriteAddr, AiInv, AiTypeOK, AiSlots, aiSchedule
<1>2. ASSUME NEW n \in Lengths, WriteLength(n) PROVE AiInv'
  <2>1. count \in 0 .. 1 /\ n \in Nat /\ addr[count + 1] \in Nat /\ period \in Nat /\ period > 0
    BY <1>2 DEF WriteLength, AiInv, AiTypeOK, AiSlots
  <2>2. (IF staged = {} THEN addr[count + 1] ELSE CHOOSE a \in staged : TRUE) = addr[count + 1]
    BY DEF AiInv
  <2>3. /\ base' = [base EXCEPT ![count + 1] = addr[count + 1]]
        /\ len' = [len EXCEPT ![count + 1] = n]
        /\ count' = count + 1 /\ staged' = {} /\ addr' = addr
        /\ UNCHANGED <<enable, period, resets>>
    BY <1>2, <2>2 DEF WriteLength
  <2>4. CASE count = 0
    <3>1. carry' = 0 /\ irq' = TRUE /\ anchored' = TRUE /\ due' = period /\ played' = 0 /\ late' = 0
      BY <1>2, <2>4 DEF WriteLength, StartCarry
    <3> QED  BY <2>1, <2>3, <2>4, <3>1 DEF AiInv, AiTypeOK, AiSlots
  <2>5. CASE count = 1
    <3>1. UNCHANGED <<carry, aiSchedule, irq, played, late>>
      BY <1>2, <2>5 DEF WriteLength
    <3>2. base'[1] = base[1] /\ len'[1] = len[1] /\ base'[2] = addr[2]
      BY <2>3, <2>5 DEF AiInv, AiTypeOK, AiSlots
    <3>3. AiTypeOK'
      BY <2>1, <2>3, <2>5, <3>1 DEF AiInv, AiTypeOK, AiSlots, aiSchedule
    <3> QED  BY <2>3, <2>5, <3>1, <3>2, <3>3 DEF AiInv
  <2> QED  BY <2>1, <2>4, <2>5
<1>3. ASSUME NEW b \in BOOLEAN, WriteControl(b) PROVE AiInv'
  BY <1>3 DEF WriteControl, AiInv, AiTypeOK, AiSlots, aiSchedule, aiQueue, aiHistory
<1>4. CASE WriteStatus
  BY <1>4 DEF WriteStatus, AiInv, AiTypeOK, AiSlots, aiSchedule, aiQueue, aiHistory
<1>5. ASSUME NEW p \in Periods, WriteRate(p) PROVE AiInv'
  BY <1>5 DEF WriteRate, AiInv, AiTypeOK, AiSlots, aiSchedule, aiQueue, aiHistory
<1>6. CASE AiTick
  <2>1. CASE Reached
    <3>1. due' \in Nat /\ due' > 0 /\ anchored' = TRUE /\ Emit
          /\ UNCHANGED <<enable, period, resets>>
      BY <1>6, <2>1 DEF AiTick, AiInv, AiTypeOK, Reached
    <3> QED  BY <3>1, EmitHolds
  <2>2. CASE ~Reached
    <3>1. due' \in Nat /\ due' > 0
      BY <1>6, <2>2 DEF AiTick, AiInv, AiTypeOK, Reached
    <3> QED
      BY <1>6, <2>2, <3>1 DEF AiTick, AiInv, AiTypeOK, AiSlots, aiQueue
  <2> QED  BY <2>1, <2>2
<1>7. ASSUME NEW age \in Ages, AiReset(age) PROVE AiInv'
  BY <1>7 DEF AiReset, AiInv, AiTypeOK, AiSlots, aiSchedule, aiQueue, aiHistory
<1>8. CASE UNCHANGED aiVars
  BY <1>8 DEF aiVars, AiInv, AiTypeOK, AiSlots, aiSchedule, aiQueue, aiHistory
<1> QED
  BY <1>1, <1>2, <1>3, <1>4, <1>5, <1>6, <1>7, <1>8 DEF AiNext

\* The word read next is the next word of the transfer that was queued, whenever software
\* refills and whatever the carry of the page does (Audio::emit_sample, write_reg).
THEOREM QueuedCorrect == AiSpec => []PlaysWhatWasQueued
<1>1. AiInit => AiInv
  BY AiInitHolds
<1>2. AiInv /\ [AiNext]_aiVars => AiInv'
  BY AiStepHolds
<1>3. AiInv => PlaysWhatWasQueued
  BY DEF AiInv, PlaysWhatWasQueued
<1> QED  BY <1>1, <1>2, <1>3, PTL DEF AiSpec

-----------------------------------------------------------------------------
(* CommandFifo.                                                            *)

\* What the words of the buffers can hold.
Memory == [Addresses -> [kind : Ops \cup {"param", "unwritten"}, of : 0 .. MaxCommands]]

\* A word that begins a command, and where the next one begins.
IsOpcode(w) == w.kind \in Ops
Behind(ram, a) == a + CommandLength[ram[a].kind]

\* The command that begins at a word, in a list that ends at an address, of whose last
\* command, the (m - 1)th, so many words are still to come: its words follow it, as far as
\* they are there, and then the next command.
Linked(ram, list, a, to, lacks, m) ==
  LET k == ram[a].of
      b == Behind(ram, a)
  IN  /\ k \in 1 .. m - 1
      /\ ram[a].kind = list[k]
      /\ \A j \in a + 1 .. to - 1 : j < b => ram[j] = WordOf("param", k)
      /\ b < to => IsOpcode(ram[b]) /\ ram[b].of = k + 1
      /\ b >= to => b = to + lacks /\ k = m - 1

\* The words from one address to another are the commands n to m - 1.
Chain(ram, list, first, to, lacks, n, m) ==
  /\ first <= to
  /\ first = to => n = m /\ lacks = 0
  /\ first < to => IsOpcode(ram[first]) /\ ram[first].of = n
  /\ \A a \in first .. to - 1 : IsOpcode(ram[a]) => Linked(ram, list, a, to, lacks, m)

\* An address of a buffer or just behind it.
Within(b, a) == a \in b .. b + Size

\* The numbers of the next command to be executed and to be written.
Executing == Len(executed) + 1
Writing == Len(listed) + 1

\* One list, being drained and written; or, while the next one is latched, two that meet in
\* number and lie in different buffers.
OneList ==
  /\ Chain(dpRam, listed, cmd_current, tail, missing, Executing, Writing)
  /\ cmd_current <= cmd_end /\ cmd_end <= tail
  /\ \/ tail = 0
     \/ \E b \in Buffers : Within(b, cmd_current) /\ Within(b, tail + missing)

TwoLists ==
  /\ \E s \in 1 .. Writing :
       /\ Chain(dpRam, listed, cmd_current, cmd_end, 0, Executing, s)
       /\ Chain(dpRam, listed, cmd_start, tail, missing, s, Writing)
  /\ cmd_start \in Buffers /\ Within(cmd_start, tail + missing)
  /\ Drained \/ \E b \in Buffers \ {cmd_start} : Within(b, cmd_current) /\ Within(b, cmd_end)

\* The strengthening: what is still in memory continues what has been executed.
FifoInv ==
  /\ FifoTypeOK
  /\ Len(listed) <= MaxCommands
  /\ Len(executed) <= Len(listed)
  /\ \A i \in 1 .. Len(executed) : executed[i] = listed[i]
  /\ IF startValid THEN TwoLists ELSE OneList

-----------------------------------------------------------------------------
\* Buffers lie apart, so an address tells its buffer, and is not zero.
LEMMA InBuffer ==
  ASSUME NEW b \in Buffers, NEW a, Within(b, a)
  PROVE  /\ BufferOf(a) = b /\ a \in Addresses /\ a \in Nat \ {0}
         /\ \A c \in Buffers : Within(c, a) => c = b
<1>1. b \in Nat \ {0} /\ Size \in Nat /\ a \in Nat \ {0} /\ a \in b .. b + Size
  BY FifoAssumption DEF Within
<1>2. ASSUME NEW c \in Buffers, a \in c .. c + Size PROVE c = b
  <2>1. c \in Nat
    BY FifoAssumption
  <2>2. ~(b + Size < c) /\ ~(c + Size < b)
    BY <1>1, <1>2, <2>1
  <2>3. ~(b < c) /\ ~(c < b)
    BY <2>2, FifoAssumption
  <2> QED  BY <1>1, <2>1, <2>3
<1>3. BufferOf(a) = b
  BY <1>1, <1>2 DEF BufferOf
<1> QED
  BY <1>1, <1>2, <1>3 DEF Addresses, Within

\* What lies between two addresses of a buffer is in that buffer.
LEMMA BetweenInBuffer ==
  ASSUME NEW b \in Buffers, NEW lo \in Nat, NEW hi \in Nat, Within(b, lo), Within(b, hi)
  PROVE  /\ \A a \in lo .. hi : Within(b, a)
         /\ lo .. hi \subseteq Addresses
<1>1. ASSUME NEW a \in lo .. hi PROVE Within(b, a)
  BY FifoAssumption DEF Within
<1> QED  BY <1>1, InBuffer

\* What a word of memory is.
LEMMA WordType ==
  ASSUME NEW ram \in Memory, NEW a \in Addresses
  PROVE  /\ ram[a].of \in Nat /\ a \in Nat
         /\ ram[a] = [kind |-> ram[a].kind, of |-> ram[a].of]
         /\ IsOpcode(ram[a]) => Behind(ram, a) \in Nat /\ Behind(ram, a) > a
BY FifoAssumption DEF Memory, IsOpcode, Behind, Addresses

\* A chain depends on its words and its commands alone.
LEMMA ChainFrame ==
  ASSUME NEW first \in Nat, NEW to \in Nat, NEW lacks \in Nat, NEW n \in Nat, NEW m \in Nat,
         NEW ram \in Memory, NEW ram2 \in Memory, NEW list, NEW list2,
         first .. to - 1 \subseteq Addresses,
         Chain(ram, list, first, to, lacks, n, m),
         \A a \in first .. to - 1 : ram2[a] = ram[a],
         \A k \in 1 .. m - 1 : list2[k] = list[k]
  PROVE  Chain(ram2, list2, first, to, lacks, n, m)
<1>1. ASSUME NEW a \in first .. to - 1, IsOpcode(ram2[a])
      PROVE  Linked(ram2, list2, a, to, lacks, m)
  <2>1. ram2[a] = ram[a] /\ IsOpcode(ram[a]) /\ Behind(ram2, a) = Behind(ram, a)
    BY <1>1 DEF IsOpcode, Behind
  <2>2. Linked(ram, list, a, to, lacks, m)
    BY <2>1 DEF Chain
  <2>3. Behind(ram, a) \in Nat /\ Behind(ram, a) > a /\ a \in Nat
    BY <2>1, WordType
  <2>4. \A j \in a + 1 .. to - 1 : ram2[j] = ram[j]
    BY <2>3
  <2>5. Behind(ram, a) < to => ram2[Behind(ram, a)] = ram[Behind(ram, a)]
    BY <2>3
  <2> QED  BY <2>1, <2>2, <2>4, <2>5 DEF Linked
<1>2. first < to => ram2[first] = ram[first]
  OBVIOUS
<1> QED
  BY <1>1, <1>2 DEF Chain

\* The first command of a chain, and the chain behind it.
LEMMA ChainTake ==
  ASSUME NEW first \in Nat, NEW to \in Nat, NEW lacks \in Nat, NEW n \in Nat, NEW m \in Nat,
         NEW ram \in Memory, NEW list,
         first .. to - 1 \subseteq Addresses,
         Chain(ram, list, first, to, lacks, n, m), first < to, Behind(ram, first) <= to
  PROVE  /\ IsOpcode(ram[first]) /\ n \in 1 .. m - 1 /\ ram[first] = WordOf(list[n], n)
         /\ \A j \in first + 1 .. Behind(ram, first) - 1 : ram[j] = WordOf("param", n)
         /\ Behind(ram, first) \in Nat
         /\ Chain(ram, list, Behind(ram, first), to, lacks, n + 1, m)
<1> DEFINE next == Behind(ram, first)
<1>1. first \in first .. to - 1 /\ first \in Addresses
  OBVIOUS
<1>2. IsOpcode(ram[first]) /\ ram[first].of = n /\ Linked(ram, list, first, to, lacks, m)
  BY <1>1 DEF Chain
<1>3. /\ n \in 1 .. m - 1 /\ ram[first].kind = list[n]
      /\ \A j \in first + 1 .. to - 1 : j < next => ram[j] = WordOf("param", n)
      /\ next < to => IsOpcode(ram[next]) /\ ram[next].of = n + 1
      /\ next >= to => next = to + lacks /\ n = m - 1
  BY <1>2 DEF Linked
<1>4. next \in Nat /\ next > first
  BY <1>1, <1>2, WordType
<1>5. ram[first] = WordOf(list[n], n)
  BY <1>1, <1>2, <1>3, WordType DEF WordOf
<1>6. ASSUME NEW j \in first + 1 .. next - 1 PROVE ram[j] = WordOf("param", n)
  <2>1. j \in first + 1 .. to - 1 /\ j < next
    BY <1>4
  <2> QED  BY <1>3, <2>1
<1>7. Chain(ram, list, next, to, lacks, n + 1, m)
  <2>1. next = to => n + 1 = m /\ lacks = 0
    BY <1>3, <1>4
  <2>2. \A a \in next .. to - 1 : a \in first .. to - 1
    BY <1>4
  <2> QED  BY <1>3, <2>1, <2>2 DEF Chain
<1> QED
  BY <1>2, <1>3, <1>4, <1>5, <1>6, <1>7

\* An opcode written behind a chain makes it longer by a command.
LEMMA ChainOpcode ==
  ASSUME NEW first \in Nat, NEW to \in Nat, NEW n \in Nat, NEW m \in Nat \ {0}, NEW op \in Ops,
         NEW ram \in Memory, NEW list, NEW list2,
         first .. to \subseteq Addresses,
         Chain(ram, list, first, to, 0, n, m),
         \A k \in 1 .. m - 1 : list2[k] = list[k], list2[m] = op
  PROVE  Chain([ram EXCEPT ![to] = WordOf(op, m)], list2, first, to + 1, CommandLength[op] - 1,
               n, m + 1)
<1> DEFINE lacks == CommandLength[op] - 1
           ram2 == [ram EXCEPT ![to] = WordOf(op, m)]
<1>1. first <= to /\ to \in Addresses /\ lacks \in Nat
  BY FifoAssumption DEF Chain
<1>2. /\ ram2[to] = WordOf(op, m)
      /\ \A a \in first .. to - 1 : ram2[a] = ram[a] /\ a \in Addresses
  BY <1>1 DEF Memory
<1> HIDE DEF ram2
<1>3. IsOpcode(ram2[to]) /\ Behind(ram2, to) = to + CommandLength[op]
  BY <1>2 DEF IsOpcode, Behind, WordOf
<1>4. IsOpcode(ram2[first]) /\ ram2[first].of = n
  <2>1. CASE first = to
    BY <1>2, <1>3, <2>1 DEF Chain, WordOf
  <2>2. CASE first < to
    BY <1>2, <2>2 DEF Chain
  <2> QED  BY <1>1, <2>1, <2>2
<1>5. Linked(ram2, list2, to, to + 1, lacks, m + 1)
  <2>1. Behind(ram2, to) >= to + 1 /\ Behind(ram2, to) = to + 1 + lacks
    BY <1>1, <1>3, FifoAssumption
  <2>2. ram2[to].of = m /\ ram2[to].kind = op
    BY <1>2 DEF WordOf
  <2> QED  BY <1>1, <2>1, <2>2 DEF Linked
<1>6. ASSUME NEW a \in first .. to - 1, IsOpcode(ram2[a])
      PROVE  Linked(ram2, list2, a, to + 1, lacks, m + 1)
  <2> DEFINE b == Behind(ram, a)
  <2>1. ram2[a] = ram[a] /\ IsOpcode(ram[a]) /\ Behind(ram2, a) = b
    BY <1>2, <1>6 DEF Behind
  <2>2. Linked(ram, list, a, to, 0, m)
    BY <2>1 DEF Chain
  <2>3. b \in Nat /\ b > a /\ a \in Nat
    BY <1>2, <2>1, WordType
  <2>4. b <= to
    BY <2>2, <2>3 DEF Linked
  <2>5. ASSUME NEW j \in a + 1 .. (to + 1) - 1, j < b
        PROVE  ram2[j] = WordOf("param", ram[a].of)
    <3>1. j \in first .. to - 1 /\ j \in a + 1 .. to - 1
      BY <2>3, <2>4, <2>5
    <3> QED  BY <1>2, <2>2, <2>5, <3>1 DEF Linked
  <2>6. IsOpcode(ram2[b]) /\ ram2[b].of = ram[a].of + 1
    <3>1. CASE b < to
      <4>1. b \in first .. to - 1
        BY <2>3, <3>1
      <4> QED  BY <1>2, <2>2, <3>1, <4>1 DEF Linked
    <3>2. CASE b = to
      <4>1. ram[a].of = m - 1
        BY <2>2, <3>2 DEF Linked
      <4> QED  BY <1>2, <1>3, <3>2, <4>1 DEF WordOf
    <3> QED  BY <2>3, <2>4, <3>1, <3>2
  <2>7. ram[a].of \in 1 .. m /\ ram2[a].kind = list2[ram[a].of]
    BY <2>1, <2>2 DEF Linked
  <2>8. b < to + 1
    BY <2>3, <2>4
  <2> QED  BY <2>1, <2>3, <2>5, <2>6, <2>7, <2>8 DEF Linked
<1>7. \A a \in first .. (to + 1) - 1 : a = to \/ a \in first .. to - 1
  BY <1>1
<1>8. Chain(ram2, list2, first, to + 1, lacks, n, m + 1)
  BY <1>1, <1>4, <1>5, <1>6, <1>7 DEF Chain
<1> QED  BY <1>8 DEF ram2

\* A word of parameters written behind a chain completes it by a word.
LEMMA ChainParameter ==
  ASSUME NEW first \in Nat, NEW to \in Nat, NEW lacks \in Nat \ {0}, NEW n \in Nat,
         NEW m \in Nat \ {0}, NEW ram \in Memory, NEW list,
         first .. to \subseteq Addresses,
         Chain(ram, list, first, to, lacks, n, m)
  PROVE  Chain([ram EXCEPT ![to] = WordOf("param", m - 1)], list, first, to + 1, lacks - 1, n, m)
<1> DEFINE ram2 == [ram EXCEPT ![to] = WordOf("param", m - 1)]
<1>1. first < to /\ to \in Addresses
  BY DEF Chain
<1>2. /\ ram2[to] = WordOf("param", m - 1)
      /\ \A a \in first .. to - 1 : ram2[a] = ram[a] /\ a \in Addresses
  BY <1>1 DEF Memory
<1> HIDE DEF ram2
<1>3. ~IsOpcode(ram2[to])
  BY <1>2, FifoAssumption DEF IsOpcode, WordOf
<1>4. IsOpcode(ram2[first]) /\ ram2[first].of = n
  BY <1>1, <1>2 DEF Chain
<1>5. ASSUME NEW a \in first .. to - 1, IsOpcode(ram2[a])
      PROVE  Linked(ram2, list, a, to + 1, lacks - 1, m)
  <2> DEFINE b == Behind(ram, a)
  <2>1. ram2[a] = ram[a] /\ IsOpcode(ram[a]) /\ Behind(ram2, a) = b
    BY <1>2, <1>5 DEF Behind
  <2>2. Linked(ram, list, a, to, lacks, m)
    BY <2>1 DEF Chain
  <2>3. b \in Nat /\ b > a /\ a \in Nat
    BY <1>2, <2>1, WordType
  <2>4. ASSUME NEW j \in a + 1 .. (to + 1) - 1, j < b
        PROVE  ram2[j] = WordOf("param", ram[a].of)
    <3>1. CASE j = to
      <4>1. ram[a].of = m - 1
        BY <2>2, <2>3, <2>4, <3>1 DEF Linked
      <4> QED  BY <1>2, <3>1, <4>1
    <3>2. CASE j # to
      <4>1. j \in first .. to - 1 /\ j \in a + 1 .. to - 1
        BY <2>3, <3>2
      <4> QED  BY <1>2, <2>2, <2>4, <4>1 DEF Linked
    <3> QED  BY <3>1, <3>2
  <2>5. b # to
    BY <2>2 DEF Linked
  <2>6. ASSUME b < to + 1
        PROVE  IsOpcode(ram2[b]) /\ ram2[b].of = ram[a].of + 1
    <3>1. b \in first .. to - 1 /\ b < to
      BY <2>3, <2>5, <2>6
    <3> QED  BY <1>2, <2>2, <3>1 DEF Linked
  <2>7. b >= to + 1 => b = (to + 1) + (lacks - 1) /\ ram[a].of = m - 1
    BY <2>2, <2>3 DEF Linked
  <2>8. ram[a].of \in 1 .. m - 1 /\ ram2[a].kind = list[ram[a].of]
    BY <2>1, <2>2 DEF Linked
  <2> QED  BY <2>1, <2>4, <2>6, <2>7, <2>8 DEF Linked
<1>6. \A a \in first .. (to + 1) - 1 : a = to \/ a \in first .. to - 1
  BY <1>1
<1>7. first <= to + 1 /\ first # to + 1
  BY <1>1
<1>8. Chain(ram2, list, first, to + 1, lacks - 1, n, m)
  BY <1>3, <1>4, <1>5, <1>6, <1>7 DEF Chain
<1> QED  BY <1>8 DEF ram2

-----------------------------------------------------------------------------
\* Addresses are numbers.
LEMMA AddressesAreNat == Addresses \subseteq Nat
BY FifoAssumption DEF Addresses

\* The types the steps below need, in one place.
LEMMA FifoTypes ==
  ASSUME FifoInv
  PROVE  /\ dpRam \in Memory
         /\ {cmd_start, cmd_end, cmd_current, tail, missing, stall} \subseteq Nat
         /\ Len(executed) \in Nat /\ Len(listed) \in Nat
         /\ Executing \in Nat /\ Writing \in Nat \ {0}
         /\ listed \in Seq(Ops) /\ executed \in Seq(Ops \cup {"garbled"})
<1>1. listed \in Seq(Ops) /\ executed \in Seq(Ops \cup {"garbled"})
  BY DEF FifoInv, FifoTypeOK
<1>2. Len(executed) \in Nat /\ Len(listed) \in Nat
  BY <1>1, LenProperties
<1>3. dpRam \in Memory
  BY DEF FifoInv, FifoTypeOK, Memory
<1>4. {cmd_start, cmd_end, cmd_current, tail, missing, stall} \subseteq Nat
  <2>1. /\ {cmd_start, cmd_end, cmd_current, tail} \subseteq Addresses \cup {0}
        /\ {stall, missing} \subseteq Nat
    BY DEF FifoInv, FifoTypeOK
  <2>2. Addresses \cup {0} \subseteq Nat
    BY AddressesAreNat
  <2> QED  BY <2>1, <2>2, Zenon
<1>5. Executing \in Nat /\ Writing \in Nat \ {0}
  BY <1>2 DEF Executing, Writing
<1> QED
  BY <1>1, <1>2, <1>3, <1>4, <1>5

\* The words a list has yet to give lie in memory, and so does the word to be written next.
LEMMA OneListInMemory ==
  ASSUME FifoInv, ~startValid, tail # 0
  PROVE  \E b \in Buffers :
           /\ Within(b, cmd_current) /\ Within(b, tail) /\ Within(b, cmd_end)
           /\ cmd_current .. tail \subseteq Addresses /\ tail + missing <= b + Size
<1>1. /\ {cmd_end, cmd_current, tail, missing} \subseteq Nat
      /\ cmd_current <= cmd_end /\ cmd_end <= tail
  BY FifoTypes DEF FifoInv, OneList
<1>2. PICK b \in Buffers : Within(b, cmd_current) /\ Within(b, tail + missing)
  BY DEF FifoInv, OneList
<1>3. Within(b, tail) /\ tail + missing <= b + Size /\ Within(b, cmd_end)
  BY <1>1, <1>2, FifoAssumption DEF Within
<1> QED  BY <1>1, <1>2, <1>3, BetweenInBuffer

\* With a list latched behind the one that drains, both lie in memory and neither reaches
\* the other.
LEMMA TwoListsInMemory ==
  ASSUME FifoInv, startValid
  PROVE  /\ cmd_start \in Buffers /\ cmd_start <= tail /\ Within(cmd_start, tail)
         /\ cmd_start .. tail \subseteq Addresses
         /\ cmd_current <= cmd_end
         /\ cmd_current .. cmd_end - 1 \subseteq Addresses \ {tail}
         /\ tail + missing <= cmd_start + Size
<1>1. {cmd_start, cmd_end, cmd_current, tail, missing} \subseteq Nat
  BY FifoTypes
<1>2. /\ cmd_start \in Buffers /\ Within(cmd_start, tail + missing)
      /\ cmd_start <= tail /\ cmd_current <= cmd_end
      /\ Drained \/ \E b \in Buffers \ {cmd_start} : Within(b, cmd_current) /\ Within(b, cmd_end)
  BY DEF FifoInv, TwoLists, Chain
<1>3. Within(cmd_start, tail) /\ Within(cmd_start, cmd_start) /\ tail + missing <= cmd_start + Size
  BY <1>1, <1>2, FifoAssumption DEF Within
<1>4. cmd_current .. cmd_end - 1 \subseteq Addresses \ {tail}
  <2>1. CASE Drained
    BY <1>1, <2>1 DEF Drained
  <2>2. ASSUME NEW b \in Buffers \ {cmd_start}, Within(b, cmd_current), Within(b, cmd_end)
        PROVE  cmd_current .. cmd_end - 1 \subseteq Addresses \ {tail}
    <3>1. \A a \in cmd_current .. cmd_end : Within(b, a) /\ a \in Addresses
      BY <1>1, <2>2, BetweenInBuffer
    <3>2. ~Within(b, tail)
      BY <1>2, <1>3, InBuffer
    <3> QED  BY <1>1, <3>1, <3>2
  <2> QED  BY <1>2, <2>1, <2>2
<1> QED  BY <1>1, <1>2, <1>3, <1>4, BetweenInBuffer

\* The FIFO starts with no list.
LEMMA FifoInitHolds ==
  ASSUME FifoInit PROVE FifoInv
<1>1. Len(executed) = 0 /\ Len(listed) = 0
  BY DEF FifoInit
<1>2. dpRam \in Memory
  BY FifoAssumption DEF FifoInit, Memory, Unwritten, WordOf
<1>3. Chain(dpRam, listed, 0, 0, 0, 1, 1)
  BY DEF Chain
<1>4. OneList
  BY <1>1, <1>3 DEF FifoInit, OneList, Executing, Writing
<1>5. FifoTypeOK
  <2>1. {startValid, held, dp} \subseteq BOOLEAN
    BY DEF FifoInit
  <2> QED  BY <1>2, <2>1 DEF FifoInit, FifoTypeOK, Memory
<1> QED  BY <1>1, <1>4, <1>5, FifoAssumption DEF FifoInit, FifoInv

\* The next list begins where this one is finished: empty, and elsewhere.
LEMMA NewListHolds ==
  ASSUME FifoInv, NEW b \in Buffers, NewList(b) PROVE FifoInv'
<1>1. /\ ~startValid /\ tail = cmd_end /\ missing = 0
      /\ startValid' /\ tail' = b /\ cmd_start' = b
      /\ UNCHANGED <<cmd_end, cmd_current, held, stall, dp, dpRam, missing, listed, executed>>
  BY DEF NewList, Latched, FifoInv, FifoTypeOK
<1>2. Within(b, b) /\ b \in Addresses
  <2>1. Within(b, b)
    BY FifoAssumption DEF Within
  <2> QED  BY <2>1, InBuffer
<1>3. FifoTypeOK'
  BY <1>1, <1>2 DEF FifoInv, FifoTypeOK
<1>4. Chain(dpRam, listed, cmd_current, cmd_end, 0, Executing, Writing)
  BY <1>1 DEF FifoInv, OneList
<1>5. Chain(dpRam, listed, b, b, 0, Writing, Writing)
  BY FifoAssumption DEF Chain
<1>6. Drained \/ \E c \in Buffers \ {b} : Within(c, cmd_current) /\ Within(c, cmd_end)
  <2> SUFFICES ASSUME ~Drained
               PROVE  \E c \in Buffers \ {b} : Within(c, cmd_current) /\ Within(c, cmd_end)
    OBVIOUS
  <2>1. tail # 0
    BY <1>1, FifoTypes DEF Drained, FifoInv, OneList
  <2>2. PICK c \in Buffers : Within(c, cmd_current) /\ Within(c, cmd_end)
    BY <1>1, <2>1, OneListInMemory
  <2>3. b # c
    BY <2>2, InBuffer DEF NewList
  <2> QED  BY <2>2, <2>3
<1>7. TwoLists'
  <2>1. Writing' = Writing /\ Executing' = Executing /\ Writing \in 1 .. Writing
    BY <1>1, FifoTypes DEF Writing, Executing
  <2>2. b + 0 = b
    BY FifoAssumption
  <2>3. Drained' = Drained
    BY <1>1 DEF Drained
  <2> QED  BY <1>1, <1>2, <1>4, <1>5, <1>6, <2>1, <2>2, <2>3 DEF TwoLists
<1> QED  BY <1>1, <1>3, <1>7 DEF FifoInv

\* The list being written grows by a word, and by a command if the word is an opcode.
LEMMA WriteHolds ==
  ASSUME FifoInv, NEW w, NEW lacks \in Nat,
         dpRam' = [dpRam EXCEPT ![tail] = w], dpRam' \in Memory,
         tail' = tail + 1, missing' = lacks, tail # 0,
         listed' \in Seq(Ops), Len(listed') \in Len(listed) .. MaxCommands,
         \A k \in 1 .. Len(listed) : listed'[k] = listed[k],
         \A b \in Buffers : Within(b, tail) => tail + 1 + lacks <= b + Size,
         UNCHANGED <<dpc, held, stall, dp, executed>>,
         \A first \in Nat, n \in Nat :
           first .. tail \subseteq Addresses /\ Chain(dpRam, listed, first, tail, missing, n, Writing)
             => Chain(dpRam', listed', first, tail + 1, lacks, n, Len(listed') + 1)
  PROVE  FifoInv'
<1>1. /\ dpRam \in Memory
      /\ {cmd_start, cmd_end, cmd_current, tail, missing} \subseteq Nat
      /\ Len(executed) \in Nat /\ Len(listed) \in Nat
      /\ Executing \in Nat /\ Writing \in Nat \ {0}
  BY FifoTypes
<1>2. \A b \in Buffers : Within(b, tail) => Within(b, tail + 1) /\ Within(b, tail' + missing')
  BY <1>1, FifoAssumption DEF Within
<1>3. \E b \in Buffers : Within(b, tail)
  BY OneListInMemory, TwoListsInMemory DEF FifoInv
<1>4. FifoTypeOK'
  <2>1. tail' \in Addresses
    BY <1>2, <1>3, InBuffer
  <2> QED  BY <2>1 DEF FifoInv, FifoTypeOK, Memory, dpc
<1>5. Len(executed') <= Len(listed') /\ \A i \in 1 .. Len(executed') : executed'[i] = listed'[i]
  BY <1>1 DEF FifoInv
<1>6. CASE ~startValid
  <2>1. Chain(dpRam, listed, cmd_current, tail, missing, Executing, Writing)
        /\ cmd_current .. tail \subseteq Addresses
    BY <1>6, OneListInMemory DEF FifoInv, OneList
  <2>2. Chain(dpRam', listed', cmd_current, tail', missing', Executing, Len(listed') + 1)
    BY <1>1, <2>1
  <2>3. cmd_current <= cmd_end /\ cmd_end <= tail'
    BY <1>1, <1>6 DEF FifoInv, OneList
  <2>4. \E b \in Buffers : Within(b, cmd_current) /\ Within(b, tail' + missing')
    BY <1>2, <1>6, OneListInMemory
  <2>5. OneList'
    BY <2>2, <2>3, <2>4 DEF OneList, dpc, Executing, Writing
  <2> QED  BY <1>4, <1>5, <1>6, <2>5 DEF FifoInv, dpc
<1>7. CASE startValid
  <2>1. PICK s \in 1 .. Writing :
          /\ Chain(dpRam, listed, cmd_current, cmd_end, 0, Executing, s)
          /\ Chain(dpRam, listed, cmd_start, tail, missing, s, Writing)
    BY <1>7 DEF FifoInv, TwoLists
  <2>2. /\ cmd_start \in Buffers /\ Within(cmd_start, tail)
        /\ cmd_start .. tail \subseteq Addresses
        /\ cmd_current .. cmd_end - 1 \subseteq Addresses \ {tail}
    BY <1>7, TwoListsInMemory
  <2>3. s \in Nat /\ s \in 1 .. Len(listed') + 1 /\ s - 1 <= Len(listed)
    BY <1>1, <2>1 DEF Writing
  <2>4. Chain(dpRam', listed', cmd_start, tail', missing', s, Len(listed') + 1)
    BY <1>1, <2>1, <2>2, <2>3
  <2>5. Chain(dpRam', listed', cmd_current, cmd_end, 0, Executing, s)
    <3>1. \A a \in cmd_current .. cmd_end - 1 : dpRam'[a] = dpRam[a]
      BY <1>1, <2>2 DEF Memory
    <3>2. \A k \in 1 .. s - 1 : listed'[k] = listed[k]
      BY <1>1, <2>3
    <3>3. cmd_current .. cmd_end - 1 \subseteq Addresses
      BY <2>2
    <3> QED  BY <1>1, <2>1, <2>3, <3>1, <3>2, <3>3, ChainFrame
  <2>6. TwoLists'
    <3>1. /\ cmd_start' = cmd_start /\ cmd_current' = cmd_current /\ cmd_end' = cmd_end
          /\ Executing' = Executing /\ Writing' = Len(listed') + 1 /\ Drained' = Drained
      BY DEF dpc, Executing, Writing, Drained
    <3>2. Drained \/ \E b \in Buffers \ {cmd_start} : Within(b, cmd_current) /\ Within(b, cmd_end)
      BY <1>7 DEF FifoInv, TwoLists
    <3> QED  BY <1>2, <2>2, <2>3, <2>4, <2>5, <3>1, <3>2 DEF TwoLists
  <2> QED  BY <1>4, <1>5, <1>7, <2>6 DEF FifoInv, dpc
<1> QED  BY <1>6, <1>7

\* Writing the first word of a command extends the last list.
LEMMA WriteOpcodeHolds ==
  ASSUME FifoInv, NEW op \in Ops, WriteOpcode(op) PROVE FifoInv'
<1>1. /\ Len(listed) < MaxCommands /\ missing = 0 /\ (startValid \/ tail # 0)
      /\ tail + CommandLength[op] <= BufferOf(tail) + Size
      /\ dpRam' = [dpRam EXCEPT ![tail] = WordOf(op, Writing)]
      /\ tail' = tail + 1 /\ missing' = CommandLength[op] - 1
      /\ listed' = Append(listed, op)
      /\ UNCHANGED <<dpc, held, stall, dp, executed>>
  BY DEF WriteOpcode, Writing
<1>2. /\ dpRam \in Memory /\ tail \in Nat /\ Len(listed) \in Nat /\ Writing \in Nat \ {0}
      /\ listed \in Seq(Ops)
  BY FifoTypes
<1>3. CommandLength[op] \in Nat /\ CommandLength[op] - 1 \in Nat
  BY FifoAssumption
<1>4. tail # 0
  <2>1. CASE startValid
    BY <2>1, TwoListsInMemory, InBuffer
  <2> QED  BY <1>1, <2>1
<1>5. dpRam' \in Memory
  <2>1. WordOf(op, Writing) \in [kind : Ops \cup {"param", "unwritten"}, of : 0 .. MaxCommands]
    BY <1>1, <1>2, FifoAssumption DEF WordOf, Writing
  <2> QED  BY <1>1, <1>2, <2>1 DEF Memory
<1>6. /\ listed' \in Seq(Ops) /\ Len(listed') = Len(listed) + 1 /\ listed'[Writing] = op
      /\ \A k \in 1 .. Len(listed) : listed'[k] = listed[k]
  BY <1>1, <1>2, AppendProperties DEF Writing
<1>7. ASSUME NEW b \in Buffers, Within(b, tail)
      PROVE  tail + 1 + (CommandLength[op] - 1) <= b + Size
  <2>1. BufferOf(tail) = b
    BY <1>7, InBuffer
  <2>2. tail + CommandLength[op] <= b + Size /\ b + Size \in Nat
    BY <1>1, <2>1, FifoAssumption
  <2> QED  BY <1>2, <1>3, <2>2
<1>8. ASSUME NEW first \in Nat, NEW n \in Nat, first .. tail \subseteq Addresses,
             Chain(dpRam, listed, first, tail, missing, n, Writing)
      PROVE  Chain(dpRam', listed', first, tail + 1, CommandLength[op] - 1, n, Len(listed') + 1)
  <2>1. \A k \in 1 .. Writing - 1 : listed'[k] = listed[k]
    BY <1>2, <1>6 DEF Writing
  <2>2. Chain([dpRam EXCEPT ![tail] = WordOf(op, Writing)], listed', first, tail + 1,
              CommandLength[op] - 1, n, Writing + 1)
    BY <1>1, <1>2, <1>6, <1>8, <2>1, ChainOpcode
  <2>3. Len(listed') + 1 = Writing + 1
    BY <1>6 DEF Writing
  <2> QED  BY <1>1, <2>2, <2>3
<1>9. Len(listed') \in Len(listed) .. MaxCommands
  BY <1>1, <1>2, <1>6, FifoAssumption
<1> QED
  BY <1>1, <1>3, <1>4, <1>5, <1>6, <1>7, <1>8, <1>9, WriteHolds

\* So does writing a parameter of it.
LEMMA WriteParameterHolds ==
  ASSUME FifoInv, WriteParameter PROVE FifoInv'
<1>1. /\ missing > 0
      /\ dpRam' = [dpRam EXCEPT ![tail] = WordOf("param", Writing - 1)]
      /\ tail' = tail + 1 /\ missing' = missing - 1 /\ listed' = listed
      /\ UNCHANGED <<dpc, held, stall, dp, executed>>
  <2>1. Len(listed) = Writing - 1
    BY FifoTypes DEF Writing
  <2> QED  BY <2>1 DEF WriteParameter
<1>2. /\ dpRam \in Memory /\ tail \in Nat /\ Len(listed) \in Nat /\ Writing \in Nat \ {0}
      /\ listed \in Seq(Ops) /\ missing \in Nat \ {0} /\ missing - 1 \in Nat
  BY <1>1, FifoTypes
<1>3. tail # 0 /\ \A b \in Buffers : Within(b, tail) => tail + missing <= b + Size
  <2>1. CASE startValid
    BY <2>1, TwoListsInMemory, InBuffer
  <2>2. CASE ~startValid
    <3>1. tail # 0
      BY <1>1, <2>2, FifoTypes DEF FifoInv, OneList, Chain
    <3> QED  BY <2>2, <3>1, OneListInMemory, InBuffer
  <2> QED  BY <2>1, <2>2
<1>4. dpRam' \in Memory
  <2>1. WordOf("param", Writing - 1)
          \in [kind : Ops \cup {"param", "unwritten"}, of : 0 .. MaxCommands]
    BY <1>2, FifoAssumption DEF WordOf, Writing, FifoInv
  <2> QED  BY <1>1, <1>2, <2>1 DEF Memory
<1>5. ASSUME NEW b \in Buffers, Within(b, tail)
      PROVE  tail + 1 + (missing - 1) <= b + Size
  BY <1>2, <1>3, <1>5
<1>6. ASSUME NEW first \in Nat, NEW n \in Nat, first .. tail \subseteq Addresses,
             Chain(dpRam, listed, first, tail, missing, n, Writing)
      PROVE  Chain(dpRam', listed', first, tail + 1, missing - 1, n, Len(listed') + 1)
  <2>1. Chain([dpRam EXCEPT ![tail] = WordOf("param", Writing - 1)], listed, first, tail + 1,
              missing - 1, n, Writing)
    BY <1>2, <1>6, ChainParameter
  <2> QED  BY <1>1, <2>1 DEF Writing
<1>7. Len(listed') \in Len(listed) .. MaxCommands /\ \A k \in 1 .. Len(listed) : listed'[k] = listed[k]
  BY <1>1, <1>2, FifoAssumption DEF FifoInv
<1> QED
  BY <1>1, <1>2, <1>3, <1>4, <1>5, <1>6, <1>7, WriteHolds

\* DPC_END extends the list, or switches to the one that is latched, which goes on from the
\* number at which the drained one ended.
LEMMA WriteEndHolds ==
  ASSUME FifoInv, NEW e \in Addresses, WriteEnd(e) PROVE FifoInv'
<1>1. /\ cmd_end' = e /\ cmd_current' = Current /\ startValid' = FALSE
      /\ UNCHANGED <<cmd_start, held, stall, dp, dpRam, tail, missing, listed, executed>>
  BY DEF WriteEnd, feeder
<1>2. {cmd_start, cmd_end, cmd_current, tail, missing} \subseteq Nat
  BY FifoTypes
<1>3. FifoTypeOK'
  <2>1. cmd_current' \in Addresses \cup {0}
    BY <1>1 DEF Current, FifoInv, FifoTypeOK
  <2> QED  BY <1>1, <2>1 DEF FifoInv, FifoTypeOK
<1>4. Executing' = Executing /\ Writing' = Writing
  BY <1>1 DEF Executing, Writing
<1>5. CASE startValid
  <2>1. Drained /\ e \in cmd_start .. tail /\ Current = cmd_start
    BY <1>5 DEF WriteEnd, Current
  <2>2. PICK s \in 1 .. Writing :
          /\ Chain(dpRam, listed, cmd_current, cmd_end, 0, Executing, s)
          /\ Chain(dpRam, listed, cmd_start, tail, missing, s, Writing)
    BY <1>5 DEF FifoInv, TwoLists
  <2>3. s = Executing
    BY <2>1, <2>2 DEF Chain, Drained
  <2>4. Chain(dpRam, listed, cmd_start, tail, missing, Executing, Writing)
    BY <2>2, <2>3
  <2>5. cmd_start <= e /\ e <= tail
    BY <1>2, <2>1
  <2>6. \E b \in Buffers : Within(b, cmd_start) /\ Within(b, tail + missing)
    <3>1. cmd_start \in Buffers /\ Within(cmd_start, tail + missing)
      BY <1>5 DEF FifoInv, TwoLists
    <3>2. Within(cmd_start, cmd_start)
      BY <1>2, FifoAssumption DEF Within
    <3> QED  BY <3>1, <3>2
  <2>7. OneList'
    BY <1>1, <1>4, <2>1, <2>4, <2>5, <2>6 DEF OneList
  <2> QED  BY <1>1, <1>3, <2>7 DEF FifoInv
<1>6. CASE ~startValid
  <2>1. e \in cmd_end .. tail /\ Current = cmd_current
    BY <1>6 DEF WriteEnd, Current
  <2>2. cmd_current <= e /\ e <= tail
    BY <1>2, <1>6, <2>1 DEF FifoInv, OneList
  <2>3. OneList'
    BY <1>1, <1>4, <1>6, <2>1, <2>2 DEF FifoInv, OneList
  <2> QED  BY <1>1, <1>3, <2>3 DEF FifoInv
<1> QED  BY <1>5, <1>6

\* What is taken is the next command, whole.
LEMMA DispatchHolds ==
  ASSUME FifoInv, Dispatch PROVE FifoInv'
<1>1. /\ cmd_current < cmd_end /\ Present
      /\ cmd_current' = cmd_current + LengthHere
      /\ executed' = Append(executed, IF Whole THEN Opcode ELSE "garbled")
      /\ stall' = IF Opcode \in Ops THEN CommandStall[Opcode] ELSE 0
      /\ dp' = (dp \/ Opcode = SYNC_FULL)
      /\ UNCHANGED <<cmd_start, cmd_end, startValid, held, dpRam, tail, missing, listed>>
  BY DEF Dispatch, feeder
<1>2. /\ dpRam \in Memory
      /\ {cmd_start, cmd_end, cmd_current, tail, missing} \subseteq Nat
      /\ Len(executed) \in Nat /\ Len(listed) \in Nat
      /\ Executing \in Nat /\ Writing \in Nat \ {0}
      /\ listed \in Seq(Ops) /\ executed \in Seq(Ops \cup {"garbled"})
  BY FifoTypes
<1>3. \E to \in Nat, lacks \in Nat, m \in 1 .. Writing :
        /\ cmd_end <= to /\ cmd_current .. to - 1 \subseteq Addresses
        /\ Chain(dpRam, listed, cmd_current, to, lacks, Executing, m)
        /\ IF startValid THEN to = cmd_end /\ lacks = 0
                              /\ Chain(dpRam, listed, cmd_start, tail, missing, m, Writing)
                         ELSE to = tail /\ lacks = missing /\ m = Writing
  <2>1. CASE startValid
    <3>1. PICK s \in 1 .. Writing :
            /\ Chain(dpRam, listed, cmd_current, cmd_end, 0, Executing, s)
            /\ Chain(dpRam, listed, cmd_start, tail, missing, s, Writing)
      BY <2>1 DEF FifoInv, TwoLists
    <3>2. cmd_current .. cmd_end - 1 \subseteq Addresses
      BY <2>1, TwoListsInMemory
    <3> QED  BY <1>2, <2>1, <3>1, <3>2
  <2>2. CASE ~startValid
    <3>1. /\ Chain(dpRam, listed, cmd_current, tail, missing, Executing, Writing)
          /\ cmd_end <= tail /\ tail # 0
      BY <1>1, <1>2, <2>2 DEF FifoInv, OneList
    <3>2. cmd_current .. tail - 1 \subseteq Addresses
      BY <1>2, <2>2, <3>1, OneListInMemory
    <3>3. Writing \in 1 .. Writing
      BY <1>2
    <3> QED  BY <1>2, <2>2, <3>1, <3>2, <3>3
  <2> QED  BY <2>1, <2>2
<1>4. PICK to \in Nat, lacks \in Nat, m \in 1 .. Writing :
        /\ cmd_end <= to /\ cmd_current .. to - 1 \subseteq Addresses
        /\ Chain(dpRam, listed, cmd_current, to, lacks, Executing, m)
        /\ IF startValid THEN to = cmd_end /\ lacks = 0
                              /\ Chain(dpRam, listed, cmd_start, tail, missing, m, Writing)
                         ELSE to = tail /\ lacks = missing /\ m = Writing
  BY <1>3
<1>5. IsOpcode(dpRam[cmd_current]) /\ Opcode \in Ops /\ LengthHere = CommandLength[Opcode]
      /\ Behind(dpRam, cmd_current) = cmd_current'
  BY <1>1, <1>2, <1>4 DEF Chain, IsOpcode, Opcode, LengthHere, Behind
<1>6. LengthHere \in Nat \ {0} /\ cmd_current' <= cmd_end /\ cmd_current' \in Nat
  BY <1>1, <1>2, <1>5, FifoAssumption DEF Present
<1>7. /\ Executing \in 1 .. m - 1 /\ dpRam[cmd_current] = WordOf(listed[Executing], Executing)
      /\ \A j \in cmd_current + 1 .. cmd_current' - 1 : dpRam[j] = WordOf("param", Executing)
      /\ Chain(dpRam, listed, cmd_current', to, lacks, Executing + 1, m)
  <2>1. m \in Nat /\ cmd_current < to /\ Behind(dpRam, cmd_current) <= to
    BY <1>1, <1>2, <1>4, <1>5, <1>6
  <2>2. cmd_current \in Nat /\ cmd_current .. to - 1 \subseteq Addresses
    BY <1>2, <1>4
  <2>3. /\ Executing \in 1 .. m - 1 /\ dpRam[cmd_current] = WordOf(listed[Executing], Executing)
        /\ \A j \in cmd_current + 1 .. Behind(dpRam, cmd_current) - 1 :
             dpRam[j] = WordOf("param", Executing)
        /\ Chain(dpRam, listed, Behind(dpRam, cmd_current), to, lacks, Executing + 1, m)
    <3>1. Chain(dpRam, listed, cmd_current, to, lacks, Executing, m)
      BY <1>4
    <3>2. dpRam \in Memory /\ Executing \in Nat /\ to \in Nat /\ lacks \in Nat
      BY <1>2, <1>4
    <3> QED  BY <2>1, <2>2, <3>1, <3>2, ChainTake
  <2> QED  BY <1>5, <2>3
<1>8. Opcode = listed[Executing] /\ Whole
  <2>1. Opcode = listed[Executing] /\ dpRam[cmd_current].of = Executing
    BY <1>7 DEF Opcode, WordOf
  <2>2. ASSUME NEW k \in 1 .. LengthHere - 1
        PROVE  dpRam[cmd_current + k] = WordOf("param", dpRam[cmd_current].of)
    <3>1. cmd_current + k \in cmd_current + 1 .. cmd_current' - 1
      BY <1>1, <1>2, <1>6
    <3> QED  BY <1>7, <2>1, <3>1
  <2> QED  BY <1>5, <2>1, <2>2 DEF Whole
<1>9. /\ executed' = Append(executed, listed[Executing])
      /\ executed' \in Seq(Ops \cup {"garbled"}) /\ Len(executed') = Executing
      /\ Executing <= Len(listed)
      /\ \A i \in 1 .. Executing : executed'[i] = listed[i]
  <2>1. Executing \in 1 .. Len(listed)
    BY <1>2, <1>4, <1>7 DEF Writing
  <2>2. executed' = Append(executed, listed[Executing]) /\ listed[Executing] \in Ops
    BY <1>1, <1>2, <1>5, <1>8
  <2>3. /\ executed' \in Seq(Ops \cup {"garbled"}) /\ Len(executed') = Len(executed) + 1
        /\ \A i \in 1 .. Len(executed) : executed'[i] = executed[i]
        /\ executed'[Len(executed) + 1] = listed[Executing]
    BY <1>2, <2>2, AppendProperties
  <2>4. ASSUME NEW i \in 1 .. Executing PROVE executed'[i] = listed[i]
    <3>1. i = Executing \/ i \in 1 .. Len(executed)
      BY <1>2 DEF Executing
    <3> QED  BY <2>3, <3>1 DEF FifoInv, Executing
  <2> QED  BY <1>2, <2>1, <2>2, <2>3, <2>4 DEF Executing
<1>10. Executing' = Executing + 1 /\ Writing' = Writing
  BY <1>1, <1>9 DEF Executing, Writing
<1>11. \E b \in Buffers : Within(b, cmd_current) /\ Within(b, cmd_end) /\ Within(b, cmd_current')
  <2>1. \E b \in Buffers : Within(b, cmd_current) /\ Within(b, cmd_end)
    <3>1. CASE startValid
      BY <1>1, <1>2, <3>1 DEF FifoInv, TwoLists, Drained
    <3>2. CASE ~startValid
      <4>1. tail # 0
        BY <1>1, <1>2, <3>2 DEF FifoInv, OneList
      <4> QED  BY <3>2, <4>1, OneListInMemory
    <3> QED  BY <3>1, <3>2
  <2>2. cmd_current' \in cmd_current .. cmd_end
    BY <1>1, <1>2, <1>6
  <2> QED  BY <1>2, <2>1, <2>2, BetweenInBuffer
<1>12. FifoTypeOK'
  <2>1. cmd_current' \in Addresses
    BY <1>11, InBuffer
  <2>2. stall' \in Nat /\ dp' \in BOOLEAN
    BY <1>1, <1>5, FifoAssumption DEF FifoInv, FifoTypeOK
  <2> QED  BY <1>1, <1>9, <2>1, <2>2 DEF FifoInv, FifoTypeOK
<1>13. CASE startValid
  <2>1. Drained' \/ \E b \in Buffers \ {cmd_start} : Within(b, cmd_current') /\ Within(b, cmd_end)
    <3>1. PICK b \in Buffers \ {cmd_start} : Within(b, cmd_current) /\ Within(b, cmd_end)
      BY <1>1, <1>2, <1>13 DEF FifoInv, TwoLists, Drained
    <3>2. cmd_current' \in cmd_current .. cmd_end
      BY <1>1, <1>2, <1>6
    <3>3. Within(b, cmd_current')
      BY <1>2, <3>1, <3>2, BetweenInBuffer
    <3> QED  BY <3>1, <3>3
  <2>2. cmd_start \in Buffers /\ Within(cmd_start, tail + missing)
    BY <1>13 DEF FifoInv, TwoLists
  <2>3. TwoLists'
    BY <1>1, <1>4, <1>7, <1>10, <1>13, <2>1, <2>2 DEF TwoLists
  <2> QED  BY <1>1, <1>9, <1>12, <1>13, <2>3 DEF FifoInv
<1>14. CASE ~startValid
  <2>1. \E b \in Buffers : Within(b, cmd_current') /\ Within(b, tail + missing)
    <3>1. PICK b \in Buffers : Within(b, cmd_current) /\ Within(b, cmd_end) /\ Within(b, cmd_current')
      BY <1>11
    <3>2. tail # 0
      BY <1>1, <1>2, <1>14 DEF FifoInv, OneList
    <3>3. PICK c \in Buffers : Within(c, cmd_current) /\ Within(c, tail + missing)
      BY <1>14, <3>2 DEF FifoInv, OneList
    <3> QED  BY <3>1, <3>3, InBuffer
  <2>2. cmd_end <= tail
    BY <1>14 DEF FifoInv, OneList
  <2>3. OneList'
    BY <1>1, <1>4, <1>6, <1>7, <1>10, <1>14, <2>1, <2>2 DEF OneList
  <2> QED  BY <1>1, <1>9, <1>12, <1>14, <2>3 DEF FifoInv
<1> QED  BY <1>13, <1>14

\* A step that moves neither the registers nor the lists.
LEMMA FifoUnmoved ==
  ASSUME FifoInv, FifoTypeOK', UNCHANGED <<dpc, feeder, executed>> PROVE FifoInv'
BY DEF FifoInv, OneList, TwoLists, dpc, feeder, Drained, Executing, Writing

\* Every write, register access and tick keeps the invariant of the FIFO.
LEMMA FifoStepHolds ==
  ASSUME FifoInv, [FifoNext]_fifoVars PROVE FifoInv'
<1>1. ASSUME NEW b \in Buffers, NewList(b) PROVE FifoInv'
  BY <1>1, NewListHolds
<1>2. ASSUME NEW op \in Ops, WriteOpcode(op) PROVE FifoInv'
  BY <1>2, WriteOpcodeHolds
<1>3. CASE WriteParameter
  BY <1>3, WriteParameterHolds
<1>4. ASSUME NEW e \in Addresses, WriteEnd(e) PROVE FifoInv'
  BY <1>4, WriteEndHolds
<1>5. ASSUME NEW h \in BOOLEAN, Hold(h) PROVE FifoInv'
  <2>1. FifoTypeOK'
    BY <1>5 DEF Hold, FifoInv, FifoTypeOK, dpc, feeder
  <2> QED  BY <1>5, <2>1, FifoUnmoved DEF Hold
<1>6. CASE AcknowledgeDp
  <2>1. FifoTypeOK'
    BY <1>6 DEF AcknowledgeDp, FifoInv, FifoTypeOK, dpc, feeder
  <2> QED  BY <1>6, <2>1, FifoUnmoved DEF AcknowledgeDp
<1>7. CASE Stalled
  <2>1. FifoTypeOK'
    BY <1>7 DEF Stalled, FifoInv, FifoTypeOK, dpc, feeder
  <2> QED  BY <1>7, <2>1, FifoUnmoved DEF Stalled
<1>8. CASE Dispatch
  BY <1>8, DispatchHolds
<1>9. CASE UNCHANGED fifoVars
  <2>1. FifoTypeOK'
    BY <1>9 DEF fifoVars, FifoInv, FifoTypeOK, dpc, feeder
  <2> QED  BY <1>9, <2>1, FifoUnmoved DEF fifoVars
<1> QED
  BY <1>1, <1>2, <1>3, <1>4, <1>5, <1>6, <1>7, <1>8, <1>9 DEF FifoNext, FifoTick

\* Every command is executed once, whole and in the order written (Rdp::dpc_write,
\* tick_with_bus), whatever its length, wherever DPC_END stops and whenever the next list
\* is latched.
THEOREM ExecutedCorrect == FifoSpec => []InOrderOnce
<1>1. FifoInit => FifoInv
  BY FifoInitHolds
<1>2. FifoInv /\ [FifoNext]_fifoVars => FifoInv'
  BY FifoStepHolds
<1>3. FifoInv => InOrderOnce
  <2> SUFFICES ASSUME FifoInv PROVE InOrderOnce
    OBVIOUS
  <2>1. /\ Len(executed) \in Nat /\ Len(listed) \in Nat
        /\ listed \in Seq(Ops) /\ executed \in Seq(Ops \cup {"garbled"})
    BY FifoTypes
  <2>2. Len(executed) <= Len(listed) /\ \A i \in 1 .. Len(executed) : executed[i] = listed[i]
    BY DEF FifoInv
  <2>3. SubSeq(executed, 1, Len(executed)) = SubSeq(listed, 1, Len(executed))
    BY <2>1, <2>2
  <2> QED  BY <2>2, <2>3 DEF InOrderOnce, IsPrefix
<1> QED  BY <1>1, <1>2, <1>3, PTL DEF FifoSpec
=============================================================================
