-------------------------- MODULE SchedulersProofs --------------------------
(***************************************************************************)
(* Theorems of the three schedulers, for every phase alignment, target and *)
(* length of run.                                                          *)
(*                                                                         *)
(* Lockstep: its type invariant, the ADR 0006 residues, and that no run    *)
(* overshoots.                                                             *)
(*                                                                         *)
(* FastPath: ADR 0011's bailout invariant, that every step of the replayed *)
(* block is the step the accurate scheduler takes there; and ADR 0012's    *)
(* completion witness.                                                     *)
(*                                                                         *)
(* ExecPath (ADR 0013): that it steps every RCP edge once and in place,    *)
(* overshoots by less than an instruction, and makes no interrupt wait for *)
(* longer than one idle pair or one span, whatever instructions cost.      *)
(***************************************************************************)
EXTENDS FastPath, ExecPath, Integers, TLAPS

\* The next CPU edge is the next: nothing is due in between, and it is one CPU
\* cycle further on.
LEMMA NextCpuEdge ==
  ASSUME NEW t \in Nat, NEW p \in 0 .. CPU_DIVIDER - 1
  PROVE  LET n == NextEdgeAfter(t, p, CPU_DIVIDER)
         IN  /\ n \in Nat
             /\ t < n
             /\ \A u \in Nat : t <= u /\ u < n =>
                   (u + p) \div CPU_DIVIDER = (t + p) \div CPU_DIVIDER
  BY DEF NextEdgeAfter, CPU_DIVIDER

\* The same for the RCP.
LEMMA NextRcpEdge ==
  ASSUME NEW t \in Nat, NEW p \in 0 .. RCP_DIVIDER - 1
  PROVE  LET n == NextEdgeAfter(t, p, RCP_DIVIDER)
         IN  /\ n \in Nat
             /\ t < n
             /\ \A u \in Nat : t <= u /\ u < n =>
                   (u + p) \div RCP_DIVIDER = (t + p) \div RCP_DIVIDER
  BY DEF NextEdgeAfter, RCP_DIVIDER

\* A domain's cycle count moves at its edges, by one, and only there.
LEMMA CyclesMoveAtEdges ==
  ASSUME NEW t \in Nat \ {0}, NEW ph \in Phases
  PROVE  /\ CpuCycles(t, ph) =
              CpuCycles(t - 1, ph) + (IF IsEdge(t, ph.cpu, CPU_DIVIDER) THEN 1 ELSE 0)
         /\ RcpCycles(t, ph) =
              RcpCycles(t - 1, ph) + (IF IsEdge(t, ph.rcp, RCP_DIVIDER) THEN 1 ELSE 0)
  BY DEF CpuCycles, RcpCycles, IsEdge, CPU_DIVIDER, RCP_DIVIDER, Phases

\* Power-on is at cycle zero of both domains, whatever the phases.
LEMMA CyclesAtZero ==
  ASSUME NEW ph \in Phases
  PROVE  CpuCycles(0, ph) = 0 /\ RcpCycles(0, ph) = 0
  BY DEF CpuCycles, RcpCycles, CPU_DIVIDER, RCP_DIVIDER, Phases

\* No domain has an edge strictly between a tick and System::next_edge.
LEMMA NothingBeforeNextEdge ==
  ASSUME NEW t \in Nat, NEW ph \in Phases
  PROVE  /\ NextEdge(t, ph) \in Nat
         /\ t < NextEdge(t, ph)
         /\ \A u \in Nat : t <= u /\ u < NextEdge(t, ph) =>
               /\ CpuCycles(u, ph) = CpuCycles(t, ph)
               /\ RcpCycles(u, ph) = RcpCycles(t, ph)
<1>1. ph.cpu \in 0 .. CPU_DIVIDER - 1 /\ ph.rcp \in 0 .. RCP_DIVIDER - 1
  BY DEF Phases
<1> DEFINE c == NextEdgeAfter(t, ph.cpu, CPU_DIVIDER)
           r == NextEdgeAfter(t, ph.rcp, RCP_DIVIDER)
<1>2. /\ c \in Nat /\ t < c
      /\ \A u \in Nat : t <= u /\ u < c => CpuCycles(u, ph) = CpuCycles(t, ph)
  BY <1>1, NextCpuEdge DEF CpuCycles
<1>3. /\ r \in Nat /\ t < r
      /\ \A u \in Nat : t <= u /\ u < r => RcpCycles(u, ph) = RcpCycles(t, ph)
  BY <1>1, NextRcpEdge DEF RcpCycles
<1>4. NextEdge(t, ph) = IF c < r THEN c ELSE r
  BY DEF NextEdge
<1> HIDE DEF c, r
<1> QED
  BY <1>2, <1>3, <1>4

-----------------------------------------------------------------------------
\* Every reachable state of the accurate scheduler is well typed: the position
\* never leaves the naturals and the phases are what power-on drew.
THEOREM TypeCorrect == Spec => []TypeOK
<1>1. ASSUME Init PROVE TypeOK
  BY <1>1 DEF Init, TypeOK, Seeded, Phases
<1>2. ASSUME TypeOK, [Next]_vars PROVE TypeOK'
  <2> USE <1>2
  <2>1. ASSUME NEW t \in 0 .. MaxTick, Call(t) PROVE TypeOK'
    BY <2>1 DEF Call, TypeOK
  <2>2. CASE Advance
    <3>1. master' \in Nat
      BY <2>2, NothingBeforeNextEdge DEF Advance, TypeOK
    <3> QED  BY <3>1, <2>2 DEF Advance, TypeOK
  <2>3. CASE StepCpu  BY <2>3 DEF StepCpu, TypeOK
  <2>4. CASE StepRcp  BY <2>4 DEF StepRcp, TypeOK
  <2>5. CASE Land     BY <2>5 DEF Land, Landed, TypeOK
  <2>6. CASE Reset    BY <2>6 DEF Reset, TypeOK
  <2>7. CASE UNCHANGED vars  BY <2>7 DEF vars, TypeOK
  <2> QED
    BY <2>1, <2>2, <2>3, <2>4, <2>5, <2>6, <2>7 DEF Next, Run
<1> QED  BY <1>1, <1>2, PTL DEF Spec

\* The tick whose CPU work is done: in "cpu" the CPU is still to be stepped.
CpuExecuted == IF pc = "cpu" THEN master - 1 ELSE master

\* The inductive form of the residues: the constant part at tick zero is gone,
\* and step_domains is never entered at tick zero.
WorkInv ==
  /\ TypeOK
  /\ pc \in {"cpu", "rcp"} => master # 0
  /\ rcpSteps = RcpCycles(Executed, phases)
  /\ ~nmi => cpuSteps = CpuCycles(CpuExecuted, phases)

\* ADR 0006: however the timeline is cut into calls, and whether or not the
\* boot freeze has stopped the CPU, the RCP has executed exactly the edges the
\* position implies, and so has a CPU that is not frozen.
THEOREM ResidueInvariants == Spec => []Residues
<1>1. ASSUME Init PROVE WorkInv
  <2> USE <1>1
  <2>1. TypeOK  BY DEF Init, TypeOK, Seeded, Phases
  <2>2. CpuCycles(0, phases) = 0 /\ RcpCycles(0, phases) = 0
    BY <2>1, CyclesAtZero DEF TypeOK
  <2> QED
    BY <2>1, <2>2 DEF Init, WorkInv, Executed, CpuExecuted
<1>2. ASSUME TypeOK', WorkInv, [Next]_vars PROVE WorkInv'
  <2> USE <1>2
  <2>0. TypeOK  BY DEF WorkInv
  <2> USE <2>0
  <2>1. ASSUME NEW t \in 0 .. MaxTick, Call(t) PROVE WorkInv'
    BY <2>1 DEF Call, WorkInv, Executed, CpuExecuted
  <2>2. CASE Advance
    <3> DEFINE n == NextEdge(master, phases)
    <3>1. n \in Nat /\ master < n /\ n - 1 \in Nat /\ master <= n - 1 /\ n - 1 < n
      BY NothingBeforeNextEdge DEF TypeOK
    <3>2. /\ CpuCycles(n - 1, phases) = CpuCycles(master, phases)
          /\ RcpCycles(n - 1, phases) = RcpCycles(master, phases)
      BY <3>1, NothingBeforeNextEdge DEF TypeOK
    <3>3. pc = "next" /\ pc' = "cpu" /\ master' = n
          /\ UNCHANGED <<phases, nmi, cpuSteps, rcpSteps>>
      BY <2>2 DEF Advance
    <3> HIDE DEF n
    <3> QED
      BY <3>1, <3>2, <3>3 DEF WorkInv, Executed, CpuExecuted
  <2>3. CASE StepCpu
    <3>1. CpuCycles(master, phases) =
            CpuCycles(master - 1, phases) + (IF CpuDue THEN 1 ELSE 0)
      BY <2>3, CyclesMoveAtEdges DEF StepCpu, WorkInv, TypeOK, CpuDue
    <3>2. CpuCycles(master - 1, phases) \in Int
      BY DEF CpuCycles, TypeOK, Phases, CPU_DIVIDER
    <3> QED
      BY <2>3, <3>1, <3>2 DEF StepCpu, CpuRuns, WorkInv, Executed, CpuExecuted
  <2>4. CASE StepRcp
    <3>1. RcpCycles(master, phases) =
            RcpCycles(master - 1, phases) + (IF RcpDue THEN 1 ELSE 0)
      BY <2>4, CyclesMoveAtEdges DEF StepRcp, WorkInv, TypeOK, RcpDue
    <3> QED
      BY <2>4, <3>1 DEF StepRcp, WorkInv, Executed, CpuExecuted
  <2>5. CASE Land
    <3>1. /\ master <= master' /\ master' \in Nat
          /\ master' < NextEdge(master, phases)
      BY <2>5, NothingBeforeNextEdge
         DEF Land, Leave, MoreEdges, Landed, TypeOK
    <3>2. /\ CpuCycles(master', phases) = CpuCycles(master, phases)
          /\ RcpCycles(master', phases) = RcpCycles(master, phases)
      BY <3>1, NothingBeforeNextEdge DEF TypeOK
    <3>3. pc = "next" /\ pc' = "idle"
          /\ UNCHANGED <<phases, nmi, cpuSteps, rcpSteps>>
      BY <2>5 DEF Land
    <3> QED
      BY <3>2, <3>3 DEF WorkInv, Executed, CpuExecuted
  <2>6. CASE Reset
    <3>1. CpuCycles(0, phases) = 0 /\ RcpCycles(0, phases) = 0
      BY CyclesAtZero DEF TypeOK
    <3> QED
      BY <2>6, <3>1 DEF Reset, WorkInv, Executed, CpuExecuted
  <2>7. CASE UNCHANGED vars
    BY <2>7 DEF vars, WorkInv, Executed, CpuExecuted
  <2> QED
    BY <2>1, <2>2, <2>3, <2>4, <2>5, <2>6, <2>7 DEF Next, Run
<1>3. WorkInv => Residues
  <2> SUFFICES ASSUME WorkInv PROVE RcpResidue /\ CpuResidue
    BY DEF Residues
  <2>1. CpuCycles(0, phases) = 0 /\ RcpCycles(0, phases) = 0
    BY CyclesAtZero DEF WorkInv, TypeOK
  <2>2. rcpSteps \in Nat /\ cpuSteps \in Nat
    BY DEF WorkInv, TypeOK
  <2> QED
    BY <2>1, <2>2
       DEF WorkInv, RcpResidue, CpuResidue, RcpEdgesIn, CpuEdgesIn, CpuExecuted
<1> QED  BY <1>1, <1>2, <1>3, TypeCorrect, PTL DEF Spec

-----------------------------------------------------------------------------
\* No step of a run takes the position past the run's target, and a run ends
\* exactly there, or does not move at all when its target was behind.
THEOREM NeverOvershoots == Spec => NoOvershoot
<1> DEFINE Step ==
      /\ pc # "idle" => master' <= master \/ master' <= target
      /\ pc = "next" /\ pc' = "idle" =>
           (IF target > master THEN master' = target ELSE master' = master)
<1>1. ASSUME TypeOK, [Next]_vars PROVE [Step]_vars
  <2> USE <1>1 DEF TypeOK
  <2>1. ASSUME NEW t \in 0 .. MaxTick, Call(t) PROVE Step
    BY <2>1 DEF Call
  <2>2. CASE Advance  BY <2>2 DEF Advance, MoreEdges
  <2>3. CASE StepCpu  BY <2>3 DEF StepCpu
  <2>4. CASE StepRcp  BY <2>4 DEF StepRcp
  <2>5. CASE Land     BY <2>5 DEF Land, Landed
  <2>6. CASE Reset    BY <2>6 DEF Reset
  <2> QED
    BY <2>1, <2>2, <2>3, <2>4, <2>5, <2>6 DEF Next, Run
<1> QED  BY <1>1, TypeCorrect, PTL DEF Spec, NoOvershoot

-----------------------------------------------------------------------------
\* A domain is due at a tick.
Due(tick, ph) == IsEdge(tick, ph.cpu, CPU_DIVIDER) \/ IsEdge(tick, ph.rcp, RCP_DIVIDER)

\* The next edge of a domain is an edge, and the first one.
LEMMA FirstCpuEdge ==
  ASSUME NEW t \in Nat, NEW p \in 0 .. CPU_DIVIDER - 1
  PROVE  LET n == NextEdgeAfter(t, p, CPU_DIVIDER)
         IN  /\ n \in Nat /\ t < n /\ IsEdge(n, p, CPU_DIVIDER)
             /\ \A u \in Nat : t < u /\ u < n => ~IsEdge(u, p, CPU_DIVIDER)
  BY DEF NextEdgeAfter, IsEdge, CPU_DIVIDER

\* next_edge_after gives the first RCP edge after a tick.
LEMMA FirstRcpEdge ==
  ASSUME NEW t \in Nat, NEW p \in 0 .. RCP_DIVIDER - 1
  PROVE  LET n == NextEdgeAfter(t, p, RCP_DIVIDER)
         IN  /\ n \in Nat /\ t < n /\ IsEdge(n, p, RCP_DIVIDER)
             /\ \A u \in Nat : t < u /\ u < n => ~IsEdge(u, p, RCP_DIVIDER)
  BY DEF NextEdgeAfter, IsEdge, RCP_DIVIDER

\* System::next_edge is the first tick at which a domain is due.
LEMMA NextEdgeIsFirst ==
  ASSUME NEW t \in Nat, NEW ph \in Phases, NEW n \in Nat, t < n, Due(n, ph),
         \A u \in Nat : t < u /\ u < n => ~Due(u, ph)
  PROVE  NextEdge(t, ph) = n
<1>1. ph.cpu \in 0 .. CPU_DIVIDER - 1 /\ ph.rcp \in 0 .. RCP_DIVIDER - 1
  BY DEF Phases
<1> DEFINE c == NextEdgeAfter(t, ph.cpu, CPU_DIVIDER)
           r == NextEdgeAfter(t, ph.rcp, RCP_DIVIDER)
<1>2. /\ c \in Nat /\ t < c /\ IsEdge(c, ph.cpu, CPU_DIVIDER)
      /\ \A u \in Nat : t < u /\ u < c => ~IsEdge(u, ph.cpu, CPU_DIVIDER)
  BY <1>1, FirstCpuEdge
<1>3. /\ r \in Nat /\ t < r /\ IsEdge(r, ph.rcp, RCP_DIVIDER)
      /\ \A u \in Nat : t < u /\ u < r => ~IsEdge(u, ph.rcp, RCP_DIVIDER)
  BY <1>1, FirstRcpEdge
<1>4. NextEdge(t, ph) = IF c < r THEN c ELSE r
  BY DEF NextEdge
<1> HIDE DEF c, r
<1>5. ~(c < n) /\ ~(r < n)
  BY <1>2, <1>3 DEF Due
<1>6. c <= n \/ r <= n
  BY <1>2, <1>3 DEF Due
<1> QED  BY <1>2, <1>3, <1>4, <1>5, <1>6

\* What is due depends on the tick modulo the period only.
LEMMA Periodic ==
  ASSUME NEW t \in Nat, NEW ph \in Phases
  PROVE  /\ IsEdge(t + EDGE_PERIOD, ph.cpu, CPU_DIVIDER) <=> IsEdge(t, ph.cpu, CPU_DIVIDER)
         /\ IsEdge(t + EDGE_PERIOD, ph.rcp, RCP_DIVIDER) <=> IsEdge(t, ph.rcp, RCP_DIVIDER)
<1>1. ph.cpu \in Nat /\ ph.rcp \in Nat
  BY DEF Phases, CPU_DIVIDER, RCP_DIVIDER
<1>2. \A n \in Nat : (n + 6) % 2 = n % 2 /\ (n + 6) % 3 = n % 3
  OBVIOUS
<1>3. /\ t + ph.cpu \in Nat /\ t + 6 + ph.cpu = (t + ph.cpu) + 6
      /\ t + ph.rcp \in Nat /\ t + 6 + ph.rcp = (t + ph.rcp) + 6
  BY <1>1
<1> QED  BY <1>2, <1>3 DEF IsEdge, EDGE_PERIOD, CPU_DIVIDER, RCP_DIVIDER

-----------------------------------------------------------------------------
\* The pattern is what is due in the period that starts at base.
PatternInv ==
  \A o \in Offsets :
    /\ pattern[o].cpu <=> IsEdge(base + o, phases.cpu, CPU_DIVIDER)
    /\ pattern[o].rcp <=> IsEdge(base + o, phases.rcp, RCP_DIVIDER)

\* The block runs from the call's start in whole periods; between the position and the
\* slot looked at next nothing is due.
BlockInv ==
  /\ PatternInv
  /\ base <= target /\ (slot > 1 => PeriodFits)
  /\ base = start + EDGE_PERIOD * report.workUnits
  /\ start < target
  /\ pc = "next" =>
       /\ master < base + slot
       /\ \A u \in Nat : master < u /\ u < base + slot => ~Due(u, phases)
  /\ pc \in {"cpu", "rcp"} => slot \in Offsets /\ master = base + slot /\ PeriodFits

\* The report of a call that has left the block.
ReportInv ==
  target > start =>
    /\ report.workUnits = (target - start) \div EDGE_PERIOD
    /\ report.bailed <=> (target - start) % EDGE_PERIOD # 0

FastInv ==
  /\ FastTypeOK
  /\ pc = "idle" => mode = "tail"
  /\ mode = "block" => BlockInv
  /\ mode = "tail" /\ pc # "idle" => ReportInv

\* The fast scheduler starts between calls.
LEMMA InitFast ==
  ASSUME FastInit PROVE FastInv
<1>1. NoPattern \in [Offsets -> [cpu : BOOLEAN, rcp : BOOLEAN]]
      /\ NoReport \in [workUnits : Nat, bailed : BOOLEAN]
  BY DEF NoPattern, NoReport
<1>2. TypeOK /\ pc = "idle"
  BY DEF FastInit, Init, Seeded, TypeOK
<1>3. FastTypeOK
  BY <1>1, <1>2 DEF FastInit, FastTypeOK, Offsets, EDGE_PERIOD
<1> QED  BY <1>2, <1>3 DEF FastInit, FastInv

\* The next edge is a tick.
LEMMA NextEdgeNat ==
  ASSUME NEW t \in Nat, NEW ph \in Phases
  PROVE  NextEdge(t, ph) \in Nat
<1>1. ph.cpu \in 0 .. CPU_DIVIDER - 1 /\ ph.rcp \in 0 .. RCP_DIVIDER - 1
  BY DEF Phases
<1> QED  BY <1>1, FirstCpuEdge, FirstRcpEdge DEF NextEdge

\* A call starts a block, or goes to run_until with nothing to report.
LEMMA CallFast ==
  ASSUME FastInv, NEW t \in 0 .. MaxTick, FastCall(t) \/ AccurateCall(t) PROVE FastInv'
<1>1. /\ report' = NoReport /\ slot' \in {1, slot}
      /\ pc' = "next" /\ target' = t
      /\ UNCHANGED <<master, phases, nmi, cpuSteps, rcpSteps>>
  BY DEF FastCall, AccurateCall, Call
<1>2. /\ master \in Nat /\ phases \in Phases /\ t \in Nat /\ TypeOK /\ FastTypeOK
      /\ 1 \in Offsets
  BY DEF FastInv, FastTypeOK, TypeOK, Offsets, EDGE_PERIOD
<1>3. TypeOK' /\ slot' \in Offsets \cup {EDGE_PERIOD + 1}
      /\ report' \in [workUnits : Nat, bailed : BOOLEAN]
  BY <1>1, <1>2 DEF FastTypeOK, TypeOK, NoReport
<1>4. CASE AccurateCall(t)
  <2>1. mode' = "tail" /\ start' = t /\ UNCHANGED <<pattern, base>>
    BY <1>4 DEF AccurateCall
  <2>2. FastTypeOK'
    BY <1>2, <1>3, <2>1 DEF FastTypeOK
  <2> QED  BY <1>1, <1>2, <2>1, <2>2 DEF FastInv, ReportInv
<1>5. CASE FastCall(t)
  <2>1. /\ mode' = "block" /\ t > master /\ slot' = 1
        /\ pattern' = Pattern(master) /\ base' = master /\ start' = master
    BY <1>5 DEF FastCall
  <2>2. Pattern(master) \in [Offsets -> [cpu : BOOLEAN, rcp : BOOLEAN]]
    BY DEF Pattern, IsEdge
  <2>3. FastTypeOK'
    BY <1>2, <1>3, <2>1, <2>2 DEF FastTypeOK
  <2>4. PatternInv'
    BY <1>1, <2>1 DEF PatternInv, Pattern, Offsets
  <2>5. BlockInv'
    BY <1>1, <1>2, <2>1, <2>4 DEF BlockInv, NoReport, EDGE_PERIOD
  <2> QED  BY <1>1, <2>1, <2>3, <2>5 DEF FastInv
<1> QED  BY <1>4, <1>5

\* The block's own steps.
LEMMA BlockFast ==
  ASSUME FastInv, BlockEdge \/ BlockSkip \/ NextBlock \/ Tail PROVE FastInv'
<1>1. /\ FastTypeOK /\ BlockInv /\ mode = "block" /\ pc = "next"
      /\ master \in Nat /\ phases \in Phases /\ base \in Nat /\ target \in Nat
      /\ slot \in 1 .. EDGE_PERIOD + 1 /\ start \in Nat /\ report.workUnits \in Nat
  BY DEF FastInv, BlockEdge, BlockSkip, NextBlock, Tail, FastTypeOK, TypeOK,
         Offsets, EDGE_PERIOD
<1>2. CASE BlockEdge
  <2>1. FastTypeOK'
    BY <1>1, <1>2 DEF BlockEdge, FastTypeOK, TypeOK, Offsets
  <2>2. BlockInv'
    BY <1>1, <1>2 DEF BlockEdge, BlockInv, PatternInv, PeriodFits
  <2> QED  BY <1>1, <1>2, <2>1, <2>2 DEF BlockEdge, FastInv
<1>3. CASE BlockSkip
  <2>1. FastTypeOK'
    BY <1>1, <1>3 DEF BlockSkip, vars, FastTypeOK, TypeOK, Offsets, EDGE_PERIOD
  <2>2. slot' = slot + 1 /\ slot \in Offsets /\ PeriodFits /\ ~Due(base + slot, phases)
        /\ UNCHANGED <<vars, mode, pattern, base, report, start>>
    BY <1>1, <1>3 DEF BlockSkip, BlockInv, PatternInv, Due
  <2>3. \A u \in Nat : master < u /\ u < base + slot + 1 => ~Due(u, phases)
    BY <1>1, <2>2 DEF BlockInv
  <2>4. BlockInv'
    BY <1>1, <2>2, <2>3 DEF BlockInv, PatternInv, PeriodFits, vars, Offsets
  <2> QED  BY <1>1, <2>1, <2>2, <2>4 DEF FastInv, vars
<1>4. CASE NextBlock
  <2>1. /\ slot = EDGE_PERIOD + 1 /\ slot' = 1 /\ base' = base + EDGE_PERIOD
        /\ report' = [report EXCEPT !.workUnits = @ + 1]
        /\ UNCHANGED <<vars, mode, pattern, start>>
    BY <1>4 DEF NextBlock
  <2>2. report \in [workUnits : Nat, bailed : BOOLEAN]
    BY <1>1 DEF FastTypeOK
  <2>3. report'.workUnits = report.workUnits + 1 /\ report' \in [workUnits : Nat, bailed : BOOLEAN]
    BY <2>1, <2>2
  <2>4. FastTypeOK'
    BY <1>1, <2>1, <2>3 DEF vars, FastTypeOK, TypeOK, Offsets, EDGE_PERIOD
  <2>5. PatternInv'
    <3> SUFFICES ASSUME NEW o \in Offsets
                 PROVE  /\ pattern[o].cpu <=> IsEdge(base' + o, phases.cpu, CPU_DIVIDER)
                        /\ pattern[o].rcp <=> IsEdge(base' + o, phases.rcp, RCP_DIVIDER)
      BY <2>1 DEF PatternInv, vars
    <3>1. base + o \in Nat /\ base' + o = base + o + EDGE_PERIOD
      BY <1>1, <2>1 DEF Offsets, EDGE_PERIOD
    <3> QED  BY <1>1, <3>1, Periodic DEF BlockInv, PatternInv
  <2>6. base + EDGE_PERIOD <= target
    BY <1>1, <2>1 DEF BlockInv, PeriodFits, EDGE_PERIOD
  <2>7. base' = start + EDGE_PERIOD * report'.workUnits
    BY <1>1, <2>1, <2>3 DEF BlockInv, EDGE_PERIOD
  <2>8. base' + slot' = base + slot
    BY <1>1, <2>1 DEF EDGE_PERIOD
  <2>9. BlockInv'
    BY <1>1, <2>1, <2>5, <2>6, <2>7, <2>8 DEF BlockInv, vars
  <2> QED  BY <1>1, <2>1, <2>4, <2>9 DEF FastInv, vars
<1>5. CASE Tail
  <2>1. /\ slot = 1 /\ ~PeriodFits /\ mode' = "tail"
        /\ report' = [report EXCEPT !.bailed = Bails]
        /\ pattern' = NoPattern /\ base' = 0
        /\ UNCHANGED <<vars, slot, start>>
    BY <1>5 DEF Tail
  <2>2. report \in [workUnits : Nat, bailed : BOOLEAN]
    BY <1>1 DEF FastTypeOK
  <2>3. /\ report'.workUnits = report.workUnits /\ report'.bailed = Bails
        /\ report' \in [workUnits : Nat, bailed : BOOLEAN]
    <3>1. Bails \in BOOLEAN
      BY DEF Bails
    <3> QED  BY <2>1, <2>2, <3>1
  <2>4. FastTypeOK'
    <3>1. NoPattern \in [Offsets -> [cpu : BOOLEAN, rcp : BOOLEAN]]
      BY DEF NoPattern
    <3> QED  BY <1>1, <2>1, <2>3, <3>1 DEF vars, FastTypeOK, TypeOK
  <2>5. /\ base = start + EDGE_PERIOD * report.workUnits
        /\ base <= target /\ target < base + EDGE_PERIOD
    BY <1>1, <2>1 DEF BlockInv, PeriodFits, EDGE_PERIOD
  <2>6. /\ report.workUnits = (target - start) \div EDGE_PERIOD
        /\ (target - start) % EDGE_PERIOD = target - base
    <3> DEFINE n == report.workUnits
               r == target - base
    <3>1. n \in Nat /\ r \in 0 .. 5 /\ target - start = 6 * n + r
      BY <1>1, <2>5 DEF EDGE_PERIOD
    <3> HIDE DEF n, r
    <3>2. (6 * n + r) \div 6 = n /\ (6 * n + r) % 6 = r
      BY <3>1
    <3> QED  BY <3>1, <3>2 DEF n, r, EDGE_PERIOD
  <2>7. ReportInv'
    BY <1>1, <2>1, <2>3, <2>5, <2>6 DEF ReportInv, Bails, vars
  <2> QED  BY <1>1, <2>1, <2>4, <2>7 DEF FastInv, vars
<1> QED  BY <1>2, <1>3, <1>4, <1>5

\* step_domains in a block.
LEMMA DomainsFast ==
  ASSUME FastInv, BlockCpu \/ BlockRcp PROVE FastInv'
<1>1. /\ FastTypeOK /\ BlockInv /\ mode = "block" /\ pc \in {"cpu", "rcp"}
      /\ slot \in Offsets /\ master = base + slot /\ PeriodFits
      /\ UNCHANGED <<master, phases, target, mode, pattern, base, report, start>>
  BY DEF FastInv, BlockInv, BlockCpu, BlockRcp
<1>2. master \in Nat /\ base \in Nat /\ slot \in Nat
  BY <1>1 DEF FastTypeOK, TypeOK, Offsets
<1>3. CASE BlockCpu
  <2>1. pc' = "rcp" /\ slot' = slot
    BY <1>3 DEF BlockCpu
  <2>2. FastTypeOK'
    BY <1>1, <1>3 DEF BlockCpu, FastTypeOK, TypeOK
  <2> QED  BY <1>1, <2>1, <2>2 DEF FastInv, BlockInv, PatternInv, PeriodFits
<1>4. CASE BlockRcp
  <2>1. pc' = "next" /\ slot' = slot + 1
    BY <1>4 DEF BlockRcp
  <2>2. slot' \in Offsets \cup {EDGE_PERIOD + 1}
    BY <1>1, <2>1 DEF Offsets, EDGE_PERIOD
  <2>3. FastTypeOK'
    BY <1>1, <1>4, <2>2 DEF BlockRcp, FastTypeOK, TypeOK
  <2>4. BlockInv'
    BY <1>1, <1>2, <2>1 DEF BlockInv, PatternInv, PeriodFits
  <2> QED  BY <1>1, <2>1, <2>3, <2>4 DEF FastInv
<1> QED  BY <1>3, <1>4

\* run_until's steps, which a call that has left the block takes, and a reset.
LEMMA TailFast ==
  ASSUME FastInv, Accurate \/ FastReset PROVE FastInv'
<1>1. FastTypeOK /\ TypeOK /\ phases \in Phases /\ master \in Nat /\ mode = "tail"
      /\ UNCHANGED <<phases, target, mode, pattern, base, slot, report, start>>
  BY DEF FastInv, FastTypeOK, TypeOK, Accurate, FastReset, Run, Advance, StepCpu, StepRcp,
         Land, Reset
<1>2. TypeOK'
  <2>1. CASE Advance
    BY <1>1, <2>1, NextEdgeNat DEF Advance, TypeOK
  <2>2. CASE StepCpu
    BY <1>1, <2>2 DEF StepCpu, TypeOK
  <2>3. CASE StepRcp
    BY <1>1, <2>3 DEF StepRcp, TypeOK
  <2>4. CASE Land
    BY <1>1, <2>4 DEF Land, Landed, TypeOK
  <2>5. CASE Reset
    BY <1>1, <2>5 DEF Reset, TypeOK
  <2> QED  BY <2>1, <2>2, <2>3, <2>4, <2>5 DEF Accurate, FastReset, Run
<1>3. pc = "idle" \/ ReportInv
  BY <1>1 DEF FastInv
<1>4. pc = "idle" => pc' = "idle"
  BY DEF Accurate, FastReset, Run, Advance, StepCpu, StepRcp, Land, Reset
<1> QED  BY <1>1, <1>2, <1>3, <1>4 DEF FastInv, FastTypeOK, ReportInv

\* Every step of the fast scheduler keeps its invariant.
LEMMA StepFast ==
  ASSUME FastInv, [FastNext]_fastVars PROVE FastInv'
<1>1. CASE UNCHANGED fastVars
  BY <1>1 DEF fastVars, vars, FastInv, FastTypeOK, TypeOK, BlockInv, PatternInv,
              PeriodFits, ReportInv
<1> QED  BY <1>1, CallFast, BlockFast, DomainsFast, TailFast DEF FastNext, FastRun

\* The invariant of the fast scheduler holds in every reachable state.
LEMMA FastCorrect == FastSpec => []FastInv
<1>1. FastInit => FastInv
  BY InitFast
<1>2. FastInv /\ [FastNext]_fastVars => FastInv'
  BY StepFast
<1> QED  BY <1>1, <1>2, PTL DEF FastSpec

-----------------------------------------------------------------------------
\* The bailout invariant: the edges the fast path executes are those of the accurate
\* scheduler, at the same ticks and in the same order.
THEOREM BailoutInvariant == FastSpec => RefinesLockstep
<1>1. FastInit => Init
  BY DEF FastInit
<1>2. FastInv /\ [FastNext]_fastVars => [Next]_vars
  <2> SUFFICES ASSUME FastInv, [FastNext]_fastVars PROVE [Next]_vars
    OBVIOUS
  <2>1. ASSUME NEW t \in 0 .. MaxTick, t <= master + MaxSpan, FastCall(t) \/ AccurateCall(t)
        PROVE  Next
    BY <2>1 DEF FastCall, AccurateCall, Next
  <2>2. CASE BlockEdge
    <3>1. /\ slot \in Offsets /\ master \in Nat /\ base \in Nat /\ phases \in Phases
          /\ BlockInv /\ PeriodFits /\ pc = "next" /\ target \in Nat
      BY <2>2 DEF BlockEdge, FastInv, FastTypeOK, TypeOK
    <3>2. Due(base + slot, phases)
      BY <2>2, <3>1 DEF BlockEdge, BlockInv, PatternInv, Due
    <3>3. NextEdge(master, phases) = base + slot
      BY <3>1, <3>2, NextEdgeIsFirst DEF BlockInv, Offsets
    <3>4. base + slot <= target
      BY <3>1 DEF PeriodFits, Offsets, EDGE_PERIOD
    <3> QED
      BY <2>2, <3>3, <3>4 DEF BlockEdge, Advance, MoreEdges, Next, Run
  <2>3. CASE BlockSkip \/ NextBlock \/ Tail
    BY <2>3 DEF BlockSkip, NextBlock, Tail
  <2>4. ASSUME mode = "block", pc \in {"cpu", "rcp"}
        PROVE  (pattern[slot].cpu <=> CpuDue) /\ (pattern[slot].rcp <=> RcpDue)
    BY <2>4 DEF FastInv, BlockInv, PatternInv, CpuDue, RcpDue
  <2>5. CASE BlockCpu
    <3>1. StepCpu
      BY <2>4, <2>5 DEF BlockCpu, StepCpu, CpuRuns
    <3> QED  BY <3>1 DEF Next, Run
  <2>6. CASE BlockRcp
    <3>1. StepRcp
      BY <2>4, <2>6 DEF BlockRcp, BlockRcpDue, StepRcp
    <3> QED  BY <3>1 DEF Next, Run
  <2>7. CASE Accurate \/ FastReset
    BY <2>7 DEF Accurate, FastReset, Next
  <2>8. CASE UNCHANGED fastVars
    BY <2>8 DEF fastVars
  <2> QED
    BY <2>1, <2>2, <2>3, <2>5, <2>6, <2>7, <2>8 DEF FastNext, FastRun
<1> QED  BY <1>1, <1>2, FastCorrect, PTL DEF FastSpec, RefinesLockstep, Spec

\* The completion witness counts the whole periods replayed, and says whether a part of
\* one was left over.
THEOREM WitnessCorrect == FastSpec => WitnessHonest
<1> DEFINE Honest ==
      pc # "idle" /\ pc' = "idle" /\ target > start =>
        /\ report'.workUnits = (target - start) \div EDGE_PERIOD
        /\ report'.bailed <=> (target - start) % EDGE_PERIOD # 0
<1>1. FastInv /\ [FastNext]_fastVars => [Honest]_fastVars
  <2> SUFFICES ASSUME FastInv, FastNext, pc # "idle", pc' = "idle", target > start PROVE Honest
    OBVIOUS
  <2>1. Accurate
    BY DEF FastNext, FastRun, FastCall, AccurateCall, Call, BlockEdge, BlockSkip, BlockCpu,
           BlockRcp, NextBlock, Tail, FastReset, Reset, vars
  <2>2. mode = "tail" /\ report' = report
    BY <2>1 DEF Accurate
  <2> QED  BY <2>2 DEF FastInv, ReportInv
<1> QED  BY <1>1, FastCorrect, PTL DEF FastSpec, WitnessHonest

-----------------------------------------------------------------------------
\* The next RCP edge, as numbers: it is ahead, it is one RCP cycle further on, and no
\* other edge is passed on the way.
LEMMA NextEdgeOfThree ==
  ASSUME NEW t \in Nat, NEW p \in 0 .. 2
  PROVE  LET n == NextEdgeAfter(t, p, 3)
         IN  /\ n \in Nat /\ t < n
             /\ (n + p) \div 3 = (t + p) \div 3 + 1
             /\ \A u \in Nat : t <= u /\ u < n => (u + p) \div 3 = (t + p) \div 3
BY DEF NextEdgeAfter

\* The same of the phases the machine drew.
LEMMA NextEdgeOfRcp ==
  ASSUME NEW t \in Nat, NEW ph \in Phases
  PROVE  LET n == NextEdgeAfter(t, ph.rcp, RCP_DIVIDER)
         IN  /\ n \in Nat /\ t < n
             /\ RcpCycles(n, ph) = RcpCycles(t, ph) + 1
             /\ \A u \in Nat : t <= u /\ u < n => RcpCycles(u, ph) = RcpCycles(t, ph)
<1>1. ph.rcp \in 0 .. 2
  BY DEF Phases, RCP_DIVIDER
<1>2. RCP_DIVIDER = 3
  BY DEF RCP_DIVIDER
<1> QED  BY <1>1, <1>2, NextEdgeOfThree DEF RcpCycles

\* Power-on is at RCP cycle zero, whatever the phases.
LEMMA RcpCyclesAtZero ==
  ASSUME NEW ph \in Phases
  PROVE  RcpCycles(0, ph) = 0
BY DEF RcpCycles, RCP_DIVIDER, Phases

\* An idle pair is one Count tick, and an instruction at most SpanCounts of them.
LEMMA CountMoves ==
  ASSUME CostsAssumption, NEW t \in Nat, NEW ph \in Phases
  PROVE  /\ CountTicks(t, ph) \in Nat /\ SpanCounts \in Nat
         /\ CountTicks(t + PAIR_TICKS, ph) = CountTicks(t, ph) + 1
         /\ \A cost \in 1 .. MaxCost :
              CountTicks(t + cost * CPU_DIVIDER, ph) <= CountTicks(t, ph) + SpanCounts
<1>1. ph.cpu \in Nat /\ MaxCost \in Nat
  BY DEF Phases, CPU_DIVIDER, CostsAssumption
<1>2. \A n \in Nat, c \in Nat, m \in Nat :
        c <= m => (n + c * 2) \div 4 <= n \div 4 + (m * 2 + 3) \div 4
  OBVIOUS
<1>3. \A n \in Nat : (n + 4) \div 4 = n \div 4 + 1
  OBVIOUS
<1> DEFINE n == t + ph.cpu
<1>4. n \in Nat /\ (t + 4) + ph.cpu = n + 4 /\ \A c \in Nat : (t + c * 2) + ph.cpu = n + c * 2
  BY <1>1
<1>5. CountTicks(t + PAIR_TICKS, ph) = CountTicks(t, ph) + 1
  BY <1>3, <1>4 DEF CountTicks, PAIR_TICKS, CPU_DIVIDER, COUNT_DIVIDER
<1>6. ASSUME NEW cost \in 1 .. MaxCost
      PROVE  CountTicks(t + cost * CPU_DIVIDER, ph) <= CountTicks(t, ph) + SpanCounts
  <2>1. cost \in Nat /\ cost <= MaxCost
    BY <1>1
  <2>2. (n + cost * 2) \div 4 <= n \div 4 + (MaxCost * 2 + 3) \div 4
    BY <1>1, <1>2, <1>4, <2>1
  <2>3. (t + cost * 2) + ph.cpu = n + cost * 2
    BY <1>4, <2>1
  <2>4. MaxCost * 2 + 4 - 1 = MaxCost * 2 + 3
    BY <1>1
  <2> QED  BY <2>2, <2>3, <2>4 DEF CountTicks, SpanCounts, CPU_DIVIDER, COUNT_DIVIDER
<1>7. CountTicks(t, ph) \in Nat /\ SpanCounts \in Nat
  BY <1>1 DEF CountTicks, SpanCounts, CPU_DIVIDER, COUNT_DIVIDER
<1> QED  BY <1>5, <1>6, <1>7

-----------------------------------------------------------------------------
\* The position never leaves the span or the pair in progress, and every RCP edge up to
\* it has been stepped.
PlaceInv ==
  /\ edges = RcpCycles(position, offsets)
  /\ at \in {"span", "pair"} => position <= end
  /\ at = "pair" => end <= position + PAIR_TICKS

\* A span started before the target; what is left of a batch fits before it.
RoomInv ==
  /\ at = "span" => end < goal + MaxCost * CPU_DIVIDER
  /\ at = "pair" => done < pairs /\ end + PAIR_TICKS * (pairs - done - 1) <= goal

\* While no match was seen, Count is at most one span past Compare, and what is left of a
\* batch leaves it there.
TimerInv ==
  ~frozen /\ lastCount < compare =>
    /\ at \in {"idle", "head"} => Count <= compare + SpanCounts
    /\ at = "span" => CountTicks(end, offsets) <= lastCount + SpanCounts
    /\ at = "pair" => CountTicks(end, offsets) + (pairs - done - 1) <= compare + SpanCounts

ExecInv == ExecTypeOK /\ PlaceInv /\ RoomInv /\ BatchSeesIrq /\ TimerInv

\* The instruction-granular scheduler starts between calls, nothing elapsed.
LEMMA InitExec ==
  ASSUME CostsAssumption, ExecInit PROVE ExecInv
<1>1. ExecTypeOK
  <2>1. {position, goal, end, compare, lastCount, pairs, done, edges} \subseteq Nat
    BY DEF ExecInit
  <2>2. {frozen, parked, enabled, irq, ip7} \subseteq BOOLEAN
    BY Zenon DEF ExecInit
  <2>3. offsets \in Phases /\ at \in {"idle", "head", "span", "pair"}
    BY DEF ExecInit
  <2> QED  BY <2>1, <2>2, <2>3 DEF ExecTypeOK
<1>2. PlaceInv
  BY <1>1, RcpCyclesAtZero DEF ExecInit, PlaceInv, ExecTypeOK
<1> QED  BY <1>1, <1>2 DEF ExecInit, ExecInv, RoomInv, BatchSeesIrq, TimerInv

\* The boundary: the lines are sampled, and an instruction or an idle pair is paid for.
LEMMA BoundaryExec ==
  ASSUME CostsAssumption, ExecInv,
         \/ TakeInterrupt \/ IdlePair \/ Instruction \/ TouchLines
         \/ \E v \in Compares : WriteCompare(v)
  PROVE  ExecInv'
<1>0. /\ ExecTypeOK /\ PlaceInv /\ position \in Nat /\ offsets \in Phases /\ goal \in Nat
      /\ MaxCost \in Nat /\ MaxCost >= 2 /\ position < goal
  BY DEF ExecInv, ExecTypeOK, CostsAssumption, TakeInterrupt, IdlePair, Instruction, TouchLines,
         WriteCompare, AtBoundary
<1>1. PICK cost \in 1 .. MaxCost : Spend(cost)
  BY <1>0 DEF TakeInterrupt, IdlePair, Instruction, TouchLines, WriteCompare
<1>2. /\ end' = position + cost * CPU_DIVIDER /\ at' = "span"
      /\ UNCHANGED <<position, offsets, goal, pairs, done, edges>>
  BY <1>1 DEF Spend
<1>3. lastCount' = Count
  BY DEF TakeInterrupt, IdlePair, Instruction, TouchLines, WriteCompare
<1>4. Count \in Nat /\ CountTicks(end', offsets) <= Count + SpanCounts
  BY <1>0, <1>2, CountMoves DEF Count
<1>5. end' \in Nat /\ position <= end' /\ end' < goal + MaxCost * CPU_DIVIDER
  BY <1>0, <1>2 DEF CPU_DIVIDER
<1>6. ExecTypeOK'
  <2>1. compare' \in Nat
    BY <1>0 DEF ExecTypeOK, CostsAssumption, TakeInterrupt, IdlePair, Instruction, TouchLines,
                WriteCompare
  <2>2. {frozen', parked', enabled', irq', ip7'} \subseteq BOOLEAN
    BY <1>0 DEF ExecTypeOK, TakeInterrupt, IdlePair, Instruction, TouchLines, WriteCompare,
                Ip7Now, TimerEdge
  <2> QED  BY <1>0, <1>2, <1>3, <1>4, <1>5, <2>1, <2>2 DEF ExecTypeOK
<1> QED
  BY <1>0, <1>2, <1>3, <1>4, <1>5, <1>6
     DEF ExecInv, PlaceInv, RoomInv, BatchSeesIrq, TimerInv

\* One RCP step, in a span, in a pair, or with the CPU frozen.
LEMMA RcpExec ==
  ASSUME CostsAssumption, ExecInv, CatchUp \/ HaltedStep PROVE ExecInv'
<1>0. /\ ExecTypeOK /\ PlaceInv /\ RoomInv /\ TimerInv /\ position \in Nat /\ offsets \in Phases
      /\ end \in Nat /\ edges \in Nat
  BY DEF ExecInv, ExecTypeOK
<1>1. /\ position' = RcpEdge /\ edges' = edges + 1 /\ irq' \in BOOLEAN
      /\ UNCHANGED <<offsets, goal, at, end, frozen, parked, enabled, ip7, compare,
                     lastCount, pairs, done>>
  BY <1>0 DEF CatchUp, HaltedStep, StepRcpAt, ExecTypeOK
<1>2. position' \in Nat /\ position < position'
      /\ RcpCycles(position', offsets) = RcpCycles(position, offsets) + 1
  BY <1>0, <1>1, NextEdgeOfRcp DEF RcpEdge
<1>3. ExecTypeOK'
  BY <1>0, <1>1, <1>2 DEF ExecTypeOK
<1>4. at \in {"span", "pair"} => position' <= end
  BY <1>1 DEF CatchUp, HaltedStep, CatchesUp
<1>5. PlaceInv' /\ BatchSeesIrq'
  BY <1>0, <1>1, <1>2, <1>4 DEF PlaceInv, BatchSeesIrq, PAIR_TICKS, CPU_DIVIDER
<1>6. at = "head" => frozen
  BY DEF CatchUp, HaltedStep
<1>7. at # "idle"
  BY DEF CatchUp, HaltedStep
<1>8. RoomInv' /\ TimerInv'
  BY <1>0, <1>1, <1>6, <1>7 DEF RoomInv, TimerInv
<1> QED  BY <1>3, <1>5, <1>8 DEF ExecInv

\* The end of a span: it was owed no RCP edge, and a batch is cut to its room and to the
\* timer.
LEMMA EndSpanExec ==
  ASSUME CostsAssumption, ExecInv, EndSpan PROVE ExecInv'
<1>0. /\ ExecTypeOK /\ PlaceInv /\ RoomInv /\ TimerInv /\ position \in Nat /\ offsets \in Phases
      /\ end \in Nat /\ goal \in Nat /\ compare \in Nat /\ lastCount \in Nat /\ LastTick \in Nat
      /\ at = "span" /\ ~CatchesUp /\ position <= end
  BY DEF ExecInv, ExecTypeOK, PlaceInv, EndSpan, CostsAssumption
<1>1. /\ position' = end /\ done' = 0
      /\ UNCHANGED <<offsets, goal, frozen, parked, enabled, irq, ip7, compare, lastCount,
                     edges>>
  BY DEF EndSpan
<1>2. RcpCycles(end, offsets) = RcpCycles(position, offsets)
  BY <1>0, NextEdgeOfRcp DEF CatchesUp, RcpEdge
<1>3. /\ Room \in Nat
      /\ Room > 0 => end + PAIR_TICKS * Room <= goal
  BY <1>0 DEF Room, PAIR_TICKS, CPU_DIVIDER
<1>4. /\ BatchSize \in Nat /\ BatchSize <= Room /\ BatchSize <= TicksUntilMatch
  BY <1>0, <1>3 DEF BatchSize, TicksUntilMatch, FarAway
<1>5. CountTicks(end, offsets) \in Nat /\ CountTicks(end + PAIR_TICKS, offsets) = CountTicks(end, offsets) + 1
      /\ SpanCounts \in Nat
  BY <1>0, CountMoves
<1>6. CASE pairs' = 0
  <2>1. at' = "head" /\ end' = end
    BY <1>6 DEF EndSpan
  <2>2. ~frozen /\ lastCount < compare => CountTicks(end, offsets) <= compare + SpanCounts
    BY <1>0, <1>5 DEF TimerInv
  <2>3. ExecTypeOK'
    BY <1>0, <1>1, <1>6, <2>1 DEF ExecTypeOK
  <2> QED  BY <1>0, <1>1, <1>2, <2>1, <2>2, <2>3
              DEF ExecInv, PlaceInv, RoomInv, BatchSeesIrq, TimerInv, Count
<1>7. CASE pairs' # 0
  <2>1. at' = "pair" /\ end' = end + PAIR_TICKS /\ pairs' = BatchSize
    BY <1>7 DEF EndSpan
  <2>2. end' \in Nat /\ pairs' \in Nat /\ pairs' > 0
    BY <1>0, <1>4, <1>7, <2>1 DEF PAIR_TICKS, CPU_DIVIDER
  <2>3. ExecTypeOK'
    BY <1>0, <1>1, <2>1, <2>2 DEF ExecTypeOK
  <2>4. end' + PAIR_TICKS * (pairs' - done' - 1) <= goal'
    BY <1>0, <1>1, <1>3, <1>4, <2>1, <2>2 DEF PAIR_TICKS, CPU_DIVIDER
  <2>5. ASSUME ~frozen, lastCount < compare
        PROVE  CountTicks(end', offsets) + (pairs' - done' - 1) <= compare + SpanCounts
    <3>1. CountTicks(end, offsets) <= lastCount + SpanCounts
      BY <1>0, <2>5 DEF TimerInv
    <3>2. pairs' <= compare - lastCount
      BY <1>4, <2>1, <2>5 DEF TicksUntilMatch
    <3> QED  BY <1>0, <1>1, <1>5, <2>1, <2>2, <3>1, <3>2
  <2> QED  BY <1>0, <1>1, <1>2, <2>1, <2>2, <2>3, <2>4, <2>5
              DEF ExecInv, PlaceInv, RoomInv, BatchSeesIrq, TimerInv, PAIR_TICKS, CPU_DIVIDER
<1> QED  BY <1>6, <1>7

\* The end of a pair: the batch goes on only with its lines down and a pair left.
LEMMA EndPairExec ==
  ASSUME CostsAssumption, ExecInv, EndPair PROVE ExecInv'
<1>0. /\ ExecTypeOK /\ PlaceInv /\ RoomInv /\ TimerInv /\ position \in Nat /\ offsets \in Phases
      /\ end \in Nat /\ goal \in Nat /\ compare \in Nat /\ lastCount \in Nat
      /\ pairs \in Nat /\ done \in Nat /\ done < pairs
      /\ at = "pair" /\ ~CatchesUp /\ position <= end
  BY DEF ExecInv, ExecTypeOK, PlaceInv, RoomInv, EndPair
<1>1. /\ position' = end /\ done' = done + 1
      /\ UNCHANGED <<offsets, goal, frozen, parked, enabled, irq, ip7, compare, lastCount,
                     pairs, edges>>
  BY DEF EndPair
<1>2. RcpCycles(end, offsets) = RcpCycles(position, offsets)
  BY <1>0, NextEdgeOfRcp DEF CatchesUp, RcpEdge
<1>3. CountTicks(end, offsets) \in Nat /\ CountTicks(end + PAIR_TICKS, offsets) = CountTicks(end, offsets) + 1
      /\ SpanCounts \in Nat
  BY <1>0, CountMoves
<1>4. CASE done + 1 < pairs /\ ~StopsBatch
  <2>1. at' = "pair" /\ end' = end + PAIR_TICKS /\ ~irq
    BY <1>4 DEF EndPair, StopsBatch
  <2>2. end' \in Nat /\ ExecTypeOK'
    BY <1>0, <1>1, <2>1 DEF ExecTypeOK, PAIR_TICKS, CPU_DIVIDER
  <2>3. end' + PAIR_TICKS * (pairs' - done' - 1) <= goal'
    BY <1>0, <1>1, <2>1 DEF RoomInv, PAIR_TICKS, CPU_DIVIDER
  <2>4. ~frozen /\ lastCount < compare =>
          CountTicks(end', offsets) + (pairs' - done' - 1) <= compare + SpanCounts
    BY <1>0, <1>1, <1>3, <2>1 DEF TimerInv
  <2> QED  BY <1>0, <1>1, <1>2, <1>4, <2>1, <2>2, <2>3, <2>4
              DEF ExecInv, PlaceInv, RoomInv, BatchSeesIrq, TimerInv, PAIR_TICKS, CPU_DIVIDER
<1>5. CASE ~(done + 1 < pairs /\ ~StopsBatch)
  <2>1. at' = "head" /\ end' = end
    BY <1>5 DEF EndPair
  <2>2. ~frozen /\ lastCount < compare => CountTicks(end, offsets) <= compare + SpanCounts
    BY <1>0, <1>3 DEF TimerInv
  <2>3. ExecTypeOK'
    BY <1>0, <1>1, <2>1 DEF ExecTypeOK
  <2> QED  BY <1>0, <1>1, <1>2, <2>1, <2>2, <2>3
              DEF ExecInv, PlaceInv, RoomInv, BatchSeesIrq, TimerInv, Count
<1> QED  BY <1>4, <1>5

\* A run ends: a frozen CPU is carried to the target with no RCP edge on the way, and a
\* running one is there already.
LEMMA LandExec ==
  ASSUME CostsAssumption, ExecInv, ExecLand PROVE ExecInv'
<1>0. /\ ExecTypeOK /\ PlaceInv /\ TimerInv /\ position \in Nat /\ goal \in Nat
      /\ offsets \in Phases /\ at = "head" /\ at' = "idle" /\ Over
      /\ UNCHANGED <<offsets, goal, end, frozen, parked, enabled, irq, ip7, compare, lastCount,
                     pairs, done, edges>>
  BY DEF ExecInv, ExecTypeOK, ExecLand
<1>1. CASE position < goal
  <2>1. frozen /\ RcpEdge > goal /\ position' = goal
    BY <1>0, <1>1 DEF Over, ExecLand
  <2>2. RcpEdge \in Nat /\ RcpCycles(goal, offsets) = RcpCycles(position, offsets)
    BY <1>0, <1>1, <2>1, NextEdgeOfRcp DEF RcpEdge
  <2>3. ExecTypeOK'
    BY <1>0, <2>1 DEF ExecTypeOK
  <2> QED  BY <1>0, <2>1, <2>2, <2>3 DEF ExecInv, PlaceInv, RoomInv, BatchSeesIrq, TimerInv
<1>2. CASE ~(position < goal)
  <2>1. position' = position
    BY <1>2 DEF ExecLand
  <2>2. ExecTypeOK'
    BY <1>0, <2>1 DEF ExecTypeOK
  <2> QED  BY <1>0, <2>1, <2>2
              DEF ExecInv, PlaceInv, RoomInv, BatchSeesIrq, TimerInv, Count
<1> QED  BY <1>1, <1>2

\* A caller asks for the next run, and a step that changes nothing.
LEMMA CallExec ==
  ASSUME CostsAssumption, ExecInv,
         UNCHANGED execVars \/ \E t \in 0 .. LastTick : ExecCall(t)
  PROVE  ExecInv'
<1>1. CASE UNCHANGED execVars
  BY <1>1 DEF execVars, ExecInv, ExecTypeOK, PlaceInv, RoomInv, BatchSeesIrq, TimerInv, Count
<1>2. ASSUME NEW t \in 0 .. LastTick, ExecCall(t) PROVE ExecInv'
  <2>1. ExecTypeOK'
    BY <1>2 DEF ExecInv, ExecTypeOK, ExecCall, CostsAssumption
  <2> QED  BY <1>2, <2>1 DEF ExecCall, ExecInv, PlaceInv, RoomInv, BatchSeesIrq, TimerInv, Count
<1> QED  BY <1>1, <1>2

\* The invariant is inductive.
LEMMA ExecInductive == ASSUME CostsAssumption PROVE ExecSpec => []ExecInv
<1>1. ExecInit => ExecInv
  BY InitExec
<1>2. ExecInv /\ [ExecNext]_execVars => ExecInv'
  BY BoundaryExec, RcpExec, EndSpanExec, EndPairExec, LandExec, CallExec DEF ExecNext, ExecRun
<1> QED  BY <1>1, <1>2, PTL DEF ExecSpec

\* ADR 0006 under ADR 0013 (System::run_until_exec): whatever instructions cost, however
\* runs are cut, batched, or frozen by a failed boot, the RCP has been stepped exactly
\* once for each of its edges up to the position.
THEOREM ExecResidueCorrect == ASSUME CostsAssumption PROVE ExecSpec => []EdgesInPlace
<1>1. ExecInv => EdgesInPlace
  <2> SUFFICES ASSUME ExecInv PROVE EdgesInPlace
    OBVIOUS
  <2>1. offsets \in Phases /\ position \in Nat /\ edges = RcpCycles(position, offsets)
    BY DEF ExecInv, ExecTypeOK, PlaceInv
  <2>2. RcpCycles(0, offsets) = 0 /\ RcpCycles(position, offsets) \in Nat
    BY <2>1, RcpCyclesAtZero DEF RcpCycles, Phases, RCP_DIVIDER
  <2> QED  BY <2>1, <2>2 DEF EdgesInPlace
<1> QED  BY <1>1, ExecInductive, PTL

\* run_until_exec passes its target by less than its dearest instruction, and
\* run_idle_batch not at all.
THEOREM OvershootCorrect == ASSUME CostsAssumption PROVE ExecSpec => []OvershootBounded
<1>1. ExecInv => OvershootBounded
  <2> SUFFICES ASSUME ExecInv PROVE OvershootBounded
    OBVIOUS
  <2>1. at = "pair" => end <= goal
    BY DEF ExecInv, ExecTypeOK, RoomInv, PAIR_TICKS, CPU_DIVIDER
  <2> QED  BY <2>1 DEF ExecInv, RoomInv, OvershootBounded
<1> QED  BY <1>1, ExecInductive, PTL

\* An idle batch leaves no interrupt waiting: an RCP line is seen within one pair, and the
\* timer within one span of its match.
THEOREM InTimeCorrect == ASSUME CostsAssumption PROVE ExecSpec => []InterruptsInTime
<1>1. ExecInv => InterruptsInTime
  BY DEF ExecInv, TimerInv, InterruptsInTime, TimerLateByOneSpan
<1> QED  BY <1>1, ExecInductive, PTL
=============================================================================
