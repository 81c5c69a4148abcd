------------------------------ MODULE ExecPath ------------------------------
(***************************************************************************)
(* System::run_until_exec and run_idle_batch (feature fast-exec, ADR       *)
(* 0013): the CPU executes one instruction, is told its cost in PClocks,   *)
(* and the RCP is then stepped over every one of its edges in the span.    *)
(* A CPU parked in a self-branch loop is run in batches of idle pairs (one *)
(* branch, one delay slot: two PClocks, one Count tick).                   *)
(*                                                                         *)
(* Of the CPU (pipeline/fastexec.rs, step_instruction) the model keeps     *)
(* what the scheduler's loop depends on: the two interrupt lines, whether  *)
(* they are accepted, whether the CPU is parked.  An RCP step may raise    *)
(* the RCP interrupt line; nothing else it does matters here.  Count stays *)
(* far below its 2^32 wrap, which CountTimer looks at.                     *)
(***************************************************************************)
EXTENDS Timebase

CONSTANTS
  LastTick,   \* bound: the last tick a run may be asked to reach
  MaxCost,   \* bound: the dearest instruction, in PClocks
  Compares   \* the values software writes to Compare

\* The dearest instruction is no cheaper than an idle pair.
CostsAssumption ==
  /\ LastTick \in Nat /\ MaxCost \in Nat /\ MaxCost >= 2
  /\ Compares \subseteq Nat

VARIABLES
  position,   \* System::master_ticks
  offsets,    \* System::phases
  goal,       \* the target of the call in progress
  at,         \* "idle", "head" (of run_until_exec's loop), "span", "pair"
  end,        \* the end of the span or idle pair in progress
  frozen,     \* Bus::boot_nmi_halt
  parked,     \* Cpu::is_parked_in_idle_loop
  enabled,    \* Status lets interrupts in (IE, not EXL, not ERL, unmasked)
  irq,        \* Bus::poll_irq: an unmasked MI line is raised
  ip7,        \* Cause.IP7
  compare, lastCount,   \* Cop0::timer_edge's registers
  pairs, done,          \* run_idle_batch's locals
  edges       \* history: RCP steps taken

execVars == <<position, offsets, goal, at, end, frozen, parked, enabled, irq, ip7,
              compare, lastCount, pairs, done, edges>>

PAIR_TICKS == 2 * CPU_DIVIDER

ExecTypeOK ==
  /\ {position, goal, end, compare, lastCount, pairs, done, edges} \subseteq Nat
  /\ offsets \in Phases
  /\ at \in {"idle", "head", "span", "pair"}
  /\ {frozen, parked, enabled, irq, ip7} \subseteq BOOLEAN

\* System::count_ticks, sampled before the instruction runs.
Count == CountTicks(position, offsets)
RcpEdge == NextEdgeAfter(position, offsets.rcp, RCP_DIVIDER)

\* timer_edge and count_ticks_until_timer_match, away from the wrap: a Compare
\* at or behind the last poll is a whole turn of the counter away.
TimerEdge == lastCount < compare /\ compare <= Count
FarAway == LastTick
TicksUntilMatch == IF compare > lastCount THEN compare - lastCount ELSE FarAway

ExecInit ==
  /\ position = 0 /\ goal = 0 /\ end = 0
  /\ offsets \in Phases
  /\ at = "idle"
  /\ frozen = FALSE /\ parked = FALSE /\ enabled = FALSE /\ irq = FALSE
  /\ ip7 = FALSE /\ compare = 0 /\ lastCount = 0
  /\ pairs = 0 /\ done = 0
  /\ edges = 0

-----------------------------------------------------------------------------
ExecCall(t) ==
  /\ at = "idle"
  /\ goal' = t
  /\ at' = "head"
  /\ UNCHANGED <<position, offsets, end, frozen, parked, enabled, irq, ip7, compare,
                 lastCount, pairs, done, edges>>

\* What every boundary does first: sample_interrupt_lines.
Ip7Now == ip7 \/ TimerEdge
InterruptPending == enabled /\ (irq \/ Ip7Now)

Spend(cost) ==
  /\ end' = position + cost * CPU_DIVIDER
  /\ at' = "span"
  /\ UNCHANGED <<position, offsets, goal, pairs, done, edges>>

AtBoundary == at = "head" /\ position < goal /\ ~frozen

\* An accepted interrupt: vector_to sets EXL and forgets the idle loop.
TakeInterrupt ==
  /\ AtBoundary /\ InterruptPending
  /\ ip7' = Ip7Now /\ lastCount' = Count
  /\ enabled' = FALSE
  /\ parked' = FALSE
  /\ \E cost \in 1 .. MaxCost : Spend(cost)
  /\ UNCHANGED <<frozen, irq, compare>>

\* The idle-loop skip.
IdlePair ==
  /\ AtBoundary /\ ~InterruptPending /\ parked
  /\ ip7' = Ip7Now /\ lastCount' = Count
  /\ Spend(2)
  /\ UNCHANGED <<frozen, parked, enabled, irq, compare>>

\* An instruction that leaves the lines alone; a branch to itself parks the CPU.
Instruction ==
  /\ AtBoundary /\ ~InterruptPending /\ ~parked
  /\ ip7' = Ip7Now /\ lastCount' = Count
  /\ parked' \in BOOLEAN
  /\ \E cost \in 1 .. MaxCost : Spend(cost)
  /\ UNCHANGED <<frozen, enabled, irq, compare>>

\* MTC0 Compare: acknowledge the timer, re-base its edge detector.
WriteCompare(v) ==
  /\ AtBoundary /\ ~InterruptPending /\ ~parked
  /\ compare' = v
  /\ ip7' = FALSE /\ lastCount' = Count
  /\ Spend(1)
  /\ UNCHANGED <<frozen, parked, enabled, irq>>

\* A store or MTC0 Status that changes the lines: acknowledge or unmask an RCP
\* interrupt, open or close Status, or hand the PIF a boot command whose
\* checksum fails.
TouchLines ==
  /\ AtBoundary /\ ~InterruptPending /\ ~parked
  /\ ip7' = Ip7Now /\ lastCount' = Count
  /\ \/ irq' \in BOOLEAN /\ UNCHANGED <<enabled, frozen>>
     \/ enabled' \in BOOLEAN /\ UNCHANGED <<irq, frozen>>
     \/ frozen' = TRUE /\ UNCHANGED <<irq, enabled>>
  /\ Spend(1)
  /\ UNCHANGED <<parked, compare>>

\* One RCP step, with all it may do to the line.
StepRcpAt(tick) ==
  /\ position' = tick
  /\ edges' = edges + 1
  /\ irq' \in {irq, TRUE}

\* The span, and an idle pair, own the RCP edges up to and including their end.
CatchesUp == RcpEdge <= end

CatchUp ==
  /\ at \in {"span", "pair"}
  /\ CatchesUp
  /\ StepRcpAt(RcpEdge)
  /\ UNCHANGED <<offsets, goal, at, end, frozen, parked, enabled, ip7, compare,
                 lastCount, pairs, done>>

\* The number of pairs a batch starting at the end of the span may run: the
\* room left before the target, and no more Count ticks than the timer allows.
Room == (IF goal > end THEN goal - end ELSE 0) \div PAIR_TICKS
BatchSizeRoomBug  == TicksUntilMatch
BatchSizeTimerBug == Room
BatchSize == IF Room < TicksUntilMatch THEN Room ELSE TicksUntilMatch

\* The end of an instruction's span; a parked CPU enters the batch.
EndSpan ==
  /\ at = "span" /\ ~CatchesUp
  /\ position' = end
  /\ pairs' = IF parked THEN BatchSize ELSE 0
  /\ done' = 0
  /\ IF pairs' = 0
       THEN at' = "head" /\ UNCHANGED end
       ELSE at' = "pair" /\ end' = end + PAIR_TICKS
  /\ UNCHANGED <<offsets, goal, frozen, parked, enabled, irq, ip7, compare,
                 lastCount, edges>>

\* A mutant: the batch runs on.
StopsBatchBug == FALSE

\* What may have changed under a boundary that is being skipped.
StopsBatch == irq \/ frozen

\* The end of an idle pair: on with the batch, or back to the boundary.
EndPair ==
  /\ at = "pair" /\ ~CatchesUp
  /\ position' = end
  /\ done' = done + 1
  /\ IF done + 1 < pairs /\ ~StopsBatch
       THEN at' = "pair" /\ end' = end + PAIR_TICKS
       ELSE at' = "head" /\ UNCHANGED end
  /\ UNCHANGED <<offsets, goal, frozen, parked, enabled, irq, ip7, compare,
                 lastCount, pairs, edges>>

\* A frozen CPU: the RCP goes on, edge by edge, and not past the target.
HaltedStep ==
  /\ at = "head" /\ position < goal /\ frozen
  /\ RcpEdge <= goal
  /\ StepRcpAt(RcpEdge)
  /\ UNCHANGED <<offsets, goal, at, end, frozen, parked, enabled, ip7, compare,
                 lastCount, pairs, done>>

\* A mutant: a frozen CPU does not end the loop before the next RCP edge.
OverBug == position >= goal
\* The loop's condition fails, or its halted branch breaks.
Over == position >= goal \/ (frozen /\ RcpEdge > goal)

ExecLand ==
  /\ at = "head"
  /\ Over
  /\ position' = IF position < goal THEN goal ELSE position
  /\ at' = "idle"
  /\ UNCHANGED <<offsets, goal, end, frozen, parked, enabled, irq, ip7, compare,
                 lastCount, pairs, done, edges>>

ExecRun ==
  \/ TakeInterrupt \/ IdlePair \/ Instruction \/ TouchLines
  \/ \E v \in Compares : WriteCompare(v)
  \/ CatchUp \/ EndSpan \/ EndPair \/ HaltedStep \/ ExecLand

ExecNext == ExecRun \/ \E t \in 0 .. LastTick : ExecCall(t)

ExecSpec == ExecInit /\ [][ExecNext]_execVars

-----------------------------------------------------------------------------
\* ADR 0006 under ADR 0013: however far an instruction carries the position,
\* every RCP edge is stepped once and in its place; a frozen CPU, an idle batch
\* and a target that falls inside a span change nothing to that.
EdgesInPlace ==
  edges = RcpCycles(position, offsets) - RcpCycles(0, offsets)

\* A run lands past its target by less than the cost of one instruction, and a
\* batch never does.
OvershootBounded ==
  /\ at = "span" => end < goal + MaxCost * CPU_DIVIDER
  /\ at = "pair" => end <= goal

\* A batch does not go on with an interrupt line up: after its first pair it
\* tests the line, so a parked CPU is at most one pair late to see it.
BatchSeesIrq == at = "pair" /\ done > 0 /\ position = end - PAIR_TICKS => ~irq

\* The timer is late by one span at most: wherever a batch stops, the boundary
\* that follows it polls before Count has left Compare behind by more than the
\* dearest span costs.
SpanCounts == (MaxCost * CPU_DIVIDER + COUNT_DIVIDER - 1) \div COUNT_DIVIDER
TimerLateByOneSpan ==
  at = "head" /\ ~frozen /\ lastCount < compare => Count <= compare + SpanCounts

\* Both: however a run batches and skips, no interrupt waits longer than that.
InterruptsInTime == BatchSeesIrq /\ TimerLateByOneSpan
=============================================================================
