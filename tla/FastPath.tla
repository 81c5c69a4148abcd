------------------------------ MODULE FastPath ------------------------------
(***************************************************************************)
(* System::run_until_fast (feature fast-scheduler, ADR 0011/0012): the     *)
(* edges of one period are computed once, relative to the tick the call    *)
(* starts at, and replayed for as many whole periods as fit; the rest, and *)
(* the landing on the target, are run_until's.                             *)
(*                                                                         *)
(* The claim is ADR 0011's "bailout invariant": the same edges, in the     *)
(* same order, at the same ticks as the accurate scheduler.  It is stated  *)
(* as a refinement of Lockstep, on the same variables.                     *)
(***************************************************************************)
EXTENDS Lockstep

VARIABLES
  mode,      \* "block" while whole periods are replayed, "tail" in run_until
  pattern,   \* which domains are due at each offset of the period
  base,      \* the tick the current period starts at
  slot,      \* the offset of the pattern looked at next
  report,    \* FastRunReport of the last call: work_units and bailed
  start      \* history: the tick the call in progress started at

fastVars == <<vars, mode, pattern, base, slot, report, start>>

Offsets == 1 .. EDGE_PERIOD
NoReport == [workUnits |-> 0, bailed |-> FALSE]
NoPattern == [o \in Offsets |-> [cpu |-> FALSE, rcp |-> FALSE]]

FastTypeOK ==
  /\ TypeOK
  /\ mode \in {"block", "tail"}
  /\ pattern \in [Offsets -> [cpu : BOOLEAN, rcp : BOOLEAN]]
  /\ base \in Nat
  /\ slot \in Offsets \cup {EDGE_PERIOD + 1}
  /\ report \in [workUnits : Nat, bailed : BOOLEAN]
  /\ start \in Nat

FastInit ==
  /\ Init
  /\ mode = "tail"
  /\ pattern = NoPattern
  /\ base = 0
  /\ slot = 1
  /\ report = NoReport
  /\ start = 0

-----------------------------------------------------------------------------
\* The pattern laid out from the tick the period starts at.
Pattern(now) ==
  [o \in Offsets |-> [cpu |-> IsEdge(now + o, phases.cpu, CPU_DIVIDER),
                      rcp |-> IsEdge(now + o, phases.rcp, RCP_DIVIDER)]]

\* A call with something to run.
FastCall(t) ==
  /\ t > master
  /\ Call(t)
  /\ mode' = "block"
  /\ pattern' = Pattern(master)
  /\ base' = master
  /\ start' = master
  /\ slot' = 1
  /\ report' = NoReport

\* A call with nothing to run returns an empty report (run_until's landing would
\* not move the position either); and run_until may be called on the same machine.
AccurateCall(t) ==
  /\ Call(t)
  /\ mode' = "tail"
  /\ start' = t
  /\ report' = NoReport
  /\ UNCHANGED <<pattern, base, slot>>

PeriodFits == base + EDGE_PERIOD <= target

\* One slot of the pattern with a domain due: land on its tick and step.  The
\* domains stepped are the pattern's, not re-derived from the tick.
BlockEdge ==
  /\ mode = "block" /\ pc = "next" /\ slot \in Offsets
  /\ PeriodFits
  /\ pattern[slot].cpu \/ pattern[slot].rcp
  /\ master' = base + slot
  /\ pc' = "cpu"
  /\ UNCHANGED <<phases, target, nmi, cpuSteps, rcpSteps,
                 mode, pattern, base, slot, report, start>>

\* A slot with nothing due.
BlockSkip ==
  /\ mode = "block" /\ pc = "next" /\ slot \in Offsets
  /\ PeriodFits
  /\ ~(pattern[slot].cpu \/ pattern[slot].rcp)
  /\ slot' = slot + 1
  /\ UNCHANGED <<vars, mode, pattern, base, report, start>>

\* step_domains(cpu, rcp), with the domains the pattern says.
BlockCpu ==
  /\ mode = "block" /\ pc = "cpu"
  /\ pc' = "rcp"
  /\ IF pattern[slot].cpu /\ ~nmi
       THEN cpuSteps' = cpuSteps + 1 /\ nmi' \in BOOLEAN
       ELSE UNCHANGED <<cpuSteps, nmi>>
  /\ UNCHANGED <<master, phases, target, rcpSteps,
                 mode, pattern, base, slot, report, start>>

BlockRcpDueBug == TRUE
BlockRcpDue == pattern[slot].rcp

BlockRcp ==
  /\ mode = "block" /\ pc = "rcp"
  /\ pc' = "next"
  /\ rcpSteps' = rcpSteps + (IF BlockRcpDue THEN 1 ELSE 0)
  /\ slot' = slot + 1
  /\ UNCHANGED <<master, phases, target, nmi, cpuSteps,
                 mode, pattern, base, report, start>>

\* The end of a period.
NextBlock ==
  /\ mode = "block" /\ pc = "next" /\ slot = EDGE_PERIOD + 1
  /\ base' = base + EDGE_PERIOD
  /\ slot' = 1
  /\ report' = [report EXCEPT !.workUnits = @ + 1]
  /\ UNCHANGED <<vars, mode, pattern, start>>

\* A tail that is reported on every call, empty or not.
BailsBug == TRUE
Bails == target > base

\* No further whole period fits: the block's locals are done with, and run_until
\* has the rest.
Tail ==
  /\ mode = "block" /\ pc = "next" /\ slot = 1
  /\ ~PeriodFits
  /\ mode' = "tail"
  /\ report' = [report EXCEPT !.bailed = Bails]
  /\ pattern' = NoPattern /\ base' = 0
  /\ UNCHANGED <<vars, slot, start>>

\* run_until's steps, which end a call.
Accurate ==
  /\ mode = "tail"
  /\ Run
  /\ UNCHANGED <<mode, pattern, base, slot, report, start>>

FastReset ==
  /\ Reset
  /\ UNCHANGED <<mode, pattern, base, slot, report, start>>

FastRun ==
  BlockEdge \/ BlockSkip \/ BlockCpu \/ BlockRcp \/ NextBlock \/ Tail \/ Accurate

FastNext ==
  \/ \E t \in 0 .. MaxTick : t <= master + MaxSpan /\ (FastCall(t) \/ AccurateCall(t))
  \/ FastRun
  \/ FastReset

FastSpec == FastInit /\ [][FastNext]_fastVars

-----------------------------------------------------------------------------
\* The bailout invariant (ADR 0011, section 6): every step of the replayed
\* block is the step the accurate scheduler takes there.
RefinesLockstep == Spec

\* ADR 0012's completion witness tells the truth: when a call returns, it has
\* run as many blocks as whole periods fit in the stretch, and it reports a
\* bail-out exactly when a partial period was left over.
WitnessHonest ==
  [][ pc # "idle" /\ pc' = "idle" /\ target > start =>
        /\ report'.workUnits = (target - start) \div EDGE_PERIOD
        /\ report'.bailed <=> (target - start) % EDGE_PERIOD # 0 ]_fastVars
=============================================================================
