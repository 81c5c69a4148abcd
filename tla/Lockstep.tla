------------------------------ MODULE Lockstep ------------------------------
(***************************************************************************)
(* System::run_until, the accurate scheduler: walk from edge to edge, and  *)
(* at each edge step the CPU, then the RCP, if they are due there.  What a *)
(* CPU or an RCP step does to the machine belongs to other modules; here a *)
(* step is counted, and a CPU step may set the boot NMI freeze             *)
(* (Bus::boot_nmi_halt), the one thing a step does that the scheduler      *)
(* itself reads.                                                           *)
(*                                                                         *)
(* pc is the position in the call: "idle" between calls, "next" at the     *)
(* head of the loop of run_until, "cpu" and "rcp" inside step_domains.     *)
(***************************************************************************)
EXTENDS Timebase

CONSTANTS
  MaxTick,   \* bound: the last tick a run may be asked to reach
  MaxSpan    \* bound: the longest run, in ticks

ASSUME BoundsAssumption == MaxTick \in Nat /\ MaxSpan \in Nat

VARIABLES
  master,    \* System::master_ticks
  phases,    \* System::phases, constant from power-on
  target,    \* the argument of the call in progress
  pc,
  nmi,       \* Bus::boot_nmi_halt
  cpuSteps,  \* history: CPU steps taken since power-on or reset
  rcpSteps   \* history: RCP steps taken since power-on or reset

vars == <<master, phases, target, pc, nmi, cpuSteps, rcpSteps>>

TypeOK ==
  /\ master \in Nat
  /\ phases \in Phases
  /\ target \in Nat
  /\ pc \in {"idle", "next", "cpu", "rcp"}
  /\ nmi \in BOOLEAN
  /\ cpuSteps \in Nat
  /\ rcpSteps \in Nat

CpuDueBug == IsEdge(master, phases.rcp, CPU_DIVIDER)
CpuDue == IsEdge(master, phases.cpu, CPU_DIVIDER)
RcpDue == IsEdge(master, phases.rcp, RCP_DIVIDER)

\* A failed boot checksum freezes the CPU; the RCP keeps running.
CpuRuns == CpuDue /\ ~nmi

\* Where the end of run_until leaves the position: never past the target, and
\* never back to a target that is already behind.
LandedBug(now, t) == t
Landed(now, t) == IF now < t THEN t ELSE now

\* What power-on can draw from the seed.
Seeded == Phases

Init ==
  /\ master = 0
  /\ phases \in Seeded
  /\ target = 0
  /\ pc = "idle"
  /\ nmi = FALSE
  /\ cpuSteps = 0
  /\ rcpSteps = 0

-----------------------------------------------------------------------------
\* A caller (EmuCore::run_frame, a test, the fast path's tail) asks for a run.
\* A target at or behind the current tick is a legal call that does nothing.
Call(t) ==
  /\ pc = "idle"
  /\ target' = t
  /\ pc' = "next"
  /\ UNCHANGED <<master, phases, nmi, cpuSteps, rcpSteps>>

\* The loop's condition, "the next edge is not past the target".
MoreEdges == NextEdge(master, phases) <= target

\* The loop's body up to step_domains: land on the next edge.
Advance ==
  /\ pc = "next"
  /\ MoreEdges
  /\ master' = NextEdge(master, phases)
  /\ pc' = "cpu"
  /\ UNCHANGED <<phases, target, nmi, cpuSteps, rcpSteps>>

\* step_domains, first half: the CPU, unless it is frozen.  Its step may be
\* the one that latches the freeze.
StepCpu ==
  /\ pc = "cpu"
  /\ pc' = "rcp"
  /\ IF CpuRuns
       THEN /\ cpuSteps' = cpuSteps + 1
            /\ nmi' \in BOOLEAN
       ELSE UNCHANGED <<cpuSteps, nmi>>
  /\ UNCHANGED <<master, phases, target, rcpSteps>>

\* step_domains, second half: the RCP.
StepRcp ==
  /\ pc = "rcp"
  /\ pc' = "next"
  /\ rcpSteps' = rcpSteps + (IF RcpDue THEN 1 ELSE 0)
  /\ UNCHANGED <<master, phases, target, nmi, cpuSteps>>

\* The loop is left when its condition fails, whether or not a landing is due.
Leave == ~MoreEdges

\* The loop has ended: carry the position to the target, never past it and
\* never back.
Land ==
  /\ pc = "next"
  /\ Leave
  /\ master' = Landed(master, target)
  /\ pc' = "idle"
  /\ UNCHANGED <<phases, target, nmi, cpuSteps, rcpSteps>>

\* System::reset: the same seed gives the same phases; the timeline and the
\* freeze go back to their power-on values.
Reset ==
  /\ pc = "idle"
  /\ master' = 0
  /\ nmi' = FALSE
  /\ cpuSteps' = 0
  /\ rcpSteps' = 0
  /\ UNCHANGED <<phases, target, pc>>

Run == Advance \/ StepCpu \/ StepRcp \/ Land

Next ==
  \/ \E t \in 0 .. MaxTick : t <= master + MaxSpan /\ Call(t)
  \/ Run
  \/ Reset

Spec == Init /\ [][Next]_vars

-----------------------------------------------------------------------------
\* Ticks whose edges have been executed in full (outside step_domains every
\* edge up to master has; inside it, the ones before master have).
Executed == IF pc \in {"cpu", "rcp"} THEN master - 1 ELSE master

RcpEdgesIn(tick) == RcpCycles(tick, phases) - RcpCycles(0, phases)
CpuEdgesIn(tick) == CpuCycles(tick, phases) - CpuCycles(0, phases)

\* While the CPU has not yet been stepped at an edge, the RCP has executed
\* exactly its edges at earlier ticks: an RCP event is visible to the very next
\* CPU step and no earlier one.
RcpResidue ==
  rcpSteps = RcpEdgesIn(Executed)

\* The same for the CPU until the boot freeze, which it sees at once: CPU
\* first, so in "rcp" the CPU's step at this very tick is already counted.
CpuResidue ==
  ~nmi => cpuSteps = CpuEdgesIn(IF pc = "cpu" THEN master - 1 ELSE master)

\* residue_invariants_never_move (ADR 0006): the work done is a function of the
\* position alone, however the timeline was cut into calls.
Residues == RcpResidue /\ CpuResidue

\* run_until never overshoots: a run that ends ends at its target, and a run
\* whose target lies behind leaves the position where it was.
NoOvershoot ==
  [][ /\ pc # "idle" => master' <= master \/ master' <= target
      /\ pc = "next" /\ pc' = "idle" =>
           (IF target > master THEN master' = target ELSE master' = master) ]_vars

=============================================================================
