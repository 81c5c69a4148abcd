------------------------------ MODULE Timebase ------------------------------
(***************************************************************************)
(* The canonical clock of RustyN64 (crates/rustyn64-core/src/scheduler.rs, *)
(* ADR 0006).  One counter, master_ticks at 187.5 MHz, is incremented;     *)
(* every other clock position is derived from it by a division.  A domain  *)
(* with a divider d and a power-on phase p is stepped at the ticks t with  *)
(* (t + p) % d = 0.                                                        *)
(*                                                                         *)
(* This module has no state: it is the arithmetic the three schedulers     *)
(* (Lockstep, FastPath, ExecPath) share.                                   *)
(***************************************************************************)
EXTENDS Naturals

CPU_DIVIDER   == 2
RCP_DIVIDER   == 3
COUNT_DIVIDER == 4

\* lcm(CPU_DIVIDER, RCP_DIVIDER): which domains are due at a tick depends on
\* the tick modulo this period only.
EDGE_PERIOD == 6

\* What Phases::from_seed can return: one offset per domain, below its divider.
Phases == [cpu : 0 .. CPU_DIVIDER - 1, rcp : 0 .. RCP_DIVIDER - 1]

IsEdge(tick, phase, divider) == (tick + phase) % divider = 0

\* The next tick strictly after this one at which a domain steps.  (Here and in
\* every module a definition whose name ends in Bug is a plausible slip in the
\* one below it; the runs use it to show that a property would notice.)
NextEdgeAfterBug(tick, phase, divider) == tick + divider
NextEdgeAfter(tick, phase, divider) ==
  LET next == tick + 1
      rem  == (next + phase) % divider
  IN  IF rem = 0 THEN next ELSE next + (divider - rem)

\* System::next_edge: the next tick at which any domain is due.
NextEdge(tick, ph) ==
  LET nextCpu == NextEdgeAfter(tick, ph.cpu, CPU_DIVIDER)
      nextRcp == NextEdgeAfter(tick, ph.rcp, RCP_DIVIDER)
  IN  IF nextCpu < nextRcp THEN nextCpu ELSE nextRcp

CpuCycles(tick, ph)  == (tick + ph.cpu) \div CPU_DIVIDER
RcpCycles(tick, ph)  == (tick + ph.rcp) \div RCP_DIVIDER
CountTicks(tick, ph) == (tick + ph.cpu) \div COUNT_DIVIDER
=============================================================================
