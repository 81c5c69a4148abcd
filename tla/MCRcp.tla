------------------------------- MODULE MCRcp -------------------------------
(***************************************************************************)
(* The parts of the RCP that keep a state of their own, each with the      *)
(* software that drives it.  They meet only in MI_INTR, one bit each, so a *)
(* behaviour explores one of them, its part, and leaves the others where   *)
(* they began: the run is their union and not their product.               *)
(***************************************************************************)
EXTENDS Vi, AiFifo, CommandFifo, PiBus

VARIABLE part

\* The AI: pages of four words; transfers of two words from the start and from the middle
\* of a page, so that one ends with its page; empty transfers; two rates; one reset, of a
\* machine younger or older than a period.

\* The RDP: commands of one and two words, one of which holds the FIFO; lists in two
\* buffers.
MCLength == [rect |-> 2, sync_full |-> 1, sync_pipe |-> 1]
MCStall == [rect |-> 0, sync_full |-> 0, sync_pipe |-> 2]

\* The PI: three pages of FlashRAM in two sectors, of two bits each; a ROM of two pages.
MCSectorOf == <<"low", "low", "high">>
MCRom == <<{1}, {2}>>

rcp == <<part, vars, aiVars, fifoVars, piVars>>

RcpInit ==
  /\ part \in {"vi", "ai", "dp", "pi"}
  /\ Init /\ AiInit /\ FifoInit /\ PiInit
  /\ part = "ai" \/ period = 3

Others(own) ==
  /\ part' = part
  /\ IF own = "vi" THEN TRUE ELSE UNCHANGED vars
  /\ IF own = "ai" THEN TRUE ELSE UNCHANGED aiVars
  /\ IF own = "dp" THEN TRUE ELSE UNCHANGED fifoVars
  /\ IF own = "pi" THEN TRUE ELSE UNCHANGED piVars

ViStep == part = "vi" /\ Others("vi") /\ Next
AiStep == part = "ai" /\ Others("ai") /\ AiNext
DpStep == part = "dp" /\ Others("dp") /\ FifoNext
PiStep == part = "pi" /\ Others("pi") /\ PiNext

\* A part whose behaviours a bound ends may stop there; the others may not.
Bounded == part \in {"vi", "dp"} /\ UNCHANGED rcp

RcpNext == ViStep \/ AiStep \/ DpStep \/ PiStep \/ Bounded

\* The scheduler steps the AI and the RDP on every RCP edge, for ever; a step that finds
\* nothing to do is a stutter.
RcpSpec ==
  /\ RcpInit /\ [][RcpNext]_rcp
  /\ WF_rcp(part = "ai" /\ AiTick /\ Others("ai"))
  /\ WF_rcp(part = "dp" /\ FifoTick /\ Others("dp"))

-----------------------------------------------------------------------------
\* AiFifo, CommandFifo: a full queue of the AI is not full for ever, and an unheld list of
\* the RDP is executed to its end (emit_sample, tick_with_bus).
QueuesDrain == FullClears /\ ListDrains
=============================================================================
