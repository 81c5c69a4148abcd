------------------------------ MODULE MCUnits ------------------------------
(***************************************************************************)
(* The units beside the pipeline.  Three of the processor: the timer of    *)
(* COP0, the MMU with the exceptions, and the FPU with its soft float.     *)
(* Two that another processor shares with it: the SP's registers, as the   *)
(* CPU and the RSP use them, and the PIF's RAM with its joybus.  None      *)
(* reads another's state, so a behaviour explores one of them, its part,   *)
(* and leaves the others where they began: the run is their union and not  *)
(* their product.                                                          *)
(***************************************************************************)
EXTENDS CountTimer, Mmu, Fpu, Joybus, SpInterface

VARIABLE part

\* The FPU: 80 numbers of one format and 224 of the other; every rounding mode, and the
\* traps.
MCF32 == [p |-> 3, bias |-> 4, max |-> 9]
MCF64 == [p |-> 4, bias |-> 6, max |-> 13]
MCConds == {{"less", "equal"}, {"equal", "unordered"}, {"less", "signals"}}

Fcsr(en, fl, rm) ==
  [cause |-> {}, enables |-> en, flags |-> {"div_by_zero"}, flush |-> fl, rm |-> rm, c |-> TRUE]

MCFcsrWrites ==
  {Fcsr({}, TRUE, rm) : rm \in 0..3}
    \cup {[Fcsr({"inexact", "invalid"}, FALSE, 0) EXCEPT !.cause = {"inexact"}]}

\* The MMU: two user pages and one of the kernel, pages valid, invalid and clean, global
\* and not, and the two modes with different segments.
At(r, p)   == [region |-> r, page |-> p]
Lo(d, v, g) == [dirty |-> d, valid |-> v, global |-> g]
Good       == Lo(TRUE, TRUE, FALSE)

MCVa == {At(0, 0), At(0, 2), At(3, 0)}
MCLoPairs ==
  {<<Good, Good>>, <<Lo(FALSE, TRUE, TRUE), Good>>, <<Lo(FALSE, FALSE, TRUE), Lo(TRUE, TRUE, TRUE)>>}
MCModes ==
  {[ksu |-> 0, exl |-> FALSE, wide |-> TRUE], [ksu |-> 2, exl |-> FALSE, wide |-> FALSE]}

\* The SI: what the buttons of a controller are.
MCButtonWords == {<<128, 0, 1, 2>>, <<0, 16, 3, 4>>}

units == <<part, vars, mmuVars, fpuVars, siVars, spVars>>

UnitsInit ==
  /\ part \in {"count", "mmu", "fp", "si", "sp"}
  /\ Init /\ MmuInit /\ FpuInit /\ SiInit /\ SpInit
  /\ part = "count" \/ half = 0
  /\ part = "mmu" \/ c.lo0 = Good
  /\ part = "fp" \/ fs = [holds |-> "word", value |-> 0]
  /\ part = "si" \/ (connected = {} /\ device = "pak")

Others(own) ==
  /\ part' = part
  /\ IF own = "count" THEN TRUE ELSE UNCHANGED vars
  /\ IF own = "mmu" THEN TRUE ELSE UNCHANGED mmuVars
  /\ IF own = "fp" THEN TRUE ELSE UNCHANGED fpuVars
  /\ IF own = "si" THEN TRUE ELSE UNCHANGED siVars
  /\ IF own = "sp" THEN TRUE ELSE UNCHANGED spVars

CountStep == part = "count" /\ Others("count") /\ Next
MmuStep == part = "mmu" /\ Others("mmu") /\ MmuNext
FpStep == part = "fp" /\ Others("fp") /\ FpuNext
Si(A) == part = "si" /\ Others("si") /\ A
SpPart == part = "sp" /\ Others("sp") /\ SpNext

\* One instruction ends a behaviour of the FPU, and the bound on the frames sent one of the
\* joybus; the others go on.
Bounded == part \in {"fp", "si"} /\ UNCHANGED units

UnitsNext ==
  \/ CountStep \/ MmuStep \/ FpStep
  \/ \E f \in Frames : Si(Send(f))
  \/ Si(Rearm) \/ Si(Run) \/ Si(Acknowledge) \/ Si(Latch)
  \/ SpPart \/ Bounded

UnitsSpec == UnitsInit /\ [][UnitsNext]_units

-----------------------------------------------------------------------------
\* Fpu: what an instruction returns is its exact result, rounded to the format or the
\* integer it goes to, with the conditions that go with it (softfloat.rs, fp_arith).
Rounded == CorrectlyRounded /\ IntegerRounded
=============================================================================
