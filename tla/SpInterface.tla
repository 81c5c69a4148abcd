---------------------------- MODULE SpInterface ----------------------------
(***************************************************************************)
(* The SP interface (rustyn64-rsp, sp.rs) between the two processors that  *)
(* share it, with the flow of control of the scalar unit (su.rs) that      *)
(* SP_STATUS starts and stops.  One set of registers is behind the CPU's   *)
(* window and behind the RSP's own MTC0 and MFC0.                          *)
(*                                                                         *)
(* The microcode is any microcode: at each step the instruction is any of    *)
(* the kinds that move control or the SP registers.  Both processors take  *)
(* the semaphore before they program a transfer and release it after, which*)
(* is what it is for; nothing else keeps them apart.                       *)
(***************************************************************************)
EXTENDS Naturals

CONSTANTS
  Words,        \* instruction words in IMEM; SP_PC wraps there
  SpAddrs,      \* addresses a driver writes: on the SP's side
  RamAddrs,     \* and on RDRAM's; DMA leaves either at the next one
  MaxMoves      \* bound: transfers in one behaviour

ASSUME SpAssumption ==
  /\ Words \in Nat \ {0, 1}
  /\ SpAddrs \subseteq Nat /\ RamAddrs \subseteq Nat
  /\ MaxMoves \in Nat

Procs == {"cpu", "rsp"}
Pcs == 0 .. Words - 1
NoTarget == Words
Flags == {"halted", "broke", "intbreak", "signal"}

\* What one write of SP_STATUS asks for: flags to clear and flags to set, where
\* a flag may be named on both sides.  BROKE has no command that sets it.  (The
\* flags do not meet, so a write names one of them here.)
Commands ==
  UNION {[clear : SUBSET {f}, set : SUBSET ({f} \ {"broke"})] : f \in Flags}
\* CLR_INTR and SET_INTR in the same write: together they change nothing.
Lines == {"raise", "acknowledge", "neither"}

VARIABLES
  spStatus, spLine,     \* SP_STATUS in its read layout; mi_intr.sp
  spPc, branch,         \* SP_PC; the target of a taken branch, for one step
  semaphore,
  pending, visible,     \* the address latches, and the registers as read
  spStep, wrote,        \* each driver: how far it is, and the addresses it wrote
  moved,                \* history: the last transfer, and the one it should be
  moves,                \* history: transfers so far
  told, stale           \* history: the next two instructions of the program, and
                        \*   whether SP_PC was written over a latched branch
chip == <<spStatus, spLine, spPc, branch, semaphore, pending, visible>>
drivers == <<spStep, wrote, moved, moves>>
spVars == <<chip, drivers, told, stale>>

SpTypeOK ==
  /\ spStatus \subseteq Flags /\ spLine \in BOOLEAN
  /\ spPc \in Pcs /\ branch \in Pcs \cup {NoTarget}
  /\ semaphore \in BOOLEAN
  /\ pending \in [sp : Nat, ram : Nat] /\ visible \in [sp : Nat, ram : Nat]
  /\ wrote \in [Procs -> [sp : Nat, ram : Nat]]
  /\ spStep \in [Procs -> {"out", "in", "sp", "ram", "done"}]
  /\ told \in Pcs \X Pcs /\ stale \in BOOLEAN

ZeroLatch == [sp |-> 0, ram |-> 0]

SpInit ==
  /\ spStatus = {"halted"} /\ spLine = FALSE
  /\ spPc = 0 /\ branch = NoTarget
  /\ semaphore = FALSE
  /\ pending = ZeroLatch /\ visible = ZeroLatch
  /\ spStep = [p \in Procs |-> "out"] /\ wrote = [p \in Procs |-> ZeroLatch]
  /\ moved = [got |-> ZeroLatch, meant |-> ZeroLatch] /\ moves = 0
  /\ told = <<0, 1>> /\ stale = FALSE

-----------------------------------------------------------------------------
\* A flag named on both sides keeps its value; BROKE obeys its clear regardless.
Applied(flags, c) ==
  (flags \ (c.clear \ c.set)) \cup (c.set \ c.clear)

InterruptChange(l) ==
  CASE l = "raise" -> TRUE [] l = "acknowledge" -> FALSE [] OTHER -> spLine

Seq4(p) == (p + 1) % Words

-----------------------------------------------------------------------------
\* Processor p at the SP registers, on its way through one transfer.  A read
\* of SP_SEMAPHORE returns the bit and sets it, a write of anything clears it.
\* A mutant: only the CPU's read sets it.
ReadSemaphoreBug(p) ==
  /\ spStep[p] = "out" /\ moves < MaxMoves
  /\ spStep' = IF semaphore THEN spStep ELSE [spStep EXCEPT ![p] = "in"]
  /\ semaphore' = (semaphore \/ p = "cpu")
  /\ UNCHANGED <<pending, visible, wrote, moved, moves>>

ReadSemaphore(p) ==
  /\ spStep[p] = "out" /\ moves < MaxMoves
  /\ spStep' = IF semaphore THEN spStep ELSE [spStep EXCEPT ![p] = "in"]
  /\ semaphore' = TRUE
  /\ UNCHANGED <<pending, visible, wrote, moved, moves>>

WriteSpAddr(p) ==
  /\ spStep[p] = "in"
  /\ \E a \in SpAddrs :
       /\ pending' = [pending EXCEPT !.sp = a]
       /\ wrote' = [wrote EXCEPT ![p].sp = a]
  /\ spStep' = [spStep EXCEPT ![p] = "sp"]
  /\ UNCHANGED <<semaphore, visible, moved, moves>>

WriteRamAddr(p) ==
  /\ spStep[p] = "sp"
  /\ \E a \in RamAddrs :
       /\ pending' = [pending EXCEPT !.ram = a]
       /\ wrote' = [wrote EXCEPT ![p].ram = a]
  /\ spStep' = [spStep EXCEPT ![p] = "ram"]
  /\ UNCHANGED <<semaphore, visible, moved, moves>>

\* A length register: the latches become the transfer, which the bus carries
\* out at once, and the registers read past it from then on.
WriteSpLength(p) ==
  /\ spStep[p] = "ram"
  /\ moved' = [got |-> pending, meant |-> wrote[p]]
  /\ visible' = [sp |-> pending.sp + 1, ram |-> pending.ram + 1]
  /\ moves' = moves + 1
  /\ spStep' = [spStep EXCEPT ![p] = "done"]
  /\ UNCHANGED <<semaphore, pending, wrote>>

Release(p) ==
  /\ spStep[p] = "done"
  /\ semaphore' = FALSE
  /\ spStep' = [spStep EXCEPT ![p] = "out"]
  /\ UNCHANGED <<pending, visible, wrote, moved, moves>>

SpTransfer(p) ==
  ReadSemaphore(p) \/ WriteSpAddr(p) \/ WriteRamAddr(p) \/ WriteSpLength(p) \/ Release(p)

-----------------------------------------------------------------------------
\* The CPU's side: its own transfers, SP_STATUS, and SP_PC in its own window.
CpuTransfer ==
  /\ SpTransfer("cpu")
  /\ UNCHANGED <<spStatus, spLine, spPc, branch, told, stale>>

CpuStatus ==
  /\ \E c \in Commands, l \in Lines :
       /\ spStatus' = Applied(spStatus, c)
       /\ spLine' = InterruptChange(l)
  /\ UNCHANGED <<spPc, branch, semaphore, pending, visible, drivers, told, stale>>

\* The CPU starts other microcode, once the present one is not in a transfer.
\* A branch taken by the instruction before the halt stays latched.
CpuPc ==
  /\ spStep["rsp"] = "out" /\ "halted" \in spStatus
  /\ \E p \in Pcs :
       /\ spPc' = p
       /\ told' = <<p, Seq4(p)>>
  /\ stale' = (branch # NoTarget)
  /\ UNCHANGED <<spStatus, spLine, branch, semaphore, pending, visible, drivers>>

-----------------------------------------------------------------------------
\* One step of the RSP (su_step).  The instruction executes in the delay slot
\* of whatever branch the one before latched; `taken` is its own.
AfterDelay == IF branch # NoTarget THEN branch ELSE Seq4(spPc)
\* A mutant: BREAK halts past itself, branch or no branch.
BreakPcBug == Seq4(spPc)
BreakPc == AfterDelay

RetireSu(next, taken) ==
  /\ spPc' = next
  /\ branch' = taken
  /\ stale' = FALSE
  /\ told' = IF stale THEN <<next, IF taken # NoTarget THEN taken ELSE Seq4(next)>>
             ELSE <<told[2], IF taken # NoTarget THEN taken ELSE Seq4(told[2])>>

RspPlain ==
  /\ "halted" \notin spStatus
  /\ RetireSu(AfterDelay, NoTarget)
  /\ UNCHANGED <<spStatus, spLine, semaphore, pending, visible, drivers>>

RspBranch ==
  /\ "halted" \notin spStatus
  /\ \E t \in Pcs : RetireSu(AfterDelay, t)
  /\ UNCHANGED <<spStatus, spLine, semaphore, pending, visible, drivers>>

RspBreak ==
  /\ "halted" \notin spStatus
  /\ RetireSu(BreakPc, NoTarget)
  /\ spStatus' = spStatus \cup {"halted", "broke"}
  /\ spLine' = (spLine \/ "intbreak" \in spStatus)
  /\ UNCHANGED <<semaphore, pending, visible, drivers>>

RspStatus ==
  /\ "halted" \notin spStatus
  /\ RetireSu(AfterDelay, NoTarget)
  /\ \E c \in Commands, l \in Lines :
       /\ spStatus' = Applied(spStatus, c)
       /\ spLine' = InterruptChange(l)
  /\ UNCHANGED <<semaphore, pending, visible, drivers>>

RspTransfer ==
  /\ "halted" \notin spStatus
  /\ RetireSu(AfterDelay, NoTarget)
  /\ SpTransfer("rsp")
  /\ UNCHANGED <<spStatus, spLine>>

SpNext ==
  \/ CpuTransfer \/ CpuStatus \/ CpuPc
  \/ RspPlain \/ RspBranch \/ RspBreak \/ RspStatus \/ RspTransfer

SpSpec == SpInit /\ [][SpNext]_spVars

-----------------------------------------------------------------------------
\* A transfer moves what its issuer asked for, however the two processors'
\* writes to the one pair of latches interleave and wherever the CPU halts
\* the RSP in the middle of programming one (start_dma).
OwnTransfers == moved.got = moved.meant

\* Halting and releasing the RSP, by SET_HALT from either side or by a BREAK,
\* in a delay slot or out of it, never loses or repeats an instruction: the RSP
\* goes on where the program would (su_step).  Not so when the CPU writes SP_PC
\* with a branch latched: the first new instruction becomes its delay slot.
ResumesInOrder ==
  ~stale => /\ spPc = told[1]
            /\ AfterDelay = told[2]

\* Both: what the two processors share at the SP's registers serves each (sp.rs, su.rs).
SharedSp == OwnTransfers /\ ResumesInOrder
=============================================================================
