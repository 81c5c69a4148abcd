------------------------------- MODULE AiFifo -------------------------------
(***************************************************************************)
(* The audio interface (rustyn64-audio, Audio) with the bus's side of its  *)
(* interrupt (core, bus.rs): a two-deep queue of DMA transfers filled by   *)
(* register writes and drained by the DAC, one word a sample.              *)
(*                                                                         *)
(* Addresses and lengths are counted in words (one stereo sample), slots   *)
(* from 1.  Time is relative: `due` is next_sample_tick less the current   *)
(* position, so that a warm reset, which takes the position back to zero   *)
(* and leaves the AI alone, lengthens it by the age of the machine.  What  *)
(* a sample sounds like, the status register and the underrun counter are  *)
(* left out.                                                               *)
(***************************************************************************)
EXTENDS Naturals

CONSTANTS
  PAGE,       \* words in an 8 KiB page
  Bases,      \* word addresses software plays from
  Lengths,    \* lengths it asks for, in words; zero is one of them
  Step,       \* RCP_DIVIDER: master ticks from one RCP step to the next
  Periods,    \* sample periods it programs, in master ticks
  Ages,       \* bound: positions a reset may find the machine at
  MaxResets   \* bound: resets in one behaviour

\* AI_DACRATE cannot ask for more than half the video clock, about 24 MHz, so a
\* period is longer than an RCP step.
ASSUME AiAssumption ==
  /\ PAGE \in Nat \ {0} /\ Step \in Nat \ {0} /\ MaxResets \in Nat
  /\ Bases \subseteq Nat /\ Lengths \subseteq Nat /\ Ages \subseteq Nat
  /\ Periods \subseteq Nat /\ \A p \in Periods : p > Step

VARIABLES
  addr, len,    \* dma_addr and dma_len
  count,        \* dma_count
  carry,        \* addr_carry
  enable,       \* dma_enable
  period,       \* period_ticks, from AI_DACRATE and the region
  anchored,     \* next_sample_tick # 0
  due,          \* next_sample_tick - last_tick, once anchored
  irq,          \* mi_intr.ai
  staged,       \* history: the address written for the next transfer, if it is
                \* still in the slot that transfer will use (none or one)
  base,         \* history: the address each queued transfer was to start at
  played, late, \* history: words played of the front transfer, and whether it
                \* started under the carry of the one before
  resets        \* history: resets so far

aiQueue == <<addr, len, count, carry>>
aiHistory == <<staged, base, played, late, resets>>
aiSchedule == <<anchored, due>>
aiVars == <<aiQueue, enable, period, aiSchedule, irq, aiHistory>>

AiSlots == 1 .. 2

AiTypeOK ==
  /\ addr \in [AiSlots -> Nat] /\ len \in [AiSlots -> Nat]
  /\ count \in 0 .. 2
  /\ carry \in 0 .. 1
  /\ {enable, irq} \subseteq BOOLEAN
  /\ period \in Periods
  /\ due \in Nat /\ anchored \in BOOLEAN /\ (anchored => due > 0)
  /\ staged \subseteq Bases
  /\ base \in [AiSlots -> Nat]
  /\ played \in Nat /\ late \in 0 .. 1
  /\ resets \in 0 .. MaxResets

AiInit ==
  /\ addr = [s \in AiSlots |-> 0] /\ len = [s \in AiSlots |-> 0]
  /\ count = 0 /\ carry = 0
  /\ enable = FALSE
  /\ period \in Periods
  /\ anchored = FALSE /\ due = 0
  /\ irq = FALSE
  /\ staged = {}
  /\ base = [s \in AiSlots |-> 0]
  /\ played = 0 /\ late = 0 /\ resets = 0

-----------------------------------------------------------------------------
\* AI_DRAM_ADDR: into the next free slot, or nowhere when the queue is full.
WriteAddr(a) ==
  /\ IF count < 2
       THEN addr' = [addr EXCEPT ![count + 1] = a] /\ staged' = {a}
       ELSE UNCHANGED <<addr, staged>>
  /\ UNCHANGED <<len, count, carry, enable, period, aiSchedule, irq, base,
                 played, late, resets>>

StartCarryBug == carry
StartCarry == 0

\* AI_LENGTH: the transfer is queued, and starts if the queue was idle: the
\* first sample is one period away and the interrupt is raised.
WriteLength(n) ==
  /\ count < 2
  /\ len' = [len EXCEPT ![count + 1] = n]
  /\ count' = count + 1
  /\ base' = [base EXCEPT ![count + 1] =
                IF staged = {} THEN addr[count + 1]
                              ELSE CHOOSE a \in staged : TRUE]
  /\ staged' = {}
  /\ IF count = 0
       THEN /\ carry' = StartCarry /\ irq' = TRUE
            /\ anchored' = TRUE /\ due' = period
            /\ played' = 0 /\ late' = 0
       ELSE UNCHANGED <<carry, aiSchedule, irq, played, late>>
  /\ UNCHANGED <<addr, enable, period, resets>>

\* AI_LENGTH with the queue full is ignored, like the unmapped registers.

\* AI_CONTROL.
WriteControl(on) ==
  /\ enable' = on
  /\ UNCHANGED <<aiQueue, period, aiSchedule, irq, aiHistory>>

\* AI_STATUS: acknowledge.
WriteStatus ==
  /\ irq' = FALSE
  /\ UNCHANGED <<aiQueue, enable, period, aiSchedule, aiHistory>>

\* AI_DACRATE, or a ROM of another region; the sample already scheduled stays.
WriteRate(p) ==
  /\ period' = p
  /\ UNCHANGED <<aiQueue, enable, aiSchedule, irq, aiHistory>>

-----------------------------------------------------------------------------
\* emit_sample: a word is played if a transfer is active...
Active == count > 0 /\ len[1] > 0 /\ enable

From == addr[1] + carry * PAGE           \* the carry deferred until now
\* ... the address moves on within its page, and the new carry waits.
Onward == (From \div PAGE) * PAGE + ((From + 1) % PAGE)
CarryOut == IF (From + 1) % PAGE = 0 THEN 1 ELSE 0

Left == IF Active THEN len[1] - 1 ELSE len[1]

\* A drained front transfer makes way for the one behind it, which starts, with
\* an interrupt; an address staged behind them is now out of place.
RaisesBug == FALSE
Raises == TRUE

Retired == count > 0 /\ Left = 0

\* Whether the word just played ended a page.
EndsPage == (base[1] + late * PAGE + played + 1) % PAGE = 0

Emit ==
  /\ carry' = IF Active THEN CarryOut ELSE carry
  /\ LET front == IF Active THEN Onward ELSE addr[1]
     IN  IF Retired /\ count = 2
           THEN /\ addr' = [addr EXCEPT ![1] = addr[2]]
                /\ len'  = [len EXCEPT ![1] = len[2]]
                /\ irq'  = (irq \/ Raises)
           ELSE /\ addr' = [addr EXCEPT ![1] = front]
                /\ len'  = [len EXCEPT ![1] = Left]
                /\ UNCHANGED irq
  /\ count' = IF Retired THEN count - 1 ELSE count
  /\ staged' = IF Retired THEN {} ELSE staged
  /\ IF Retired /\ count = 2
       THEN /\ base' = [base EXCEPT ![1] = base[2]]
            /\ played' = 0
            /\ late' = IF ~Active THEN late ELSE IF EndsPage THEN 1 ELSE 0
       ELSE /\ played' = IF Active THEN played + 1 ELSE played
            /\ UNCHANGED <<base, late>>

\* One RCP step.  The first anchors the schedule; a step that reaches the next
\* sample emits it, and never two, a period being longer than a step.
Reached == anchored /\ due <= Step

AiTick ==
  /\ anchored' = TRUE
  /\ IF Reached
       THEN Emit /\ due' = due + period - Step
       ELSE /\ due' = IF anchored THEN due - Step ELSE period
            /\ UNCHANGED <<aiQueue, irq, staged, base, played, late>>
  /\ UNCHANGED <<enable, period, resets>>

\* System::reset, also the first half of opening a ROM: the position is zero
\* again.  The AI keeps its registers, its queue and next_sample_tick.  (The
\* first RCP step stamps last_tick anew before the CPU can reach a store.)
AiReset(age) ==
  /\ resets < MaxResets
  /\ due' = IF anchored THEN due + age ELSE due
  /\ resets' = resets + 1
  /\ UNCHANGED <<aiQueue, enable, period, anchored, irq, staged, base, played,
                 late>>

AiNext ==
  \/ \E a \in Bases : WriteAddr(a)
  \/ \E n \in Lengths : WriteLength(n)
  \/ \E on \in BOOLEAN : WriteControl(on)
  \/ WriteStatus
  \/ \E p \in Periods : WriteRate(p)
  \/ AiTick
  \/ \E age \in Ages : AiReset(age)

AiSpec == AiInit /\ [][AiNext]_aiVars

-----------------------------------------------------------------------------
\* Whenever software refills, drains race it and transfers follow each other,
\* the word read next (modulo the 24 bits of an address) is the next word of the
\* transfer that was queued: from the address written for it while its slot was
\* the free one, shifted by a page only if it was promoted behind a transfer that
\* ended with its page (the delayed carry of the hardware).
PlaysWhatWasQueued ==
  /\ count > 0 /\ len[1] > 0 =>
       addr[1] + carry * PAGE = base[1] + late * PAGE + played
  /\ count = 2 => addr[2] = base[2]

\* Software that has filled both slots and sleeps is woken: while DMA is
\* enabled, a full queue comes to have room, with the interrupt raised.
FullClears ==
  (count = 2 /\ enable) ~> ((count < 2 /\ irq) \/ ~enable)

\* lib.rs, Audio: "the DAC has no stopped state, so the transfer queue must be
\* able to retire".  So with a transfer queued the next sample is never more than
\* the longest period away.
NeverStopped ==
  anchored /\ count > 0 => \E p \in Periods : due <= p
=============================================================================
