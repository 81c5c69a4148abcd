------------------------------ MODULE Pipeline ------------------------------
(***************************************************************************)
(* The VR4300's five-stage pipeline: crates/rustyn64-cpu/src/pipeline.rs.  *)
(* One step of this module is one PCycle, `Pipeline::advance_at`: the      *)
(* stages in the order WB, DC, EX, RF, IC, each an operator from pipeline  *)
(* state to pipeline state, then the dispatch of the exception they left.  *)
(*                                                                         *)
(* An instruction is what the pipeline can tell about it: its class, one   *)
(* source and one destination.  A value is the serial number of the        *)
(* instruction that produced it, so that two values are equal exactly if   *)
(* they come from the same producer.                                       *)
(*                                                                         *)
(* Beside the pipeline runs `isa`, a machine that executes one instruction *)
(* after the other and is advanced when an instruction retires.            *)
(***************************************************************************)
EXTENDS Naturals, Sequences

CONSTANTS
    MaxFetch,    \* how many instructions a behaviour fetches
    Instr        \* the instructions that may be fetched

Op == {"alu", "load", "store", "mult", "ll", "sc", "taken", "untaken", "likely", "jal",
       "eret", "syscall", "fp", "mtc0"}

ASSUME PipelineAssumption ==
    /\ MaxFetch \in Nat
    /\ Instr \subseteq [op : Op, src : {0, 1}, dst : {0, 1}]

VARIABLES
    p,        \* the pipeline, with the part of COP0 it reads and writes
    isa       \* the sequential machine, and what is remembered of the past

vars == <<p, isa>>

Start  == 0      \* the reset vector
Target == 20     \* where taken branches and calls go
Vector == 40     \* the exception vector

-----------------------------------------------------------------------------
(* Latches.  `Bubble` is `Latch::default()`.                               *)

Bubble == [occupied |-> FALSE, seq |-> 0, epoch |-> 0, pc |-> 0, slot |-> FALSE,
           abort |-> FALSE, op |-> "alu", src |-> 0, dst |-> 0, rs |-> 0, write |-> 0, value |-> 0,
           epc |-> 0, bd |-> FALSE]

Live(l) == l.occupied /\ ~l.abort

Flag(b) == 200 + IF b THEN 1 ELSE 0      \* the 0 or 1 that SC writes
Link(a) == 100 + a                       \* an address in a register

HasDelaySlot(l) == l.op \in {"taken", "untaken", "likely", "jal"}
IsLoad(l)       == l.op \in {"load", "ll"}
Accesses(l)     == l.op \in {"load", "store", "ll", "sc"}

Nop == [op |-> "alu", src |-> 0, dst |-> 0]      \* what a latch holds by default

NoStall == 0

(* A zero-cycle request is not a stall; a request replaces the one before. *)
StallFor(s, n) == IF n = 0 THEN s ELSE [s EXCEPT !.stall = n]

(* `abort_with`: the first exception of a cycle is kept, because a later    *)
(* stage takes precedence over an earlier one and the stages run from the  *)
(* last to the first; the instruction and all younger ones are marked.     *)
Upstream(at) ==
    CASE at = "wb" -> {"dcwb", "exdc", "rfex", "icrf"}
      [] at = "dc" -> {"exdc", "rfex", "icrf"}
      [] at = "ex" -> {"rfex", "icrf"}
      [] at = "ic" -> {"icrf"}

Source(s, at) ==
    CASE at = "wb" -> s.dcwb [] at = "dc" -> s.exdc [] at = "ex" -> s.rfex [] at = "ic" -> s.icrf

(* A mutant: the last exception of a cycle wins.                            *)
ChargedBug(s, l) == <<[pc |-> l.pc, slot |-> l.slot, seq |-> l.seq]>>

Charged(s, l) ==
    IF s.pending = <<>> THEN <<[pc |-> l.pc, slot |-> l.slot, seq |-> l.seq]>> ELSE s.pending

AbortFrom(s, at) ==
    LET mark(l) == IF l \in Upstream(at) THEN [s[l] EXCEPT !.abort = TRUE] ELSE s[l]
    IN  [s EXCEPT !.pending = Charged(s, Source(s, at)),
                  !.flush = TRUE,
                  !.dcwb = mark("dcwb"), !.exdc = mark("exdc"),
                  !.rfex = mark("rfex"), !.icrf = mark("icrf")]

-----------------------------------------------------------------------------
(* WB.  A trapping floating-point operation (or CTC1) traps here and does  *)
(* not retire; a COP0 write lands here.                                    *)
WbStage(s, trap) ==
    LET l == s.dcwb
        done == [s EXCEPT !.dcwb.occupied = FALSE]
    IN  IF ~Live(l) THEN done
        ELSE IF l.op = "fp" /\ trap THEN [AbortFrom(s, "wb") EXCEPT !.dcwb.occupied = FALSE]
        ELSE [done EXCEPT !.exl = IF l.op = "mtc0" THEN FALSE ELSE @,
                          !.reg = IF l.write # 0 THEN l.value ELSE @,
                          !.retired = <<l>>]

(* DC.  The interrupt is charged to the instruction in this stage; then    *)
(* that instruction, if it is still alive, makes its memory access.        *)
InterruptChargeable(s) == s.exdc.occupied /\ (s.exdc.op # "eret" \/ s.exdc.abort)

Access(s, fault, miss) ==
    LET l == s.exdc
    IN  IF ~(Live(l) /\ Accesses(l)) THEN [s EXCEPT !.dcwb = l]
        ELSE IF fault THEN LET a == AbortFrom(s, "dc") IN [a EXCEPT !.dcwb = a.exdc]
        ELSE StallFor([s EXCEPT
                !.dcwb = IF l.op = "store" THEN l
                         ELSE [l EXCEPT !.write = l.dst,
                                        !.value = IF l.op = "sc" THEN Flag(s.ll)
                                                  ELSE l.seq],
                !.ll = @ \/ l.op = "ll"],
             IF miss THEN 1 ELSE 0)

DcStage(s, irq, fault, miss) ==
    LET taken == irq /\ s.prevRun /\ ~s.exl /\ InterruptChargeable(s)
        s1    == IF taken THEN AbortFrom(s, "dc") ELSE s
    IN  [Access(s1, fault, miss) EXCEPT !.exdc.occupied = FALSE]

(* EX.  Operands come through the bypass from the instruction just ahead,   *)
(* which DC has moved into the last latch in this same cycle.              *)
BypassValue(s, r) ==
    IF r # 0 /\ Live(s.dcwb) /\ s.dcwb.write = r THEN s.dcwb.value
    ELSE IF r = 0 THEN 0 ELSE s.reg

(* A mutant: a branch redirects whatever became of its delay slot.         *)
DelaySlotFaultedBug(s, l) == FALSE

DelaySlotFaulted(s, l) == HasDelaySlot(l) /\ s.icrf.occupied /\ s.icrf.slot /\ s.icrf.abort

(* `resolve_branch_control`: the link is the live fetch address; a branch   *)
(* whose delay slot has faulted must leave the vector alone; a             *)
(* branch-likely that is not taken squashes its delay slot.                *)
ResolveBranch(s, l) ==
    LET faulted == DelaySlotFaulted(s, l)
        linked  == IF l.op = "jal"
                   THEN [l EXCEPT !.write = l.dst,
                                  !.value = Link(IF faulted THEN l.pc + 2 ELSE s.nextPc)]
                   ELSE l
    IN  [s EXCEPT !.exdc = linked,
                  !.nextPc = IF faulted THEN @
                             ELSE IF l.op \in {"taken", "jal"} THEN Target
                             ELSE IF l.op = "likely" THEN l.pc + 2 ELSE @,
                  !.icrf = IF l.op = "likely" /\ ~faulted THEN Bubble ELSE @]

(* A mutant: ERET leaves the link bit.                                      *)
EretBug(s, l) ==
    [s EXCEPT !.exdc = [l EXCEPT !.value = s.epc], !.exl = FALSE, !.nextPc = s.epc, !.icrf = Bubble]

(* `exception::eret`, the link bit, and the squash of what IC has fetched:  *)
(* ERET has no delay slot.                                                 *)
Eret(s, l) ==
    [s EXCEPT !.exdc = [l EXCEPT !.value = s.epc], !.exl = FALSE, !.nextPc = s.epc,
              !.ll = FALSE, !.icrf = Bubble]

Execute(s, l) ==
    CASE l.op = "syscall" -> LET a == AbortFrom(s, "ex") IN [a EXCEPT !.exdc = a.rfex]
      [] l.op = "eret"    -> Eret(s, l)
      [] HasDelaySlot(l)  -> ResolveBranch(s, l)
      [] l.op = "alu"     -> [s EXCEPT !.exdc = [l EXCEPT !.write = l.dst, !.value = l.seq]]
      [] l.op = "mult"    -> StallFor([s EXCEPT !.exdc = l], 2)
      [] OTHER            -> [s EXCEPT !.exdc = l]

ExStage(s) ==
    LET l == s.rfex
        s1 == IF Live(l) THEN Execute(s, [l EXCEPT !.rs = BypassValue(s, l.src)])
                         ELSE [s EXCEPT !.exdc = l]
    IN  [s1 EXCEPT !.rfex.occupied = FALSE]

(* RF.  The load interlock compares with the instruction EX has just        *)
(* passed on, whether or not the field it matches is really a source.      *)
LoadInterlocks(load, l) == load.dst # 0 /\ (load.dst = l.src \/ load.dst = l.dst)

RfStage(s) ==
    LET l == s.icrf
        interlock == l.occupied /\ s.exdc.occupied /\ IsLoad(s.exdc) /\ LoadInterlocks(s.exdc, l)
    IN  StallFor([s EXCEPT !.rfex = l, !.icrf.occupied = FALSE], IF interlock THEN 1 ELSE 0)

(* IC.  Nothing is fetched in a cycle that flushes.  The delay-slot mark   *)
(* depends on the branch RF has just passed on, and a fetch that faults    *)
(* enters the pipe as an aborted instruction that is nothing in            *)
(* particular.                                                             *)
Fetched(s, i) ==
    [Bubble EXCEPT !.occupied = TRUE, !.seq = s.fetched + 1, !.epoch = s.epoch, !.pc = s.nextPc,
                   !.slot = s.rfex.occupied /\ HasDelaySlot(s.rfex),
                   !.op = i.op, !.src = i.src, !.dst = i.dst, !.epc = s.epc, !.bd = s.bd]

IcStage(s, i, fault) ==
    IF s.flush THEN [s EXCEPT !.icrf = Bubble]
    ELSE LET f == [s EXCEPT !.icrf = Fetched(s, IF fault THEN Nop ELSE i), !.fetched = @ + 1]
         IN  IF fault THEN AbortFrom(f, "ic") ELSE [f EXCEPT !.nextPc = @ + 1]

-----------------------------------------------------------------------------
(* `exception::dispatch`, once per cycle and after all the stages: EPC and *)
(* BD are written only if EXL is clear.                                    *)
Dispatch(s) ==
    IF s.pending = <<>> THEN s
    ELSE LET e == s.pending[1]
         IN  StallFor([s EXCEPT !.epc = IF s.exl THEN @ ELSE IF e.slot THEN e.pc - 1 ELSE e.pc,
                                !.bd  = IF s.exl THEN @ ELSE e.slot,
                                !.exl = TRUE, !.nextPc = Vector, !.epoch = @ + 1], 2)

RunCycle(irq, trap, fault, miss, i, bad) ==
    LET s5 == IcStage(RfStage(ExStage(DcStage(WbStage(p, trap), irq, fault, miss))), i, bad)
    IN  Dispatch([s5 EXCEPT !.prevRun = TRUE, !.flush = FALSE])

-----------------------------------------------------------------------------
(* The sequential machine.  `pc` is the instruction to execute next,       *)
(* `npc` the one after it, `slot` whether `pc` is a delay slot and         *)
(* `branch` the branch it belongs to.  A branch or an ERET in a delay slot *)
(* is undefined in the architecture: from there on `nested` holds.         *)

IsaInit == [pc |-> Start, npc |-> Start + 1, slot |-> FALSE, branch |-> 0, reg |-> 0,
            ll |-> FALSE, exl |-> FALSE, epc |-> 0, epoch |-> 0, cp0 |-> 0,
            nested |-> FALSE, overtaken |-> FALSE]

(* An instruction fetched after an exception starts the machine at the     *)
(* vector.                                                                 *)
Entered(m, l) ==
    IF l.epoch = m.epoch THEN m
    ELSE [m EXCEPT !.pc = Vector, !.npc = Vector + 1, !.slot = FALSE, !.exl = TRUE,
                   !.epc = l.epc, !.epoch = l.epoch]

Nested(l) == l.slot /\ (HasDelaySlot(l) \/ l.op = "eret")

Follow(m, l) ==
    CASE l.op \in {"taken", "jal"} -> <<m.npc, Target>>
      [] l.op = "likely"           -> <<m.npc + 1, m.npc + 2>>
      [] l.op = "eret"             -> <<l.value, l.value + 1>>
      [] OTHER                     -> <<m.npc, m.npc + 1>>

Result(m, l) ==
    CASE l.op \in {"alu", "load", "ll"} -> l.seq
      [] l.op = "sc"  -> Flag(m.ll)
      [] l.op = "jal" -> Link(m.npc + 1)

Writes(l) == l.op \in {"alu", "load", "ll", "sc", "jal"} /\ l.dst # 0

Retire(m0, l) ==
    LET m == Entered(m0, l)
    IN  [m EXCEPT !.pc = Follow(m, l)[1], !.npc = Follow(m, l)[2],
                  !.slot = HasDelaySlot(l) /\ l.op # "likely",
                  !.branch = IF HasDelaySlot(l) THEN l.pc ELSE 99,
                  !.reg = IF Writes(l) THEN Result(m, l) ELSE @,
                  !.ll = (@ \/ l.op = "ll") /\ l.op # "eret",
                  !.nested = @ \/ Nested(l),
                  !.exl = @ /\ l.op \notin {"eret", "mtc0"}]

(* Who touched COP0: the serial numbers of the instructions whose           *)
(* exception, ERET or MTC0 took effect in this cycle, in the order of      *)
(* their effects.                                                          *)
Cp0Effects(q) ==
    (IF q.retired # <<>> /\ q.retired[1].op = "mtc0" THEN <<q.retired[1].seq>> ELSE <<>>)
    \o (IF Live(q.exdc) /\ q.exdc.op = "eret" THEN <<q.exdc.seq>> ELSE <<>>)
    \o (IF q.pending # <<>> THEN <<q.pending[1].seq>> ELSE <<>>)

Observe(m0, q) ==
    LET m  == IF q.retired = <<>> THEN m0 ELSE Retire(m0, q.retired[1])
        fx == Cp0Effects(q)
        high == {m.cp0} \cup {fx[k] : k \in DOMAIN fx}
    IN  [m EXCEPT !.cp0 = CHOOSE x \in high : \A y \in high : y <= x,
                  !.overtaken = @ \/ \E k \in DOMAIN fx :
                                        \/ fx[k] < m.cp0
                                        \/ \E j \in DOMAIN fx : j < k /\ fx[k] < fx[j]]

-----------------------------------------------------------------------------
Init ==
    /\ p = [icrf |-> Bubble, rfex |-> Bubble, exdc |-> Bubble, dcwb |-> Bubble,
            stall |-> NoStall, prevRun |-> FALSE, flush |-> FALSE, pending |-> <<>>,
            nextPc |-> Start, exl |-> FALSE, epc |-> 0, bd |-> FALSE, ll |-> FALSE,
            reg |-> 0, fetched |-> 0, epoch |-> 0, retired |-> <<>>]
    /\ isa = IsaInit

(* A stall consumes the cycle, and no interrupt is taken in the next.      *)
StallCycle ==
    /\ p.stall > 0
    /\ p' = [p EXCEPT !.stall = @ - 1, !.prevRun = FALSE]
    /\ UNCHANGED isa

(* Nothing reads a latch that is not occupied.                             *)
Tidy(l) == IF l.occupied THEN l ELSE Bubble

(* The bounds: MaxFetch instructions that matter, and then as many Nops as  *)
(* it takes to see them through the pipe.                                  *)
Padding == 4

Cycle ==
    /\ p.stall = 0
    /\ p.fetched < MaxFetch + Padding
    /\ \E irq, trap, fault, miss, bad \in BOOLEAN,
          i \in IF p.fetched < MaxFetch THEN Instr ELSE {Nop} :
          /\ irq => p.exdc.occupied /\ p.prevRun /\ (~p.exl \/ p.dcwb.op = "mtc0")
          /\ trap => p.dcwb.op = "fp"
          /\ (fault \/ miss) => Accesses(p.exdc)
          /\ bad => p.fetched < MaxFetch
          /\ LET q == RunCycle(irq, trap, fault, miss, i, bad)
             IN  /\ p' = [q EXCEPT !.retired = <<>>, !.pending = <<>>,
                                   !.icrf = Tidy(@), !.rfex = Tidy(@),
                                   !.exdc = Tidy(@), !.dcwb = Tidy(@)]
                 /\ isa' = Observe(isa, q)

Finished == p.stall = 0 /\ p.fetched = MaxFetch + Padding /\ UNCHANGED vars

Next == StallCycle \/ Cycle \/ Finished

Spec == Init /\ [][Next]_vars

-----------------------------------------------------------------------------
(* Properties.                                                             *)

(* The state stays in its types: a latch holds an instruction that was     *)
(* fetched, at most one exception is pending, stalls are of 0 to 2 cycles. *)
TypeOK ==
    /\ p.stall \in 0..2
    /\ p.fetched \in 0..MaxFetch + Padding
    /\ \A l \in {p.icrf, p.rfex, p.exdc, p.dcwb} :
          l.op \in Op /\ l.seq \in 0..p.fetched /\ l.epoch \in 0..p.epoch
    /\ p.pending = <<>> /\ p.retired = <<>>
    /\ isa.epoch \in 0..p.epoch /\ isa.cp0 \in 0..p.fetched

(* The instruction `l`, about to retire, is one the machine can judge.     *)
Judged(l) == Live(l) /\ ~isa.overtaken /\ ~isa.nested /\ ~Nested(l)

(* The instruction about to retire is the one a sequential machine would    *)
(* execute next, and knows whether it is a delay slot: through stalls,     *)
(* taken and squashed branches, ERET, and every flush.                     *)
NextInOrder ==
    Judged(p.dcwb) =>
        LET m == Entered(isa, p.dcwb) IN p.dcwb.pc = m.pc /\ p.dcwb.slot = m.slot

(* What it read, and what it will write, is what a sequential machine reads *)
(* and writes: the bypass, the link and the link bit of LL and SC.         *)
OperandsInOrder ==
    Judged(p.dcwb) =>
        LET l == p.dcwb
            m == Entered(isa, l)
        IN  /\ l.rs = IF l.src = 0 THEN 0 ELSE m.reg
            /\ Writes(l) => l.write = l.dst /\ l.value = Result(m, l)

(* When a handler's first instruction is about to retire, EPC resumes the   *)
(* program exactly where it was left, at the branch if that was a delay    *)
(* slot, or, for an exception inside a handler, is untouched.              *)
PreciseEntry ==
    Live(p.dcwb) /\ ~isa.overtaken /\ ~isa.nested /\ p.dcwb.epoch # isa.epoch =>
        p.dcwb.epc = IF isa.exl THEN isa.epc ELSE IF p.dcwb.bd THEN isa.branch ELSE isa.pc

(* What retires is what a sequential machine would execute next, with the   *)
(* operands it would have, and an exception enters where it would.         *)
RetiresInOrder == NextInOrder /\ OperandsInOrder /\ PreciseEntry

(* pipeline.rs says of the dispatch that by then "the pipeline is drained"; *)
(* if it were, no instruction could change COP0 after a younger one had.   *)
NeverOvertaken == ~isa.overtaken
=============================================================================
