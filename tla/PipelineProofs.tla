--------------------------- MODULE PipelineProofs ---------------------------
(***************************************************************************)
(* That the pipeline retires what a sequential machine would, for any      *)
(* instructions and any number of them, whatever stalls, faults, traps,    *)
(* misses and interrupts fall between (Pipeline, RetiresInOrder).          *)
(*                                                                         *)
(* The argument is by flushing: were the instructions in the latches       *)
(* retired one after the other, from the oldest, each would be the one the *)
(* sequential machine has come to.  The stages run one after the other     *)
(* too, and the invariant is kept by each of them, so it is stated of the  *)
(* pipeline `s` and the machine `m` at any point of a cycle.               *)
(***************************************************************************)
EXTENDS Pipeline, Integers, SequenceTheorems, TLAPS

-----------------------------------------------------------------------------
(* The machine at each latch: what it is once all older ones have retired. *)

After(m, l) == IF Live(l) THEN Retire(m, l) ELSE m

AtExdc(s, m) == After(m, s.dcwb)
AtRfex(s, m) == After(AtExdc(s, m), s.exdc)
AtIcrf(s, m) == After(AtRfex(s, m), s.rfex)

\* What was fetched behind a branch-likely, never taken here, or an ERET is not executed.
Squashes(l) == Live(l) /\ l.op \in {"likely", "eret"}

AtFetch(s, m) == IF Squashes(s.rfex) THEN AtIcrf(s, m) ELSE After(AtIcrf(s, m), s.icrf)

\* An instruction that is still to change EXL: MTC0 until it retires, ERET until EX.
ToWrite(l)   == Live(l) /\ l.op = "mtc0"
ToExecute(l) == Live(l) /\ l.op \in {"mtc0", "eret"}

ExlAtExdc(s)  == ToWrite(s.dcwb)
ExlAtRfex(s)  == ExlAtExdc(s) \/ ToWrite(s.exdc)
ExlAtIcrf(s)  == ExlAtRfex(s) \/ ToExecute(s.rfex)
ExlAtFetch(s) == ExlAtIcrf(s) \/ (~Squashes(s.rfex) /\ ToExecute(s.icrf))

-----------------------------------------------------------------------------
Latch == [occupied : BOOLEAN, seq : Nat, epoch : Nat, pc : Int, slot : BOOLEAN, abort : BOOLEAN,
          op : Op, src : {0, 1}, dst : {0, 1}, rs : Int, write : {0, 1}, value : Int,
          epc : Int, bd : BOOLEAN]

Charge == [pc : Int, slot : BOOLEAN, seq : Nat]

Pipe == [icrf : Latch, rfex : Latch, exdc : Latch, dcwb : Latch,
         stall : Nat, prevRun : BOOLEAN, flush : BOOLEAN, pending : {<<>>} \cup {<<c>> : c \in Charge},
         nextPc : Int, exl : BOOLEAN, epc : Int, bd : BOOLEAN, ll : BOOLEAN,
         reg : Int, fetched : Nat, epoch : Nat, retired : {<<>>} \cup {<<l>> : l \in Latch}]

Machine == [pc : Int, npc : Int, slot : BOOLEAN, branch : Int, reg : Int,
            ll : BOOLEAN, exl : BOOLEAN, epc : Int, epoch : Nat, cp0 : Nat,
            nested : BOOLEAN, overtaken : BOOLEAN]

-----------------------------------------------------------------------------
(* The order of things: latches are in the order of their fetch, and an    *)
(* instruction fetched before the latest exception is older than the       *)
(* youngest that has changed COP0, `cp0`.                                  *)

Before(a, b) == a.occupied /\ b.occupied => a.seq < b.seq /\ a.epoch <= b.epoch

InOrder(s) ==
  /\ Before(s.dcwb, s.exdc) /\ Before(s.dcwb, s.rfex) /\ Before(s.dcwb, s.icrf)
  /\ Before(s.exdc, s.rfex) /\ Before(s.exdc, s.icrf) /\ Before(s.rfex, s.icrf)

Dated(s, epoch, cp0, l) ==
  l.occupied =>
    /\ l.seq <= s.fetched /\ epoch <= l.epoch /\ l.epoch <= s.epoch
    /\ ~l.abort /\ l.epoch # s.epoch => l.seq < cp0
    /\ ~l.abort /\ s.pending # <<>> => l.seq < s.pending[1].seq
    /\ l.abort /\ s.pending = <<>> => l.epoch # s.epoch

Chronology(s, epoch, cp0) ==
  /\ InOrder(s)
  /\ Dated(s, epoch, cp0, s.dcwb) /\ Dated(s, epoch, cp0, s.exdc)
  /\ Dated(s, epoch, cp0, s.rfex) /\ Dated(s, epoch, cp0, s.icrf)
  /\ epoch <= s.epoch /\ cp0 <= s.fetched
  /\ s.pending # <<>> => s.pending[1].seq <= s.fetched
  /\ s.flush = (s.pending # <<>>)
  /\ Live(s.exdc) /\ s.exdc.op = "eret" => s.exdc.seq <= cp0
  /\ s.pending = <<>> /\ s.icrf.occupied /\ s.icrf.abort => s.icrf.op = "alu"

-----------------------------------------------------------------------------
(* Where an exception that nothing has retired since resumes.              *)
Resume(m, bd) == IF m.exl THEN m.epc ELSE IF bd THEN m.branch ELSE m.pc

(* The machine `m` has come to `l`; and where no younger instruction has   *)
(* changed COP0, nor an older one is to clear EXL (`exl`), the pipeline's  *)
(* COP0 is what `l` will find.                                             *)
Reached(s, m, exl, cp0, l) ==
  Live(l) /\ ~m.nested =>
    LET e == Entered(m, l) IN
      /\ l.pc = e.pc /\ l.slot = e.slot
      /\ l.epoch # m.epoch /\ ~exl => l.epc = Resume(m, l.bd)
      /\ l.seq >= cp0 =>
           /\ s.epc = e.epc
           /\ ~exl /\ l.op # "eret" => s.exl = e.exl
           /\ l.epoch # m.epoch => s.bd = l.bd

Operand(m, l) == l.rs = IF l.src = 0 THEN 0 ELSE m.reg
Written(m, l) ==
  IF Writes(l) THEN l.write = l.dst /\ l.value = Result(Entered(m, l), l) ELSE l.write = 0

\* In the last latch an instruction has been through DC, in the one before through EX.
Accessed(m, l) == Live(l) /\ ~m.nested /\ ~Nested(l) => Operand(m, l) /\ Written(m, l)
Executed(m, l) ==
  Live(l) /\ ~m.nested /\ ~Nested(l) =>
    /\ Operand(m, l)
    /\ IF l.op \in {"alu", "jal"} THEN Written(m, l) ELSE l.write = 0
Unwritten(l) == Live(l) => l.write = 0

(* The link bit, at EX: after the instructions that DC has seen, or an ERET. *)
Linked(s, m) == ~m.nested => s.ll = (m.ll /\ ~(Live(s.exdc) /\ s.exdc.op = "eret"))

(* A branch about to be resolved: its delay slot is behind it, or next.    *)
(* The machine has passed the branch.                                      *)
Branching(s, m) ==
  Live(s.rfex) /\ HasDelaySlot(s.rfex) /\ ~m.nested =>
    IF s.icrf.occupied
    THEN /\ s.icrf.slot
         /\ IF s.icrf.abort THEN s.epoch # m.epoch \/ s.pending # <<>>
            ELSE s.epoch = m.epoch /\ s.nextPc = s.rfex.pc + 2
    ELSE s.pending = <<>> /\ s.epoch = m.epoch => s.nextPc = s.rfex.pc + 1

(* What will be fetched is what the machine will come to: the vector after *)
(* an exception, with EPC where it will resume.                            *)
Fetching(s, m, exl) ==
  ~m.nested /\ s.pending = <<>> =>
    IF s.epoch # m.epoch
    THEN /\ s.nextPc = Vector /\ ~Live(s.icrf)
         /\ ~exl => s.exl /\ s.epc = Resume(m, s.bd)
         /\ Live(s.rfex) => s.icrf.occupied
    ELSE /\ s.epc = m.epc
         /\ ~exl => s.exl = m.exl
         /\ ~(Live(s.rfex) /\ (HasDelaySlot(s.rfex) \/ s.rfex.op = "eret")) =>
                 IF Live(s.icrf) /\ s.icrf.op = "likely" THEN s.nextPc = s.icrf.pc + 1
                 ELSE IF Live(s.icrf) /\ s.icrf.op = "eret" THEN TRUE
                 ELSE s.nextPc = m.pc /\ (m.slot => Live(s.icrf))

(* An exception that is to be dispatched at the end of the cycle.          *)
Dispatching(s, m, exl) ==
  s.pending # <<>> /\ ~m.nested /\ ~exl =>
    LET c == s.pending[1] IN
      IF s.exl THEN s.epc = Resume(m, s.bd)
      ELSE (IF c.slot THEN c.pc - 1 ELSE c.pc) = Resume(m, c.slot)

(* While an instruction that was aborted is in the pipe, EXL is set.       *)
Masked(s, l) == l.occupied /\ l.abort /\ s.pending = <<>> => s.exl

\* Where the machine resumes after a branch, and what follows an instruction.
Settled(m) == ~m.nested => IF m.slot THEN m.branch = m.pc - 1 ELSE m.npc = m.pc + 1

\* The exception about to be dispatched does not change COP0 after a younger one.
Timely(s, cp0, late) == ~late /\ (s.pending # <<>> => s.pending[1].seq >= cp0)

Sound(s, m, cp0) ==
  /\ Settled(m)
  /\ ~m.nested => s.reg = m.reg
  /\ Linked(s, AtExdc(s, m))
  /\ Reached(s, m, FALSE, cp0, s.dcwb) /\ Accessed(m, s.dcwb)
  /\ Reached(s, AtExdc(s, m), ExlAtExdc(s), cp0, s.exdc) /\ Executed(AtExdc(s, m), s.exdc)
  /\ Reached(s, AtRfex(s, m), ExlAtRfex(s), cp0, s.rfex) /\ Unwritten(s.rfex)
  /\ ~Squashes(s.rfex) => Reached(s, AtIcrf(s, m), ExlAtIcrf(s), cp0, s.icrf)
  /\ Unwritten(s.icrf)
  /\ Branching(s, AtIcrf(s, m))
  /\ Fetching(s, AtFetch(s, m), ExlAtFetch(s))
  /\ Dispatching(s, AtFetch(s, m), ExlAtFetch(s))
  /\ Masked(s, s.exdc) /\ Masked(s, s.rfex) /\ Masked(s, s.icrf)

PipeInv(s, m, cp0, late) ==
  /\ s \in Pipe /\ m \in Machine /\ cp0 \in Nat /\ late \in BOOLEAN
  /\ Chronology(s, m.epoch, cp0)
  /\ Timely(s, cp0, late) => Sound(s, m, cp0)

\* Between cycles a branch in EX has its delay slot behind it.
SlotThere(s) == Live(s.rfex) /\ HasDelaySlot(s.rfex) => s.icrf.occupied /\ s.icrf.slot

\* Within a cycle, an exception has left nothing behind it alive.
Flushed(s) == s.pending # <<>> => ~Live(s.exdc) /\ ~Live(s.rfex) /\ ~Live(s.icrf)

-----------------------------------------------------------------------------
(* The machine: what retiring an instruction makes of it.                  *)

LEMMA EnteredIs ==
  ASSUME NEW m \in Machine, NEW l \in Latch
  PROVE  LET e == Entered(m, l) IN
           /\ e \in Machine
           /\ l.epoch = m.epoch => e = m
           /\ l.epoch # m.epoch => /\ e.pc = Vector /\ e.npc = Vector + 1 /\ ~e.slot
                                   /\ e.exl /\ e.epc = l.epc
           /\ e.branch = m.branch /\ e.reg = m.reg /\ e.ll = m.ll
           /\ e.epoch = l.epoch /\ e.nested = m.nested
<1>1. CASE l.epoch = m.epoch  BY <1>1 DEF Entered, Machine, Latch
<1>2. CASE l.epoch # m.epoch
  <2> DEFINE e == [m EXCEPT !.pc = Vector, !.npc = Vector + 1, !.slot = FALSE, !.exl = TRUE,
                            !.epc = l.epc, !.epoch = l.epoch]
  <2>1. Entered(m, l) = e  BY <1>2 DEF Entered
  <2>2. l.epc \in Int /\ l.epoch \in Nat /\ Vector \in Int /\ Vector + 1 \in Int  BY DEF Latch, Vector
  <2>3. e \in Machine  BY <2>2 DEF Machine
  <2>4. /\ e.pc = Vector /\ e.npc = Vector + 1 /\ ~e.slot /\ e.exl /\ e.epc = l.epc
        /\ e.branch = m.branch /\ e.reg = m.reg /\ e.ll = m.ll
        /\ e.epoch = l.epoch /\ e.nested = m.nested
    BY DEF Machine
  <2> QED BY <1>2, <2>1, <2>3, <2>4
<1> QED BY <1>1, <1>2

LEMMA RetireIs ==
  ASSUME NEW m \in Machine, NEW l \in Latch
  PROVE  LET e == Entered(m, l)
             r == Retire(m, l)
         IN  /\ r \in Machine
             /\ r.pc = IF l.op \in {"taken", "jal"} THEN e.npc
                       ELSE IF l.op = "likely" THEN e.npc + 1
                       ELSE IF l.op = "eret" THEN l.value ELSE e.npc
             /\ r.npc = IF l.op \in {"taken", "jal"} THEN Target
                        ELSE IF l.op = "likely" THEN e.npc + 2
                        ELSE IF l.op = "eret" THEN l.value + 1 ELSE e.npc + 1
             /\ r.slot = (HasDelaySlot(l) /\ l.op # "likely")
             /\ HasDelaySlot(l) => r.branch = l.pc
             /\ r.reg = IF Writes(l) THEN Result(e, l) ELSE m.reg
             /\ r.ll = ((m.ll \/ l.op = "ll") /\ l.op # "eret")
             /\ r.nested = (m.nested \/ Nested(l))
             /\ r.exl = (e.exl /\ l.op # "eret" /\ l.op # "mtc0")
             /\ r.epc = e.epc /\ r.epoch = l.epoch
<1> DEFINE e == Entered(m, l)  r == Retire(m, l)
<1>1. /\ e \in Machine /\ e.branch = m.branch /\ e.reg = m.reg /\ e.ll = m.ll
      /\ e.epoch = l.epoch /\ e.nested = m.nested
  BY EnteredIs
<1>2. l.op \in Op /\ l.seq \in Nat /\ l.pc \in Int /\ l.value \in Int /\ l.slot \in BOOLEAN
  BY DEF Latch
<1>3. Follow(e, l)[1] = IF l.op \in {"taken", "jal"} THEN e.npc
                        ELSE IF l.op = "likely" THEN e.npc + 1
                        ELSE IF l.op = "eret" THEN l.value ELSE e.npc
  BY DEF Follow
<1>4. Follow(e, l)[2] = IF l.op \in {"taken", "jal"} THEN Target
                        ELSE IF l.op = "likely" THEN e.npc + 2
                        ELSE IF l.op = "eret" THEN l.value + 1 ELSE e.npc + 1
  BY DEF Follow
<1>5. Follow(e, l)[1] \in Int /\ Follow(e, l)[2] \in Int
  BY <1>1, <1>2, <1>3, <1>4 DEF Machine, Target
<1>6. Writes(l) => Result(e, l) \in Int
  BY <1>1, <1>2 DEF Writes, Result, Machine, Flag, Link
<1>7. HasDelaySlot(l) \in BOOLEAN /\ Nested(l) \in BOOLEAN
  BY <1>2 DEF HasDelaySlot, Nested
<1> DEFINE a == Follow(e, l)[1]  b == Follow(e, l)[2]
           sl == HasDelaySlot(l) /\ l.op # "likely"
           br == IF HasDelaySlot(l) THEN l.pc ELSE 99
           rg == IF Writes(l) THEN Result(e, l) ELSE e.reg
           ll == (e.ll \/ l.op = "ll") /\ l.op # "eret"
           ne == e.nested \/ Nested(l)
           ex == e.exl /\ l.op \notin {"eret", "mtc0"}
<1>8. r = [e EXCEPT !.pc = a, !.npc = b, !.slot = sl, !.branch = br, !.reg = rg, !.ll = ll,
                    !.nested = ne, !.exl = ex]
  BY Zenon DEF Retire
<1>9. a \in Int /\ b \in Int /\ sl \in BOOLEAN /\ br \in Int /\ rg \in Int /\ ll \in BOOLEAN
      /\ ne \in BOOLEAN /\ ex \in BOOLEAN
  BY <1>1, <1>2, <1>5, <1>6, <1>7 DEF Machine
<1> HIDE DEF e, r, a, b, sl, br, rg, ll, ne, ex
<1>10. /\ r \in Machine /\ r.pc = a /\ r.npc = b /\ r.slot = sl /\ r.branch = br /\ r.reg = rg
       /\ r.ll = ll /\ r.nested = ne /\ r.exl = ex /\ r.epc = e.epc /\ r.epoch = e.epoch
  <2>1. e \in Machine /\ e.epoch = l.epoch  BY <1>1 DEF e
  <2> DEFINE r1 == [e EXCEPT !.pc = a, !.npc = b, !.slot = sl, !.branch = br]
             r2 == [r1 EXCEPT !.reg = rg, !.ll = ll, !.nested = ne, !.exl = ex]
  <2>2. r \in Machine
    <3>1. r1 \in Machine  BY <2>1, <1>9 DEF Machine
    <3> HIDE DEF r1
    <3>2. r2 \in Machine  BY <3>1, <1>9 DEF Machine
    <3>3. r = r2  BY <1>8 DEF r1
    <3> QED BY <3>2, <3>3
  <2>3. /\ r.pc = a /\ r.npc = b /\ r.slot = sl /\ r.branch = br /\ r.reg = rg
        /\ r.ll = ll /\ r.nested = ne /\ r.exl = ex /\ r.epc = e.epc /\ r.epoch = e.epoch
    BY <2>1, <1>8 DEF Machine
  <2> QED BY <2>2, <2>3
<1> QED BY <1>1, <1>3, <1>4, <1>10 DEF e, r, a, b, sl, br, rg, ll, ne, ex

\* Only so much of an instruction matters to the machine.
LEMMA SameRetire ==
  ASSUME NEW m, NEW l, NEW k,
         k.op = l.op, k.seq = l.seq, k.epoch = l.epoch, k.epc = l.epc, k.pc = l.pc,
         k.slot = l.slot, k.dst = l.dst, l.op = "eret" => k.value = l.value
  PROVE  Retire(m, k) = Retire(m, l)
<1>1. Entered(m, k) = Entered(m, l)  BY DEF Entered
<1>2. HasDelaySlot(k) = HasDelaySlot(l) /\ Nested(k) = Nested(l) /\ Writes(k) = Writes(l)
  BY DEF HasDelaySlot, Nested, Writes
<1> DEFINE e == Entered(m, l)
<1>3. Follow(e, k) = Follow(e, l)  BY DEF Follow
<1>4. Result(e, k) = Result(e, l)  BY DEF Result
<1> HIDE DEF e
<1> QED BY <1>1, <1>2, <1>3, <1>4 DEF Retire, e

LEMMA AfterIs ==
  ASSUME NEW m \in Machine, NEW l \in Latch
  PROVE  /\ After(m, l) \in Machine
         /\ After(m, l).epoch = IF Live(l) THEN l.epoch ELSE m.epoch
         /\ After(m, l).nested = (m.nested \/ (Live(l) /\ Nested(l)))
<1>1. Nested(l) \in BOOLEAN /\ Live(l) \in BOOLEAN /\ m.nested \in BOOLEAN
  BY DEF Nested, Live, Latch, Machine, HasDelaySlot
<1> QED BY <1>1, RetireIs DEF After

-----------------------------------------------------------------------------
(* Latches, and what an exception makes of them.                           *)

Aborted(l) == [l EXCEPT !.abort = TRUE]
Emptied(l) == [l EXCEPT !.occupied = FALSE]

LEMMA LatchIs ==
  ASSUME NEW l \in Latch
  PROVE  /\ Aborted(l) \in Latch /\ ~Live(Aborted(l)) /\ Aborted(l).abort
         /\ Aborted(l).occupied = l.occupied /\ Aborted(l).seq = l.seq
         /\ Aborted(l).epoch = l.epoch /\ Aborted(l).op = l.op /\ Aborted(l).slot = l.slot
         /\ Emptied(l) \in Latch /\ ~Live(Emptied(l)) /\ ~Emptied(l).occupied
         /\ Bubble \in Latch /\ ~Bubble.occupied /\ ~Live(Bubble)
<1>1. Aborted(l) \in Latch /\ Emptied(l) \in Latch  BY DEF Aborted, Emptied, Latch
<1>2. /\ Aborted(l).abort /\ Aborted(l).occupied = l.occupied /\ Aborted(l).seq = l.seq
      /\ Aborted(l).epoch = l.epoch /\ Aborted(l).op = l.op /\ Aborted(l).slot = l.slot
      /\ ~Emptied(l).occupied
  BY DEF Aborted, Emptied, Latch
<1>3. Bubble \in Latch /\ ~Bubble.occupied  BY DEF Bubble, Latch, Op
<1> QED BY <1>1, <1>2, <1>3 DEF Live

LEMMA PipeIs ==
  ASSUME NEW s \in Pipe
  PROVE  /\ s.icrf \in Latch /\ s.rfex \in Latch /\ s.exdc \in Latch /\ s.dcwb \in Latch
         /\ s.flush \in BOOLEAN /\ s.nextPc \in Int /\ s.exl \in BOOLEAN /\ s.epc \in Int
         /\ s.bd \in BOOLEAN /\ s.ll \in BOOLEAN /\ s.reg \in Int /\ s.fetched \in Nat
         /\ s.epoch \in Nat /\ s.stall \in Nat /\ s.prevRun \in BOOLEAN
         /\ s.pending # <<>> => s.pending[1] \in Charge /\ s.pending = <<s.pending[1]>>
BY DEF Pipe

\* The exception that a stage charges to `l`.
ChargeTo(l) == [pc |-> l.pc, slot |-> l.slot, seq |-> l.seq]

LEMMA AbortIs ==
  ASSUME NEW s \in Pipe, NEW at \in {"wb", "dc", "ex", "ic"}
  PROVE  LET t == AbortFrom(s, at) IN
           /\ t \in Pipe
           /\ t.pending = IF s.pending = <<>> THEN <<ChargeTo(Source(s, at))>> ELSE s.pending
           /\ t.pending # <<>> /\ t.flush
           /\ s.pending = <<>> => /\ t.pending[1].pc = Source(s, at).pc
                                  /\ t.pending[1].slot = Source(s, at).slot
                                  /\ t.pending[1].seq = Source(s, at).seq
           /\ t.dcwb = IF at = "wb" THEN Aborted(s.dcwb) ELSE s.dcwb
           /\ t.exdc = IF at \in {"wb", "dc"} THEN Aborted(s.exdc) ELSE s.exdc
           /\ t.rfex = IF at \in {"wb", "dc", "ex"} THEN Aborted(s.rfex) ELSE s.rfex
           /\ t.icrf = Aborted(s.icrf)
           /\ t.nextPc = s.nextPc /\ t.exl = s.exl /\ t.epc = s.epc /\ t.bd = s.bd
           /\ t.ll = s.ll /\ t.reg = s.reg /\ t.fetched = s.fetched /\ t.epoch = s.epoch
           /\ t.retired = s.retired /\ t.stall = s.stall /\ t.prevRun = s.prevRun
<1> DEFINE t == AbortFrom(s, at)
           l == Source(s, at)
           pe == Charged(s, l)
           d == IF at = "wb" THEN Aborted(s.dcwb) ELSE s.dcwb
           x == IF at \in {"wb", "dc"} THEN Aborted(s.exdc) ELSE s.exdc
           r == IF at \in {"wb", "dc", "ex"} THEN Aborted(s.rfex) ELSE s.rfex
           i == Aborted(s.icrf)
<1>1. l \in Latch  BY PipeIs DEF Source
<1>2. ChargeTo(l) \in Charge /\ ChargeTo(l).pc = l.pc /\ ChargeTo(l).slot = l.slot
      /\ ChargeTo(l).seq = l.seq
  BY <1>1 DEF ChargeTo, Charge, Latch
<1>3. pe = IF s.pending = <<>> THEN <<ChargeTo(l)>> ELSE s.pending  BY DEF Charged, ChargeTo
<1>4. pe \in {<<>>} \cup {<<c>> : c \in Charge}  BY <1>2, <1>3 DEF Pipe
<1>5. d \in Latch /\ x \in Latch /\ r \in Latch /\ i \in Latch  BY PipeIs, LatchIs
<1>6. t = [s EXCEPT !.pending = pe, !.flush = TRUE, !.dcwb = d, !.exdc = x, !.rfex = r, !.icrf = i]
  BY DEF AbortFrom, Upstream, Aborted
<1> HIDE DEF t, l, pe, d, x, r, i
<1>7. t \in Pipe
  <2> DEFINE u == [s EXCEPT !.pending = pe, !.flush = TRUE, !.dcwb = d]
  <2>1. u \in Pipe  BY <1>4, <1>5 DEF Pipe
  <2>2. t = [u EXCEPT !.exdc = x, !.rfex = r, !.icrf = i]  BY <1>6
  <2> HIDE DEF u
  <2> QED BY <2>1, <2>2, <1>5 DEF Pipe
<1>8. /\ t.pending = pe /\ t.flush /\ t.dcwb = d /\ t.exdc = x /\ t.rfex = r /\ t.icrf = i
      /\ t.nextPc = s.nextPc /\ t.exl = s.exl /\ t.epc = s.epc /\ t.bd = s.bd
      /\ t.ll = s.ll /\ t.reg = s.reg /\ t.fetched = s.fetched /\ t.epoch = s.epoch
      /\ t.retired = s.retired /\ t.stall = s.stall /\ t.prevRun = s.prevRun
  BY <1>6 DEF Pipe
<1>9. <<ChargeTo(l)>> # <<>> /\ <<ChargeTo(l)>>[1] = ChargeTo(l)  OBVIOUS
<1> QED BY <1>2, <1>3, <1>7, <1>8, <1>9 DEF t, l, d, x, r, i

-----------------------------------------------------------------------------
(* Where an exception charged to an instruction would resume.              *)
LEMMA ChargeResumes ==
  ASSUME NEW s \in Pipe, NEW m \in Machine, NEW l \in Latch, NEW exl, NEW cp0 \in Nat,
         Settled(m), Reached(s, m, exl, cp0, l), Live(l), ~m.nested, ~exl, l.op # "eret",
         l.seq >= cp0
  PROVE  IF s.exl THEN s.epc = Resume(m, s.bd)
         ELSE (IF l.slot THEN l.pc - 1 ELSE l.pc) = Resume(m, l.slot)
<1> DEFINE e == Entered(m, l)
<1>1. /\ l.epoch = m.epoch => e = m
      /\ l.epoch # m.epoch => e.exl /\ e.epc = l.epc
  BY EnteredIs
<1>2. /\ l.pc = e.pc /\ l.slot = e.slot /\ s.epc = e.epc /\ s.exl = e.exl
      /\ l.epoch # m.epoch => l.epc = Resume(m, l.bd) /\ s.bd = l.bd
  BY DEF Reached
<1>3. m.slot => m.branch = m.pc - 1  BY DEF Settled
<1> HIDE DEF e
<1>4. m.slot \in BOOLEAN /\ m.exl \in BOOLEAN /\ (e.exl = TRUE \/ e.exl = m.exl)  BY <1>1 DEF Machine
<1> QED BY <1>1, <1>2, <1>3, <1>4 DEF Resume

LEMMA ChainIs ==
  ASSUME NEW s \in Pipe, NEW m \in Machine
  PROVE  /\ AtExdc(s, m) \in Machine /\ AtRfex(s, m) \in Machine /\ AtIcrf(s, m) \in Machine
         /\ AtFetch(s, m) \in Machine
         /\ AtExdc(s, m).nested = (m.nested \/ (Live(s.dcwb) /\ Nested(s.dcwb)))
         /\ AtExdc(s, m).epoch = IF Live(s.dcwb) THEN s.dcwb.epoch ELSE m.epoch
         /\ AtRfex(s, m).nested = (AtExdc(s, m).nested \/ (Live(s.exdc) /\ Nested(s.exdc)))
         /\ AtRfex(s, m).epoch = IF Live(s.exdc) THEN s.exdc.epoch ELSE AtExdc(s, m).epoch
         /\ AtIcrf(s, m).nested = (AtRfex(s, m).nested \/ (Live(s.rfex) /\ Nested(s.rfex)))
         /\ AtIcrf(s, m).epoch = IF Live(s.rfex) THEN s.rfex.epoch ELSE AtRfex(s, m).epoch
         /\ AtIcrf(s, m).nested => AtFetch(s, m).nested
         /\ ~Squashes(s.rfex) =>
              /\ AtFetch(s, m).nested = (AtIcrf(s, m).nested \/ (Live(s.icrf) /\ Nested(s.icrf)))
              /\ AtFetch(s, m).epoch = IF Live(s.icrf) THEN s.icrf.epoch ELSE AtIcrf(s, m).epoch
         /\ Squashes(s.rfex) => AtFetch(s, m) = AtIcrf(s, m)
<1>1. s.icrf \in Latch /\ s.rfex \in Latch /\ s.exdc \in Latch /\ s.dcwb \in Latch  BY PipeIs
<1> DEFINE A == AtExdc(s, m)  B == AtRfex(s, m)  C == AtIcrf(s, m)
<1>2. /\ A \in Machine
      /\ A.nested = (m.nested \/ (Live(s.dcwb) /\ Nested(s.dcwb)))
      /\ A.epoch = IF Live(s.dcwb) THEN s.dcwb.epoch ELSE m.epoch
  BY <1>1, AfterIs DEF AtExdc
<1>3. /\ B \in Machine
      /\ B.nested = (A.nested \/ (Live(s.exdc) /\ Nested(s.exdc)))
      /\ B.epoch = IF Live(s.exdc) THEN s.exdc.epoch ELSE A.epoch
  <2>1. B = After(A, s.exdc)  BY DEF AtRfex
  <2>2. A \in Machine /\ s.exdc \in Latch  BY <1>1, <1>2
  <2> HIDE DEF A, B
  <2> QED BY <2>1, <2>2, AfterIs
<1>4. /\ C \in Machine
      /\ C.nested = (B.nested \/ (Live(s.rfex) /\ Nested(s.rfex)))
      /\ C.epoch = IF Live(s.rfex) THEN s.rfex.epoch ELSE B.epoch
  <2>1. C = After(B, s.rfex)  BY DEF AtIcrf
  <2>2. B \in Machine /\ s.rfex \in Latch  BY <1>1, <1>3
  <2> HIDE DEF B, C
  <2> QED BY <2>1, <2>2, AfterIs
<1>5. /\ After(C, s.icrf) \in Machine
      /\ After(C, s.icrf).nested = (C.nested \/ (Live(s.icrf) /\ Nested(s.icrf)))
      /\ After(C, s.icrf).epoch = IF Live(s.icrf) THEN s.icrf.epoch ELSE C.epoch
  <2> HIDE DEF C
  <2> QED BY <1>1, <1>4, AfterIs
<1>6. AtFetch(s, m) = IF Squashes(s.rfex) THEN C ELSE After(C, s.icrf)  BY DEF AtFetch
<1> HIDE DEF A, B, C
<1> QED BY <1>2, <1>3, <1>4, <1>5, <1>6 DEF A, B, C

-----------------------------------------------------------------------------
(* WB.                                                                     *)

\* The youngest instruction that has changed COP0, and whether one has after a younger,
\* once `n` has if `b`.
Newest(cp0, b, n) == IF b /\ n > cp0 THEN n ELSE cp0
Overtaken(late, cp0, b, n) == late \/ (b /\ n < cp0)

LEMMA WbNothing ==
  ASSUME NEW s, NEW m, NEW cp0, NEW late, PipeInv(s, m, cp0, late), ~Live(s.dcwb)
  PROVE  PipeInv([s EXCEPT !.dcwb = Emptied(s.dcwb)], m, cp0, late)
<1> DEFINE t == [s EXCEPT !.dcwb = Emptied(s.dcwb)]
<1>1. s \in Pipe /\ m \in Machine  BY DEF PipeInv
<1>2. t \in Pipe  BY <1>1, LatchIs, PipeIs DEF Pipe
<1>3. /\ t.dcwb = Emptied(s.dcwb) /\ t.exdc = s.exdc /\ t.rfex = s.rfex /\ t.icrf = s.icrf
      /\ t.nextPc = s.nextPc /\ t.exl = s.exl /\ t.epc = s.epc /\ t.bd = s.bd
      /\ t.ll = s.ll /\ t.reg = s.reg /\ t.fetched = s.fetched /\ t.epoch = s.epoch
      /\ t.pending = s.pending /\ t.flush = s.flush
  BY <1>1 DEF Pipe
<1>4. ~t.dcwb.occupied /\ ~Live(t.dcwb)  BY <1>1, <1>3, LatchIs, PipeIs
<1> HIDE DEF t
<1>5. AtExdc(t, m) = m /\ AtExdc(s, m) = m  BY <1>4 DEF AtExdc, After
<1>6. AtRfex(t, m) = AtRfex(s, m)  BY <1>3, <1>5 DEF AtRfex
<1>7. AtIcrf(t, m) = AtIcrf(s, m)  BY <1>3, <1>6 DEF AtIcrf
<1>8. AtFetch(t, m) = AtFetch(s, m)  BY <1>3, <1>7 DEF AtFetch
<1>9. Chronology(t, m.epoch, cp0)
  BY <1>3, <1>4 DEF PipeInv, Chronology, InOrder, Before, Dated
<1>10. ~ToWrite(s.dcwb) /\ ~ToWrite(t.dcwb)  BY <1>4 DEF ToWrite
<1>11. /\ ExlAtExdc(t) = ExlAtExdc(s) /\ ExlAtRfex(t) = ExlAtRfex(s)
       /\ ExlAtIcrf(t) = ExlAtIcrf(s) /\ ExlAtFetch(t) = ExlAtFetch(s)
  <2>1. ExlAtExdc(t) = FALSE /\ ExlAtExdc(s) = FALSE  BY <1>10 DEF ExlAtExdc
  <2>2. ExlAtRfex(t) = ExlAtRfex(s)  BY <2>1, <1>3 DEF ExlAtRfex
  <2>3. ExlAtIcrf(t) = ExlAtIcrf(s)  BY <2>2, <1>3 DEF ExlAtIcrf
  <2> QED BY <2>1, <2>2, <2>3, <1>3 DEF ExlAtFetch
<1>12. Sound(s, m, cp0) => Sound(t, m, cp0)
  <2> SUFFICES ASSUME Sound(s, m, cp0) PROVE Sound(t, m, cp0)  OBVIOUS
  <2>1. /\ Settled(m) /\ ~m.nested => s.reg = m.reg
        /\ Linked(s, AtExdc(s, m))
        /\ Reached(s, AtExdc(s, m), ExlAtExdc(s), cp0, s.exdc) /\ Executed(AtExdc(s, m), s.exdc)
        /\ Reached(s, AtRfex(s, m), ExlAtRfex(s), cp0, s.rfex) /\ Unwritten(s.rfex)
        /\ ~Squashes(s.rfex) => Reached(s, AtIcrf(s, m), ExlAtIcrf(s), cp0, s.icrf)
        /\ Unwritten(s.icrf)
        /\ Branching(s, AtIcrf(s, m))
        /\ Fetching(s, AtFetch(s, m), ExlAtFetch(s))
        /\ Dispatching(s, AtFetch(s, m), ExlAtFetch(s))
        /\ Masked(s, s.exdc) /\ Masked(s, s.rfex) /\ Masked(s, s.icrf)
    BY DEF Sound
  <2>2. Linked(t, AtExdc(t, m))  BY <2>1, <1>3, <1>5 DEF Linked
  <2>3. Reached(t, m, FALSE, cp0, t.dcwb) /\ Accessed(m, t.dcwb)  BY <1>4 DEF Reached, Accessed
  <2>4. Reached(t, AtExdc(t, m), ExlAtExdc(t), cp0, t.exdc)
    BY <2>1, <1>3, <1>5, <1>11 DEF Reached
  <2>5. Reached(t, AtRfex(t, m), ExlAtRfex(t), cp0, t.rfex)
    BY <2>1, <1>3, <1>6, <1>11 DEF Reached
  <2>6. ~Squashes(t.rfex) => Reached(t, AtIcrf(t, m), ExlAtIcrf(t), cp0, t.icrf)
    BY <2>1, <1>3, <1>7, <1>11 DEF Reached
  <2>7. Branching(t, AtIcrf(t, m))  BY <2>1, <1>3, <1>7 DEF Branching
  <2>8. Fetching(t, AtFetch(t, m), ExlAtFetch(t))  BY <2>1, <1>3, <1>8, <1>11 DEF Fetching
  <2>9. Dispatching(t, AtFetch(t, m), ExlAtFetch(t))
    BY <2>1, <1>3, <1>8, <1>11 DEF Dispatching
  <2>10. Masked(t, t.exdc) /\ Masked(t, t.rfex) /\ Masked(t, t.icrf)  BY <2>1, <1>3 DEF Masked
  <2> QED BY <2>1, <2>2, <2>3, <2>4, <2>5, <2>6, <2>7, <2>8, <2>9, <2>10, <1>3, <1>5 DEF Sound
<1>13. Timely(t, cp0, late) => Timely(s, cp0, late)  BY <1>3 DEF Timely
<1> QED BY <1>2, <1>9, <1>12, <1>13 DEF PipeInv, t

\* Once an exception has been charged only what was past its stage counts.
LEMMA FlushedInv ==
  ASSUME NEW t \in Pipe, NEW m \in Machine, NEW cp0 \in Nat, NEW late \in BOOLEAN,
         t.pending # <<>>, ~Live(t.exdc), ~Live(t.rfex), ~Live(t.icrf),
         Chronology(t, m.epoch, cp0),
         Timely(t, cp0, late) =>
           /\ Settled(m) /\ (~m.nested => t.reg = m.reg)
           /\ ~AtExdc(t, m).nested => t.ll = AtExdc(t, m).ll
           /\ Reached(t, m, FALSE, cp0, t.dcwb) /\ Accessed(m, t.dcwb)
           /\ Dispatching(t, AtExdc(t, m), ExlAtExdc(t))
  PROVE  PipeInv(t, m, cp0, late) /\ Flushed(t) /\ SlotThere(t)
<1> DEFINE A == AtExdc(t, m)
<1>1. AtRfex(t, m) = A /\ AtIcrf(t, m) = A /\ AtFetch(t, m) = A
  BY DEF AtRfex, AtIcrf, AtFetch, After
<1>2. ~ToWrite(t.exdc) /\ ~ToExecute(t.rfex) /\ ~ToExecute(t.icrf)  BY DEF ToWrite, ToExecute
<1>3. ExlAtFetch(t) => ExlAtExdc(t)
  BY <1>2 DEF ExlAtFetch, ExlAtIcrf, ExlAtRfex
<1>4. ExlAtExdc(t) => ExlAtFetch(t)
  BY <1>2 DEF ExlAtFetch, ExlAtIcrf, ExlAtRfex
<1>5. Timely(t, cp0, late) => Sound(t, m, cp0)
  <2> SUFFICES ASSUME Timely(t, cp0, late) PROVE Sound(t, m, cp0)  OBVIOUS
  <2> HIDE DEF A
  <2>1. A.ll \in BOOLEAN /\ t.ll \in BOOLEAN  BY ChainIs, PipeIs DEF A, Machine
  <2>2. Linked(t, A)  BY <2>1 DEF Linked, A
  <2>3. Reached(t, A, ExlAtExdc(t), cp0, t.exdc) /\ Executed(A, t.exdc)  BY DEF Reached, Executed
  <2>4. Reached(t, A, ExlAtRfex(t), cp0, t.rfex) /\ Unwritten(t.rfex)  BY DEF Reached, Unwritten
  <2>5. Reached(t, A, ExlAtIcrf(t), cp0, t.icrf) /\ Unwritten(t.icrf)  BY DEF Reached, Unwritten
  <2>6. Branching(t, A)  BY DEF Branching
  <2>7. Fetching(t, A, ExlAtFetch(t))  BY DEF Fetching
  <2>8. Dispatching(t, A, ExlAtFetch(t))  BY <1>3, <1>4 DEF Dispatching, A
  <2>9. Masked(t, t.exdc) /\ Masked(t, t.rfex) /\ Masked(t, t.icrf)  BY DEF Masked
  <2> QED BY <1>1, <2>2, <2>3, <2>4, <2>5, <2>6, <2>7, <2>8, <2>9 DEF Sound, A
<1> QED BY <1>5 DEF PipeInv, Flushed, SlotThere

\* A trap.
WbTrapped(s) == LET u == AbortFrom(s, "wb") IN [u EXCEPT !.dcwb = Emptied(u.dcwb)]

LEMMA WbTraps ==
  ASSUME NEW s, NEW m, NEW cp0, NEW late, PipeInv(s, m, cp0, late), Live(s.dcwb),
         s.dcwb.op = "fp", s.pending = <<>>
  PROVE  LET t == WbTrapped(s) IN
           /\ PipeInv(t, m, cp0, late) /\ Flushed(t) /\ SlotThere(t)
           /\ t.retired = s.retired /\ ~t.dcwb.occupied
<1> DEFINE u == AbortFrom(s, "wb")  l == s.dcwb  t == WbTrapped(s)
<1>1. /\ s \in Pipe /\ m \in Machine /\ cp0 \in Nat /\ late \in BOOLEAN
      /\ Chronology(s, m.epoch, cp0)
  BY DEF PipeInv
<1>2. /\ u \in Pipe /\ u.pending # <<>> /\ u.flush
      /\ u.pending[1].pc = l.pc /\ u.pending[1].slot = l.slot /\ u.pending[1].seq = l.seq
      /\ u.dcwb = Aborted(l) /\ u.exdc = Aborted(s.exdc) /\ u.rfex = Aborted(s.rfex)
      /\ u.icrf = Aborted(s.icrf)
      /\ u.exl = s.exl /\ u.epc = s.epc /\ u.bd = s.bd
      /\ u.ll = s.ll /\ u.reg = s.reg /\ u.fetched = s.fetched /\ u.epoch = s.epoch
      /\ u.retired = s.retired
  BY <1>1, AbortIs DEF Source
<1>3. s.icrf \in Latch /\ s.rfex \in Latch /\ s.exdc \in Latch /\ l \in Latch  BY <1>1, PipeIs
<1>4. t = [u EXCEPT !.dcwb = Emptied(u.dcwb)]  BY DEF WbTrapped
<1> HIDE DEF u, l, t
<1>5. t \in Pipe /\ t.dcwb = Emptied(u.dcwb)
  BY <1>2, <1>3, <1>4, LatchIs DEF Pipe
<1>6. /\ t.pending = u.pending /\ t.flush = u.flush /\ t.exdc = u.exdc /\ t.rfex = u.rfex
      /\ t.icrf = u.icrf
      /\ t.exl = s.exl /\ t.epc = s.epc /\ t.bd = s.bd
      /\ t.ll = s.ll /\ t.reg = s.reg /\ t.fetched = s.fetched /\ t.epoch = s.epoch
      /\ t.retired = s.retired
  BY <1>2, <1>4 DEF Pipe
<1>7. ~t.dcwb.occupied /\ ~Live(t.dcwb) /\ ~Live(t.exdc) /\ ~Live(t.rfex) /\ ~Live(t.icrf)
  BY <1>2, <1>3, <1>5, <1>6, LatchIs
<1>8. Chronology(t, m.epoch, cp0)
  <2>1. /\ t.exdc.occupied = s.exdc.occupied /\ t.exdc.seq = s.exdc.seq /\ t.exdc.epoch = s.exdc.epoch
        /\ t.rfex.occupied = s.rfex.occupied /\ t.rfex.seq = s.rfex.seq /\ t.rfex.epoch = s.rfex.epoch
        /\ t.icrf.occupied = s.icrf.occupied /\ t.icrf.seq = s.icrf.seq /\ t.icrf.epoch = s.icrf.epoch
        /\ t.exdc.abort /\ t.rfex.abort /\ t.icrf.abort
    BY <1>2, <1>3, <1>6, LatchIs
  <2>2. l.occupied  BY DEF Live, l
  <2>3. InOrder(t)  BY <1>1, <1>7, <2>1 DEF Chronology, InOrder, Before
  <2>4. /\ Dated(t, m.epoch, cp0, t.dcwb) /\ Dated(t, m.epoch, cp0, t.exdc)
        /\ Dated(t, m.epoch, cp0, t.rfex) /\ Dated(t, m.epoch, cp0, t.icrf)
    BY <1>1, <1>2, <1>6, <1>7, <2>1 DEF Chronology, Dated
  <2>5. t.pending[1].seq <= t.fetched  BY <1>1, <1>2, <1>6, <2>2 DEF Chronology, Dated, l
  <2> QED BY <1>1, <1>2, <1>6, <1>7, <2>3, <2>4, <2>5 DEF Chronology
<1>9. AtExdc(t, m) = m /\ ExlAtExdc(t) = FALSE  BY <1>7 DEF AtExdc, After, ExlAtExdc, ToWrite
<1>10. ASSUME Timely(t, cp0, late)
       PROVE  /\ Settled(m) /\ (~m.nested => t.reg = m.reg)
              /\ ~m.nested => t.ll = m.ll
              /\ Reached(t, m, FALSE, cp0, t.dcwb) /\ Accessed(m, t.dcwb)
              /\ Dispatching(t, m, FALSE)
  <2>1. Timely(s, cp0, late) /\ l.seq >= cp0  BY <1>2, <1>6, <1>10 DEF Timely
  <2>2. Sound(s, m, cp0)  BY <2>1 DEF PipeInv
  <2>3. /\ Settled(m) /\ (~m.nested => s.reg = m.reg) /\ Linked(s, AtExdc(s, m))
        /\ Reached(s, m, FALSE, cp0, l)
    BY <2>2 DEF Sound, l
  <2>4. ~m.nested => t.ll = m.ll
    <3>1. l.occupied /\ l.seq \in Nat  BY <1>3 DEF Live, l, Latch
    <3>2. ~(Live(s.exdc) /\ s.exdc.op = "eret")
      BY <1>1, <1>3, <2>1, <3>1 DEF Chronology, InOrder, Before, Live, Latch, l
    <3>3. AtExdc(s, m) = Retire(m, l)  BY DEF AtExdc, After, l
    <3>4. ~Nested(l)  BY DEF Nested, HasDelaySlot, l
    <3>5. Retire(m, l).ll = m.ll /\ Retire(m, l).nested = m.nested
      <4>1. m.ll \in BOOLEAN /\ m.nested \in BOOLEAN  BY <1>1 DEF Machine
      <4>2. Retire(m, l).ll = ((m.ll \/ l.op = "ll") /\ l.op # "eret")
            /\ Retire(m, l).nested = (m.nested \/ Nested(l))
        BY <1>1, <1>3, RetireIs
      <4>3. l.op = "fp"  BY DEF l
      <4> QED BY <4>1, <4>2, <4>3, <3>4
    <3>6. m.ll \in BOOLEAN /\ s.ll \in BOOLEAN  BY <1>1, PipeIs DEF Machine
    <3> QED BY <1>6, <2>3, <3>2, <3>3, <3>5, <3>6 DEF Linked
  <2>5. Reached(t, m, FALSE, cp0, t.dcwb) /\ Accessed(m, t.dcwb)
    BY <1>7 DEF Reached, Accessed
  <2>6. Dispatching(t, m, FALSE)
    <3>1. CASE m.nested  BY <3>1 DEF Dispatching
    <3>2. CASE ~m.nested
      <4>1. IF s.exl THEN s.epc = Resume(m, s.bd)
            ELSE (IF l.slot THEN l.pc - 1 ELSE l.pc) = Resume(m, l.slot)
        <5>1. Live(l) /\ l.op # "eret"  BY DEF l
        <5> QED BY <1>1, <1>3, <2>1, <2>3, <3>2, <5>1, ChargeResumes
      <4> QED BY <4>1, <1>2, <1>6 DEF Dispatching
    <3> QED BY <3>1, <3>2
  <2> QED BY <1>6, <2>3, <2>4, <2>5, <2>6
<1>11. t.pending # <<>>  BY <1>2, <1>6
<1>12. PipeInv(t, m, cp0, late) /\ Flushed(t) /\ SlotThere(t)
  BY <1>1, <1>5, <1>7, <1>8, <1>9, <1>10, <1>11, FlushedInv
<1> QED BY <1>6, <1>7, <1>12 DEF t

LEMMA RetireSettled ==
  ASSUME NEW m \in Machine, NEW l \in Latch, Settled(m),
         l.pc = Entered(m, l).pc, l.slot = Entered(m, l).slot
  PROVE  Settled(Retire(m, l))
<1> DEFINE e == Entered(m, l)  r == Retire(m, l)
<1>1. /\ e \in Machine
      /\ l.epoch = m.epoch => e = m
      /\ l.epoch # m.epoch => e.pc = Vector /\ e.npc = Vector + 1 /\ ~e.slot
      /\ e.nested = m.nested
  BY EnteredIs
<1>2. /\ r \in Machine
      /\ r.pc = IF l.op \in {"taken", "jal"} THEN e.npc
                ELSE IF l.op = "likely" THEN e.npc + 1
                ELSE IF l.op = "eret" THEN l.value ELSE e.npc
      /\ r.npc = IF l.op \in {"taken", "jal"} THEN Target
                 ELSE IF l.op = "likely" THEN e.npc + 2
                 ELSE IF l.op = "eret" THEN l.value + 1 ELSE e.npc + 1
      /\ r.slot = (HasDelaySlot(l) /\ l.op # "likely")
      /\ HasDelaySlot(l) => r.branch = l.pc
      /\ r.nested = (m.nested \/ Nested(l))
  BY RetireIs
<1>3. l.pc = e.pc /\ l.slot = e.slot  OBVIOUS
<1>4. l.value \in Int /\ l.pc \in Int /\ e.npc \in Int /\ e.pc \in Int  BY <1>1 DEF Latch, Machine
<1> HIDE DEF e, r
<1>5. SUFFICES ASSUME ~r.nested PROVE IF r.slot THEN r.branch = r.pc - 1 ELSE r.npc = r.pc + 1
  BY DEF Settled, r
<1>6. ~m.nested /\ ~Nested(l)  BY <1>2, <1>5
<1>7. ~e.slot => e.npc = e.pc + 1
  <2>1. CASE l.epoch = m.epoch  BY <1>1, <1>6, <2>1 DEF Settled
  <2>2. CASE l.epoch # m.epoch  BY <1>1, <2>2
  <2> QED BY <2>1, <2>2
<1>8. CASE HasDelaySlot(l) /\ l.op # "likely"
  <2>1. ~e.slot  BY <1>3, <1>6, <1>8 DEF Nested
  <2>2. r.pc = e.npc  BY <1>2, <1>8 DEF HasDelaySlot
  <2>3. r.slot /\ r.branch = l.pc  BY <1>2, <1>8
  <2> QED BY <1>3, <1>4, <1>7, <2>1, <2>2, <2>3
<1>9. CASE ~HasDelaySlot(l)
  <2>1. l.op \notin {"taken", "jal", "likely"}  BY <1>9 DEF HasDelaySlot
  <2> QED BY <1>2, <1>4, <1>9, <2>1
<1>10. CASE l.op = "likely"
  <2>1. ~r.slot /\ r.pc = e.npc + 1 /\ r.npc = e.npc + 2  BY <1>2, <1>10
  <2> QED BY <1>4, <2>1
<1> QED BY <1>8, <1>9, <1>10

\* With EXL clear and no exception between, it stays clear.
LEMMA AfterClear ==
  ASSUME NEW m \in Machine, NEW l \in Latch, ~m.exl, Live(l) => l.epoch = m.epoch
  PROVE  ~After(m, l).exl /\ After(m, l).epoch = m.epoch
<1>1. CASE Live(l)
  <2>1. Entered(m, l) = m  BY <1>1, EnteredIs
  <2> DEFINE r == Retire(m, l)  e == Entered(m, l)
  <2>2. r.exl = (e.exl /\ l.op # "eret" /\ l.op # "mtc0") /\ r.epoch = l.epoch
    BY RetireIs
  <2>3. After(m, l) = r  BY <1>1 DEF After
  <2> QED BY <1>1, <2>1, <2>2, <2>3
<1>2. CASE ~Live(l)  BY <1>2 DEF After
<1> QED BY <1>1, <1>2

\* Where an instruction has changed COP0 after no younger one has, all behind it were
\* fetched since the last exception.
LEMMA Current ==
  ASSUME NEW s \in Pipe, NEW epoch \in Nat, NEW cp0 \in Nat, Chronology(s, epoch, cp0),
         s.pending = <<>>, Live(s.dcwb), s.dcwb.seq >= cp0
  PROVE  /\ s.dcwb.epoch = s.epoch
         /\ \A l \in {s.exdc, s.rfex, s.icrf} : l.occupied => l.epoch = s.epoch /\ ~l.abort
<1>1. /\ s.icrf \in Latch /\ s.rfex \in Latch /\ s.exdc \in Latch /\ s.dcwb \in Latch
      /\ s.epoch \in Nat
  BY PipeIs
<1>2. s.dcwb.occupied /\ ~s.dcwb.abort /\ s.dcwb.seq \in Nat /\ s.dcwb.epoch \in Nat
  BY <1>1 DEF Live, Latch
<1>3. s.dcwb.epoch = s.epoch  BY <1>2 DEF Chronology, Dated
<1>4. \A l \in {s.exdc, s.rfex, s.icrf} : Before(s.dcwb, l) /\ Dated(s, epoch, cp0, l) /\ l \in Latch
  BY <1>1 DEF Chronology, InOrder
<1>5. ASSUME NEW l \in {s.exdc, s.rfex, s.icrf}, l.occupied
      PROVE  l.epoch = s.epoch /\ ~l.abort
  <2>1. s.dcwb.epoch <= l.epoch /\ l.epoch <= s.epoch /\ l.epoch \in Nat
    BY <1>2, <1>4, <1>5 DEF Before, Dated, Latch
  <2>2. l.epoch = s.epoch  BY <1>1, <1>3, <2>1
  <2>3. ~l.abort  BY <1>4, <1>5, <2>2 DEF Dated
  <2> QED BY <2>2, <2>3
<1> QED BY <1>3, <1>5

\* A write-back.
WbWritten(s) ==
  [s EXCEPT !.dcwb = Emptied(s.dcwb),
            !.exl = IF s.dcwb.op = "mtc0" THEN FALSE ELSE s.exl,
            !.reg = IF s.dcwb.write # 0 THEN s.dcwb.value ELSE s.reg,
            !.retired = <<s.dcwb>>]

LEMMA WbRetires ==
  ASSUME NEW s, NEW m, NEW cp0, NEW late, PipeInv(s, m, cp0, late), Live(s.dcwb),
         s.pending = <<>>
  PROVE  LET b == s.dcwb.op = "mtc0"  t == WbWritten(s) IN
           /\ PipeInv(t, Retire(m, s.dcwb), Newest(cp0, b, s.dcwb.seq),
                      Overtaken(late, cp0, b, s.dcwb.seq))
           /\ t.retired = <<s.dcwb>> /\ t.pending = <<>> /\ ~t.dcwb.occupied
           /\ t.rfex = s.rfex /\ t.icrf = s.icrf
<1> DEFINE t == WbWritten(s)
           l == s.dcwb
           b == l.op = "mtc0"
           c == Newest(cp0, b, l.seq)
           o == Overtaken(late, cp0, b, l.seq)
           n == Retire(m, l)
           e == Entered(m, l)
           x == IF b THEN FALSE ELSE s.exl
           g == IF l.write # 0 THEN l.value ELSE s.reg
<1>1. /\ s \in Pipe /\ m \in Machine /\ cp0 \in Nat /\ late \in BOOLEAN
      /\ Chronology(s, m.epoch, cp0)
  BY DEF PipeInv
<1>2. s.icrf \in Latch /\ s.rfex \in Latch /\ s.exdc \in Latch /\ l \in Latch
      /\ s.exl \in BOOLEAN /\ s.reg \in Int /\ s.epoch \in Nat /\ s.fetched \in Nat
  BY <1>1, PipeIs
<1>3. l.seq \in Nat /\ l.epoch \in Nat /\ l.value \in Int /\ l.write \in {0, 1} /\ b \in BOOLEAN
      /\ l.occupied /\ ~l.abort
  BY <1>2 DEF Latch, Live
<1>4. c \in Nat /\ o \in BOOLEAN /\ x \in BOOLEAN /\ g \in Int
  BY <1>1, <1>2, <1>3 DEF Newest, Overtaken
<1>5. /\ n \in Machine /\ n.epoch = l.epoch
      /\ n.reg = IF Writes(l) THEN Result(e, l) ELSE m.reg
      /\ n.nested = (m.nested \/ Nested(l))
      /\ b => ~n.exl
  BY <1>1, <1>2, RetireIs
<1>6. t = [s EXCEPT !.dcwb = Emptied(l), !.exl = x, !.reg = g, !.retired = <<l>>]
  BY DEF WbWritten
<1> HIDE DEF t
<1>7. /\ t.dcwb = Emptied(l) /\ t.exdc = s.exdc /\ t.rfex = s.rfex /\ t.icrf = s.icrf
      /\ t.nextPc = s.nextPc /\ t.exl = x /\ t.epc = s.epc /\ t.bd = s.bd
      /\ t.ll = s.ll /\ t.reg = g /\ t.fetched = s.fetched /\ t.epoch = s.epoch
      /\ t.pending = <<>> /\ t.flush = s.flush /\ t.retired = <<l>>
  BY <1>1, <1>6 DEF Pipe
<1> HIDE DEF x, g
<1>8. t \in Pipe
  <2>1. Emptied(l) \in Latch /\ <<l>> \in {<<>>} \cup {<<k>> : k \in Latch}  BY <1>2, LatchIs
  <2> QED BY <1>1, <1>4, <1>6, <2>1 DEF Pipe
<1>9. ~t.dcwb.occupied /\ ~Live(t.dcwb)  BY <1>2, <1>7, LatchIs
<1>10. AtExdc(s, m) = n /\ AtExdc(t, n) = n  BY <1>9 DEF AtExdc, After
<1> DEFINE B == AtRfex(s, m)  C == AtIcrf(s, m)  F == AtFetch(s, m)
<1>11. B = After(n, s.exdc) /\ C = After(B, s.rfex)
       /\ F = IF Squashes(s.rfex) THEN C ELSE After(C, s.icrf)
  BY <1>10 DEF AtRfex, AtIcrf, AtFetch
<1>12. B \in Machine /\ C \in Machine /\ F \in Machine  BY <1>1, ChainIs
<1> HIDE DEF B, C, F
<1>13. AtRfex(t, n) = B  BY <1>7, <1>10, <1>11 DEF AtRfex
<1>14. AtIcrf(t, n) = C  BY <1>7, <1>11, <1>13 DEF AtIcrf
<1>15. AtFetch(t, n) = F  BY <1>7, <1>11, <1>14 DEF AtFetch
<1>16. /\ ExlAtExdc(t) = FALSE
       /\ ~b => /\ ExlAtExdc(s) = FALSE
                /\ ExlAtRfex(t) = ExlAtRfex(s)
                /\ ExlAtIcrf(t) = ExlAtIcrf(s)
                /\ ExlAtFetch(t) = ExlAtFetch(s)
  <2>1. ExlAtExdc(t) = FALSE  BY <1>9 DEF ExlAtExdc, ToWrite
  <2>2. SUFFICES ASSUME ~b PROVE /\ ExlAtExdc(s) = FALSE
                                 /\ ExlAtRfex(t) = ExlAtRfex(s)
                                 /\ ExlAtIcrf(t) = ExlAtIcrf(s)
                                 /\ ExlAtFetch(t) = ExlAtFetch(s)
    BY <2>1
  <2>3. ExlAtExdc(s) = FALSE  BY <2>2 DEF ExlAtExdc, ToWrite
  <2>4. ExlAtRfex(t) = ExlAtRfex(s)  BY <2>1, <2>3, <1>7 DEF ExlAtRfex
  <2>5. ExlAtIcrf(t) = ExlAtIcrf(s)  BY <2>4, <1>7 DEF ExlAtIcrf
  <2> QED BY <2>3, <2>4, <2>5, <1>7 DEF ExlAtFetch
<1> HIDE DEF c, o, n, e
<1>17. Chronology(t, n.epoch, c)
  <2>1. cp0 <= c /\ c <= s.fetched
    BY <1>1, <1>2, <1>3 DEF Chronology, Dated, c, Newest
  <2>2. InOrder(t)  BY <1>1, <1>7, <1>9 DEF Chronology, InOrder, Before
  <2>3. ASSUME NEW k \in {s.exdc, s.rfex, s.icrf} PROVE Dated(t, n.epoch, c, k)
    <3>1. Before(l, k) /\ Dated(s, m.epoch, cp0, k) /\ k \in Latch
      BY <1>1, <1>2, <2>3 DEF Chronology, InOrder
    <3> QED BY <1>1, <1>3, <1>4, <1>5, <1>7, <2>1, <3>1 DEF Before, Dated, Latch
  <2>4. Dated(t, n.epoch, c, t.dcwb)  BY <1>9 DEF Dated
  <2>5. n.epoch <= t.epoch  BY <1>1, <1>3, <1>5, <1>7 DEF Chronology, Dated
  <2>6. Live(t.exdc) /\ t.exdc.op = "eret" => t.exdc.seq <= c
    <3>1. s.exdc.seq \in Nat  BY <1>2 DEF Latch
    <3> QED BY <1>1, <1>4, <1>7, <2>1, <3>1 DEF Chronology
  <2>7. t.flush = (t.pending # <<>>)  BY <1>1, <1>7 DEF Chronology
  <2>8. t.pending = <<>> /\ t.icrf.occupied /\ t.icrf.abort => t.icrf.op = "alu"
    BY <1>1, <1>7 DEF Chronology
  <2> QED BY <1>7, <2>1, <2>2, <2>3, <2>4, <2>5, <2>6, <2>7, <2>8 DEF Chronology
<1>18. ASSUME Timely(t, c, o) PROVE Sound(t, n, c)
  <2>1. Timely(s, cp0, late) /\ (b => l.seq >= cp0 /\ c = l.seq) /\ (~b => c = cp0)
    BY <1>1, <1>3, <1>18 DEF Timely, o, c, Overtaken, Newest
  <2>2. Sound(s, m, cp0)  BY <2>1 DEF PipeInv
  <2>3. /\ Settled(m) /\ (~m.nested => s.reg = m.reg)
        /\ Linked(s, n)
        /\ Reached(s, m, FALSE, cp0, l) /\ Accessed(m, l)
        /\ Reached(s, n, ExlAtExdc(s), cp0, s.exdc) /\ Executed(n, s.exdc)
        /\ Reached(s, B, ExlAtRfex(s), cp0, s.rfex) /\ Unwritten(s.rfex)
        /\ ~Squashes(s.rfex) => Reached(s, C, ExlAtIcrf(s), cp0, s.icrf)
        /\ Unwritten(s.icrf)
        /\ Branching(s, C)
        /\ Fetching(s, F, ExlAtFetch(s))
        /\ Masked(s, s.exdc) /\ Masked(s, s.rfex) /\ Masked(s, s.icrf)
    BY <2>2, <1>10 DEF Sound, B, C, F
  \* With MTC0 just written, all that is in the pipe is of the present epoch.
  <2>4. b => l.epoch = s.epoch /\ \A k \in {s.exdc, s.rfex, s.icrf} :
                                     k.occupied => k.epoch = s.epoch /\ ~k.abort
    <3>1. m.epoch \in Nat  BY <1>1 DEF Machine
    <3> QED BY <1>1, <2>1, <3>1, Current
  <2>5. b => /\ n.epoch = s.epoch /\ B.epoch = s.epoch /\ C.epoch = s.epoch /\ F.epoch = s.epoch
             /\ ~n.exl /\ ~B.exl /\ ~C.exl /\ ~F.exl
    <3> SUFFICES ASSUME b
                 PROVE /\ n.epoch = s.epoch /\ B.epoch = s.epoch /\ C.epoch = s.epoch
                       /\ F.epoch = s.epoch
                       /\ ~n.exl /\ ~B.exl /\ ~C.exl /\ ~F.exl
      OBVIOUS
    <3>1. n.epoch = s.epoch /\ ~n.exl  BY <1>5, <2>4
    <3>2. \A k \in {s.exdc, s.rfex, s.icrf} : Live(k) => k.epoch = s.epoch  BY <2>4 DEF Live
    <3>3. B.epoch = s.epoch /\ ~B.exl  BY <1>2, <1>5, <1>11, <3>1, <3>2, AfterClear
    <3>4. C.epoch = s.epoch /\ ~C.exl  BY <1>2, <1>11, <1>12, <3>2, <3>3, AfterClear
    <3>5. F.epoch = s.epoch /\ ~F.exl
      <4>1. After(C, s.icrf).epoch = s.epoch /\ ~After(C, s.icrf).exl
        BY <1>2, <1>12, <3>2, <3>4, AfterClear
      <4> QED BY <1>11, <3>4, <4>1
    <3> QED BY <3>1, <3>3, <3>4, <3>5
  <2>6. ASSUME NEW k \in {s.exdc, s.rfex, s.icrf}, NEW a \in Machine, NEW y, NEW z,
               Reached(s, a, y, cp0, k), b => a.epoch = s.epoch /\ ~a.exl, ~b => z = y
        PROVE  Reached(t, a, z, c, k)
    <3>1. CASE ~b  BY <1>7, <2>1, <2>6, <3>1 DEF Reached, x
    <3>2. CASE b
      <4>1. SUFFICES ASSUME Live(k), ~a.nested
                     PROVE  LET f == Entered(a, k) IN
                              /\ k.pc = f.pc /\ k.slot = f.slot
                              /\ k.epoch = a.epoch
                              /\ k.seq >= c => t.epc = f.epc /\ t.exl = f.exl
        BY DEF Reached
      <4>2. k.epoch = a.epoch  BY <2>4, <2>6, <3>2, <4>1 DEF Live
      <4>3. k \in Latch /\ k.seq \in Nat  BY <1>2, <2>6 DEF Latch
      <4>4. Entered(a, k) = a  BY <4>2, <4>3, EnteredIs
      <4>5. a.exl = FALSE /\ t.exl = FALSE  BY <1>7, <2>6, <3>2 DEF Machine, x
      <4>6. k.seq >= c => k.seq >= cp0  BY <1>1, <1>3, <2>1, <3>2, <4>3
      <4> QED BY <1>7, <2>6, <4>1, <4>2, <4>4, <4>5, <4>6 DEF Reached
    <3> QED BY <3>1, <3>2
  <2>7. Settled(n)
    <3>1. CASE m.nested  BY <1>5, <3>1 DEF Settled
    <3>2. CASE ~m.nested
      <4>1. l.pc = e.pc /\ l.slot = e.slot  BY <2>3, <3>2 DEF Reached, e
      <4> QED BY <1>1, <1>2, <2>3, <4>1, RetireSettled DEF n, e
    <3> QED BY <3>1, <3>2
  <2>8. ~n.nested => t.reg = n.reg
    <3> SUFFICES ASSUME ~n.nested PROVE g = n.reg  BY <1>7
    <3>1. Written(m, l) /\ s.reg = m.reg  BY <1>5, <2>3 DEF Accessed
    <3>2. CASE Writes(l)
      <4>1. l.write = l.dst /\ l.dst # 0 /\ l.value = Result(e, l)
        BY <3>1, <3>2 DEF Written, Writes, e
      <4> QED BY <1>5, <3>2, <4>1 DEF g
    <3>3. CASE ~Writes(l)  BY <1>5, <3>1, <3>3 DEF Written, g
    <3> QED BY <3>2, <3>3
  <2>9. Linked(t, n)  BY <1>7, <2>3 DEF Linked
  <2>10. Reached(t, n, FALSE, c, t.dcwb) /\ Accessed(n, t.dcwb)
    BY <1>9 DEF Reached, Accessed
  <2>11. Reached(t, n, FALSE, c, t.exdc)  BY <1>5, <1>7, <1>16, <2>3, <2>5, <2>6
  <2>12. Reached(t, B, ExlAtRfex(t), c, t.rfex)  BY <1>7, <1>12, <1>16, <2>3, <2>5, <2>6
  <2>13. ~Squashes(t.rfex) => Reached(t, C, ExlAtIcrf(t), c, t.icrf)
    BY <1>7, <1>12, <1>16, <2>3, <2>5, <2>6
  <2>14. Branching(t, C)
    <3>1. t.pending = s.pending  BY <1>7
    <3> QED BY <1>7, <2>3, <3>1 DEF Branching
  <2>15. Fetching(t, F, ExlAtFetch(t))
    <3>1. t.pending = s.pending  BY <1>7
    <3>2. CASE ~b
      <4>1. t.exl = s.exl  BY <1>7, <3>2 DEF x
      <4> QED BY <1>7, <1>16, <2>3, <3>1, <3>2, <4>1 DEF Fetching
    <3>3. CASE b
      <4>1. t.exl = F.exl /\ s.epoch = F.epoch
        BY <1>7, <1>12, <2>5, <3>3 DEF Machine, x
      <4> QED BY <1>7, <2>3, <3>1, <4>1 DEF Fetching
    <3> QED BY <3>2, <3>3
  <2>16. Dispatching(t, F, ExlAtFetch(t))  BY <1>7 DEF Dispatching
  <2>17. Masked(t, t.exdc) /\ Masked(t, t.rfex) /\ Masked(t, t.icrf)
    <3>1. CASE ~b  BY <1>7, <2>3, <3>1 DEF Masked, x
    <3>2. CASE b  BY <1>7, <2>4, <3>2 DEF Masked
    <3> QED BY <3>1, <3>2
  <2> QED BY <1>7, <1>10, <1>13, <1>14, <1>15, <1>16,
             <2>3, <2>7, <2>8, <2>9, <2>10, <2>11, <2>12, <2>13, <2>14, <2>15, <2>16, <2>17
          DEF Sound
<1>19. PipeInv(t, n, c, o)  BY <1>4, <1>5, <1>8, <1>17, <1>18 DEF PipeInv
<1> QED BY <1>7, <1>9, <1>19 DEF n, c, o, t

\* What WB has done to the machine in this cycle, and whether it has written COP0.
Retired(m, s) == IF s.retired = <<>> THEN m ELSE Retire(m, s.retired[1])
WroteCp0(s)   == s.retired # <<>> /\ s.retired[1].op = "mtc0"

LEMMA WbKeeps ==
  ASSUME NEW s, NEW m, NEW cp0, NEW late, NEW trap \in BOOLEAN, PipeInv(s, m, cp0, late),
         s.pending = <<>>, s.retired = <<>>, SlotThere(s)
  PROVE  LET t == WbStage(s, trap)
             n == t.retired[1].seq
         IN  /\ PipeInv(t, Retired(m, t), Newest(cp0, WroteCp0(t), n),
                        Overtaken(late, cp0, WroteCp0(t), n))
             /\ ~t.dcwb.occupied /\ Flushed(t) /\ SlotThere(t)
<1> DEFINE t == WbStage(s, trap)  l == s.dcwb  n == t.retired[1].seq
<1>1. s \in Pipe /\ cp0 \in Nat /\ late \in BOOLEAN /\ l \in Latch  BY PipeIs DEF PipeInv
<1> HIDE DEF l
<1>2. Emptied(l) = [l EXCEPT !.occupied = FALSE] /\ ~Emptied(l).occupied
  BY <1>1, LatchIs DEF Emptied
<1>3. CASE ~Live(l)
  <2>1. t = [s EXCEPT !.dcwb = Emptied(l)]  BY <1>2, <1>3 DEF WbStage, l
  <2>2. /\ t.retired = <<>> /\ t.dcwb = Emptied(l) /\ t.pending = <<>>
        /\ t.rfex = s.rfex /\ t.icrf = s.icrf
    BY <1>1, <2>1 DEF Pipe
  <2>3. PipeInv(t, m, cp0, late)  BY <1>3, <2>1, WbNothing DEF l
  <2> HIDE DEF t
  <2>4. /\ Retired(m, t) = m /\ WroteCp0(t) = FALSE /\ Newest(cp0, FALSE, n) = cp0
        /\ Overtaken(late, cp0, FALSE, n) = late
    BY <1>1, <2>2 DEF Retired, WroteCp0, Newest, Overtaken
  <2> QED BY <1>2, <2>2, <2>3, <2>4 DEF Flushed, SlotThere, t
<1>4. CASE Live(l) /\ l.op = "fp" /\ trap
  <2>1. t = WbTrapped(s)  BY <1>4 DEF WbStage, WbTrapped, l, Emptied
  <2>2. /\ PipeInv(t, m, cp0, late) /\ Flushed(t) /\ SlotThere(t) /\ t.retired = <<>>
        /\ ~t.dcwb.occupied
    <3> HIDE DEF t
    <3> QED BY <1>4, <2>1, WbTraps DEF l
  <2> HIDE DEF t
  <2>3. /\ Retired(m, t) = m /\ WroteCp0(t) = FALSE /\ Newest(cp0, FALSE, n) = cp0
        /\ Overtaken(late, cp0, FALSE, n) = late
    BY <1>1, <2>2 DEF Retired, WroteCp0, Newest, Overtaken
  <2> QED BY <2>2, <2>3 DEF t
<1>5. CASE Live(l) /\ ~(l.op = "fp" /\ trap)
  <2>1. t = WbWritten(s)
    <3>1. t = [[s EXCEPT !.dcwb = Emptied(l)] EXCEPT
                  !.exl = IF l.op = "mtc0" THEN FALSE ELSE @,
                  !.reg = IF l.write # 0 THEN l.value ELSE @,
                  !.retired = <<l>>]
      BY <1>5 DEF WbStage, l, Emptied
    <3> QED BY <1>1, <3>1 DEF Pipe, WbWritten, l
  <2>2. LET b == l.op = "mtc0" IN
          /\ PipeInv(t, Retire(m, l), Newest(cp0, b, l.seq), Overtaken(late, cp0, b, l.seq))
          /\ t.retired = <<l>> /\ t.pending = <<>> /\ ~t.dcwb.occupied
          /\ t.rfex = s.rfex /\ t.icrf = s.icrf
    <3> HIDE DEF t
    <3> QED BY <1>5, <2>1, WbRetires DEF l
  <2> HIDE DEF t
  <2>3. t.retired[1] = l /\ t.retired # <<>>  BY <2>2
  <2>4. Retired(m, t) = Retire(m, l) /\ WroteCp0(t) = (l.op = "mtc0")
    BY <2>3 DEF Retired, WroteCp0
  <2> QED BY <2>2, <2>3, <2>4 DEF Flushed, SlotThere, t
<1> QED BY <1>1, <1>3, <1>4, <1>5 DEF l

-----------------------------------------------------------------------------
(* DC.                                                                     *)

\* The interrupt, or an access that faults.
DcAborted(s) ==
  LET u == AbortFrom(s, "dc") IN [u EXCEPT !.dcwb = u.exdc, !.exdc = Emptied(u.exdc)]

LEMMA DcAborts ==
  ASSUME NEW s, NEW m, NEW cp0, NEW late, PipeInv(s, m, cp0, late), ~s.dcwb.occupied,
         Flushed(s), s.exdc.occupied, Live(s.exdc) => s.exdc.op # "eret",
         s.exdc.abort /\ s.pending = <<>> => ~s.exl
  PROVE  LET t == DcAborted(s) IN
           /\ PipeInv(t, m, cp0, late) /\ Flushed(t) /\ SlotThere(t)
           /\ t.retired = s.retired /\ ~t.exdc.occupied
<1> DEFINE u == AbortFrom(s, "dc")  l == s.exdc  t == DcAborted(s)
<1>1. /\ s \in Pipe /\ m \in Machine /\ cp0 \in Nat /\ late \in BOOLEAN
      /\ Chronology(s, m.epoch, cp0)
  BY DEF PipeInv
<1>2. /\ u \in Pipe /\ u.pending # <<>> /\ u.flush
      /\ s.pending = <<>> => /\ u.pending[1].pc = l.pc /\ u.pending[1].slot = l.slot
                             /\ u.pending[1].seq = l.seq
      /\ s.pending # <<>> => u.pending = s.pending
      /\ u.exdc = Aborted(l) /\ u.rfex = Aborted(s.rfex) /\ u.icrf = Aborted(s.icrf)
      /\ u.exl = s.exl /\ u.epc = s.epc /\ u.bd = s.bd
      /\ u.ll = s.ll /\ u.reg = s.reg /\ u.fetched = s.fetched /\ u.epoch = s.epoch
      /\ u.retired = s.retired
  BY <1>1, AbortIs DEF Source
<1>3. s.icrf \in Latch /\ s.rfex \in Latch /\ l \in Latch /\ u.exdc \in Latch  BY <1>1, <1>2, PipeIs
<1>4. t = [u EXCEPT !.dcwb = u.exdc, !.exdc = Emptied(u.exdc)]  BY DEF DcAborted
<1> HIDE DEF u, l, t
<1>5. t \in Pipe /\ t.dcwb = Aborted(l) /\ t.exdc = Emptied(Aborted(l))
  <2>1. Emptied(u.exdc) \in Latch  BY <1>3, LatchIs
  <2> DEFINE v == [u EXCEPT !.dcwb = u.exdc]
  <2>2. v \in Pipe /\ v.dcwb = u.exdc  BY <1>2, <1>3 DEF Pipe
  <2>3. t = [v EXCEPT !.exdc = Emptied(u.exdc)]  BY <1>4
  <2> HIDE DEF v
  <2> QED BY <1>2, <2>1, <2>2, <2>3 DEF Pipe
<1>6. /\ t.pending = u.pending /\ t.flush = u.flush /\ t.rfex = u.rfex
      /\ t.icrf = u.icrf
      /\ t.exl = s.exl /\ t.epc = s.epc /\ t.bd = s.bd
      /\ t.ll = s.ll /\ t.reg = s.reg /\ t.fetched = s.fetched /\ t.epoch = s.epoch
      /\ t.retired = s.retired
  BY <1>2, <1>4 DEF Pipe
<1>7. ~t.exdc.occupied /\ ~Live(t.dcwb) /\ ~Live(t.exdc) /\ ~Live(t.rfex) /\ ~Live(t.icrf)
  BY <1>2, <1>3, <1>5, <1>6, LatchIs
<1>8. Chronology(t, m.epoch, cp0)
  <2>1. /\ t.dcwb.occupied = l.occupied /\ t.dcwb.seq = l.seq /\ t.dcwb.epoch = l.epoch
        /\ t.rfex.occupied = s.rfex.occupied /\ t.rfex.seq = s.rfex.seq /\ t.rfex.epoch = s.rfex.epoch
        /\ t.icrf.occupied = s.icrf.occupied /\ t.icrf.seq = s.icrf.seq /\ t.icrf.epoch = s.icrf.epoch
        /\ t.dcwb.abort /\ t.rfex.abort /\ t.icrf.abort
    BY <1>2, <1>3, <1>5, <1>6, LatchIs
  <2>2. InOrder(t)  BY <1>1, <1>7, <2>1 DEF Chronology, InOrder, Before, l
  <2>3. /\ Dated(t, m.epoch, cp0, t.dcwb) /\ Dated(t, m.epoch, cp0, t.exdc)
        /\ Dated(t, m.epoch, cp0, t.rfex) /\ Dated(t, m.epoch, cp0, t.icrf)
    BY <1>1, <1>2, <1>6, <1>7, <2>1 DEF Chronology, Dated, l
  <2>4. t.pending[1].seq <= t.fetched
    <3>1. CASE s.pending = <<>>  BY <1>1, <1>2, <1>6, <3>1 DEF Chronology, Dated, l
    <3>2. CASE s.pending # <<>>  BY <1>1, <1>2, <1>6, <3>2 DEF Chronology
    <3> QED BY <3>1, <3>2
  <2> QED BY <1>1, <1>2, <1>6, <1>7, <2>2, <2>3, <2>4 DEF Chronology
<1>9. AtExdc(t, m) = m /\ ExlAtExdc(t) = FALSE  BY <1>7 DEF AtExdc, After, ExlAtExdc, ToWrite
<1>10. AtExdc(s, m) = m /\ ExlAtExdc(s) = FALSE  BY DEF AtExdc, After, ExlAtExdc, ToWrite, Live
<1>11. ASSUME Timely(t, cp0, late)
       PROVE  /\ Settled(m) /\ (~m.nested => t.reg = m.reg)
              /\ ~m.nested => t.ll = m.ll
              /\ Dispatching(t, m, FALSE)
  <2>1. Timely(s, cp0, late)  BY <1>2, <1>6, <1>11 DEF Timely
  <2>2. Sound(s, m, cp0)  BY <2>1 DEF PipeInv
  <2>3. /\ Settled(m) /\ (~m.nested => s.reg = m.reg) /\ Linked(s, m)
        /\ Reached(s, m, FALSE, cp0, l) /\ Masked(s, l)
        /\ Dispatching(s, AtFetch(s, m), ExlAtFetch(s))
    BY <2>2, <1>10 DEF Sound, l
  <2>4. ~m.nested => t.ll = m.ll
    <3>1. m.ll \in BOOLEAN /\ s.ll \in BOOLEAN  BY <1>1, PipeIs DEF Machine
    <3> QED BY <1>6, <2>3, <3>1 DEF Linked
  <2>5. Dispatching(t, m, FALSE)
    <3>1. CASE s.pending # <<>>
      <4>1. ~Live(s.exdc) /\ ~Live(s.rfex) /\ ~Live(s.icrf)  BY <3>1 DEF Flushed
      <4>2. AtFetch(s, m) = m  BY <1>10, <4>1 DEF AtFetch, AtIcrf, AtRfex, After
      <4>3. ~ExlAtFetch(s)
        BY <1>10, <4>1 DEF ExlAtFetch, ExlAtIcrf, ExlAtRfex, ToWrite, ToExecute
      <4> QED BY <1>2, <1>6, <2>3, <3>1, <4>2, <4>3 DEF Dispatching
    <3>2. CASE s.pending = <<>> /\ ~m.nested
      <4>1. l.seq >= cp0  BY <1>2, <1>6, <1>11, <3>2 DEF Timely
      <4>2. Live(l) /\ l.op # "eret"  BY <2>3, <3>2 DEF Masked, Live, l
      <4>3. IF s.exl THEN s.epc = Resume(m, s.bd)
            ELSE (IF l.slot THEN l.pc - 1 ELSE l.pc) = Resume(m, l.slot)
        BY <1>1, <1>3, <2>3, <3>2, <4>1, <4>2, ChargeResumes
      <4> QED BY <1>2, <1>6, <3>2, <4>3 DEF Dispatching
    <3>3. CASE m.nested  BY <3>3 DEF Dispatching
    <3> QED BY <3>1, <3>2, <3>3
  <2> QED BY <1>6, <2>3, <2>4, <2>5
<1>12. Reached(t, m, FALSE, cp0, t.dcwb) /\ Accessed(m, t.dcwb)  BY <1>7 DEF Reached, Accessed
<1>13. t.pending # <<>>  BY <1>2, <1>6
<1>14. PipeInv(t, m, cp0, late) /\ Flushed(t) /\ SlotThere(t)
  BY <1>1, <1>5, <1>7, <1>8, <1>9, <1>11, <1>12, <1>13, FlushedInv
<1> QED BY <1>6, <1>7, <1>14 DEF t

\* No access, or one that succeeds.
DcResult(s) ==
  LET l == s.exdc IN
    IF Live(l) /\ Accesses(l) /\ l.op # "store"
    THEN [l EXCEPT !.write = l.dst, !.value = IF l.op = "sc" THEN Flag(s.ll) ELSE l.seq]
    ELSE l

DcMoved(s, n) ==
  [s EXCEPT !.dcwb = DcResult(s), !.exdc = Emptied(s.exdc), !.stall = n,
            !.ll = s.ll \/ (Live(s.exdc) /\ s.exdc.op = "ll")]

LEMMA DcResultIs ==
  ASSUME NEW s \in Pipe
  PROVE  LET l == s.exdc
             k == DcResult(s)
             a == Live(l) /\ Accesses(l) /\ l.op # "store"
         IN  /\ k \in Latch
             /\ k.occupied = l.occupied /\ k.seq = l.seq /\ k.epoch = l.epoch /\ k.pc = l.pc
             /\ k.slot = l.slot /\ k.abort = l.abort /\ k.op = l.op /\ k.src = l.src
             /\ k.dst = l.dst /\ k.rs = l.rs /\ k.epc = l.epc /\ k.bd = l.bd
             /\ k.write = IF a THEN l.dst ELSE l.write
             /\ k.value = IF a THEN (IF l.op = "sc" THEN Flag(s.ll) ELSE l.seq) ELSE l.value
<1> DEFINE l == s.exdc
           k == DcResult(s)
           a == Live(l) /\ Accesses(l) /\ l.op # "store"
           v == IF l.op = "sc" THEN Flag(s.ll) ELSE l.seq
<1>1. l \in Latch  BY PipeIs
<1>2. v \in Int /\ l.dst \in {0, 1}  BY <1>1 DEF Flag, Latch
<1>3. k = IF a THEN [l EXCEPT !.write = l.dst, !.value = v] ELSE l  BY DEF DcResult
<1> HIDE DEF l, k, a, v
<1> DEFINE w == [l EXCEPT !.write = l.dst, !.value = v]
<1>4. /\ w \in Latch
      /\ w.occupied = l.occupied /\ w.seq = l.seq /\ w.epoch = l.epoch /\ w.pc = l.pc
      /\ w.slot = l.slot /\ w.abort = l.abort /\ w.op = l.op /\ w.src = l.src
      /\ w.dst = l.dst /\ w.rs = l.rs /\ w.epc = l.epc /\ w.bd = l.bd
      /\ w.write = l.dst /\ w.value = v
  BY <1>1, <1>2 DEF Latch
<1> HIDE DEF w
<1>5. k = IF a THEN w ELSE l  BY <1>3 DEF w
<1>6. CASE a
  <2>1. k = w  BY <1>5, <1>6
  <2> QED BY <1>4, <1>6, <2>1 DEF l, k, a, v
<1>7. CASE ~a
  <2>1. k = l  BY <1>5, <1>7
  <2> QED BY <1>1, <1>7, <2>1 DEF l, k, a, v
<1> QED BY <1>6, <1>7

LEMMA DcMoves ==
  ASSUME NEW s, NEW m, NEW cp0, NEW late, NEW n \in Nat, PipeInv(s, m, cp0, late),
         ~s.dcwb.occupied, Flushed(s), SlotThere(s)
  PROVE  LET t == DcMoved(s, n) IN
           /\ PipeInv(t, m, cp0, late) /\ Flushed(t) /\ SlotThere(t)
           /\ t.retired = s.retired /\ ~t.exdc.occupied
<1> DEFINE t == DcMoved(s, n)  l == s.exdc  k == DcResult(s)
           a == Live(l) /\ Accesses(l) /\ l.op # "store"
           v == s.ll \/ (Live(l) /\ l.op = "ll")
<1>1. /\ s \in Pipe /\ m \in Machine /\ cp0 \in Nat /\ late \in BOOLEAN
      /\ Chronology(s, m.epoch, cp0)
  BY DEF PipeInv
<1>2. s.icrf \in Latch /\ s.rfex \in Latch /\ l \in Latch /\ s.ll \in BOOLEAN
      /\ m.ll \in BOOLEAN /\ m.nested \in BOOLEAN
  BY <1>1, PipeIs DEF Machine
<1>3. /\ k \in Latch
      /\ k.occupied = l.occupied /\ k.seq = l.seq /\ k.epoch = l.epoch /\ k.pc = l.pc
      /\ k.slot = l.slot /\ k.abort = l.abort /\ k.op = l.op /\ k.src = l.src
      /\ k.dst = l.dst /\ k.rs = l.rs /\ k.epc = l.epc /\ k.bd = l.bd
      /\ k.write = IF a THEN l.dst ELSE l.write
      /\ k.value = IF a THEN (IF l.op = "sc" THEN Flag(s.ll) ELSE l.seq) ELSE l.value
  BY <1>1, DcResultIs
<1>4. t = [s EXCEPT !.dcwb = k, !.exdc = Emptied(l), !.stall = n, !.ll = v]  BY DEF DcMoved
<1>5. Live(l) \in BOOLEAN /\ v \in BOOLEAN /\ l.op \in Op /\ l.occupied \in BOOLEAN /\ l.abort \in BOOLEAN
  BY <1>2 DEF Live, Latch
<1> HIDE DEF t, l, k, v
<1>6. /\ t.dcwb = k /\ t.exdc = Emptied(l) /\ t.rfex = s.rfex /\ t.icrf = s.icrf
      /\ t.nextPc = s.nextPc /\ t.exl = s.exl /\ t.epc = s.epc /\ t.bd = s.bd
      /\ t.ll = v /\ t.reg = s.reg /\ t.fetched = s.fetched /\ t.epoch = s.epoch
      /\ t.pending = s.pending /\ t.flush = s.flush /\ t.retired = s.retired
  BY <1>1, <1>4 DEF Pipe
<1>7. t \in Pipe
  <2> DEFINE w == [s EXCEPT !.dcwb = k, !.exdc = Emptied(l)]
  <2>1. Emptied(l) \in Latch  BY <1>2, LatchIs
  <2>2. w \in Pipe  BY <1>1, <1>3, <2>1 DEF Pipe
  <2>3. t = [w EXCEPT !.stall = n, !.ll = v]  BY <1>4
  <2> HIDE DEF w
  <2> QED BY <1>5, <2>2, <2>3 DEF Pipe
<1>8. ~t.exdc.occupied /\ ~Live(t.exdc) /\ ~Live(s.dcwb)
  BY <1>2, <1>6, LatchIs DEF Live
<1>9. Live(k) = Live(l) /\ Nested(k) = Nested(l) /\ HasDelaySlot(k) = HasDelaySlot(l)
      /\ ToWrite(k) = ToWrite(l) /\ Writes(k) = Writes(l) /\ Entered(m, k) = Entered(m, l)
  BY <1>3, <1>5 DEF Live, Nested, HasDelaySlot, ToWrite, Writes, Entered
<1>10. AtExdc(s, m) = m  BY <1>8 DEF AtExdc, After
<1>11. AtExdc(t, m) = After(m, l)
  <2>1. a => l.op # "eret"  BY DEF Accesses
  <2>2. Retire(m, k) = Retire(m, l)  BY <1>3, <2>1, SameRetire
  <2> QED BY <1>6, <1>9, <2>2 DEF AtExdc, After
<1>12. AtRfex(s, m) = After(m, l) /\ AtRfex(t, m) = After(m, l)
  BY <1>8, <1>10, <1>11 DEF AtRfex, After, l
<1>13. AtIcrf(t, m) = AtIcrf(s, m)  BY <1>6, <1>12 DEF AtIcrf
<1>14. AtFetch(t, m) = AtFetch(s, m)  BY <1>6, <1>13 DEF AtFetch
<1>15. ExlAtExdc(s) = FALSE  BY <1>8 DEF ExlAtExdc, ToWrite
<1>16. ExlAtRfex(t) = ExlAtRfex(s)
  <2>1. ExlAtRfex(s) = ToWrite(l)  BY <1>5, <1>15 DEF ExlAtRfex, ToWrite, l
  <2>2. ToWrite(t.exdc) = FALSE  BY <1>8 DEF ToWrite
  <2>3. ExlAtRfex(t) = ToWrite(l)  BY <1>6, <1>9, <2>2 DEF ExlAtRfex, ExlAtExdc, ToWrite
  <2> QED BY <2>1, <2>3
<1>17. ExlAtIcrf(t) = ExlAtIcrf(s)  BY <1>6, <1>16 DEF ExlAtIcrf
<1>18. ExlAtFetch(t) = ExlAtFetch(s)  BY <1>6, <1>17 DEF ExlAtFetch
<1>19. Chronology(t, m.epoch, cp0)
  <2>1. InOrder(t)  BY <1>1, <1>3, <1>6, <1>8 DEF Chronology, InOrder, Before, l
  <2>2. /\ Dated(t, m.epoch, cp0, t.dcwb) /\ Dated(t, m.epoch, cp0, t.exdc)
        /\ Dated(t, m.epoch, cp0, t.rfex) /\ Dated(t, m.epoch, cp0, t.icrf)
    BY <1>1, <1>3, <1>6, <1>8 DEF Chronology, Dated, l
  <2> QED BY <1>1, <1>6, <1>8, <2>1, <2>2 DEF Chronology
<1>20. ASSUME Timely(t, cp0, late) PROVE Sound(t, m, cp0)
  <2>1. Timely(s, cp0, late)  BY <1>6, <1>20 DEF Timely
  <2>2. Sound(s, m, cp0)  BY <2>1 DEF PipeInv
  <2>3. /\ Settled(m) /\ (~m.nested => s.reg = m.reg) /\ Linked(s, m)
        /\ Reached(s, m, FALSE, cp0, l) /\ Executed(m, l)
        /\ Reached(s, AtRfex(s, m), ExlAtRfex(s), cp0, s.rfex) /\ Unwritten(s.rfex)
        /\ ~Squashes(s.rfex) => Reached(s, AtIcrf(s, m), ExlAtIcrf(s), cp0, s.icrf)
        /\ Unwritten(s.icrf)
        /\ Branching(s, AtIcrf(s, m))
        /\ Fetching(s, AtFetch(s, m), ExlAtFetch(s))
        /\ Dispatching(s, AtFetch(s, m), ExlAtFetch(s))
        /\ Masked(s, s.rfex) /\ Masked(s, s.icrf)
    BY <2>2, <1>10, <1>15 DEF Sound, l
  <2>4. Linked(t, AtExdc(t, m))
    <3> DEFINE r == Retire(m, l)
    <3>1. r.ll = ((m.ll \/ l.op = "ll") /\ l.op # "eret") /\ r.nested = (m.nested \/ Nested(l))
      BY <1>1, <1>2, RetireIs
    <3>2. SUFFICES ASSUME ~After(m, l).nested PROVE t.ll = After(m, l).ll
      <4>1. After(m, l).ll \in BOOLEAN /\ t.ll \in BOOLEAN
        BY <1>1, <1>2, <1>5, <1>6, AfterIs DEF Machine
      <4> QED BY <1>8, <1>11, <4>1, <3>2 DEF Linked
    <3>3. ~m.nested  BY <1>1, <1>2, <3>2, AfterIs
    <3>4. s.ll = (m.ll /\ ~(Live(l) /\ l.op = "eret"))  BY <2>3, <3>3 DEF Linked, l
    <3> HIDE DEF r
    <3>5. CASE Live(l)
      <4>1. After(m, l) = r  BY <3>5 DEF After, r
      <4>2. CASE l.op = "eret"
        <5>1. s.ll = FALSE /\ r.ll = FALSE  BY <3>1, <3>4, <3>5, <4>2
        <5> QED BY <1>6, <4>1, <4>2, <5>1 DEF v
      <4>3. CASE l.op # "eret"
        <5>1. s.ll = m.ll /\ r.ll = (m.ll \/ l.op = "ll")  BY <1>2, <3>1, <3>4, <4>3
        <5>2. t.ll = (m.ll \/ l.op = "ll")  BY <1>6, <3>5, <5>1 DEF v
        <5> QED BY <4>1, <5>1, <5>2
      <4> QED BY <4>2, <4>3
    <3>6. CASE ~Live(l)
      <4>1. After(m, l) = m  BY <3>6 DEF After
      <4> QED BY <1>2, <1>6, <3>4, <3>6, <4>1 DEF v
    <3> QED BY <3>5, <3>6
  <2>5. Reached(t, m, FALSE, cp0, k)  BY <1>3, <1>6, <1>9, <2>3 DEF Reached
  <2>6. Accessed(m, k)
    <3>1. SUFFICES ASSUME Live(l), ~m.nested, ~Nested(l) PROVE Operand(m, k) /\ Written(m, k)
      BY <1>9 DEF Accessed
    <3>2. /\ Operand(m, l)
          /\ IF l.op \in {"alu", "jal"} THEN Written(m, l) ELSE l.write = 0
      BY <2>3, <3>1 DEF Executed
    <3>3. Operand(m, k)  BY <1>3, <3>2 DEF Operand
    <3> DEFINE e == Entered(m, l)
    <3>4. e.ll = m.ll  BY <1>1, <1>2, EnteredIs
    <3>5. l.op # "eret" => s.ll = m.ll  BY <1>2, <2>3, <3>1 DEF Linked, l
    <3> HIDE DEF e
    <3>6. CASE l.op \in {"alu", "jal"}
      <4>1. ~a  BY <3>6 DEF Accesses
      <4>2. k.write = l.write /\ k.value = l.value  BY <1>3, <4>1
      <4>3. Written(m, l)  BY <3>2, <3>6
      <4>4. Result(e, k) = Result(e, l)  BY <1>3 DEF Result
      <4>5. Written(m, k)  BY <1>3, <1>9, <4>2, <4>3, <4>4 DEF Written, e
      <4> QED BY <3>3, <4>5
    <3>7. CASE l.op \in {"load", "ll", "sc"}
      <4>1. a  BY <3>1, <3>7 DEF Accesses
      <4>2. k.write = l.dst /\ k.value = IF l.op = "sc" THEN Flag(s.ll) ELSE l.seq  BY <1>3, <4>1
      <4>3. Result(e, k) = k.value
        <5>1. CASE l.op = "sc"
          <6>1. Result(e, k) = Flag(e.ll)  BY <1>3, <5>1 DEF Result
          <6> QED BY <3>4, <3>5, <4>2, <5>1, <6>1
        <5>2. CASE l.op \in {"load", "ll"}
          <6>1. Result(e, k) = l.seq  BY <1>3, <5>2 DEF Result
          <6> QED BY <4>2, <5>2, <6>1
        <5> QED BY <3>7, <5>1, <5>2
      <4>4. CASE l.dst = 0
        <5>1. ~Writes(k)  BY <1>3, <4>4 DEF Writes
        <5> QED BY <3>3, <4>2, <4>4, <5>1 DEF Written
      <4>5. CASE l.dst # 0
        <5>1. Writes(k)  BY <1>3, <3>7, <4>5 DEF Writes
        <5> QED BY <1>3, <1>9, <3>3, <4>2, <4>3, <5>1 DEF Written, e
      <4> QED BY <4>4, <4>5
    <3>8. CASE l.op \notin {"alu", "jal", "load", "ll", "sc"}
      <4>1. ~a  BY <3>8 DEF Accesses
      <4>2. k.write = 0  BY <1>3, <3>2, <3>8, <4>1
      <4>3. ~Writes(k)  BY <1>3, <3>8 DEF Writes
      <4> QED BY <3>3, <4>2, <4>3 DEF Written
    <3> QED BY <3>6, <3>7, <3>8
  <2>7. Reached(t, AtExdc(t, m), ExlAtExdc(t), cp0, t.exdc) /\ Executed(AtExdc(t, m), t.exdc)
    BY <1>8 DEF Reached, Executed
  <2>8. Reached(t, AtRfex(t, m), ExlAtRfex(t), cp0, t.rfex)
    BY <1>6, <1>12, <1>16, <2>3 DEF Reached
  <2>9. ~Squashes(t.rfex) => Reached(t, AtIcrf(t, m), ExlAtIcrf(t), cp0, t.icrf)
    BY <1>6, <1>13, <1>17, <2>3 DEF Reached
  <2>10. Branching(t, AtIcrf(t, m))  BY <1>6, <1>13, <2>3 DEF Branching
  <2>11. Fetching(t, AtFetch(t, m), ExlAtFetch(t))  BY <1>6, <1>14, <1>18, <2>3 DEF Fetching
  <2>12. Dispatching(t, AtFetch(t, m), ExlAtFetch(t))
    BY <1>6, <1>14, <1>18, <2>3 DEF Dispatching
  <2>13. Masked(t, t.exdc) /\ Masked(t, t.rfex) /\ Masked(t, t.icrf)
    BY <1>6, <1>8, <2>3 DEF Masked
  <2> QED BY <1>6, <2>3, <2>4, <2>5, <2>6, <2>7, <2>8, <2>9, <2>10, <2>11, <2>12, <2>13 DEF Sound
<1>21. Flushed(t) /\ SlotThere(t)  BY <1>6, <1>8 DEF Flushed, SlotThere
<1> QED BY <1>1, <1>6, <1>7, <1>8, <1>19, <1>20, <1>21 DEF PipeInv, t

LEMMA DcKeeps ==
  ASSUME NEW s, NEW m, NEW cp0, NEW late, PipeInv(s, m, cp0, late),
         NEW irq \in BOOLEAN, NEW fault \in BOOLEAN, NEW miss \in BOOLEAN,
         ~s.dcwb.occupied, Flushed(s), SlotThere(s)
  PROVE  LET t == DcStage(s, irq, fault, miss) IN
           /\ PipeInv(t, m, cp0, late) /\ Flushed(t) /\ SlotThere(t)
           /\ t.retired = s.retired /\ ~t.exdc.occupied
<1> DEFINE t == DcStage(s, irq, fault, miss)  l == s.exdc
           taken == irq /\ s.prevRun /\ ~s.exl /\ InterruptChargeable(s)
           a == AbortFrom(s, "dc")
<1>1. s \in Pipe /\ l \in Latch  BY PipeIs DEF PipeInv
<1>2. a \in Pipe /\ a.exdc = Aborted(l) /\ ~Live(a.exdc)
  <2>1. a \in Pipe /\ a.exdc = Aborted(l)  BY <1>1, AbortIs
  <2>2. ~Live(Aborted(l))  BY <1>1, LatchIs
  <2> HIDE DEF a, l
  <2> QED BY <2>1, <2>2
<1>3. CASE taken
  <2>1. t = [[a EXCEPT !.dcwb = a.exdc] EXCEPT !.exdc.occupied = FALSE]
    BY <1>2, <1>3 DEF DcStage, Access
  <2>2. t = DcAborted(s)
    <3> HIDE DEF a, t
    <3>1. t = [a EXCEPT !.dcwb = a.exdc, !.exdc = Emptied(a.exdc)]
      BY <1>2, <2>1 DEF Emptied, Pipe
    <3> QED BY <3>1 DEF DcAborted, a
  <2>3. s.exdc.occupied /\ (Live(s.exdc) => s.exdc.op # "eret") /\ ~s.exl
    BY <1>3 DEF InterruptChargeable, Live
  <2> HIDE DEF t
  <2> QED BY <2>2, <2>3, DcAborts DEF t
<1>4. CASE ~taken /\ Live(l) /\ Accesses(l) /\ fault
  <2>1. t = [[a EXCEPT !.dcwb = a.exdc] EXCEPT !.exdc.occupied = FALSE]
    BY <1>4 DEF DcStage, Access
  <2>2. t = DcAborted(s)
    <3> HIDE DEF a, t
    <3>1. t = [a EXCEPT !.dcwb = a.exdc, !.exdc = Emptied(a.exdc)]
      BY <1>2, <2>1 DEF Emptied, Pipe
    <3> QED BY <3>1 DEF DcAborted, a
  <2>3. s.exdc.occupied /\ s.exdc.op # "eret" /\ ~s.exdc.abort  BY <1>4 DEF Accesses, Live
  <2> HIDE DEF t
  <2> QED BY <2>2, <2>3, DcAborts DEF t
<1>5. CASE ~taken /\ ~(Live(l) /\ Accesses(l))
  <2>1. t = [[s EXCEPT !.dcwb = l] EXCEPT !.exdc.occupied = FALSE]
    BY <1>5 DEF DcStage, Access
  <2>2. s.stall \in Nat /\ s.ll \in BOOLEAN  BY <1>1, PipeIs
  <2>3. t = DcMoved(s, s.stall)
    <3>1. DcResult(s) = l  BY <1>5 DEF DcResult
    <3>2. ~(Live(l) /\ l.op = "ll")  BY <1>5 DEF Accesses
    <3> HIDE DEF t, l
    <3>3. t = [s EXCEPT !.dcwb = l, !.exdc = Emptied(l), !.stall = s.stall, !.ll = s.ll]
      BY <1>1, <2>1 DEF Emptied, Pipe, l
    <3>4. (s.ll \/ (Live(l) /\ l.op = "ll")) = s.ll  BY <2>2, <3>2
    <3> QED BY <3>1, <3>3, <3>4 DEF DcMoved, l
  <2> HIDE DEF t
  <2> QED BY <2>2, <2>3, DcMoves DEF t
<1>6. CASE ~taken /\ Live(l) /\ Accesses(l) /\ ~fault
  <2> DEFINE k == IF l.op = "store" THEN l
                  ELSE [l EXCEPT !.write = l.dst,
                                 !.value = IF l.op = "sc" THEN Flag(s.ll) ELSE l.seq]
             v == s.ll \/ l.op = "ll"
             w == [s EXCEPT !.dcwb = k, !.ll = v]
             n == IF miss THEN 1 ELSE s.stall
  <2>1. n \in Nat  BY <1>1, PipeIs
  <2>2. t = [StallFor([s EXCEPT !.dcwb = k, !.ll = @ \/ l.op = "ll"], IF miss THEN 1 ELSE 0)
             EXCEPT !.exdc.occupied = FALSE]
    BY <1>6 DEF DcStage, Access
  <2>3. [s EXCEPT !.dcwb = k, !.ll = @ \/ l.op = "ll"] = w  BY <1>1 DEF Pipe
  <2>4. k = DcResult(s)  BY <1>6 DEF DcResult
  <2>5. v = (s.ll \/ (Live(s.exdc) /\ s.exdc.op = "ll"))  BY <1>6
  <2> HIDE DEF k, v, l, t
  <2>6. StallFor(w, IF miss THEN 1 ELSE 0) = [w EXCEPT !.stall = n]
    <3>1. CASE miss
      <4>1. (IF miss THEN 1 ELSE 0) = 1 /\ n = 1  BY <3>1
      <4> HIDE DEF w, n
      <4> QED BY <4>1 DEF StallFor
    <3>2. CASE ~miss
      <4>1. StallFor(w, 0) = w  BY DEF StallFor
      <4>2. n = s.stall /\ (IF miss THEN 1 ELSE 0) = 0  BY <3>2
      <4>3. [w EXCEPT !.stall = s.stall] = w  BY <1>1 DEF Pipe
      <4> HIDE DEF w, n
      <4> QED BY <4>1, <4>2, <4>3
    <3> QED BY <3>1, <3>2
  <2>7. t = [[w EXCEPT !.stall = n] EXCEPT !.exdc.occupied = FALSE]  BY <2>2, <2>3, <2>6
  <2>8. t = [s EXCEPT !.dcwb = k, !.ll = v, !.stall = n, !.exdc = Emptied(l)]
    BY <1>1, <2>7 DEF Emptied, Pipe, l
  <2>9. t = DcMoved(s, n)
    <3> HIDE DEF n
    <3> QED BY <1>1, <2>4, <2>5, <2>8 DEF DcMoved, l, Pipe
  <2> HIDE DEF n
  <2> QED BY <2>1, <2>9, DcMoves DEF t
<1> QED BY <1>3, <1>4, <1>5, <1>6

-----------------------------------------------------------------------------
(* EX.                                                                     *)

LEMMA ReachSettled ==
  ASSUME NEW s, NEW m \in Machine, NEW l \in Latch, NEW exl, NEW cp0,
         Settled(m), Reached(s, m, exl, cp0, l)
  PROVE  Settled(After(m, l))
<1>1. CASE ~Live(l)  BY <1>1 DEF After
<1>2. CASE Live(l) /\ m.nested
  <2>1. After(m, l).nested  BY <1>2, AfterIs
  <2> QED BY <2>1 DEF Settled
<1>3. CASE Live(l) /\ ~m.nested
  <2>1. l.pc = Entered(m, l).pc /\ l.slot = Entered(m, l).slot  BY <1>3 DEF Reached
  <2> QED BY <1>3, <2>1, RetireSettled DEF After
<1> QED BY <1>1, <1>2, <1>3

\* What the bypass delivers is what the machine reads.
LEMMA BypassIs ==
  ASSUME NEW s \in Pipe, NEW m \in Machine, NEW r \in {0, 1},
         ~m.nested => s.reg = m.reg, Accessed(m, s.dcwb)
  PROVE  /\ BypassValue(s, r) \in Int
         /\ ~AtExdc(s, m).nested =>
               BypassValue(s, r) = IF r = 0 THEN 0 ELSE AtExdc(s, m).reg
<1> DEFINE l == s.dcwb  A == AtExdc(s, m)
<1>1. l \in Latch /\ l.value \in Int /\ s.reg \in Int  BY PipeIs DEF Latch
<1>2. BypassValue(s, r) = IF r # 0 /\ Live(l) /\ l.write = r THEN l.value
                          ELSE IF r = 0 THEN 0 ELSE s.reg
  BY DEF BypassValue
<1> HIDE DEF l
<1>3. BypassValue(s, r) \in Int  BY <1>1, <1>2
<1>4. A.nested = (m.nested \/ (Live(l) /\ Nested(l)))  BY ChainIs DEF l
<1>5. A = After(m, l)  BY DEF AtExdc, l
<1> HIDE DEF A
<1>6. ASSUME ~A.nested, r = 1 PROVE BypassValue(s, r) = A.reg
  <2>1. ~m.nested /\ s.reg = m.reg  BY <1>4, <1>6
  <2>2. CASE ~Live(l)  BY <1>2, <1>5, <1>6, <2>1, <2>2 DEF After
  <2>3. CASE Live(l)
    <3>1. Written(m, l)  BY <1>4, <1>6, <2>1, <2>3 DEF Accessed, l
    <3>2. A.reg = IF Writes(l) THEN Result(Entered(m, l), l) ELSE m.reg
      BY <1>1, <1>5, <2>3, RetireIs DEF After
    <3>3. CASE Writes(l)
      <4>1. l.write = l.dst /\ l.value = Result(Entered(m, l), l)  BY <3>1, <3>3 DEF Written
      <4>2. l.dst = 1  BY <1>1, <3>3 DEF Writes, Latch
      <4> QED BY <1>2, <1>6, <2>3, <3>2, <3>3, <4>1, <4>2
    <3>4. CASE ~Writes(l)
      <4>1. l.write = 0  BY <3>1, <3>4 DEF Written
      <4> QED BY <1>2, <1>6, <2>1, <3>2, <3>4, <4>1
    <3> QED BY <3>3, <3>4
  <2> QED BY <2>2, <2>3
<1>7. r = 0 => BypassValue(s, r) = 0  BY <1>2
<1> QED BY <1>3, <1>6, <1>7 DEF A

\* The instruction with its operand, and with what EX has computed.
ExOperand(s) == [s.rfex EXCEPT !.rs = BypassValue(s, s.rfex.src)]

ExComputed(s, w, v) == [ExOperand(s) EXCEPT !.write = w, !.value = v]

LEMMA ExComputedIs ==
  ASSUME NEW s \in Pipe, NEW w \in {0, 1}, NEW v \in Int, BypassValue(s, s.rfex.src) \in Int
  PROVE  LET l == s.rfex  k == ExComputed(s, w, v) IN
         /\ k \in Latch
         /\ k.occupied = l.occupied /\ k.seq = l.seq /\ k.epoch = l.epoch /\ k.pc = l.pc
         /\ k.slot = l.slot /\ k.abort = l.abort /\ k.op = l.op /\ k.src = l.src
         /\ k.dst = l.dst /\ k.epc = l.epc /\ k.bd = l.bd
         /\ k.rs = BypassValue(s, s.rfex.src) /\ k.write = w /\ k.value = v
<1> DEFINE l == s.rfex  b == BypassValue(s, l.src)
<1>1. l \in Latch /\ b \in Int  BY PipeIs
<1>2. ExComputed(s, w, v) = [[l EXCEPT !.rs = b] EXCEPT !.write = w, !.value = v]
  BY DEF ExComputed, ExOperand
<1> DEFINE k == ExComputed(s, w, v)
<1> HIDE DEF l, b, k
<1>3. k = [l EXCEPT !.rs = b, !.write = w, !.value = v]  BY <1>1, <1>2 DEF Latch, k
<1>4. /\ k \in Latch
      /\ k.occupied = l.occupied /\ k.seq = l.seq /\ k.epoch = l.epoch /\ k.pc = l.pc
      /\ k.slot = l.slot /\ k.abort = l.abort /\ k.op = l.op /\ k.src = l.src
      /\ k.dst = l.dst /\ k.epc = l.epc /\ k.bd = l.bd
      /\ k.rs = b /\ k.write = w /\ k.value = v
  BY <1>1, <1>3 DEF Latch
<1> QED BY <1>4 DEF l, b, k

\* A syscall.
ExTrapped(s) ==
  LET a == AbortFrom(s, "ex") IN [a EXCEPT !.exdc = a.rfex, !.rfex = Emptied(a.rfex)]

LEMMA ExTraps ==
  ASSUME NEW s, NEW m, NEW cp0, NEW late, PipeInv(s, m, cp0, late), ~s.exdc.occupied,
         Flushed(s), Live(s.rfex), s.rfex.op = "syscall"
  PROVE  LET t == ExTrapped(s) IN
           /\ PipeInv(t, m, cp0, late) /\ Flushed(t)
           /\ t.retired = s.retired /\ ~t.rfex.occupied /\ t.exdc.op = "syscall"
<1> DEFINE u == AbortFrom(s, "ex")  l == s.rfex  t == ExTrapped(s)
<1>1. /\ s \in Pipe /\ m \in Machine /\ cp0 \in Nat /\ late \in BOOLEAN
      /\ Chronology(s, m.epoch, cp0) /\ s.pending = <<>>
  BY DEF PipeInv, Flushed
<1>2. /\ u \in Pipe /\ u.pending # <<>> /\ u.flush = TRUE
      /\ u.pending[1].pc = l.pc /\ u.pending[1].slot = l.slot /\ u.pending[1].seq = l.seq
      /\ u.dcwb = s.dcwb /\ u.rfex = Aborted(l) /\ u.icrf = Aborted(s.icrf)
      /\ u.exl = s.exl /\ u.epc = s.epc /\ u.bd = s.bd
      /\ u.ll = s.ll /\ u.reg = s.reg /\ u.fetched = s.fetched /\ u.epoch = s.epoch
      /\ u.retired = s.retired
  <2>1. u \in Pipe /\ u.pending # <<>> /\ u.flush /\ u.flush \in BOOLEAN  BY <1>1, AbortIs, PipeIs
  <2>2. /\ u.pending[1].pc = l.pc /\ u.pending[1].slot = l.slot /\ u.pending[1].seq = l.seq
        /\ u.dcwb = s.dcwb /\ u.rfex = Aborted(l) /\ u.icrf = Aborted(s.icrf)
        /\ u.exl = s.exl /\ u.epc = s.epc /\ u.bd = s.bd
        /\ u.ll = s.ll /\ u.reg = s.reg /\ u.fetched = s.fetched /\ u.epoch = s.epoch
        /\ u.retired = s.retired
    BY <1>1, AbortIs DEF Source
  <2> QED BY <2>1, <2>2
<1>3. s.icrf \in Latch /\ s.dcwb \in Latch /\ l \in Latch /\ u.rfex \in Latch
  BY <1>1, <1>2, PipeIs
<1>4. t = [u EXCEPT !.exdc = u.rfex, !.rfex = Emptied(u.rfex)]  BY DEF ExTrapped
<1>5. l.occupied /\ ~l.abort /\ l.op = "syscall" /\ l.seq \in Nat  BY <1>3 DEF Live, Latch
<1> HIDE DEF u, l, t
<1>6. t \in Pipe /\ t.exdc = Aborted(l) /\ t.rfex = Emptied(Aborted(l))
  <2>1. Emptied(u.rfex) \in Latch  BY <1>3, LatchIs
  <2> DEFINE v == [u EXCEPT !.exdc = u.rfex]
  <2>2. v \in Pipe /\ v.exdc = u.rfex  BY <1>2, <1>3 DEF Pipe
  <2>3. t = [v EXCEPT !.rfex = Emptied(u.rfex)]  BY <1>4
  <2> HIDE DEF v
  <2> QED BY <1>2, <2>1, <2>2, <2>3 DEF Pipe
<1>7. /\ t.pending = u.pending /\ t.flush = u.flush /\ t.dcwb = s.dcwb
      /\ t.icrf = u.icrf
      /\ t.exl = s.exl /\ t.epc = s.epc /\ t.bd = s.bd
      /\ t.ll = s.ll /\ t.reg = s.reg /\ t.fetched = s.fetched /\ t.epoch = s.epoch
      /\ t.retired = s.retired
  BY <1>2, <1>4 DEF Pipe
<1>8. /\ ~t.rfex.occupied /\ ~Live(t.exdc) /\ ~Live(t.rfex) /\ ~Live(t.icrf)
      /\ t.exdc.op = "syscall"
  BY <1>2, <1>3, <1>5, <1>6, <1>7, LatchIs
<1>9. Chronology(t, m.epoch, cp0)
  <2>1. /\ t.exdc.occupied = l.occupied /\ t.exdc.seq = l.seq /\ t.exdc.epoch = l.epoch
        /\ t.icrf.occupied = s.icrf.occupied /\ t.icrf.seq = s.icrf.seq /\ t.icrf.epoch = s.icrf.epoch
        /\ t.exdc.abort /\ t.icrf.abort
    BY <1>2, <1>3, <1>6, <1>7, LatchIs
  <2>2. InOrder(t)  BY <1>1, <1>7, <1>8, <2>1 DEF Chronology, InOrder, Before, l
  <2>3. Before(s.dcwb, l)  BY <1>1 DEF Chronology, InOrder, l
  <2>4. Dated(t, m.epoch, cp0, t.dcwb)
    BY <1>1, <1>2, <1>5, <1>7, <2>3 DEF Chronology, Dated, Before
  <2>5. /\ Dated(t, m.epoch, cp0, t.exdc)
        /\ Dated(t, m.epoch, cp0, t.rfex) /\ Dated(t, m.epoch, cp0, t.icrf)
    BY <1>1, <1>2, <1>7, <1>8, <2>1 DEF Chronology, Dated, l
  <2>6. t.pending[1].seq <= t.fetched  BY <1>1, <1>2, <1>5, <1>7 DEF Chronology, Dated, l
  <2>7. t.flush = (t.pending # <<>>) /\ t.pending # <<>>  BY <1>2, <1>7
  <2> QED BY <1>1, <1>7, <1>8, <2>2, <2>4, <2>5, <2>6, <2>7 DEF Chronology
<1> DEFINE A == AtExdc(s, m)
<1>10. AtExdc(t, m) = A /\ ExlAtExdc(t) = ExlAtExdc(s)  BY <1>7 DEF AtExdc, ExlAtExdc
<1>11. AtRfex(s, m) = A  BY DEF AtRfex, After, Live
<1>12. ExlAtRfex(s) <=> ExlAtExdc(s)  BY DEF ExlAtRfex, ToWrite, Live
<1>13. A \in Machine  BY <1>1, ChainIs
<1> HIDE DEF A
<1>14. ASSUME Timely(t, cp0, late)
       PROVE  /\ Settled(m) /\ (~m.nested => t.reg = m.reg)
              /\ ~A.nested => t.ll = A.ll
              /\ Reached(t, m, FALSE, cp0, t.dcwb) /\ Accessed(m, t.dcwb)
              /\ Dispatching(t, A, ExlAtExdc(t))
  <2>1. Timely(s, cp0, late) /\ l.seq >= cp0  BY <1>1, <1>2, <1>7, <1>14 DEF Timely
  <2>2. Sound(s, m, cp0)  BY <2>1 DEF PipeInv
  <2>3. /\ Settled(m) /\ (~m.nested => s.reg = m.reg) /\ Linked(s, A)
        /\ Reached(s, m, FALSE, cp0, s.dcwb) /\ Accessed(m, s.dcwb)
        /\ Reached(s, A, ExlAtRfex(s), cp0, l)
    BY <2>2, <1>11 DEF Sound, l, A
  <2>4. ~A.nested => t.ll = A.ll
    <3>1. A.ll \in BOOLEAN /\ s.ll \in BOOLEAN  BY <1>1, <1>13, PipeIs DEF Machine
    <3>2. ~Live(s.exdc)  BY DEF Live
    <3> QED BY <1>7, <2>3, <3>1, <3>2 DEF Linked
  <2>5. Reached(t, m, FALSE, cp0, t.dcwb)  BY <1>7, <2>3 DEF Reached
  <2>6. Settled(A)  BY <1>1, <1>3, <2>3, ReachSettled DEF A, AtExdc
  <2>7. Dispatching(t, A, ExlAtExdc(t))
    <3> SUFFICES ASSUME ~A.nested, ~ExlAtExdc(s)
                 PROVE  IF s.exl THEN s.epc = Resume(A, s.bd)
                        ELSE (IF l.slot THEN l.pc - 1 ELSE l.pc) = Resume(A, l.slot)
      BY <1>2, <1>7, <1>10 DEF Dispatching
    <3>1. Live(l) /\ l.op # "eret" /\ ~ExlAtRfex(s)  BY <1>5, <1>12 DEF Live
    <3> QED BY <1>1, <1>3, <1>13, <2>1, <2>3, <2>6, <3>1, ChargeResumes
  <2> QED BY <1>7, <2>3, <2>4, <2>5, <2>7
<1>15. t.pending # <<>>  BY <1>2, <1>7
<1>16. PipeInv(t, m, cp0, late) /\ Flushed(t)
  BY <1>1, <1>6, <1>8, <1>9, <1>10, <1>14, <1>15, FlushedInv
<1> QED BY <1>7, <1>8, <1>16 DEF t

\* An instruction that only computes, or one that was aborted.
ExResult(s) ==
  LET l == s.rfex IN
    IF ~Live(l) THEN l
    ELSE IF l.op = "alu" THEN ExComputed(s, l.dst, l.seq) ELSE ExComputed(s, l.write, l.value)

ExMoved(s, n) == [s EXCEPT !.exdc = ExResult(s), !.rfex = Emptied(s.rfex), !.stall = n]

LEMMA ExMoves ==
  ASSUME NEW s, NEW m, NEW cp0, NEW late, NEW n \in Nat, PipeInv(s, m, cp0, late),
         ~s.exdc.occupied, Flushed(s), BypassValue(s, s.rfex.src) \in Int,
         Live(s.rfex) => s.rfex.op # "eret" /\ s.rfex.op # "syscall" /\ ~HasDelaySlot(s.rfex)
  PROVE  LET t == ExMoved(s, n) IN
           /\ PipeInv(t, m, cp0, late) /\ Flushed(t)
           /\ t.retired = s.retired /\ ~t.rfex.occupied
           /\ Live(t.exdc) => t.exdc.op # "eret"
<1> DEFINE t == ExMoved(s, n)  l == s.rfex  k == ExResult(s)  b == BypassValue(s, l.src)
<1>1. /\ s \in Pipe /\ m \in Machine /\ cp0 \in Nat /\ late \in BOOLEAN
      /\ Chronology(s, m.epoch, cp0)
  BY DEF PipeInv
<1>2. s.icrf \in Latch /\ s.dcwb \in Latch /\ l \in Latch  BY <1>1, PipeIs
<1>3. l.op \in Op /\ l.seq \in Nat /\ l.dst \in {0, 1} /\ l.src \in {0, 1} /\ l.write \in {0, 1}
      /\ l.value \in Int /\ Live(l) \in BOOLEAN
  BY <1>2 DEF Latch, Live
<1>4. /\ k \in Latch
      /\ k.occupied = l.occupied /\ k.seq = l.seq /\ k.epoch = l.epoch /\ k.pc = l.pc
      /\ k.slot = l.slot /\ k.abort = l.abort /\ k.op = l.op /\ k.src = l.src
      /\ k.dst = l.dst /\ k.epc = l.epc /\ k.bd = l.bd
      /\ Live(l) => /\ k.rs = b
                    /\ k.write = IF l.op = "alu" THEN l.dst ELSE l.write
                    /\ l.op = "alu" => k.value = l.seq
  <2>1. CASE ~Live(l)
    <3>1. k = l  BY <2>1 DEF ExResult
    <3> QED BY <1>2, <2>1, <3>1
  <2>2. CASE Live(l) /\ l.op = "alu"
    <3>1. k = ExComputed(s, l.dst, l.seq)  BY <2>2 DEF ExResult
    <3> HIDE DEF k
    <3>2. l.seq \in Int  BY <1>3
    <3> QED BY <1>1, <1>3, <2>2, <3>1, <3>2, ExComputedIs
  <2>3. CASE Live(l) /\ l.op # "alu"
    <3>1. k = ExComputed(s, l.write, l.value)  BY <2>3 DEF ExResult
    <3> HIDE DEF k
    <3> QED BY <1>1, <1>3, <2>3, <3>1, ExComputedIs
  <2> QED BY <2>1, <2>2, <2>3
<1>5. t = [s EXCEPT !.exdc = k, !.rfex = Emptied(l), !.stall = n]  BY DEF ExMoved
<1>6. Live(l) => l.op # "eret" /\ ~HasDelaySlot(l) /\ l.op # "likely"  BY DEF HasDelaySlot
<1> HIDE DEF t, l, k, b
<1>7. /\ t.exdc = k /\ t.rfex = Emptied(l) /\ t.dcwb = s.dcwb /\ t.icrf = s.icrf
      /\ t.nextPc = s.nextPc /\ t.exl = s.exl /\ t.epc = s.epc /\ t.bd = s.bd
      /\ t.ll = s.ll /\ t.reg = s.reg /\ t.fetched = s.fetched /\ t.epoch = s.epoch
      /\ t.pending = s.pending /\ t.flush = s.flush /\ t.retired = s.retired
  BY <1>1, <1>5 DEF Pipe
<1>8. t \in Pipe
  <2> DEFINE w == [s EXCEPT !.exdc = k, !.rfex = Emptied(l)]
  <2>1. Emptied(l) \in Latch  BY <1>2, LatchIs
  <2>2. w \in Pipe  BY <1>1, <1>4, <2>1 DEF Pipe
  <2>3. t = [w EXCEPT !.stall = n]  BY <1>5
  <2> HIDE DEF w
  <2> QED BY <2>2, <2>3 DEF Pipe
<1>9. ~t.rfex.occupied /\ ~Live(t.rfex) /\ ~Live(s.exdc)  BY <1>2, <1>7, LatchIs DEF Live
<1>10. Live(k) = Live(l) /\ Nested(k) = Nested(l) /\ ToWrite(k) = ToWrite(l)
       /\ Writes(k) = Writes(l) /\ (\A a : Entered(a, k) = Entered(a, l))
  BY <1>3, <1>4 DEF Live, Nested, HasDelaySlot, ToWrite, Writes, Entered
<1> DEFINE A == AtExdc(s, m)  C == AtIcrf(s, m)  F == AtFetch(s, m)
<1>11. AtExdc(t, m) = A /\ AtRfex(s, m) = A  BY <1>7, <1>9 DEF AtExdc, AtRfex, After
<1>12. C = After(A, l)  BY <1>11 DEF AtIcrf, l
<1>13. A \in Machine /\ C \in Machine  BY <1>1, ChainIs
<1> HIDE DEF A, C, F
<1>14. AtRfex(t, m) = C
  <2>1. Live(l) => Retire(A, k) = Retire(A, l)  BY <1>4, <1>6, SameRetire
  <2>2. AtRfex(t, m) = After(A, k)  BY <1>7, <1>11 DEF AtRfex
  <2> QED BY <1>10, <1>12, <2>1, <2>2 DEF After
<1>15. AtIcrf(t, m) = C  BY <1>9, <1>14 DEF AtIcrf, After
<1>16. ~Squashes(s.rfex) /\ ~Squashes(t.rfex)  BY <1>6, <1>9 DEF Squashes, l
<1>17. AtFetch(t, m) = F  BY <1>7, <1>15, <1>16 DEF AtFetch, C, F
<1>18. /\ ExlAtExdc(t) = ExlAtExdc(s) /\ (ExlAtRfex(s) <=> ExlAtExdc(s))
       /\ ExlAtRfex(t) <=> ExlAtIcrf(s)
       /\ ExlAtIcrf(t) <=> ExlAtIcrf(s)
       /\ ExlAtFetch(t) <=> ExlAtFetch(s)
  <2>1. ExlAtExdc(t) = ExlAtExdc(s)  BY <1>7 DEF ExlAtExdc
  <2>2. ExlAtRfex(s) <=> ExlAtExdc(s)  BY <1>9 DEF ExlAtRfex, ToWrite
  <2>3. ToExecute(l) <=> ToWrite(l)  BY <1>6 DEF ToExecute, ToWrite
  <2>4. ExlAtRfex(t) <=> ExlAtIcrf(s)
    BY <1>7, <1>10, <2>1, <2>2, <2>3 DEF ExlAtRfex, ExlAtIcrf, l
  <2>5. ExlAtIcrf(t) <=> ExlAtIcrf(s)  BY <1>9, <2>4 DEF ExlAtIcrf, ToExecute
  <2> QED BY <1>7, <1>16, <2>1, <2>2, <2>4, <2>5 DEF ExlAtFetch
<1>19. Chronology(t, m.epoch, cp0)
  <2>1. InOrder(t)  BY <1>1, <1>4, <1>7, <1>9 DEF Chronology, InOrder, Before, l
  <2>2. /\ Dated(t, m.epoch, cp0, t.dcwb) /\ Dated(t, m.epoch, cp0, t.exdc)
        /\ Dated(t, m.epoch, cp0, t.rfex) /\ Dated(t, m.epoch, cp0, t.icrf)
    BY <1>1, <1>4, <1>7, <1>9 DEF Chronology, Dated, l
  <2>3. ~(Live(t.exdc) /\ t.exdc.op = "eret")  BY <1>4, <1>6, <1>7, <1>10
  <2> QED BY <1>1, <1>7, <2>1, <2>2, <2>3 DEF Chronology
<1>20. ASSUME Timely(t, cp0, late) PROVE Sound(t, m, cp0)
  <2>1. Timely(s, cp0, late)  BY <1>7, <1>20 DEF Timely
  <2>2. Sound(s, m, cp0)  BY <2>1 DEF PipeInv
  <2>3. /\ Settled(m) /\ (~m.nested => s.reg = m.reg) /\ Linked(s, A)
        /\ Reached(s, m, FALSE, cp0, s.dcwb) /\ Accessed(m, s.dcwb)
        /\ Reached(s, A, ExlAtRfex(s), cp0, l) /\ Unwritten(l)
        /\ ~Squashes(s.rfex) => Reached(s, C, ExlAtIcrf(s), cp0, s.icrf)
        /\ Unwritten(s.icrf)
        /\ Fetching(s, F, ExlAtFetch(s))
        /\ Dispatching(s, F, ExlAtFetch(s))
        /\ Masked(s, l) /\ Masked(s, s.icrf)
    BY <2>2, <1>11 DEF Sound, l, A, C, F
  <2>4. Linked(t, A)
    <3>1. ~(Live(t.exdc) /\ t.exdc.op = "eret")  BY <1>4, <1>6, <1>7, <1>10
    <3> QED BY <1>7, <1>9, <2>3, <3>1 DEF Linked
  <2>5. Reached(t, m, FALSE, cp0, t.dcwb) /\ Accessed(m, t.dcwb)  BY <1>7, <2>3 DEF Reached
  <2>6. Reached(t, A, ExlAtExdc(t), cp0, k)  BY <1>4, <1>7, <1>10, <1>18, <2>3 DEF Reached
  <2>7. Executed(A, k)
    <3>1. SUFFICES ASSUME Live(l), ~A.nested, ~Nested(l)
                   PROVE  /\ Operand(A, k)
                          /\ IF l.op \in {"alu", "jal"} THEN Written(A, k) ELSE k.write = 0
      BY <1>4, <1>10 DEF Executed
    <3>2. b = IF l.src = 0 THEN 0 ELSE A.reg  BY <1>1, <1>3, <2>3, <3>1, BypassIs DEF A, b
    <3>3. Operand(A, k)  BY <1>4, <3>1, <3>2 DEF Operand
    <3>4. l.write = 0 /\ l.op # "jal"  BY <1>6, <2>3, <3>1 DEF Unwritten, HasDelaySlot
    <3>5. CASE l.op = "alu"
      <4>1. k.write = l.dst /\ k.value = l.seq  BY <1>4, <3>1, <3>5
      <4>2. Result(Entered(A, k), k) = l.seq  BY <1>4, <3>5 DEF Result
      <4>3. Writes(k) \/ l.dst = 0  BY <1>4, <3>5 DEF Writes
      <4>4. Written(A, k)  BY <1>4, <4>1, <4>2, <4>3 DEF Written
      <4> QED BY <3>3, <3>5, <4>4
    <3>6. CASE l.op # "alu"  BY <1>4, <3>1, <3>3, <3>4, <3>6
    <3> QED BY <3>5, <3>6
  <2>8. Reached(t, C, ExlAtRfex(t), cp0, t.rfex) /\ Unwritten(t.rfex)
    BY <1>9 DEF Reached, Unwritten
  <2>9. Reached(t, C, ExlAtIcrf(t), cp0, t.icrf)
    <3>1. Reached(s, C, ExlAtIcrf(s), cp0, s.icrf)  BY <1>16, <2>3
    <3> QED BY <1>7, <1>18, <3>1 DEF Reached
  <2>10. Branching(t, C)  BY <1>9 DEF Branching
  <2>11. Fetching(t, F, ExlAtFetch(t))
    <3>1. ~(Live(s.rfex) /\ (HasDelaySlot(s.rfex) \/ s.rfex.op = "eret"))  BY <1>6 DEF l
    <3> QED BY <1>7, <1>9, <1>18, <2>3, <3>1 DEF Fetching
  <2>12. Dispatching(t, F, ExlAtFetch(t))  BY <1>7, <1>18, <2>3 DEF Dispatching
  <2>13. Masked(t, t.exdc) /\ Masked(t, t.rfex) /\ Masked(t, t.icrf)
    BY <1>4, <1>7, <1>9, <2>3 DEF Masked
  <2> QED BY <1>7, <1>11, <1>14, <1>15, <1>17, <2>3, <2>4, <2>5, <2>6, <2>7, <2>8, <2>9, <2>10,
             <2>11, <2>12, <2>13
          DEF Sound
<1>21. Flushed(t)  BY <1>7, <1>9, <1>10 DEF Flushed, l
<1>22. Live(t.exdc) => t.exdc.op # "eret"  BY <1>4, <1>6, <1>7, <1>10
<1> QED BY <1>1, <1>7, <1>8, <1>9, <1>19, <1>20, <1>21, <1>22 DEF PipeInv, t

LEMMA BypassInt ==
  ASSUME NEW s \in Pipe, NEW r PROVE BypassValue(s, r) \in Int
<1>1. s.dcwb.value \in Int /\ s.reg \in Int  BY PipeIs DEF Latch
<1> QED BY <1>1 DEF BypassValue

\* ERET.
ExReturned(s) ==
  [s EXCEPT !.exdc = ExComputed(s, s.rfex.write, s.epc), !.rfex = Emptied(s.rfex),
            !.icrf = Bubble, !.exl = FALSE, !.ll = FALSE, !.nextPc = s.epc]

LEMMA ExReturns ==
  ASSUME NEW s, NEW m, NEW cp0, NEW late, PipeInv(s, m, cp0, late),
         ~s.exdc.occupied, Flushed(s), Live(s.rfex), s.rfex.op = "eret"
  PROVE  LET t == ExReturned(s)  n == s.rfex.seq IN
           /\ PipeInv(t, m, Newest(cp0, TRUE, n), Overtaken(late, cp0, TRUE, n)) /\ Flushed(t)
           /\ t.retired = s.retired /\ ~t.rfex.occupied
           /\ Live(t.exdc) /\ t.exdc.op = "eret" /\ t.exdc.seq = n
<1> DEFINE t == ExReturned(s)  l == s.rfex  k == ExComputed(s, l.write, s.epc)
           b == BypassValue(s, l.src)
           c == Newest(cp0, TRUE, l.seq)  o == Overtaken(late, cp0, TRUE, l.seq)
<1>1. /\ s \in Pipe /\ m \in Machine /\ cp0 \in Nat /\ late \in BOOLEAN
      /\ Chronology(s, m.epoch, cp0) /\ s.pending = <<>>
  BY DEF PipeInv, Flushed
<1>2. s.dcwb \in Latch /\ l \in Latch /\ s.epc \in Int /\ b \in Int /\ s.epoch \in Nat
      /\ s.fetched \in Nat /\ m.epoch \in Nat
  BY <1>1, PipeIs, BypassInt DEF Machine
<1>3. l.op = "eret" /\ l.seq \in Nat /\ l.src \in {0, 1} /\ l.write \in {0, 1} /\ l.epoch \in Nat
      /\ l.occupied /\ ~l.abort
  BY <1>2 DEF Latch, Live
<1>4. /\ k \in Latch
      /\ k.occupied = l.occupied /\ k.seq = l.seq /\ k.epoch = l.epoch /\ k.pc = l.pc
      /\ k.slot = l.slot /\ k.abort = l.abort /\ k.op = l.op /\ k.src = l.src
      /\ k.dst = l.dst /\ k.epc = l.epc /\ k.bd = l.bd
      /\ k.rs = b /\ k.write = l.write /\ k.value = s.epc
  <2>1. s \in Pipe /\ s.rfex.write \in {0, 1} /\ s.epc \in Int /\ BypassValue(s, s.rfex.src) \in Int
    BY <1>1, <1>2, <1>3
  <2> QED BY ONLY <2>1, ExComputedIs
<1>5. t = [s EXCEPT !.exdc = k, !.rfex = Emptied(l), !.icrf = Bubble, !.exl = FALSE,
                    !.ll = FALSE, !.nextPc = s.epc]
  BY DEF ExReturned
<1>6. c \in Nat /\ o \in BOOLEAN /\ cp0 <= c /\ l.seq <= c /\ c <= s.fetched
  BY <1>1, <1>2, <1>3 DEF Newest, Overtaken, Chronology, Dated
<1> HIDE DEF t, l, k, b
<1>7. /\ t.exdc = k /\ t.rfex = Emptied(l) /\ t.dcwb = s.dcwb /\ t.icrf = Bubble
      /\ t.nextPc = s.epc /\ t.exl = FALSE /\ t.epc = s.epc /\ t.bd = s.bd
      /\ t.ll = FALSE /\ t.reg = s.reg /\ t.fetched = s.fetched /\ t.epoch = s.epoch
      /\ t.pending = <<>> /\ t.flush = s.flush /\ t.retired = s.retired
  BY <1>1, <1>5 DEF Pipe
<1>8. t \in Pipe
  <2> DEFINE w == [s EXCEPT !.exdc = k, !.rfex = Emptied(l), !.icrf = Bubble]
  <2>1. Emptied(l) \in Latch /\ Bubble \in Latch  BY <1>2, LatchIs
  <2>2. w \in Pipe  BY <1>1, <1>4, <2>1 DEF Pipe
  <2>3. t = [w EXCEPT !.exl = FALSE, !.ll = FALSE, !.nextPc = s.epc]  BY <1>5
  <2> HIDE DEF w
  <2> QED BY <1>2, <2>2, <2>3 DEF Pipe
<1>9. /\ ~t.rfex.occupied /\ ~Live(t.rfex) /\ ~Live(s.exdc) /\ ~t.icrf.occupied
      /\ ~Live(t.icrf)
  BY <1>2, <1>7, LatchIs DEF Live
<1>10. Live(k) /\ Live(l) /\ Nested(k) = Nested(l) /\ ~ToWrite(k) /\ ~Writes(k)
       /\ ~HasDelaySlot(k) /\ (\A a : Entered(a, k) = Entered(a, l))
  BY <1>3, <1>4 DEF Live, Nested, HasDelaySlot, ToWrite, Writes, Entered
<1> DEFINE A == AtExdc(s, m)  N == Retire(A, k)
<1>11. AtExdc(t, m) = A /\ AtRfex(s, m) = A  BY <1>7, <1>9 DEF AtExdc, AtRfex, After
<1>12. A \in Machine  BY <1>1, ChainIs
<1>13. AtRfex(t, m) = N  BY <1>7, <1>10, <1>11 DEF AtRfex, After
<1>14. AtIcrf(t, m) = N  BY <1>9, <1>13 DEF AtIcrf, After
<1>15. AtFetch(t, m) = N  BY <1>9, <1>14 DEF AtFetch, After
<1> HIDE DEF A
<1>16. N \in Machine /\ N.epoch = l.epoch /\ N.pc = s.epc /\ ~N.slot /\ ~N.exl
       /\ N.epc = Entered(A, l).epc /\ N.nested = (A.nested \/ Nested(l))
  <2>1. N \in Machine /\ N.epoch = k.epoch /\ N.epc = Entered(A, k).epc
        /\ N.nested = (A.nested \/ Nested(k))
    BY <1>4, <1>12, RetireIs
  <2>2. /\ N.pc = IF k.op \in {"taken", "jal"} THEN Entered(A, k).npc
                  ELSE IF k.op = "likely" THEN Entered(A, k).npc + 1
                  ELSE IF k.op = "eret" THEN k.value ELSE Entered(A, k).npc
        /\ N.slot = (HasDelaySlot(k) /\ k.op # "likely")
        /\ N.exl = (Entered(A, k).exl /\ k.op # "eret" /\ k.op # "mtc0")
    BY <1>4, <1>12, RetireIs
  <2>3. k.op = "eret"  BY <1>3, <1>4
  <2> HIDE DEF N
  <2> QED BY <1>4, <1>10, <2>1, <2>2, <2>3
<1> HIDE DEF N
<1>17. ExlAtExdc(t) = ExlAtExdc(s) /\ (ExlAtRfex(s) <=> ExlAtExdc(s))
  BY <1>7, <1>9 DEF ExlAtExdc, ExlAtRfex, ToWrite
<1> HIDE DEF c, o
<1>18. Chronology(t, m.epoch, c)
  <2>1. InOrder(t)  BY <1>1, <1>4, <1>7, <1>9 DEF Chronology, InOrder, Before, l
  <2>2. Dated(t, m.epoch, c, t.dcwb)
    <3>1. s.dcwb.seq \in Nat  BY <1>2 DEF Latch
    <3> QED BY <1>1, <1>6, <1>7, <3>1 DEF Chronology, Dated
  <2>3. Dated(t, m.epoch, c, t.exdc)
    <3>1. Dated(s, m.epoch, cp0, l)  BY <1>1 DEF Chronology, l
    <3> QED BY <1>1, <1>3, <1>4, <1>6, <1>7, <3>1 DEF Dated
  <2>4. Dated(t, m.epoch, c, t.rfex) /\ Dated(t, m.epoch, c, t.icrf)  BY <1>9 DEF Dated
  <2>5. t.exdc.seq <= c  BY <1>4, <1>6, <1>7
  <2>6. t.flush = (t.pending # <<>>)  BY <1>1, <1>7 DEF Chronology
  <2> QED BY <1>1, <1>6, <1>7, <1>9, <2>1, <2>2, <2>3, <2>4, <2>5, <2>6 DEF Chronology
<1>19. ASSUME Timely(t, c, o) PROVE Sound(t, m, c)
  <2>1. Timely(s, cp0, late) /\ l.seq >= cp0 /\ c = l.seq
    BY <1>1, <1>3, <1>19 DEF Timely, o, c, Overtaken, Newest
  <2>2. Sound(s, m, cp0)  BY <2>1 DEF PipeInv
  <2>3. /\ Settled(m) /\ (~m.nested => s.reg = m.reg)
        /\ Reached(s, m, FALSE, cp0, s.dcwb) /\ Accessed(m, s.dcwb)
        /\ Reached(s, A, ExlAtRfex(s), cp0, l) /\ Unwritten(l)
    BY <2>2, <1>11 DEF Sound, l
  <2>4. Linked(t, A)  BY <1>3, <1>4, <1>7, <1>10 DEF Linked
  <2>5. Reached(t, m, FALSE, c, t.dcwb)
    <3>1. s.dcwb.seq \in Nat  BY <1>2 DEF Latch
    <3>2. Live(s.dcwb) => ~(s.dcwb.seq >= c)
      BY <1>1, <1>3, <2>1, <3>1 DEF Chronology, InOrder, Before, Live, l
    <3> QED BY <1>7, <2>3, <3>2 DEF Reached
  <2>6. Reached(t, A, ExlAtExdc(t), c, k)
    <3>1. Reached(s, A, ExlAtExdc(t), cp0, l)  BY <1>17, <2>3 DEF Reached
    <3> QED BY <1>3, <1>4, <1>7, <1>10, <2>1, <3>1 DEF Reached
  <2>7. Executed(A, k)
    <3>1. SUFFICES ASSUME ~A.nested PROVE Operand(A, k) /\ k.write = 0
      BY <1>3, <1>4 DEF Executed
    <3>2. b = IF l.src = 0 THEN 0 ELSE A.reg  BY <1>1, <1>3, <2>3, <3>1, BypassIs DEF A, b
    <3>3. l.write = 0  BY <1>10, <2>3 DEF Unwritten
    <3> QED BY <1>4, <3>2, <3>3 DEF Operand
  <2>8. Reached(t, N, ExlAtRfex(t), c, t.rfex) /\ Unwritten(t.rfex)
    BY <1>9 DEF Reached, Unwritten
  <2>9. Reached(t, N, ExlAtIcrf(t), c, t.icrf) /\ Unwritten(t.icrf)
    BY <1>9 DEF Reached, Unwritten
  <2>10. Branching(t, N)  BY <1>9 DEF Branching
  <2>11. Fetching(t, N, ExlAtFetch(t))
    <3>1. SUFFICES ASSUME ~N.nested
                   PROVE  t.epoch = N.epoch /\ t.epc = N.epc /\ t.exl = N.exl
                          /\ t.nextPc = N.pc /\ ~N.slot
      BY <1>9 DEF Fetching
    <3>2. s.epoch = l.epoch
      BY <1>1, <1>3, <2>1 DEF Chronology, Dated, l
    <3>3. s.epc = Entered(A, l).epc  BY <1>3, <1>10, <1>16, <2>1, <2>3, <3>1 DEF Reached
    <3>4. t.exl = N.exl  BY <1>7, <1>16 DEF Machine
    <3> QED BY <1>7, <1>16, <3>2, <3>3, <3>4
  <2>12. Dispatching(t, N, ExlAtFetch(t))  BY <1>7 DEF Dispatching
  <2>13. Masked(t, t.exdc) /\ Masked(t, t.rfex) /\ Masked(t, t.icrf)
    BY <1>3, <1>4, <1>7, <1>9 DEF Masked
  <2> QED BY <1>7, <1>11, <1>13, <1>14, <1>15, <2>3, <2>4, <2>5, <2>6, <2>7, <2>8, <2>9, <2>10,
             <2>11, <2>12, <2>13
          DEF Sound
<1>20. PipeInv(t, m, c, o)  BY <1>1, <1>6, <1>8, <1>18, <1>19 DEF PipeInv
<1>21. Flushed(t)  BY <1>7 DEF Flushed
<1>22. Live(t.exdc) /\ t.exdc.op = "eret" /\ t.exdc.seq = l.seq  BY <1>3, <1>4, <1>7, <1>10
<1> QED BY <1>7, <1>9, <1>20, <1>21, <1>22 DEF t, l, c, o

\* A branch, whose delay slot is behind it.
ExLinked(s) ==
  LET l == s.rfex IN
    IF l.op = "jal"
    THEN ExComputed(s, l.dst, Link(IF DelaySlotFaulted(s, l) THEN l.pc + 2 ELSE s.nextPc))
    ELSE ExComputed(s, l.write, l.value)

ExBranched(s) ==
  LET l == s.rfex  f == DelaySlotFaulted(s, l) IN
    [s EXCEPT !.exdc = ExLinked(s), !.rfex = Emptied(s.rfex),
              !.nextPc = IF f THEN s.nextPc
                         ELSE IF l.op \in {"taken", "jal"} THEN Target
                         ELSE IF l.op = "likely" THEN l.pc + 2 ELSE s.nextPc,
              !.icrf = IF l.op = "likely" /\ ~f THEN Bubble ELSE s.icrf]

LEMMA ExBranches ==
  ASSUME NEW s, NEW m, NEW cp0, NEW late, PipeInv(s, m, cp0, late),
         ~s.exdc.occupied, Flushed(s), SlotThere(s), Live(s.rfex), HasDelaySlot(s.rfex)
  PROVE  LET t == ExBranched(s) IN
           /\ PipeInv(t, m, cp0, late) /\ Flushed(t)
           /\ t.retired = s.retired /\ ~t.rfex.occupied /\ t.exdc.op # "eret"
<1> DEFINE t == ExBranched(s)  l == s.rfex  k == ExLinked(s)  f == DelaySlotFaulted(s, l)
           b == BypassValue(s, l.src)
           v == Link(IF f THEN l.pc + 2 ELSE s.nextPc)
           x == IF f THEN s.nextPc
                ELSE IF l.op \in {"taken", "jal"} THEN Target
                ELSE IF l.op = "likely" THEN l.pc + 2 ELSE s.nextPc
           i == IF l.op = "likely" /\ ~f THEN Bubble ELSE s.icrf
<1>1. /\ s \in Pipe /\ m \in Machine /\ cp0 \in Nat /\ late \in BOOLEAN
      /\ Chronology(s, m.epoch, cp0) /\ s.pending = <<>>
  BY DEF PipeInv, Flushed
<1>2. s.icrf \in Latch /\ s.dcwb \in Latch /\ l \in Latch /\ s.nextPc \in Int /\ b \in Int
      /\ s.epoch \in Nat
  BY <1>1, PipeIs, BypassInt
<1>3. l.op \in {"taken", "untaken", "likely", "jal"} /\ l.seq \in Nat /\ l.dst \in {0, 1}
      /\ l.src \in {0, 1} /\ l.write \in {0, 1} /\ l.value \in Int /\ l.pc \in Int
      /\ l.epoch \in Nat /\ l.occupied /\ ~l.abort
  BY <1>2 DEF Latch, Live, HasDelaySlot
<1>4. s.icrf.occupied /\ s.icrf.slot /\ (f <=> s.icrf.abort) /\ (Live(s.icrf) <=> ~f)
  BY DEF SlotThere, DelaySlotFaulted, Live
<1>5. v \in Int /\ x \in Int  BY <1>2, <1>3 DEF Link, Target
<1>6. /\ k \in Latch
      /\ k.occupied = l.occupied /\ k.seq = l.seq /\ k.epoch = l.epoch /\ k.pc = l.pc
      /\ k.slot = l.slot /\ k.abort = l.abort /\ k.op = l.op /\ k.src = l.src
      /\ k.dst = l.dst /\ k.epc = l.epc /\ k.bd = l.bd /\ k.rs = b
      /\ l.op = "jal" => k.write = l.dst /\ k.value = v
      /\ l.op # "jal" => k.write = l.write
  <2>1. CASE l.op = "jal"
    <3>1. k = ExComputed(s, l.dst, v)  BY <2>1 DEF ExLinked
    <3>2. l = s.rfex /\ b = BypassValue(s, l.src)  OBVIOUS
    <3> HIDE DEF k, v, l, b
    <3>3. l.dst \in {0, 1} /\ v \in Int /\ b \in Int  BY <1>2, <1>3, <1>5
    <3> QED BY ONLY <1>1, <2>1, <3>1, <3>2, <3>3, ExComputedIs
  <2>2. CASE l.op # "jal"
    <3>1. k = ExComputed(s, l.write, l.value)  BY <2>2 DEF ExLinked
    <3>2. l = s.rfex /\ b = BypassValue(s, l.src)  OBVIOUS
    <3> HIDE DEF k, l, b
    <3>3. l.write \in {0, 1} /\ l.value \in Int /\ b \in Int  BY <1>2, <1>3
    <3> QED BY ONLY <1>1, <2>2, <3>1, <3>2, <3>3, ExComputedIs
  <2> QED BY <2>1, <2>2
<1>7. t = [s EXCEPT !.exdc = k, !.rfex = Emptied(l), !.nextPc = x, !.icrf = i]
  BY DEF ExBranched
<1>8. i = IF l.op = "likely" /\ ~f THEN Bubble ELSE s.icrf  OBVIOUS
<1> HIDE DEF t, l, k, b, v, x, i, f
<1>9. /\ t.exdc = k /\ t.rfex = Emptied(l) /\ t.dcwb = s.dcwb /\ t.icrf = i
      /\ t.nextPc = x /\ t.exl = s.exl /\ t.epc = s.epc /\ t.bd = s.bd
      /\ t.ll = s.ll /\ t.reg = s.reg /\ t.fetched = s.fetched /\ t.epoch = s.epoch
      /\ t.pending = <<>> /\ t.flush = s.flush /\ t.retired = s.retired
  BY <1>1, <1>7 DEF Pipe
<1>10. t \in Pipe
  <2> DEFINE w == [s EXCEPT !.exdc = k, !.rfex = Emptied(l)]
  <2>1. Emptied(l) \in Latch /\ i \in Latch  BY <1>2, <1>8, LatchIs
  <2>2. w \in Pipe  BY <1>1, <1>6, <2>1 DEF Pipe
  <2>3. t = [w EXCEPT !.nextPc = x, !.icrf = i]  BY <1>7
  <2> HIDE DEF w
  <2> QED BY <1>5, <2>1, <2>2, <2>3 DEF Pipe
<1>11. /\ ~t.rfex.occupied /\ ~Live(t.rfex) /\ ~Live(s.exdc) /\ ~Live(Bubble)
       /\ ~Bubble.occupied /\ ~Squashes(t.rfex)
  BY <1>2, <1>9, LatchIs DEF Live, Squashes
<1>12. Live(l) /\ Live(k) /\ HasDelaySlot(l) /\ Nested(k) = Nested(l) /\ ~ToWrite(k)
       /\ Writes(k) = Writes(l) /\ ~ToExecute(l) /\ (\A a : Entered(a, k) = Entered(a, l))
  BY <1>3, <1>6 DEF Live, Nested, HasDelaySlot, ToWrite, ToExecute, Writes, Entered
<1> DEFINE A == AtExdc(s, m)  C == AtIcrf(s, m)  F == AtFetch(s, m)  e == Entered(A, l)
<1>13. AtExdc(t, m) = A /\ AtRfex(s, m) = A  BY <1>9, <1>11 DEF AtExdc, AtRfex, After
<1>14. C = Retire(A, l)  BY <1>12, <1>13 DEF AtIcrf, After, l
<1>15. A \in Machine /\ C \in Machine /\ F \in Machine  BY <1>1, ChainIs
<1>16. F = IF l.op = "likely" THEN C ELSE After(C, s.icrf)
  BY <1>3, <1>12 DEF AtFetch, Squashes, l
<1> HIDE DEF A, C, F, e
<1>17. AtRfex(t, m) = C
  <2>1. Retire(A, k) = Retire(A, l)  BY <1>3, <1>6, SameRetire
  <2> QED BY <1>9, <1>12, <1>13, <1>14, <2>1 DEF AtRfex, After
<1>18. AtIcrf(t, m) = C  BY <1>11, <1>17 DEF AtIcrf, After
<1>19. Live(i) <=> (l.op # "likely" /\ ~f)  BY <1>4, <1>8, <1>11
<1>20. Live(i) => i = s.icrf  BY <1>8, <1>11
<1>21. AtFetch(t, m) = F
  <2>1. AtFetch(t, m) = After(C, i)  BY <1>9, <1>11, <1>18 DEF AtFetch
  <2>2. CASE l.op = "likely"  BY <1>16, <1>19, <2>1, <2>2 DEF After
  <2>3. CASE l.op # "likely"  BY <1>8, <1>16, <2>1, <2>3
  <2> QED BY <2>2, <2>3
<1>22. /\ C.epoch = l.epoch /\ C.nested = (A.nested \/ Nested(l))
       /\ C.pc = IF l.op \in {"taken", "jal"} THEN e.npc
                 ELSE IF l.op = "likely" THEN e.npc + 1
                 ELSE IF l.op = "eret" THEN l.value ELSE e.npc
       /\ C.npc = IF l.op \in {"taken", "jal"} THEN Target
                  ELSE IF l.op = "likely" THEN e.npc + 2
                  ELSE IF l.op = "eret" THEN l.value + 1 ELSE e.npc + 1
       /\ C.slot = (HasDelaySlot(l) /\ l.op # "likely")
  <2> DEFINE r == Retire(A, l)
  <2>1. r.epoch = l.epoch /\ r.nested = (A.nested \/ Nested(l))
        /\ r.slot = (HasDelaySlot(l) /\ l.op # "likely")
    BY <1>2, <1>15, RetireIs
  <2>2. /\ r.pc = IF l.op \in {"taken", "jal"} THEN e.npc
                 ELSE IF l.op = "likely" THEN e.npc + 1
                 ELSE IF l.op = "eret" THEN l.value ELSE e.npc
        /\ r.npc = IF l.op \in {"taken", "jal"} THEN Target
                  ELSE IF l.op = "likely" THEN e.npc + 2
                  ELSE IF l.op = "eret" THEN l.value + 1 ELSE e.npc + 1
    BY <1>2, <1>15, RetireIs DEF e
  <2> HIDE DEF r
  <2> QED BY <1>14, <2>1, <2>2 DEF r
<1>23. /\ ExlAtExdc(t) = ExlAtExdc(s) /\ (ExlAtRfex(s) <=> ExlAtExdc(s))
       /\ ExlAtIcrf(t) <=> ExlAtIcrf(s)
       /\ ExlAtFetch(t) <=> ExlAtFetch(s)
  <2>1. ExlAtExdc(t) = ExlAtExdc(s)  BY <1>9 DEF ExlAtExdc
  <2>2. ExlAtRfex(s) <=> ExlAtExdc(s)  BY <1>11 DEF ExlAtRfex, ToWrite
  <2>3. ExlAtRfex(t) <=> ExlAtExdc(s)  BY <1>9, <1>12, <2>1 DEF ExlAtRfex
  <2>4. ExlAtIcrf(t) <=> ExlAtExdc(s)  BY <1>11, <2>3 DEF ExlAtIcrf, ToExecute
  <2>5. ExlAtIcrf(s) <=> ExlAtExdc(s)  BY <1>12, <2>2 DEF ExlAtIcrf, l
  <2>6. ExlAtFetch(t) <=> (ExlAtExdc(s) \/ ToExecute(i))
    BY <1>9, <1>11, <2>4 DEF ExlAtFetch
  <2>7. ExlAtFetch(s) <=> (ExlAtExdc(s) \/ (l.op # "likely" /\ ToExecute(s.icrf)))
    BY <1>3, <1>12, <2>5 DEF ExlAtFetch, Squashes, l
  <2>8. ToExecute(i) <=> (l.op # "likely" /\ ToExecute(s.icrf))
    BY <1>4, <1>19, <1>20 DEF ToExecute
  <2> QED BY <2>1, <2>2, <2>4, <2>5, <2>6, <2>7, <2>8
<1>24. Chronology(t, m.epoch, cp0)
  <2>1. i.occupied => i = s.icrf  BY <1>8, <1>11
  <2>2. InOrder(t)  BY <1>1, <1>6, <1>9, <1>11, <2>1 DEF Chronology, InOrder, Before, l
  <2>3. /\ Dated(t, m.epoch, cp0, t.dcwb) /\ Dated(t, m.epoch, cp0, t.exdc)
        /\ Dated(t, m.epoch, cp0, t.rfex) /\ Dated(t, m.epoch, cp0, t.icrf)
    BY <1>1, <1>6, <1>9, <1>11, <2>1 DEF Chronology, Dated, l
  <2>4. t.exdc.op # "eret"  BY <1>3, <1>6, <1>9
  <2> QED BY <1>1, <1>9, <2>1, <2>2, <2>3, <2>4 DEF Chronology
<1>25. ASSUME Timely(t, cp0, late) PROVE Sound(t, m, cp0)
  <2>1. Timely(s, cp0, late)  BY <1>1, <1>9, <1>25 DEF Timely
  <2>2. Sound(s, m, cp0)  BY <2>1 DEF PipeInv
  <2>3. /\ Settled(m) /\ (~m.nested => s.reg = m.reg) /\ Linked(s, A)
        /\ Reached(s, m, FALSE, cp0, s.dcwb) /\ Accessed(m, s.dcwb)
        /\ Reached(s, A, ExlAtRfex(s), cp0, l) /\ Unwritten(l)
        /\ ~Squashes(l) => Reached(s, C, ExlAtIcrf(s), cp0, s.icrf)
        /\ Unwritten(s.icrf)
        /\ Branching(s, C)
        /\ Fetching(s, F, ExlAtFetch(s))
        /\ Masked(s, s.icrf)
    BY <2>2, <1>13 DEF Sound, l, A, C, F
  <2>4. Settled(A)  BY <1>1, <1>2, <2>3, ReachSettled DEF A, AtExdc
  \* The branch is not in a delay slot, so that its own follows it.
  <2>5. ~C.nested => /\ ~A.nested /\ ~Nested(l) /\ e.npc = l.pc + 1
                     /\ (~f => s.epoch = C.epoch /\ s.nextPc = l.pc + 2)
                     /\ (f => s.epoch # C.epoch)
    <3> SUFFICES ASSUME ~C.nested
                 PROVE  /\ ~A.nested /\ ~Nested(l) /\ e.npc = l.pc + 1
                        /\ (~f => s.epoch = C.epoch /\ s.nextPc = l.pc + 2)
                        /\ (f => s.epoch # C.epoch)
      OBVIOUS
    <3>1. ~A.nested /\ ~Nested(l)  BY <1>22
    <3>2. ~l.slot /\ l.pc = e.pc /\ l.slot = e.slot
      BY <1>12, <2>3, <3>1 DEF Nested, Reached, e
    <3>3. e.npc = e.pc + 1
      <4>1. CASE l.epoch = A.epoch
        <5>1. e = A  BY <1>2, <1>15, <4>1, EnteredIs DEF e
        <5> QED BY <2>4, <3>1, <3>2, <5>1 DEF Settled
      <4>2. CASE l.epoch # A.epoch
        <5>1. e.pc = Vector /\ e.npc = Vector + 1  BY <1>2, <1>15, <4>2, EnteredIs DEF e
        <5> QED BY <5>1
      <4> QED BY <4>1, <4>2
    <3>4. /\ ~f => s.epoch = C.epoch /\ s.nextPc = l.pc + 2
          /\ f => s.epoch # C.epoch
      BY <1>1, <1>4, <1>12, <2>3 DEF Branching, l
    <3> QED BY <3>1, <3>2, <3>3, <3>4
  <2>6. Linked(t, A)
    <3>1. t.exdc.op # "eret"  BY <1>3, <1>6, <1>9
    <3> QED BY <1>9, <1>11, <2>3, <3>1 DEF Linked
  <2>7. Reached(t, m, FALSE, cp0, t.dcwb) /\ Accessed(m, t.dcwb)  BY <1>9, <2>3 DEF Reached
  <2>8. Reached(t, A, ExlAtExdc(t), cp0, k)  BY <1>6, <1>9, <1>12, <1>23, <2>3 DEF Reached
  <2>9. Executed(A, k)
    <3>1. SUFFICES ASSUME ~A.nested, ~Nested(l)
                   PROVE  /\ Operand(A, k)
                          /\ IF l.op = "jal" THEN Written(A, k) ELSE k.write = 0
      BY <1>3, <1>6, <1>12 DEF Executed
    <3>2. b = IF l.src = 0 THEN 0 ELSE A.reg  BY <1>1, <1>3, <2>3, <3>1, BypassIs DEF A, b
    <3>3. Operand(A, k)  BY <1>6, <3>2 DEF Operand
    <3>4. ~C.nested  BY <1>22, <3>1
    <3>5. CASE l.op = "jal"
      <4>1. k.write = l.dst /\ k.value = v  BY <1>6, <3>5
      <4>2. v = Link(l.pc + 2)  BY <2>5, <3>4 DEF v
      <4>3. Result(e, k) = Link(e.npc + 1)  BY <1>6, <3>5 DEF Result
      <4>4. e.npc + 1 = l.pc + 2  BY <1>3, <2>5, <3>4
      <4>5. Writes(k) \/ l.dst = 0  BY <1>6, <3>5 DEF Writes
      <4>6. Entered(A, k) = e  BY <1>12 DEF e
      <4>7. Written(A, k)  BY <1>6, <4>1, <4>2, <4>3, <4>4, <4>5, <4>6 DEF Written
      <4> QED BY <3>3, <3>5, <4>7
    <3>6. CASE l.op # "jal"  BY <1>6, <1>12, <2>3, <3>3, <3>6 DEF Unwritten
    <3> QED BY <3>5, <3>6
  <2>10. Reached(t, C, ExlAtRfex(t), cp0, t.rfex) /\ Unwritten(t.rfex)
    BY <1>11 DEF Reached, Unwritten
  <2>11. Reached(t, C, ExlAtIcrf(t), cp0, i) /\ Unwritten(i)
    <3>1. CASE ~Live(i)  BY <3>1 DEF Reached, Unwritten
    <3>2. CASE Live(i)
      <4>1. ~Squashes(l) /\ i = s.icrf  BY <1>3, <1>19, <1>20, <3>2 DEF Squashes
      <4> QED BY <1>9, <1>23, <2>3, <4>1 DEF Reached
    <3> QED BY <3>1, <3>2
  <2>12. Branching(t, C)  BY <1>11 DEF Branching
  <2>13. Fetching(t, F, ExlAtFetch(t))
    <3>1. SUFFICES ASSUME ~F.nested PROVE Fetching(t, F, ExlAtFetch(t))  BY DEF Fetching
    <3> DEFINE j == s.icrf
    <3>2. ~C.nested /\ (Live(i) => ~Nested(j))
      <4>1. CASE l.op = "likely"  BY <1>16, <1>19, <3>1, <4>1
      <4>2. CASE l.op # "likely"
        <5>1. F = After(C, j)  BY <1>16, <4>2
        <5>2. F.nested = (C.nested \/ (Live(j) /\ Nested(j)))  BY <1>2, <1>15, <5>1, AfterIs
        <5>3. Live(i) => Live(j)  BY <1>20
        <5> QED BY <3>1, <5>2, <5>3
      <4> QED BY <4>1, <4>2
    <3>3. F.epoch = IF Live(i) THEN j.epoch ELSE C.epoch
      <4>1. CASE l.op = "likely"  BY <1>16, <1>19, <4>1
      <4>2. CASE l.op # "likely"  BY <1>2, <1>4, <1>15, <1>16, <1>19, <4>2, AfterIs
      <4> QED BY <4>1, <4>2
    <3>4. CASE f
      <4>1. ~Live(i) /\ i = s.icrf /\ x = s.nextPc /\ F = C
        BY <1>4, <1>8, <1>16, <1>19, <3>4 DEF After, x
      <4>2. s.epoch # F.epoch  BY <2>5, <3>2, <3>4, <4>1
      <4> QED BY <1>1, <1>9, <1>11, <1>23, <2>3, <4>1, <4>2 DEF Fetching
    <3>5. CASE ~f
      <4>1. s.epoch = C.epoch /\ s.nextPc = l.pc + 2 /\ e.npc = l.pc + 1  BY <2>5, <3>2, <3>5
      <4>2. s.epoch = F.epoch
        <5>1. l.epoch <= j.epoch /\ j.epoch <= s.epoch
          BY <1>1, <1>3, <1>4 DEF Chronology, InOrder, Before, Dated, l
        <5>2. j.epoch \in Nat  BY <1>2 DEF Latch
        <5> QED BY <1>2, <1>3, <1>22, <3>3, <4>1, <5>1, <5>2
      <4>3. s.epc = F.epc /\ (~ExlAtFetch(s) => s.exl = F.exl)
        BY <1>1, <2>3, <3>1, <4>2 DEF Fetching
      <4>4. Live(i) => j.op \notin {"taken", "jal", "likely", "untaken", "eret"}
        BY <1>4, <3>2 DEF Nested, HasDelaySlot
      <4>5. x = F.pc /\ ~F.slot
        <5>1. CASE l.op = "likely"
          <6>1. F = C  BY <1>16, <5>1
          <6>2. ~C.slot /\ C.pc = e.npc + 1  BY <1>22, <5>1
          <6>3. x = l.pc + 2  BY <3>5, <5>1 DEF x
          <6> QED BY <1>3, <4>1, <6>1, <6>2, <6>3
        <5>2. CASE l.op # "likely"
          <6>1. Live(i) /\ Live(j)  BY <1>4, <1>19, <3>5, <5>2
          <6>2. F = Retire(C, j)  BY <1>16, <5>2, <6>1 DEF After
          <6>3. Entered(C, j) = C  BY <3>3, <4>1, <4>2, <6>1 DEF Entered
          <6>4. /\ F.pc = IF j.op \in {"taken", "jal"} THEN C.npc
                          ELSE IF j.op = "likely" THEN C.npc + 1
                          ELSE IF j.op = "eret" THEN j.value ELSE C.npc
                /\ F.slot = (HasDelaySlot(j) /\ j.op # "likely")
            <7>1. /\ F.pc = IF j.op \in {"taken", "jal"} THEN Entered(C, j).npc
                            ELSE IF j.op = "likely" THEN Entered(C, j).npc + 1
                            ELSE IF j.op = "eret" THEN j.value ELSE Entered(C, j).npc
                  /\ F.slot = (HasDelaySlot(j) /\ j.op # "likely")
              BY <1>2, <1>15, <6>2, RetireIs
            <7> QED BY <6>3, <7>1
          <6>5. F.pc = C.npc /\ ~F.slot
            <7>1. ~HasDelaySlot(j)  BY <4>4, <6>1 DEF HasDelaySlot
            <7> QED BY <4>4, <6>1, <6>4, <7>1
          <6>6. CASE l.op = "untaken"
            <7>1. x = s.nextPc  BY <6>6 DEF x
            <7>2. C.npc = e.npc + 1  BY <1>22, <6>6
            <7> QED BY <1>3, <4>1, <6>5, <7>1, <7>2
          <6>7. CASE l.op \in {"taken", "jal"}
            <7>1. x = Target  BY <3>5, <6>7 DEF x
            <7>2. C.npc = Target  BY <1>22, <6>7
            <7> QED BY <6>5, <7>1, <7>2
          <6> QED BY <1>3, <5>2, <6>6, <6>7
        <5> QED BY <5>1, <5>2
      <4>6. ~(Live(i) /\ (i.op = "likely" \/ i.op = "eret"))  BY <1>20, <4>4
      <4> HIDE DEF j
      <4> QED BY <1>9, <1>11, <1>23, <4>2, <4>3, <4>5, <4>6 DEF Fetching
    <3> QED BY <3>4, <3>5
  <2>14. Dispatching(t, F, ExlAtFetch(t))  BY <1>9 DEF Dispatching
  <2>15. Masked(t, t.exdc) /\ Masked(t, t.rfex) /\ Masked(t, t.icrf)
    <3>1. i.occupied => i = s.icrf  BY <1>8, <1>11
    <3> QED BY <1>1, <1>3, <1>6, <1>9, <1>11, <2>3, <3>1 DEF Masked
  <2> QED BY <1>9, <1>13, <1>17, <1>18, <1>21, <2>3, <2>6, <2>7, <2>8, <2>9, <2>10, <2>11,
             <2>12, <2>13, <2>14, <2>15
          DEF Sound
<1>26. Flushed(t)  BY <1>9 DEF Flushed
<1>27. t.exdc.op # "eret"  BY <1>3, <1>6, <1>9
<1> QED BY <1>1, <1>9, <1>10, <1>11, <1>24, <1>25, <1>26, <1>27 DEF PipeInv, t

\* Whether EX has executed an ERET in this cycle.
ReturnedCp0(s) == Live(s.exdc) /\ s.exdc.op = "eret"

LEMMA ExKeeps ==
  ASSUME NEW s, NEW m, NEW cp0, NEW late, PipeInv(s, m, cp0, late),
         ~s.exdc.occupied, Flushed(s), SlotThere(s)
  PROVE  LET t == ExStage(s)
             n == t.exdc.seq
         IN  /\ PipeInv(t, m, Newest(cp0, ReturnedCp0(t), n),
                        Overtaken(late, cp0, ReturnedCp0(t), n))
             /\ Flushed(t) /\ t.retired = s.retired /\ ~t.rfex.occupied
<1> DEFINE t == ExStage(s)  l == s.rfex  k == ExOperand(s)  n == t.exdc.seq
<1>1. s \in Pipe /\ l \in Latch /\ cp0 \in Nat /\ late \in BOOLEAN  BY PipeIs DEF PipeInv
<1>2. l.op \in Op /\ l.seq \in Nat /\ l.dst \in {0, 1} /\ l.write \in {0, 1} /\ l.value \in Int
      /\ BypassValue(s, l.src) \in Int /\ s.stall \in Nat
  BY <1>1, PipeIs, BypassInt DEF Latch
<1>3. Emptied(l) = [l EXCEPT !.occupied = FALSE]  BY DEF Emptied
<1>4. k \in Latch /\ k.op = l.op /\ k.write = l.write /\ k.value = l.value /\ k.dst = l.dst
      /\ k.seq = l.seq /\ k.pc = l.pc /\ k = [l EXCEPT !.rs = BypassValue(s, l.src)]
  <2> DEFINE b == BypassValue(s, l.src)
  <2>1. k = [l EXCEPT !.rs = b] /\ b \in Int  BY <1>2 DEF ExOperand
  <2> HIDE DEF k, l, b
  <2>2. k \in Latch  BY <1>1, <2>1 DEF Latch
  <2>3. k.op = l.op /\ k.write = l.write /\ k.value = l.value /\ k.dst = l.dst
        /\ k.seq = l.seq /\ k.pc = l.pc
    BY <1>1, <2>1 DEF Latch
  <2> QED BY <2>1, <2>2, <2>3 DEF b
<1>5. ExComputed(s, l.write, l.value) = k
  <2>1. ExComputed(s, l.write, l.value) = [k EXCEPT !.write = l.write, !.value = l.value]
    BY DEF ExComputed
  <2> HIDE DEF k, l
  <2> QED BY <1>4, <2>1 DEF Latch
<1>6. ASSUME PipeInv(t, m, cp0, late), ~ReturnedCp0(t)
      PROVE  PipeInv(t, m, Newest(cp0, ReturnedCp0(t), n), Overtaken(late, cp0, ReturnedCp0(t), n))
  <2> HIDE DEF t
  <2>1. Newest(cp0, ReturnedCp0(t), n) = cp0 /\ Overtaken(late, cp0, ReturnedCp0(t), n) = late
    BY <1>1, <1>6 DEF Newest, Overtaken
  <2> QED BY <1>6, <2>1
<1>7. CASE ~Live(l)
  <2>1. t = [[s EXCEPT !.exdc = l] EXCEPT !.rfex.occupied = FALSE]  BY <1>7 DEF ExStage
  <2>2. t = ExMoved(s, s.stall)
    <3>1. ExResult(s) = l  BY <1>7 DEF ExResult
    <3> HIDE DEF t, l
    <3> QED BY <1>1, <1>3, <2>1, <3>1 DEF ExMoved, Pipe, l
  <2>3. /\ PipeInv(t, m, cp0, late) /\ Flushed(t) /\ t.retired = s.retired /\ ~t.rfex.occupied
        /\ Live(t.exdc) => t.exdc.op # "eret"
    <3> HIDE DEF t
    <3> QED BY <1>2, <1>7, <2>2, ExMoves DEF l
  <2> QED BY <1>6, <2>3 DEF ReturnedCp0
<1>8. CASE Live(l) /\ l.op = "alu"
  <2>1. t = [[s EXCEPT !.exdc = [k EXCEPT !.write = k.dst, !.value = k.seq]]
              EXCEPT !.rfex.occupied = FALSE]
    BY <1>4, <1>8 DEF ExStage, Execute, HasDelaySlot
  <2>2. t = ExMoved(s, s.stall)
    <3>1. ExResult(s) = [k EXCEPT !.write = k.dst, !.value = k.seq]
      BY <1>4, <1>8 DEF ExResult, ExComputed
    <3> HIDE DEF t, l, k
    <3> QED BY <1>1, <1>3, <2>1, <3>1 DEF ExMoved, Pipe, l
  <2>3. /\ PipeInv(t, m, cp0, late) /\ Flushed(t) /\ t.retired = s.retired /\ ~t.rfex.occupied
        /\ Live(t.exdc) => t.exdc.op # "eret"
    <3>1. l.op # "eret" /\ l.op # "syscall" /\ ~HasDelaySlot(l)  BY <1>8 DEF HasDelaySlot
    <3> HIDE DEF t
    <3> QED BY <1>2, <2>2, <3>1, ExMoves DEF l
  <2> QED BY <1>6, <2>3 DEF ReturnedCp0
<1>9. CASE Live(l) /\ l.op \notin {"alu", "eret", "syscall"} /\ ~HasDelaySlot(l)
  <2> DEFINE c == IF l.op = "mult" THEN 2 ELSE s.stall
             w == [s EXCEPT !.exdc = k]
  <2>1. t = [Execute(s, k) EXCEPT !.rfex.occupied = FALSE]  BY <1>4, <1>9 DEF ExStage
  <2>2. HasDelaySlot(k) = HasDelaySlot(l)  BY <1>4 DEF HasDelaySlot
  <2>3. c \in Nat  BY <1>2
  <2>4. Execute(s, k) = [w EXCEPT !.stall = c]
    <3>1. CASE l.op = "mult"
      <4>1. Execute(s, k) = StallFor(w, 2)  BY <1>4, <1>9, <2>2, <3>1 DEF Execute
      <4> QED BY <3>1, <4>1 DEF StallFor
    <3>2. CASE l.op # "mult"
      <4>1. Execute(s, k) = w  BY <1>4, <1>9, <2>2, <3>2 DEF Execute
      <4>2. [w EXCEPT !.stall = s.stall] = w
        <5> HIDE DEF k
        <5> QED BY <1>1 DEF Pipe
      <4>3. c = s.stall  BY <3>2
      <4> HIDE DEF w, c
      <4> QED BY <4>1, <4>2, <4>3
    <3> QED BY <3>1, <3>2
  <2>5. t = ExMoved(s, c)
    <3>1. ExResult(s) = k  BY <1>5, <1>9 DEF ExResult
    <3> HIDE DEF t, l, k, c
    <3> QED BY <1>1, <1>3, <2>1, <2>4, <3>1 DEF ExMoved, Pipe, l
  <2>6. /\ PipeInv(t, m, cp0, late) /\ Flushed(t) /\ t.retired = s.retired /\ ~t.rfex.occupied
        /\ Live(t.exdc) => t.exdc.op # "eret"
    <3>1. l.op # "eret" /\ l.op # "syscall"  BY <1>9
    <3> HIDE DEF t, c
    <3> QED BY <1>2, <1>9, <2>3, <2>5, <3>1, ExMoves DEF l
  <2> QED BY <1>6, <2>6 DEF ReturnedCp0
<1>10. CASE Live(l) /\ l.op = "syscall"
  <2> DEFINE a == AbortFrom(s, "ex")
  <2>1. t = [[a EXCEPT !.exdc = a.rfex] EXCEPT !.rfex.occupied = FALSE]
    BY <1>4, <1>10 DEF ExStage, Execute, HasDelaySlot
  <2>2. t = ExTrapped(s)
    <3>1. a \in Pipe  BY <1>1, AbortIs
    <3> HIDE DEF a, t
    <3>2. t = [a EXCEPT !.exdc = a.rfex, !.rfex = Emptied(a.rfex)]
      BY <2>1, <3>1 DEF Emptied, Pipe
    <3> QED BY <3>2 DEF ExTrapped, a
  <2>3. /\ PipeInv(t, m, cp0, late) /\ Flushed(t) /\ t.retired = s.retired /\ ~t.rfex.occupied
        /\ t.exdc.op = "syscall"
    <3> HIDE DEF t
    <3> QED BY <1>10, <2>2, ExTraps DEF l
  <2> QED BY <1>6, <2>3 DEF ReturnedCp0
<1>11. CASE Live(l) /\ l.op = "eret"
  <2>1. t = [Eret(s, k) EXCEPT !.rfex.occupied = FALSE]  BY <1>4, <1>11 DEF ExStage, Execute, HasDelaySlot
  <2>2. ExComputed(s, l.write, s.epc) = [k EXCEPT !.value = s.epc]
    <3>1. ExComputed(s, l.write, s.epc) = [k EXCEPT !.write = l.write, !.value = s.epc]
      BY DEF ExComputed
    <3> HIDE DEF k, l
    <3> QED BY <1>4, <3>1 DEF Latch
  <2>3. t = ExReturned(s)
    <3> DEFINE x == [k EXCEPT !.value = s.epc]
    <3>1. Eret(s, k) = [s EXCEPT !.exdc = x, !.exl = FALSE, !.nextPc = s.epc, !.ll = FALSE,
                                 !.icrf = Bubble]
      BY DEF Eret
    <3>2. ExComputed(s, s.rfex.write, s.epc) = x  BY <2>2
    <3> HIDE DEF t, l, k, x
    <3>3. t = [s EXCEPT !.exdc = x, !.rfex = Emptied(l), !.icrf = Bubble, !.exl = FALSE,
                        !.ll = FALSE, !.nextPc = s.epc]
      BY <1>1, <1>3, <2>1, <3>1 DEF Pipe, l
    <3> QED BY <3>2, <3>3 DEF ExReturned, l
  <2>4. /\ PipeInv(t, m, Newest(cp0, TRUE, l.seq), Overtaken(late, cp0, TRUE, l.seq)) /\ Flushed(t)
        /\ t.retired = s.retired /\ ~t.rfex.occupied
        /\ Live(t.exdc) /\ t.exdc.op = "eret" /\ t.exdc.seq = l.seq
    <3> HIDE DEF t
    <3> QED BY <1>11, <2>3, ExReturns DEF l
  <2>5. ReturnedCp0(t) = TRUE /\ n = l.seq
    <3> HIDE DEF t
    <3> QED BY <2>4 DEF ReturnedCp0
  <2> QED BY <2>4, <2>5
<1>12. CASE Live(l) /\ HasDelaySlot(l)
  <2> DEFINE f == DelaySlotFaulted(s, l)
             v == Link(IF f THEN l.pc + 2 ELSE s.nextPc)
  <2>1. l.op \in {"taken", "untaken", "likely", "jal"}  BY <1>12 DEF HasDelaySlot
  <2>2. HasDelaySlot(k) /\ k.op \notin {"syscall", "eret", "alu", "mult"}
    BY <1>4, <2>1 DEF HasDelaySlot
  <2>3. t = [ResolveBranch(s, k) EXCEPT !.rfex.occupied = FALSE]
    <3>1. Execute(s, k) = ResolveBranch(s, k)  BY <2>2 DEF Execute
    <3> QED BY <1>4, <1>12, <3>1 DEF ExStage
  <2>4. DelaySlotFaulted(s, k) = f  BY <1>12, <2>2 DEF DelaySlotFaulted
  <2> DEFINE x == IF f THEN s.nextPc
                  ELSE IF l.op \in {"taken", "jal"} THEN Target
                  ELSE IF l.op = "likely" THEN l.pc + 2 ELSE s.nextPc
             i == IF l.op = "likely" /\ ~f THEN Bubble ELSE s.icrf
             j == IF l.op = "jal" THEN [k EXCEPT !.write = l.dst, !.value = v] ELSE k
  <2>5. ResolveBranch(s, k) = [s EXCEPT !.exdc = j, !.nextPc = x, !.icrf = i]
    <3> DEFINE jk == IF k.op = "jal"
                     THEN [k EXCEPT !.write = k.dst,
                                    !.value = Link(IF f THEN k.pc + 2 ELSE s.nextPc)]
                     ELSE k
               xk == IF f THEN s.nextPc
                     ELSE IF k.op \in {"taken", "jal"} THEN Target
                     ELSE IF k.op = "likely" THEN k.pc + 2 ELSE s.nextPc
               ik == IF k.op = "likely" /\ ~f THEN Bubble ELSE s.icrf
    <3>1. ResolveBranch(s, k) =
             [s EXCEPT !.exdc = jk,
                       !.nextPc = IF f THEN @
                                  ELSE IF k.op \in {"taken", "jal"} THEN Target
                                  ELSE IF k.op = "likely" THEN k.pc + 2 ELSE @,
                       !.icrf = IF k.op = "likely" /\ ~f THEN Bubble ELSE @]
      <4> HIDE DEF k, f
      <4> QED BY <2>4 DEF ResolveBranch
    <3>2. jk = j /\ xk = x /\ ik = i
      <4> HIDE DEF k, l, f
      <4> QED BY <1>4
    <3> HIDE DEF jk, k, l, f
    <3>3. ResolveBranch(s, k) = [s EXCEPT !.exdc = jk, !.nextPc = xk, !.icrf = ik]
      BY <1>1, <3>1 DEF Pipe
    <3> HIDE DEF xk, ik, j, x, i
    <3> QED BY <3>2, <3>3
  <2>6. ExLinked(s) = j
    <3>1. ExComputed(s, l.dst, v) = [k EXCEPT !.write = l.dst, !.value = v]  BY DEF ExComputed
    <3>2. ExLinked(s) = IF l.op = "jal" THEN ExComputed(s, l.dst, v)
                        ELSE ExComputed(s, l.write, l.value)
      BY DEF ExLinked
    <3> HIDE DEF k, l, v
    <3> QED BY <1>5, <3>1, <3>2
  <2>7. t = ExBranched(s)
    <3>1. ExBranched(s) = [s EXCEPT !.exdc = ExLinked(s), !.rfex = Emptied(l), !.nextPc = x,
                                    !.icrf = i]
      BY DEF ExBranched
    <3> HIDE DEF t, x, i, j
    <3> DEFINE w == [s EXCEPT !.exdc = j, !.nextPc = x, !.icrf = i]
    <3>2. t = [w EXCEPT !.rfex.occupied = FALSE]  BY <2>3, <2>5
    <3>3. w.rfex = l  BY <1>1 DEF Pipe
    <3> HIDE DEF w, l
    <3>4. t = [w EXCEPT !.rfex = Emptied(l)]  BY <1>3, <3>2, <3>3
    <3>5. t = [s EXCEPT !.exdc = j, !.rfex = Emptied(l), !.nextPc = x, !.icrf = i]
      BY <1>1, <3>4 DEF Pipe, w
    <3> QED BY <2>6, <3>1, <3>5
  <2>8. /\ PipeInv(t, m, cp0, late) /\ Flushed(t) /\ t.retired = s.retired /\ ~t.rfex.occupied
        /\ t.exdc.op # "eret"
    <3> HIDE DEF t
    <3> QED BY <1>12, <2>7, ExBranches DEF l
  <2> QED BY <1>6, <2>8 DEF ReturnedCp0
<1> QED BY <1>7, <1>8, <1>9, <1>10, <1>11, <1>12

-----------------------------------------------------------------------------
(* RF.                                                                     *)

\* The machine is at an instruction, or past a branch, all along the pipe.
LEMMA ChainSettled ==
  ASSUME NEW s \in Pipe, NEW m \in Machine, NEW cp0, Sound(s, m, cp0)
  PROVE  Settled(AtExdc(s, m)) /\ Settled(AtRfex(s, m)) /\ Settled(AtIcrf(s, m))
<1> DEFINE A == AtExdc(s, m)  B == AtRfex(s, m)  C == AtIcrf(s, m)
<1>1. s.rfex \in Latch /\ s.exdc \in Latch /\ s.dcwb \in Latch  BY PipeIs
<1>2. A \in Machine /\ B \in Machine  BY ChainIs
<1>3. A = After(m, s.dcwb) /\ B = After(A, s.exdc) /\ C = After(B, s.rfex)
  BY DEF AtExdc, AtRfex, AtIcrf
<1>4. /\ Settled(m)
      /\ Reached(s, m, FALSE, cp0, s.dcwb)
      /\ Reached(s, A, ExlAtExdc(s), cp0, s.exdc)
      /\ Reached(s, B, ExlAtRfex(s), cp0, s.rfex)
  BY DEF Sound
<1> HIDE DEF A, B, C
<1>5. Settled(A)  BY <1>1, <1>3, <1>4, ReachSettled
<1>6. Settled(B)  BY <1>1, <1>2, <1>3, <1>4, <1>5, ReachSettled
<1>7. Settled(C)  BY <1>1, <1>2, <1>3, <1>4, <1>6, ReachSettled
<1> QED BY <1>5, <1>6, <1>7 DEF A, B, C

\* Where the machine goes from an instruction that is not in a delay slot.
LEMMA NextPc ==
  ASSUME NEW m \in Machine, NEW l \in Latch, Settled(m), ~m.nested, ~l.slot,
         l.pc = Entered(m, l).pc, l.slot = Entered(m, l).slot,
         l.op # "likely", l.op # "eret"
  PROVE  Retire(m, l).pc = l.pc + 1
<1> DEFINE e == Entered(m, l)  r == Retire(m, l)
<1>1. /\ e \in Machine
      /\ l.epoch = m.epoch => e = m
      /\ l.epoch # m.epoch => e.pc = Vector /\ e.npc = Vector + 1
  BY EnteredIs
<1>2. r.pc = IF l.op \in {"taken", "jal"} THEN e.npc
             ELSE IF l.op = "likely" THEN e.npc + 1
             ELSE IF l.op = "eret" THEN l.value ELSE e.npc
  BY RetireIs
<1>3. l.pc = e.pc /\ l.slot = e.slot  OBVIOUS
<1> HIDE DEF e, r
<1>4. r.pc = e.npc  BY <1>2
<1>5. e.npc = e.pc + 1
  <2>1. CASE l.epoch = m.epoch  BY <1>1, <1>3, <2>1 DEF Settled
  <2>2. CASE l.epoch # m.epoch  BY <1>1, <2>2
  <2> QED BY <2>1, <2>2
<1> QED BY <1>3, <1>4, <1>5 DEF r

RfMoved(s, n) == [s EXCEPT !.rfex = s.icrf, !.icrf = Emptied(s.icrf), !.stall = n]

\* What IC needs to know of the instruction before: only a fetch has been aborted there.
AbortedFetch(s) == s.pending = <<>> /\ s.rfex.occupied /\ s.rfex.abort => s.rfex.op = "alu"

LEMMA RfMoves ==
  ASSUME NEW s, NEW m, NEW cp0, NEW late, NEW n \in Nat, PipeInv(s, m, cp0, late),
         ~s.rfex.occupied, Flushed(s)
  PROVE  LET t == RfMoved(s, n) IN
           /\ PipeInv(t, m, cp0, late) /\ Flushed(t) /\ AbortedFetch(t)
           /\ t.retired = s.retired /\ t.exdc = s.exdc /\ ~t.icrf.occupied
<1> DEFINE t == RfMoved(s, n)  l == s.icrf
<1>1. /\ s \in Pipe /\ m \in Machine /\ cp0 \in Nat /\ late \in BOOLEAN
      /\ Chronology(s, m.epoch, cp0)
  BY DEF PipeInv
<1>2. l \in Latch  BY <1>1, PipeIs
<1>3. l.op \in Op /\ l.pc \in Int /\ l.slot \in BOOLEAN  BY <1>2 DEF Latch
<1>4. t = [s EXCEPT !.rfex = l, !.icrf = Emptied(l), !.stall = n]  BY DEF RfMoved
<1> HIDE DEF t, l
<1>5. /\ t.rfex = l /\ t.icrf = Emptied(l) /\ t.dcwb = s.dcwb /\ t.exdc = s.exdc
      /\ t.nextPc = s.nextPc /\ t.exl = s.exl /\ t.epc = s.epc /\ t.bd = s.bd
      /\ t.ll = s.ll /\ t.reg = s.reg /\ t.fetched = s.fetched /\ t.epoch = s.epoch
      /\ t.pending = s.pending /\ t.flush = s.flush /\ t.retired = s.retired
  BY <1>1, <1>4 DEF Pipe
<1>6. t \in Pipe
  <2>1. Emptied(l) \in Latch  BY <1>2, LatchIs
  <2> QED BY <1>1, <1>2, <1>4, <2>1 DEF Pipe
<1>7. ~t.icrf.occupied /\ ~Live(t.icrf) /\ ~Live(s.rfex) /\ ~Squashes(s.rfex)
  BY <1>2, <1>5, LatchIs DEF Live, Squashes
<1> DEFINE A == AtExdc(s, m)  B == AtRfex(s, m)  F == AtFetch(s, m)
<1>8. AtExdc(t, m) = A  BY <1>5 DEF AtExdc
<1>9. AtRfex(t, m) = B  BY <1>5, <1>8 DEF AtRfex
<1>10. AtIcrf(s, m) = B  BY <1>7 DEF AtIcrf, After
<1>11. F = After(B, l)  BY <1>7, <1>10 DEF AtFetch, l
<1>12. B \in Machine /\ F \in Machine  BY <1>1, ChainIs
<1> HIDE DEF A, B, F
<1>13. AtIcrf(t, m) = F  BY <1>5, <1>9, <1>11 DEF AtIcrf
<1>14. AtFetch(t, m) = F  BY <1>7, <1>13 DEF AtFetch, After
<1>15. /\ ExlAtExdc(t) = ExlAtExdc(s) /\ ExlAtRfex(t) = ExlAtRfex(s)
       /\ ExlAtIcrf(s) <=> ExlAtRfex(s)
       /\ ExlAtFetch(t) <=> ExlAtFetch(s)
  <2>1. ExlAtExdc(t) = ExlAtExdc(s)  BY <1>5 DEF ExlAtExdc
  <2>2. ExlAtRfex(t) = ExlAtRfex(s)  BY <1>5, <2>1 DEF ExlAtRfex
  <2>3. ExlAtIcrf(s) <=> ExlAtRfex(s)  BY <1>7 DEF ExlAtIcrf, ToExecute
  <2>4. ExlAtIcrf(t) <=> ExlAtFetch(s)
    BY <1>5, <1>7, <2>2, <2>3 DEF ExlAtIcrf, ExlAtFetch, l
  <2>5. ExlAtFetch(t) <=> ExlAtIcrf(t)  BY <1>7 DEF ExlAtFetch, ToExecute
  <2> QED BY <2>1, <2>2, <2>3, <2>4, <2>5
<1>16. Chronology(t, m.epoch, cp0)
  <2>1. InOrder(t)  BY <1>1, <1>5, <1>7 DEF Chronology, InOrder, Before, l
  <2>2. /\ Dated(t, m.epoch, cp0, t.dcwb) /\ Dated(t, m.epoch, cp0, t.exdc)
        /\ Dated(t, m.epoch, cp0, t.rfex) /\ Dated(t, m.epoch, cp0, t.icrf)
    BY <1>1, <1>5, <1>7 DEF Chronology, Dated, l
  <2> QED BY <1>1, <1>5, <1>7, <2>1, <2>2 DEF Chronology
<1>17. ASSUME Timely(t, cp0, late) PROVE Sound(t, m, cp0)
  <2>1. Timely(s, cp0, late)  BY <1>5, <1>17 DEF Timely
  <2>2. Sound(s, m, cp0)  BY <2>1 DEF PipeInv
  <2>3. /\ Settled(m) /\ (~m.nested => s.reg = m.reg) /\ Linked(s, A)
        /\ Reached(s, m, FALSE, cp0, s.dcwb) /\ Accessed(m, s.dcwb)
        /\ Reached(s, A, ExlAtExdc(s), cp0, s.exdc) /\ Executed(A, s.exdc)
        /\ Reached(s, B, ExlAtIcrf(s), cp0, l) /\ Unwritten(l)
        /\ Fetching(s, F, ExlAtFetch(s))
        /\ Dispatching(s, F, ExlAtFetch(s))
        /\ Masked(s, s.exdc) /\ Masked(s, l)
    BY <2>2, <1>7, <1>10 DEF Sound, l, A, B, F
  <2>4. Settled(B)  BY <1>1, <2>2, ChainSettled DEF B
  <2>5. Linked(t, A)  BY <1>5, <2>3 DEF Linked
  <2>6. Reached(t, m, FALSE, cp0, t.dcwb) /\ Accessed(m, t.dcwb)  BY <1>5, <2>3 DEF Reached
  <2>7. Reached(t, A, ExlAtExdc(t), cp0, t.exdc) /\ Executed(A, t.exdc)
    BY <1>5, <1>15, <2>3 DEF Reached
  <2>8. Reached(t, B, ExlAtRfex(t), cp0, t.rfex) /\ Unwritten(t.rfex)
    BY <1>5, <1>15, <2>3 DEF Reached
  <2>9. Reached(t, F, ExlAtIcrf(t), cp0, t.icrf) /\ Unwritten(t.icrf)
    BY <1>7 DEF Reached, Unwritten
  <2>10. Live(l) /\ ~F.nested => /\ ~B.nested /\ ~Nested(l) /\ F = Retire(B, l)
                                 /\ l.pc = Entered(B, l).pc /\ l.slot = Entered(B, l).slot
    <3> SUFFICES ASSUME Live(l), ~F.nested
                 PROVE  /\ ~B.nested /\ ~Nested(l) /\ F = Retire(B, l)
                        /\ l.pc = Entered(B, l).pc /\ l.slot = Entered(B, l).slot
      OBVIOUS
    <3>1. ~B.nested /\ ~Nested(l)  BY <1>2, <1>11, <1>12, AfterIs
    <3>2. F = Retire(B, l)  BY <1>11 DEF After
    <3>3. l.pc = Entered(B, l).pc /\ l.slot = Entered(B, l).slot  BY <2>3, <3>1 DEF Reached
    <3> QED BY <3>1, <3>2, <3>3
  <2>11. Branching(t, F)
    <3>1. SUFFICES ASSUME Live(l), HasDelaySlot(l), ~F.nested, s.pending = <<>>, s.epoch = F.epoch
                   PROVE  s.nextPc = l.pc + 1
      BY <1>5, <1>7 DEF Branching
    <3>2. l.op # "eret" /\ ~l.slot  BY <2>10, <3>1 DEF HasDelaySlot, Nested
    <3>3. /\ l.op = "likely" => s.nextPc = l.pc + 1
          /\ l.op # "likely" => s.nextPc = F.pc
      BY <1>7, <2>3, <3>1, <3>2 DEF Fetching, l
    <3>4. l.op # "likely" => F.pc = l.pc + 1
      BY <1>2, <1>12, <2>4, <2>10, <3>1, <3>2, NextPc
    <3> QED BY <3>3, <3>4
  <2>12. Fetching(t, F, ExlAtFetch(t))
    <3>1. SUFFICES ASSUME ~F.nested, s.pending = <<>> PROVE Fetching(t, F, ExlAtFetch(t))
      BY <1>5 DEF Fetching
    <3>2. CASE s.epoch # F.epoch
      <4>1. ~Live(l)  BY <2>3, <3>1, <3>2 DEF Fetching, l
      <4> QED BY <1>5, <1>7, <1>15, <2>3, <3>1, <3>2, <4>1 DEF Fetching
    <3>3. CASE s.epoch = F.epoch
      <4>1. s.epc = F.epc /\ (~ExlAtFetch(s) => s.exl = F.exl)
        BY <2>3, <3>1, <3>3 DEF Fetching
      <4>2. ~(Live(l) /\ (HasDelaySlot(l) \/ l.op = "eret")) => s.nextPc = F.pc /\ ~F.slot
        <5> SUFFICES ASSUME ~(Live(l) /\ (HasDelaySlot(l) \/ l.op = "eret"))
                     PROVE  s.nextPc = F.pc /\ ~F.slot
          OBVIOUS
        <5>1. ~(Live(l) /\ l.op = "likely")  BY DEF HasDelaySlot
        <5>2. s.nextPc = F.pc /\ (F.slot => Live(l))
          BY <1>7, <2>3, <3>1, <3>3, <5>1 DEF Fetching, l
        <5>3. Live(l) => ~F.slot
          <6>1. Live(l) => F = Retire(B, l)  BY <1>11 DEF After
          <6>2. Retire(B, l).slot = (HasDelaySlot(l) /\ l.op # "likely")
            BY <1>2, <1>12, RetireIs
          <6> QED BY <6>1, <6>2
        <5> QED BY <5>2, <5>3
      <4> QED BY <1>5, <1>7, <1>15, <3>3, <4>1, <4>2 DEF Fetching
    <3> QED BY <3>2, <3>3
  <2>13. Dispatching(t, F, ExlAtFetch(t))  BY <1>5, <1>15, <2>3 DEF Dispatching
  <2>14. Masked(t, t.exdc) /\ Masked(t, t.rfex) /\ Masked(t, t.icrf)
    BY <1>5, <1>7, <2>3 DEF Masked
  <2> QED BY <1>5, <1>8, <1>9, <1>13, <1>14, <2>3, <2>5, <2>6, <2>7, <2>8, <2>9, <2>11,
             <2>12, <2>13, <2>14
          DEF Sound
<1>18. Flushed(t)  BY <1>5, <1>7 DEF Flushed, l
<1>19. AbortedFetch(t)  BY <1>1, <1>5 DEF AbortedFetch, Chronology, l
<1> QED BY <1>1, <1>5, <1>6, <1>7, <1>16, <1>17, <1>18, <1>19 DEF PipeInv, t

LEMMA RfKeeps ==
  ASSUME NEW s, NEW m, NEW cp0, NEW late, PipeInv(s, m, cp0, late),
         ~s.rfex.occupied, Flushed(s)
  PROVE  LET t == RfStage(s) IN
           /\ PipeInv(t, m, cp0, late) /\ Flushed(t) /\ AbortedFetch(t)
           /\ t.retired = s.retired /\ t.exdc = s.exdc /\ ~t.icrf.occupied
<1> DEFINE t == RfStage(s)  l == s.icrf
           lock == l.occupied /\ s.exdc.occupied /\ IsLoad(s.exdc) /\ LoadInterlocks(s.exdc, l)
           n == IF lock THEN 1 ELSE s.stall
           w == [s EXCEPT !.rfex = l, !.icrf.occupied = FALSE]
<1>1. s \in Pipe /\ s.stall \in Nat  BY PipeIs DEF PipeInv
<1>2. t = StallFor(w, IF lock THEN 1 ELSE 0)  BY DEF RfStage
<1>3. n \in Nat  BY <1>1
<1> HIDE DEF t, lock
<1>4. t = [w EXCEPT !.stall = n]
  <2>1. CASE lock  BY <1>2, <2>1 DEF StallFor
  <2>2. CASE ~lock
    <3>1. t = w /\ n = s.stall  BY <1>2, <2>2 DEF StallFor
    <3>2. [w EXCEPT !.stall = s.stall] = w  BY <1>1 DEF Pipe
    <3> HIDE DEF w, n
    <3> QED BY <3>1, <3>2
  <2> QED BY <2>1, <2>2
<1>5. t = RfMoved(s, n)
  <2> HIDE DEF n
  <2> QED BY <1>1, <1>4 DEF RfMoved, Emptied, Pipe
<1> HIDE DEF n
<1>6. /\ PipeInv(t, m, cp0, late) /\ Flushed(t) /\ AbortedFetch(t)
      /\ t.retired = s.retired /\ t.exdc = s.exdc /\ ~t.icrf.occupied
  BY <1>3, <1>5, RfMoves
<1> QED BY <1>6 DEF t

-----------------------------------------------------------------------------
(* IC.                                                                     *)

\* What is about to be fetched is what the machine comes to.
LEMMA ToFetch ==
  ASSUME NEW s \in Pipe, NEW m \in Machine, NEW cp0, Sound(s, m, cp0), AbortedFetch(s),
         s.pending = <<>>, ~s.icrf.occupied, ~AtIcrf(s, m).nested
  PROVE  LET C == AtIcrf(s, m)
             l == s.rfex
             slot == l.occupied /\ HasDelaySlot(l)
             exl == ExlAtIcrf(s)
         IN  /\ slot <=> Live(l) /\ HasDelaySlot(l)
             /\ Settled(C)
             /\ s.epoch # C.epoch => /\ s.nextPc = Vector /\ ~Live(l) /\ ~slot
                                     /\ ~exl => s.exl /\ s.epc = Resume(C, s.bd)
             /\ s.epoch = C.epoch =>
                  /\ s.epc = C.epc
                  /\ ~exl => s.exl = C.exl
                  /\ slot => /\ s.nextPc = l.pc + 1 /\ C.branch = l.pc
                             /\ C.slot = (l.op # "likely")
                             /\ l.op # "likely" => C.pc = l.pc + 1
                  /\ ~slot /\ ~(Live(l) /\ l.op = "eret") => s.nextPc = C.pc /\ ~C.slot
<1> DEFINE B == AtRfex(s, m)  C == AtIcrf(s, m)  l == s.rfex
           slot == l.occupied /\ HasDelaySlot(l)  exl == ExlAtIcrf(s)
<1>1. l \in Latch  BY PipeIs
<1>2. B \in Machine /\ C \in Machine  BY ChainIs
<1>3. Settled(B) /\ Settled(C)  BY ChainSettled
<1>4. slot <=> Live(l) /\ HasDelaySlot(l)
  <2>1. l.occupied /\ l.abort => ~HasDelaySlot(l)  BY DEF AbortedFetch, HasDelaySlot
  <2> HIDE DEF l
  <2> QED BY <2>1 DEF Live
<1>5. ~Live(s.icrf) /\ AtFetch(s, m) = C  BY DEF Live, AtFetch, After
<1>6. ExlAtFetch(s) <=> exl  BY <1>5 DEF ExlAtFetch, ToExecute
<1>7. C = After(B, l)  BY DEF AtIcrf
<1>8. /\ Fetching(s, C, ExlAtFetch(s)) /\ Branching(s, C)
      /\ Reached(s, B, ExlAtRfex(s), cp0, l)
  BY <1>5 DEF Sound
<1>9. ~C.nested  OBVIOUS
<1> HIDE DEF B, C, l, slot, exl
<1>10. ASSUME s.epoch # C.epoch
       PROVE  /\ s.nextPc = Vector /\ ~Live(l) /\ ~slot
              /\ ~exl => s.exl /\ s.epc = Resume(C, s.bd)
  BY <1>4, <1>6, <1>8, <1>9, <1>10 DEF Fetching, l
<1>11. ASSUME s.epoch = C.epoch
       PROVE  s.epc = C.epc /\ (~exl => s.exl = C.exl)
  BY <1>6, <1>8, <1>9, <1>11 DEF Fetching
<1>12. ASSUME s.epoch = C.epoch, slot
       PROVE  /\ s.nextPc = l.pc + 1 /\ C.branch = l.pc
              /\ C.slot = (l.op # "likely")
              /\ l.op # "likely" => C.pc = l.pc + 1
  <2>1. Live(l) /\ HasDelaySlot(l)  BY <1>4, <1>12
  <2>2. s.nextPc = l.pc + 1  BY <1>8, <1>9, <1>12, <2>1 DEF Branching, l
  <2>3. C = Retire(B, l)  BY <1>7, <2>1 DEF After
  <2>4. C.branch = l.pc /\ C.slot = (l.op # "likely")
    <3>1. /\ Retire(B, l).slot = (HasDelaySlot(l) /\ l.op # "likely")
          /\ HasDelaySlot(l) => Retire(B, l).branch = l.pc
      BY <1>1, <1>2, RetireIs
    <3> QED BY <2>1, <2>3, <3>1
  <2>5. ~B.nested /\ ~Nested(l)  BY <1>1, <1>2, <1>7, <1>9, <2>1, AfterIs
  <2>6. ~l.slot /\ l.op # "eret"  BY <2>1, <2>5 DEF Nested, HasDelaySlot
  <2>7. l.pc = Entered(B, l).pc /\ l.slot = Entered(B, l).slot
    BY <1>8, <2>1, <2>5 DEF Reached
  <2>8. l.op # "likely" => C.pc = l.pc + 1
    BY <1>1, <1>2, <1>3, <2>3, <2>5, <2>6, <2>7, NextPc
  <2> QED BY <2>2, <2>4, <2>8
<1>13. ASSUME s.epoch = C.epoch, ~slot, ~(Live(l) /\ l.op = "eret")
       PROVE  s.nextPc = C.pc /\ ~C.slot
  BY <1>4, <1>5, <1>8, <1>9, <1>13 DEF Fetching, l
<1> QED BY <1>3, <1>4, <1>10, <1>11, <1>12, <1>13 DEF C, l, slot, exl

LEMMA FetchedIs ==
  ASSUME NEW s \in Pipe, NEW i \in [op : Op, src : {0, 1}, dst : {0, 1}]
  PROVE  LET g == Fetched(s, i) IN
         /\ g \in Latch /\ g.occupied /\ Live(g) /\ ~g.abort
         /\ g.seq = s.fetched + 1 /\ g.epoch = s.epoch
         /\ g.pc = s.nextPc /\ g.slot = (s.rfex.occupied /\ HasDelaySlot(s.rfex))
         /\ g.op = i.op /\ g.write = 0 /\ g.epc = s.epc /\ g.bd = s.bd
<1> DEFINE g == Fetched(s, i)
           slot == s.rfex.occupied /\ HasDelaySlot(s.rfex)
<1>1. /\ s.fetched \in Nat /\ s.epoch \in Nat /\ s.nextPc \in Int /\ s.epc \in Int
      /\ s.bd \in BOOLEAN /\ s.rfex \in Latch
  BY PipeIs
<1>2. slot \in BOOLEAN /\ s.fetched + 1 \in Nat  BY <1>1 DEF Latch, HasDelaySlot
<1>3. i.op \in Op /\ i.src \in {0, 1} /\ i.dst \in {0, 1}  OBVIOUS
<1>4. g = [Bubble EXCEPT !.occupied = TRUE, !.seq = s.fetched + 1, !.epoch = s.epoch,
                         !.pc = s.nextPc, !.slot = slot, !.op = i.op, !.src = i.src,
                         !.dst = i.dst, !.epc = s.epc, !.bd = s.bd]
  BY DEF Fetched
<1> HIDE DEF g, slot
<1> DEFINE h == [Bubble EXCEPT !.occupied = TRUE, !.seq = s.fetched + 1, !.epoch = s.epoch,
                               !.pc = s.nextPc, !.slot = slot]
<1>5. h \in Latch /\ h.occupied /\ ~h.abort /\ h.seq = s.fetched + 1 /\ h.epoch = s.epoch
      /\ h.pc = s.nextPc /\ h.slot = slot /\ h.write = 0
  <2>1. Bubble \in Latch /\ ~Bubble.abort /\ Bubble.write = 0
    <3>1. Bubble \in Latch  BY <1>1, LatchIs
    <3> QED BY <3>1 DEF Bubble
  <2> QED BY <1>1, <1>2, <2>1 DEF Latch
<1>6. g = [h EXCEPT !.op = i.op, !.src = i.src, !.dst = i.dst, !.epc = s.epc, !.bd = s.bd]
  BY <1>4
<1> HIDE DEF h
<1>7. /\ g \in Latch /\ g.occupied /\ ~g.abort
      /\ g.seq = s.fetched + 1 /\ g.epoch = s.epoch
      /\ g.pc = s.nextPc /\ g.slot = slot
      /\ g.op = i.op /\ g.write = 0 /\ g.epc = s.epc /\ g.bd = s.bd
  BY <1>1, <1>3, <1>5, <1>6 DEF Latch
<1> QED BY <1>7 DEF g, slot, Live

\* What is left for the dispatch: an exception has not left a live instruction to fetch behind.
Quashed(s) ==
  s.pending # <<>> => /\ s.icrf.occupied => s.icrf.abort /\ s.icrf.op = "alu"
                      /\ Live(s.rfex) => s.icrf.occupied

IcFlushed(s) == [s EXCEPT !.icrf = Bubble]

LEMMA IcFlushes ==
  ASSUME NEW s, NEW m, NEW cp0, NEW late, PipeInv(s, m, cp0, late), Flushed(s),
         s.pending # <<>>
  PROVE  LET t == IcFlushed(s) IN
           /\ PipeInv(t, m, cp0, late) /\ SlotThere(t) /\ Quashed(t)
           /\ t.retired = s.retired /\ t.exdc = s.exdc
<1> DEFINE t == IcFlushed(s)
<1>1. /\ s \in Pipe /\ m \in Machine /\ cp0 \in Nat /\ late \in BOOLEAN
      /\ Chronology(s, m.epoch, cp0)
  BY DEF PipeInv
<1>2. t = [s EXCEPT !.icrf = Bubble]  BY DEF IcFlushed
<1>3. s.icrf \in Latch  BY <1>1, PipeIs
<1> HIDE DEF t
<1>4. t \in Pipe  BY <1>1, <1>2, <1>3, LatchIs DEF Pipe
<1>5. /\ t.icrf = Bubble /\ t.rfex = s.rfex /\ t.dcwb = s.dcwb /\ t.exdc = s.exdc
      /\ t.nextPc = s.nextPc /\ t.exl = s.exl /\ t.epc = s.epc /\ t.bd = s.bd
      /\ t.ll = s.ll /\ t.reg = s.reg /\ t.fetched = s.fetched /\ t.epoch = s.epoch
      /\ t.pending = s.pending /\ t.flush = s.flush /\ t.retired = s.retired
  BY <1>1, <1>2 DEF Pipe
<1>6. ~Live(s.exdc) /\ ~Live(s.rfex) /\ ~Live(s.icrf) /\ ~t.icrf.occupied /\ ~Live(t.icrf)
  BY <1>3, <1>5, LatchIs DEF Flushed
<1>7. Chronology(t, m.epoch, cp0)
  <2>1. InOrder(t)  BY <1>1, <1>5, <1>6 DEF Chronology, InOrder, Before
  <2>2. /\ Dated(t, m.epoch, cp0, t.dcwb) /\ Dated(t, m.epoch, cp0, t.exdc)
        /\ Dated(t, m.epoch, cp0, t.rfex) /\ Dated(t, m.epoch, cp0, t.icrf)
    BY <1>1, <1>5, <1>6 DEF Chronology, Dated
  <2> QED BY <1>1, <1>5, <1>6, <2>1, <2>2 DEF Chronology
<1> DEFINE A == AtExdc(s, m)
<1>8. AtExdc(t, m) = A /\ ExlAtExdc(t) = ExlAtExdc(s)  BY <1>5 DEF AtExdc, ExlAtExdc
<1>9. AtFetch(s, m) = A  BY <1>6 DEF AtFetch, AtIcrf, AtRfex, After
<1>10. A \in Machine /\ s.ll \in BOOLEAN  BY <1>1, ChainIs, PipeIs
<1> HIDE DEF A
<1>11. ExlAtFetch(s) <=> ExlAtExdc(s)
  BY <1>6 DEF ExlAtFetch, ExlAtIcrf, ExlAtRfex, ToWrite, ToExecute
<1>12. ASSUME Timely(t, cp0, late)
       PROVE  /\ Settled(m) /\ (~m.nested => t.reg = m.reg)
              /\ ~A.nested => t.ll = A.ll
              /\ Reached(t, m, FALSE, cp0, t.dcwb) /\ Accessed(m, t.dcwb)
              /\ Dispatching(t, A, ExlAtExdc(t))
  <2>1. Timely(s, cp0, late)  BY <1>5, <1>12 DEF Timely
  <2>2. Sound(s, m, cp0)  BY <2>1 DEF PipeInv
  <2>3. /\ Settled(m) /\ (~m.nested => s.reg = m.reg) /\ Linked(s, A)
        /\ Reached(s, m, FALSE, cp0, s.dcwb) /\ Accessed(m, s.dcwb)
        /\ Dispatching(s, A, ExlAtFetch(s))
    BY <2>2, <1>9 DEF Sound, A
  <2>4. ~A.nested => t.ll = A.ll
    <3>1. A.ll \in BOOLEAN  BY <1>10 DEF Machine
    <3> QED BY <1>5, <1>6, <1>10, <2>3, <3>1 DEF Linked
  <2>5. Reached(t, m, FALSE, cp0, t.dcwb)  BY <1>5, <2>3 DEF Reached
  <2>6. Dispatching(t, A, ExlAtExdc(t))  BY <1>5, <1>8, <1>11, <2>3 DEF Dispatching
  <2> QED BY <1>5, <2>3, <2>4, <2>5, <2>6
<1>13. PipeInv(t, m, cp0, late) /\ SlotThere(t)
  BY <1>1, <1>4, <1>5, <1>6, <1>7, <1>8, <1>12, FlushedInv
<1>14. Quashed(t)  BY <1>5, <1>6 DEF Quashed
<1> QED BY <1>5, <1>13, <1>14 DEF t

IcFetched(s, i) ==
  [s EXCEPT !.icrf = Fetched(s, i), !.fetched = s.fetched + 1, !.nextPc = s.nextPc + 1]

LEMMA IcFetches ==
  ASSUME NEW s, NEW m, NEW cp0, NEW late, PipeInv(s, m, cp0, late), AbortedFetch(s),
         NEW i \in [op : Op, src : {0, 1}, dst : {0, 1}], s.pending = <<>>, ~s.icrf.occupied
  PROVE  LET t == IcFetched(s, i) IN
           /\ PipeInv(t, m, cp0, late) /\ SlotThere(t) /\ Quashed(t)
           /\ t.retired = s.retired /\ t.exdc = s.exdc
<1> DEFINE t == IcFetched(s, i)  g == Fetched(s, i)  l == s.rfex
           slot == l.occupied /\ HasDelaySlot(l)
<1>1. /\ s \in Pipe /\ m \in Machine /\ cp0 \in Nat /\ late \in BOOLEAN
      /\ Chronology(s, m.epoch, cp0) /\ s.fetched \in Nat /\ s.nextPc \in Int
      /\ s.epoch \in Nat /\ m.epoch \in Nat
  BY PipeIs DEF PipeInv, Machine
<1>2. /\ g \in Latch /\ g.occupied /\ Live(g) /\ ~g.abort
      /\ g.seq = s.fetched + 1 /\ g.epoch = s.epoch
      /\ g.pc = s.nextPc /\ g.slot = slot
      /\ g.write = 0 /\ g.epc = s.epc /\ g.bd = s.bd
  BY <1>1, FetchedIs
<1>3. t = [s EXCEPT !.icrf = g, !.fetched = s.fetched + 1, !.nextPc = s.nextPc + 1]
  BY DEF IcFetched
<1>4. s.rfex \in Latch /\ s.exdc \in Latch /\ s.dcwb \in Latch  BY <1>1, PipeIs
<1> HIDE DEF t, g, l, slot
<1>5. t \in Pipe
  <2> DEFINE u == [s EXCEPT !.icrf = g]  v == [u EXCEPT !.fetched = s.fetched + 1]
  <2>1. s.fetched + 1 \in Nat /\ s.nextPc + 1 \in Int  BY <1>1
  <2>2. u \in Pipe  BY <1>1, <1>2 DEF Pipe
  <2> HIDE DEF u
  <2>3. v \in Pipe  BY <2>1, <2>2 DEF Pipe
  <2>4. t = [v EXCEPT !.nextPc = s.nextPc + 1]  BY <1>3 DEF u
  <2> HIDE DEF v
  <2> QED BY <2>1, <2>3, <2>4 DEF Pipe
<1>6. /\ t.icrf = g /\ t.rfex = l /\ t.dcwb = s.dcwb /\ t.exdc = s.exdc
      /\ t.nextPc = s.nextPc + 1 /\ t.exl = s.exl /\ t.epc = s.epc /\ t.bd = s.bd
      /\ t.ll = s.ll /\ t.reg = s.reg /\ t.fetched = s.fetched + 1 /\ t.epoch = s.epoch
      /\ t.pending = <<>> /\ t.flush = s.flush /\ t.retired = s.retired
  BY <1>1, <1>3 DEF Pipe, l
<1> DEFINE A == AtExdc(s, m)  B == AtRfex(s, m)  C == AtIcrf(s, m)
           F == IF Squashes(l) THEN C ELSE Retire(C, g)
<1>7. /\ AtExdc(t, m) = A
      /\ AtRfex(t, m) = B
      /\ AtIcrf(t, m) = C
  <2>1. AtExdc(t, m) = A  BY <1>6 DEF AtExdc
  <2>2. AtRfex(t, m) = B  BY <1>6, <2>1 DEF AtRfex
  <2> QED BY <1>6, <2>1, <2>2 DEF AtIcrf, l
<1>8. AtFetch(t, m) = F  BY <1>2, <1>6, <1>7 DEF AtFetch, After
<1>9. A \in Machine /\ B \in Machine /\ C \in Machine  BY <1>1, ChainIs
<1> HIDE DEF A, B, C
<1>10. /\ ExlAtExdc(t) = ExlAtExdc(s) /\ ExlAtRfex(t) = ExlAtRfex(s)
       /\ ExlAtIcrf(t) = ExlAtIcrf(s)
       /\ ExlAtFetch(t) <=> ExlAtIcrf(s) \/ (~Squashes(l) /\ g.op \in {"mtc0", "eret"})
  <2>1. ExlAtExdc(t) = ExlAtExdc(s)  BY <1>6 DEF ExlAtExdc
  <2>2. ExlAtRfex(t) = ExlAtRfex(s)  BY <1>6, <2>1 DEF ExlAtRfex
  <2>3. ExlAtIcrf(t) = ExlAtIcrf(s)  BY <1>6, <2>2 DEF ExlAtIcrf, l
  <2>4. ExlAtFetch(t) <=> ExlAtIcrf(s) \/ (~Squashes(l) /\ g.op \in {"mtc0", "eret"})
    BY <1>2, <1>6, <2>3 DEF ExlAtFetch, ToExecute
  <2> QED BY <2>1, <2>2, <2>3, <2>4
<1>11. Chronology(t, m.epoch, cp0)
  <2>1. ASSUME NEW k \in {s.dcwb, s.exdc, s.rfex}
        PROVE  Before(k, g) /\ Dated(t, m.epoch, cp0, k)
    <3>1. Dated(s, m.epoch, cp0, k)  BY <1>1 DEF Chronology
    <3>2. k.seq \in Nat /\ k.epoch \in Nat  BY <1>4 DEF Latch
    <3> QED BY <1>1, <1>2, <1>6, <3>1, <3>2 DEF Dated, Before
  <2>2. InOrder(t)  BY <1>1, <1>6, <2>1 DEF Chronology, InOrder, l
  <2>3. Dated(t, m.epoch, cp0, g)
    <3>1. m.epoch <= s.epoch  BY <1>1 DEF Chronology
    <3> QED BY <1>1, <1>2, <1>6, <3>1 DEF Dated
  <2>4. cp0 <= t.fetched  BY <1>1, <1>6 DEF Chronology
  <2>5. t.flush = (t.pending # <<>>)  BY <1>1, <1>6 DEF Chronology
  <2> QED BY <1>1, <1>2, <1>6, <2>1, <2>2, <2>3, <2>4, <2>5 DEF Chronology, l
<1>12. slot => l.occupied /\ HasDelaySlot(l)  BY DEF slot
<1>13. ASSUME Timely(t, cp0, late) PROVE Sound(t, m, cp0)
  <2>1. Timely(s, cp0, late)  BY <1>6, <1>13 DEF Timely
  <2>2. Sound(s, m, cp0)  BY <2>1 DEF PipeInv
  <2>3. /\ Settled(m) /\ (~m.nested => s.reg = m.reg) /\ Linked(s, A)
        /\ Reached(s, m, FALSE, cp0, s.dcwb) /\ Accessed(m, s.dcwb)
        /\ Reached(s, A, ExlAtExdc(s), cp0, s.exdc) /\ Executed(A, s.exdc)
        /\ Reached(s, B, ExlAtRfex(s), cp0, l) /\ Unwritten(l)
        /\ Masked(s, s.exdc) /\ Masked(s, l)
    BY <2>2 DEF Sound, l, A, B
  \* What the instruction was fetched with.
  <2>4. ASSUME ~C.nested
        PROVE  /\ slot <=> Live(l) /\ HasDelaySlot(l)
               /\ Settled(C)
               /\ s.epoch # C.epoch => /\ s.nextPc = Vector /\ ~Live(l) /\ ~slot
                                       /\ ~ExlAtIcrf(s) => s.exl /\ s.epc = Resume(C, s.bd)
               /\ s.epoch = C.epoch =>
                    /\ s.epc = C.epc
                    /\ ~ExlAtIcrf(s) => s.exl = C.exl
                    /\ slot => /\ s.nextPc = l.pc + 1 /\ C.branch = l.pc
                               /\ C.slot = (l.op # "likely")
                               /\ l.op # "likely" => C.pc = l.pc + 1
                    /\ ~slot /\ ~(Live(l) /\ l.op = "eret") => s.nextPc = C.pc /\ ~C.slot
    BY <1>1, <2>2, <2>4, ToFetch DEF C, l, slot
  <2>5. Linked(t, A)  BY <1>6, <2>3 DEF Linked
  <2>6. Reached(t, m, FALSE, cp0, t.dcwb) /\ Accessed(m, t.dcwb)  BY <1>6, <2>3 DEF Reached
  <2>7. Reached(t, A, ExlAtExdc(t), cp0, t.exdc) /\ Executed(A, t.exdc)
    BY <1>6, <1>10, <2>3 DEF Reached
  <2>8. Reached(t, B, ExlAtRfex(t), cp0, t.rfex) /\ Unwritten(t.rfex)
    BY <1>6, <1>10, <2>3 DEF Reached
  <2> DEFINE e == Entered(C, g)
  <2>9. /\ e \in Machine
        /\ g.epoch = C.epoch => e = C
        /\ g.epoch # C.epoch => /\ e.pc = Vector /\ e.npc = Vector + 1 /\ ~e.slot
                                /\ e.exl /\ e.epc = g.epc
    BY <1>2, <1>9, EnteredIs
  <2> HIDE DEF e
  <2>10. ASSUME ~C.nested, ~Squashes(l)
         PROVE  /\ g.pc = e.pc /\ g.slot = e.slot
                /\ g.epoch # C.epoch /\ ~ExlAtIcrf(s) => g.epc = Resume(C, g.bd)
                /\ s.epc = e.epc
                /\ ~ExlAtIcrf(s) => s.exl = e.exl
                /\ s.bd = g.bd
    <3>1. CASE s.epoch # C.epoch
      <4>1. g.slot = FALSE /\ e.slot = FALSE /\ e.exl = TRUE
        BY <1>2, <2>4, <2>9, <2>10, <3>1 DEF Machine, slot, Latch
      <4>2. ~ExlAtIcrf(s) => s.exl = TRUE
        <5>1. s.exl \in BOOLEAN  BY <1>1, PipeIs
        <5> QED BY <2>4, <2>10, <3>1, <5>1
      <4> QED BY <1>2, <2>4, <2>9, <2>10, <3>1, <4>1, <4>2
    <3>2. CASE s.epoch = C.epoch
      <4>1. e = C /\ g.epoch = C.epoch  BY <1>2, <2>9, <3>2
      <4>2. ~(Live(l) /\ l.op = "eret") /\ (Live(l) => l.op # "likely")
        BY <2>10 DEF Squashes
      <4>3. CASE slot
        <5>1. l.op # "likely"  BY <2>4, <2>10, <4>2, <4>3
        <5>2. g.slot = TRUE /\ C.slot = TRUE  BY <1>2, <2>4, <2>10, <3>2, <4>3, <5>1
        <5>3. g.pc = C.pc  BY <1>2, <2>4, <2>10, <3>2, <4>3, <5>1
        <5> QED BY <1>2, <2>4, <2>10, <3>2, <4>1, <5>2, <5>3
      <4>4. CASE ~slot
        <5>1. g.slot = FALSE /\ C.slot = FALSE
          BY <1>2, <1>9, <2>4, <2>10, <3>2, <4>2, <4>4 DEF Machine, Latch
        <5>2. g.pc = C.pc  BY <1>2, <2>4, <2>10, <3>2, <4>2, <4>4
        <5> QED BY <1>2, <2>4, <2>10, <3>2, <4>1, <5>1, <5>2
      <4> QED BY <4>3, <4>4
    <3> QED BY <3>1, <3>2
  <2>11. ~Squashes(l) => Reached(t, C, ExlAtIcrf(t), cp0, g)
    BY <1>6, <1>10, <2>10 DEF Reached, e
  <2>12. Unwritten(g)  BY <1>2 DEF Unwritten
  <2>13. Branching(t, C)
    <3>1. SUFFICES ASSUME Live(l), HasDelaySlot(l), ~C.nested
                   PROVE  g.slot /\ s.epoch = C.epoch /\ t.nextPc = l.pc + 2
      BY <1>2, <1>6 DEF Branching
    <3>2. slot /\ s.epoch = C.epoch  BY <2>4, <3>1
    <3>3. s.nextPc = l.pc + 1  BY <2>4, <3>1, <3>2
    <3>4. l.pc \in Int  BY <1>4 DEF l, Latch
    <3> QED BY <1>2, <1>6, <3>2, <3>3, <3>4
  <2>14. Fetching(t, F, ExlAtFetch(t))
    <3>1. CASE Squashes(l)
      <4>1. F = C  BY <3>1
      <4>2. Live(l) /\ (HasDelaySlot(l) \/ l.op = "eret")  BY <3>1 DEF Squashes, HasDelaySlot
      <4>3. ExlAtFetch(t) <=> ExlAtIcrf(s)  BY <1>10, <3>1
      <4>4. ASSUME ~C.nested PROVE s.epoch = C.epoch /\ s.epc = C.epc /\ (~ExlAtIcrf(s) => s.exl = C.exl)
        BY <2>4, <4>2, <4>4
      <4> HIDE DEF F
      <4> QED BY <1>6, <4>1, <4>2, <4>3, <4>4 DEF Fetching
    <3>2. CASE ~Squashes(l)
      <4> DEFINE r == Retire(C, g)
      <4>1. F = r  BY <3>2
      <4>2. r.epoch = g.epoch /\ r.epc = e.epc /\ r.nested = (C.nested \/ Nested(g))
        BY <1>2, <1>9, RetireIs DEF e
      <4>3. r.exl = (e.exl /\ g.op # "eret" /\ g.op # "mtc0")
            /\ r.slot = (HasDelaySlot(g) /\ g.op # "likely")
        BY <1>2, <1>9, RetireIs DEF e
      <4>4. r.pc = IF g.op \in {"taken", "jal"} THEN e.npc
                   ELSE IF g.op = "likely" THEN e.npc + 1
                   ELSE IF g.op = "eret" THEN g.value ELSE e.npc
        BY <1>2, <1>9, RetireIs DEF e
      <4> HIDE DEF r, F
      <4>5. SUFFICES ASSUME ~F.nested PROVE Fetching(t, F, ExlAtFetch(t))  BY DEF Fetching
      <4>6. ~C.nested /\ ~Nested(g)  BY <4>1, <4>2, <4>5
      <4>7. t.epoch = F.epoch /\ t.epc = F.epc  BY <1>2, <1>6, <2>10, <3>2, <4>1, <4>2, <4>6
      <4>8. ~ExlAtFetch(t) => t.exl = F.exl
        <5> SUFFICES ASSUME ~ExlAtFetch(t) PROVE t.exl = F.exl  OBVIOUS
        <5>1. ~ExlAtIcrf(s) /\ g.op # "eret" /\ g.op # "mtc0"  BY <1>10, <3>2
        <5>2. s.exl = e.exl /\ e.exl \in BOOLEAN  BY <2>9, <2>10, <3>2, <4>6, <5>1 DEF Machine
        <5> QED BY <1>6, <4>1, <4>3, <5>1, <5>2
      <4>9. ~(Live(l) /\ HasDelaySlot(l)) /\ g.op # "likely" /\ g.op # "eret" => t.nextPc = F.pc
        <5> SUFFICES ASSUME ~(Live(l) /\ HasDelaySlot(l)), g.op # "likely", g.op # "eret"
                     PROVE  t.nextPc = F.pc
          OBVIOUS
        <5>1. g.slot = FALSE  BY <1>2, <2>4, <4>6
        <5>2. g.pc = e.pc /\ g.slot = e.slot  BY <2>10, <3>2, <4>6
        <5>3. r.pc = g.pc + 1
          <6>1. Settled(C)  BY <2>4, <4>6
          <6> QED BY <1>2, <1>9, <4>6, <5>1, <5>2, <6>1, NextPc DEF e, r
        <5> QED BY <1>2, <1>6, <4>1, <5>3
      <4>10. g.op = "likely" => t.nextPc = g.pc + 1  BY <1>2, <1>6
      <4> QED BY <1>2, <1>6, <4>7, <4>8, <4>9, <4>10 DEF Fetching
    <3> QED BY <3>1, <3>2
  <2>15. Dispatching(t, F, ExlAtFetch(t))  BY <1>6 DEF Dispatching
  <2>16. Masked(t, t.exdc) /\ Masked(t, t.rfex) /\ Masked(t, t.icrf)
    <3>1. s.pending = t.pending  BY <1>6
    <3> QED BY <1>2, <1>6, <2>3, <3>1 DEF Masked
  <2> HIDE DEF F
  <2> QED BY <1>6, <1>7, <1>8, <2>3, <2>5, <2>6, <2>7, <2>8, <2>11, <2>12, <2>13, <2>14, <2>15, <2>16
          DEF Sound
<1>14. SlotThere(t)  BY <1>2, <1>6 DEF SlotThere, slot, Live
<1>15. Quashed(t)  BY <1>6 DEF Quashed
<1> QED BY <1>1, <1>5, <1>6, <1>11, <1>13, <1>14, <1>15 DEF PipeInv, t

IcFaulted(s) ==
  AbortFrom([s EXCEPT !.icrf = Fetched(s, Nop), !.fetched = s.fetched + 1], "ic")

LEMMA IcFaults ==
  ASSUME NEW s, NEW m, NEW cp0, NEW late, PipeInv(s, m, cp0, late), AbortedFetch(s),
         s.pending = <<>>, ~s.icrf.occupied
  PROVE  LET t == IcFaulted(s) IN
           /\ PipeInv(t, m, cp0, late) /\ SlotThere(t) /\ Quashed(t)
           /\ t.retired = s.retired /\ t.exdc = s.exdc
<1> DEFINE t == IcFaulted(s)  h == Fetched(s, Nop)  g == Aborted(h)  l == s.rfex
           slot == l.occupied /\ HasDelaySlot(l)
           f == [s EXCEPT !.icrf = h, !.fetched = s.fetched + 1]
<1>1. /\ s \in Pipe /\ m \in Machine /\ cp0 \in Nat /\ late \in BOOLEAN
      /\ Chronology(s, m.epoch, cp0) /\ s.fetched \in Nat /\ s.nextPc \in Int
      /\ s.epoch \in Nat /\ m.epoch \in Nat
  BY PipeIs DEF PipeInv, Machine
<1>2. /\ h \in Latch /\ h.occupied
      /\ h.seq = s.fetched + 1 /\ h.epoch = s.epoch
      /\ h.pc = s.nextPc /\ h.slot = slot /\ h.op = "alu"
  <2>1. Nop \in [op : Op, src : {0, 1}, dst : {0, 1}] /\ Nop.op = "alu"  BY DEF Nop, Op
  <2> QED BY <1>1, <2>1, FetchedIs
<1>3. t = AbortFrom(f, "ic")  BY DEF IcFaulted
<1>4. s.rfex \in Latch /\ s.exdc \in Latch /\ s.dcwb \in Latch  BY <1>1, PipeIs
<1> HIDE DEF t, h, l, slot
<1>5. /\ f \in Pipe /\ f.icrf = h /\ f.rfex = l /\ f.dcwb = s.dcwb /\ f.exdc = s.exdc
      /\ f.nextPc = s.nextPc /\ f.exl = s.exl /\ f.epc = s.epc /\ f.bd = s.bd
      /\ f.ll = s.ll /\ f.reg = s.reg /\ f.fetched = s.fetched + 1 /\ f.epoch = s.epoch
      /\ f.pending = <<>> /\ f.retired = s.retired
  <2> DEFINE u == [s EXCEPT !.icrf = h]
  <2>1. s.fetched + 1 \in Nat  BY <1>1
  <2>2. u \in Pipe  BY <1>1, <1>2 DEF Pipe
  <2>3. f = [u EXCEPT !.fetched = s.fetched + 1]  OBVIOUS
  <2>4. f \in Pipe
    <3> HIDE DEF u, f
    <3> QED BY <2>1, <2>2, <2>3 DEF Pipe
  <2> QED BY <1>1, <2>4 DEF Pipe, l
<1> HIDE DEF f
<1>6. /\ t \in Pipe /\ t.icrf = g /\ t.rfex = l /\ t.dcwb = s.dcwb /\ t.exdc = s.exdc
      /\ t.exl = s.exl /\ t.epc = s.epc /\ t.bd = s.bd
      /\ t.ll = s.ll /\ t.reg = s.reg /\ t.fetched = s.fetched + 1 /\ t.epoch = s.epoch
      /\ t.pending # <<>> /\ t.flush /\ t.retired = s.retired
      /\ t.pending[1].pc = h.pc /\ t.pending[1].slot = h.slot /\ t.pending[1].seq = h.seq
  BY <1>3, <1>5, AbortIs DEF Source
<1>7. /\ g \in Latch /\ ~Live(g) /\ g.abort /\ g.occupied /\ g.seq = s.fetched + 1
      /\ g.epoch = s.epoch /\ g.op = "alu" /\ g.slot = slot
  BY <1>2, LatchIs
<1> HIDE DEF g
<1> DEFINE A == AtExdc(s, m)  B == AtRfex(s, m)  C == AtIcrf(s, m)
<1>8. /\ AtExdc(t, m) = A
      /\ AtRfex(t, m) = B
      /\ AtIcrf(t, m) = C
      /\ AtFetch(t, m) = C
  <2>1. AtExdc(t, m) = A  BY <1>6 DEF AtExdc
  <2>2. AtRfex(t, m) = B  BY <1>6, <2>1 DEF AtRfex
  <2>3. AtIcrf(t, m) = C  BY <1>6, <2>2 DEF AtIcrf, l
  <2> QED BY <1>6, <1>7, <2>1, <2>2, <2>3 DEF AtFetch, After
<1>9. A \in Machine /\ B \in Machine /\ C \in Machine  BY <1>1, ChainIs
<1> HIDE DEF A, B, C
<1>10. /\ ExlAtExdc(t) = ExlAtExdc(s) /\ ExlAtRfex(t) = ExlAtRfex(s)
       /\ ExlAtIcrf(t) = ExlAtIcrf(s)
       /\ ExlAtFetch(t) <=> ExlAtIcrf(s)
  <2>1. ExlAtExdc(t) = ExlAtExdc(s)  BY <1>6 DEF ExlAtExdc
  <2>2. ExlAtRfex(t) = ExlAtRfex(s)  BY <1>6, <2>1 DEF ExlAtRfex
  <2>3. ExlAtIcrf(t) = ExlAtIcrf(s)  BY <1>6, <2>2 DEF ExlAtIcrf, l
  <2>4. ExlAtFetch(t) <=> ExlAtIcrf(s)  BY <1>6, <1>7, <2>3 DEF ExlAtFetch, ToExecute
  <2> QED BY <2>1, <2>2, <2>3, <2>4
<1>11. Chronology(t, m.epoch, cp0)
  <2>1. ASSUME NEW k \in {s.dcwb, s.exdc, s.rfex}
        PROVE  Before(k, g) /\ Dated(t, m.epoch, cp0, k)
    <3>1. Dated(s, m.epoch, cp0, k)  BY <1>1 DEF Chronology
    <3>2. k.seq \in Nat /\ k.epoch \in Nat  BY <1>4 DEF Latch
    <3> QED BY <1>1, <1>2, <1>6, <1>7, <3>1, <3>2 DEF Dated, Before
  <2>2. InOrder(t)  BY <1>1, <1>6, <2>1 DEF Chronology, InOrder, l
  <2>3. Dated(t, m.epoch, cp0, g)
    <3>1. m.epoch <= s.epoch  BY <1>1 DEF Chronology
    <3> QED BY <1>1, <1>2, <1>6, <1>7, <3>1 DEF Dated
  <2>4. cp0 <= t.fetched  BY <1>1, <1>6 DEF Chronology
  <2>5. t.flush = (t.pending # <<>>)
    <3>1. t.flush \in BOOLEAN  BY <1>6, PipeIs
    <3> QED BY <1>6, <3>1
  <2>6. t.pending[1].seq <= t.fetched  BY <1>1, <1>2, <1>6
  <2> QED BY <1>1, <1>6, <2>1, <2>2, <2>3, <2>4, <2>5, <2>6 DEF Chronology, l
<1>12. ASSUME Timely(t, cp0, late) PROVE Sound(t, m, cp0)
  <2>1. Timely(s, cp0, late)  BY <1>12 DEF Timely
  <2>2. Sound(s, m, cp0)  BY <2>1 DEF PipeInv
  <2>3. /\ Settled(m) /\ (~m.nested => s.reg = m.reg) /\ Linked(s, A)
        /\ Reached(s, m, FALSE, cp0, s.dcwb) /\ Accessed(m, s.dcwb)
        /\ Reached(s, A, ExlAtExdc(s), cp0, s.exdc) /\ Executed(A, s.exdc)
        /\ Reached(s, B, ExlAtRfex(s), cp0, l) /\ Unwritten(l)
    BY <2>2 DEF Sound, l, A, B
  <2>4. ASSUME ~C.nested
        PROVE  /\ slot <=> Live(l) /\ HasDelaySlot(l)
               /\ s.epoch # C.epoch /\ ~ExlAtIcrf(s) => s.exl /\ s.epc = Resume(C, s.bd)
               /\ s.epoch = C.epoch =>
                    /\ s.epc = C.epc
                    /\ ~ExlAtIcrf(s) => s.exl = C.exl
                    /\ slot => s.nextPc = l.pc + 1 /\ C.branch = l.pc
                    /\ ~slot /\ ~(Live(l) /\ l.op = "eret") => s.nextPc = C.pc
    BY <1>1, <2>2, <2>4, ToFetch DEF C, l, slot
  <2>5. Linked(t, A)  BY <1>6, <2>3 DEF Linked
  <2>6. Reached(t, m, FALSE, cp0, t.dcwb) /\ Accessed(m, t.dcwb)  BY <1>6, <2>3 DEF Reached
  <2>7. Reached(t, A, ExlAtExdc(t), cp0, t.exdc) /\ Executed(A, t.exdc)
    BY <1>6, <1>10, <2>3 DEF Reached
  <2>8. Reached(t, B, ExlAtRfex(t), cp0, t.rfex) /\ Unwritten(t.rfex)
    BY <1>6, <1>10, <2>3 DEF Reached
  <2>9. Reached(t, C, ExlAtIcrf(t), cp0, t.icrf) /\ Unwritten(t.icrf)
    BY <1>6, <1>7 DEF Reached, Unwritten
  <2>10. Branching(t, C)  BY <1>6, <1>7, <2>4 DEF Branching
  <2>11. Fetching(t, C, ExlAtFetch(t))  BY <1>6 DEF Fetching
  \* The exception of the fetch resumes where it happened.
  <2>12. Dispatching(t, C, ExlAtFetch(t))
    <3>1. SUFFICES ASSUME ~C.nested, ~ExlAtIcrf(s)
                   PROVE  IF s.exl THEN s.epc = Resume(C, s.bd)
                          ELSE (IF slot THEN s.nextPc - 1 ELSE s.nextPc) = Resume(C, slot)
      BY <1>2, <1>6, <1>10 DEF Dispatching
    <3>2. ~(Live(l) /\ l.op = "eret")  BY <3>1 DEF ExlAtIcrf, ToExecute, l
    <3>3. CASE s.epoch # C.epoch  BY <2>4, <3>1, <3>3
    <3>4. CASE s.epoch = C.epoch
      <4>1. s.epc = C.epc /\ s.exl = C.exl /\ C.exl \in BOOLEAN  BY <1>9, <2>4, <3>1, <3>4 DEF Machine
      <4>2. CASE C.exl  BY <4>1, <4>2 DEF Resume
      <4>3. CASE ~C.exl /\ slot
        <5>1. s.nextPc = l.pc + 1 /\ C.branch = l.pc /\ l.pc \in Int
          BY <1>4, <2>4, <3>1, <3>4, <4>3 DEF l, Latch
        <5> QED BY <4>1, <4>3, <5>1 DEF Resume
      <4>4. CASE ~C.exl /\ ~slot  BY <2>4, <3>1, <3>2, <3>4, <4>1, <4>4 DEF Resume
      <4> QED BY <4>2, <4>3, <4>4
    <3> QED BY <3>3, <3>4
  <2>13. Masked(t, t.exdc) /\ Masked(t, t.rfex) /\ Masked(t, t.icrf)  BY <1>6 DEF Masked
  <2> QED BY <1>6, <1>8, <2>3, <2>5, <2>6, <2>7, <2>8, <2>9, <2>10, <2>11, <2>12, <2>13 DEF Sound
<1>13. SlotThere(t)
  <2>1. Live(l) /\ HasDelaySlot(l) => slot  BY DEF slot, Live
  <2> QED BY <1>6, <1>7, <2>1 DEF SlotThere
<1>14. Quashed(t)  BY <1>6, <1>7 DEF Quashed
<1> QED BY <1>1, <1>6, <1>11, <1>12, <1>13, <1>14 DEF PipeInv, t

LEMMA IcKeeps ==
  ASSUME NEW s, NEW m, NEW cp0, NEW late, PipeInv(s, m, cp0, late), Flushed(s), AbortedFetch(s),
         ~s.icrf.occupied, NEW i \in [op : Op, src : {0, 1}, dst : {0, 1}], NEW fault \in BOOLEAN
  PROVE  LET t == IcStage(s, i, fault) IN
           /\ PipeInv(t, m, cp0, late) /\ SlotThere(t) /\ Quashed(t)
           /\ t.retired = s.retired /\ t.exdc = s.exdc
<1>1. s.flush = (s.pending # <<>>) /\ s \in Pipe  BY DEF PipeInv, Chronology
<1>2. CASE s.pending # <<>>
  <2>1. IcStage(s, i, fault) = IcFlushed(s)  BY <1>1, <1>2 DEF IcStage, IcFlushed
  <2> QED BY <1>2, <2>1, IcFlushes
<1>3. CASE s.pending = <<>> /\ fault
  <2>1. IcStage(s, i, fault) = IcFaulted(s)  BY <1>1, <1>3 DEF IcStage, IcFaulted
  <2> QED BY <1>3, <2>1, IcFaults
<1>4. CASE s.pending = <<>> /\ ~fault
  <2>1. IcStage(s, i, fault) = IcFetched(s, i)
    <3> DEFINE f == [s EXCEPT !.icrf = Fetched(s, i), !.fetched = s.fetched + 1]
    <3>1. IcStage(s, i, fault) = [f EXCEPT !.nextPc = f.nextPc + 1]  BY <1>1, <1>4 DEF IcStage
    <3>2. f.nextPc = s.nextPc  BY <1>1 DEF Pipe
    <3> QED BY <3>1, <3>2 DEF IcFetched
  <2> QED BY <1>4, <2>1, IcFetches
<1> QED BY <1>2, <1>3, <1>4

-----------------------------------------------------------------------------
(* The dispatch, and the end of the cycle.                                 *)

LEMMA TidyIs ==
  ASSUME NEW l \in Latch
  PROVE  /\ Tidy(l) \in Latch /\ Tidy(l).occupied = l.occupied
         /\ l.occupied => Tidy(l) = l
<1>1. Bubble \in Latch /\ ~Bubble.occupied /\ Bubble.occupied \in BOOLEAN
  <2>1. Bubble \in Latch /\ ~Bubble.occupied  BY LatchIs
  <2> QED BY <2>1 DEF Latch
<1>2. l.occupied \in BOOLEAN  BY DEF Latch
<1> QED BY <1>1, <1>2 DEF Tidy

\* Nothing that is said of the pipeline is about a latch that is not occupied.
LEMMA SameInv ==
  ASSUME NEW s, NEW t \in Pipe, NEW m, NEW cp0, NEW late, PipeInv(s, m, cp0, late),
         t.icrf.occupied = s.icrf.occupied, s.icrf.occupied => t.icrf = s.icrf,
         t.rfex.occupied = s.rfex.occupied, s.rfex.occupied => t.rfex = s.rfex,
         t.exdc.occupied = s.exdc.occupied, s.exdc.occupied => t.exdc = s.exdc,
         t.dcwb.occupied = s.dcwb.occupied, s.dcwb.occupied => t.dcwb = s.dcwb,
         t.nextPc = s.nextPc, t.exl = s.exl, t.epc = s.epc, t.bd = s.bd,
         t.ll = s.ll, t.reg = s.reg, t.fetched = s.fetched, t.epoch = s.epoch,
         t.pending = s.pending, t.flush = s.flush
  PROVE  PipeInv(t, m, cp0, late) /\ (SlotThere(s) => SlotThere(t))
<1>1. /\ s \in Pipe /\ m \in Machine /\ Chronology(s, m.epoch, cp0) /\ cp0 \in Nat
      /\ late \in BOOLEAN
  BY DEF PipeInv
<1>2. /\ Live(t.icrf) <=> Live(s.icrf)
      /\ Live(t.rfex) <=> Live(s.rfex)
      /\ Live(t.exdc) <=> Live(s.exdc)
      /\ Live(t.dcwb) <=> Live(s.dcwb)
  BY DEF Live
<1>3. /\ Live(s.icrf) => t.icrf = s.icrf
      /\ Live(s.rfex) => t.rfex = s.rfex
      /\ Live(s.exdc) => t.exdc = s.exdc
      /\ Live(s.dcwb) => t.dcwb = s.dcwb
  BY DEF Live
<1>4. Chronology(t, m.epoch, cp0)
  <2>1. InOrder(t)  BY <1>1 DEF Chronology, InOrder, Before
  <2>2. /\ Dated(t, m.epoch, cp0, t.dcwb) /\ Dated(t, m.epoch, cp0, t.exdc)
        /\ Dated(t, m.epoch, cp0, t.rfex) /\ Dated(t, m.epoch, cp0, t.icrf)
    BY <1>1 DEF Chronology, Dated
  <2> QED BY <1>1, <1>2, <1>3, <2>1, <2>2 DEF Chronology
<1>5. Squashes(t.rfex) <=> Squashes(s.rfex)  BY <1>2, <1>3 DEF Squashes
<1> DEFINE A == AtExdc(s, m)  B == AtRfex(s, m)  C == AtIcrf(s, m)  F == AtFetch(s, m)
<1>6. /\ AtExdc(t, m) = A /\ AtRfex(t, m) = B /\ AtIcrf(t, m) = C /\ AtFetch(t, m) = F
  <2>1. AtExdc(t, m) = A  BY <1>2, <1>3 DEF AtExdc, After
  <2>2. AtRfex(t, m) = B  BY <1>2, <1>3, <2>1 DEF AtRfex, After
  <2>3. AtIcrf(t, m) = C  BY <1>2, <1>3, <2>2 DEF AtIcrf, After
  <2>4. AtFetch(t, m) = F  BY <1>2, <1>3, <1>5, <2>3 DEF AtFetch, After
  <2> QED BY <2>1, <2>2, <2>3, <2>4
<1>7. /\ ExlAtExdc(t) <=> ExlAtExdc(s)
      /\ ExlAtRfex(t) <=> ExlAtRfex(s)
      /\ ExlAtIcrf(t) <=> ExlAtIcrf(s)
      /\ ExlAtFetch(t) <=> ExlAtFetch(s)
  <2>1. /\ ToWrite(t.dcwb) <=> ToWrite(s.dcwb)
        /\ ToWrite(t.exdc) <=> ToWrite(s.exdc)
        /\ ToExecute(t.rfex) <=> ToExecute(s.rfex)
        /\ ToExecute(t.icrf) <=> ToExecute(s.icrf)
    BY <1>2, <1>3 DEF ToWrite, ToExecute
  <2> QED BY <1>5, <2>1 DEF ExlAtExdc, ExlAtRfex, ExlAtIcrf, ExlAtFetch
<1>8. ASSUME NEW M, NEW a, NEW b, a <=> b, NEW k, NEW l, Live(k) <=> Live(l), Live(l) => k = l,
             Reached(s, M, b, cp0, l)
      PROVE  Reached(t, M, a, cp0, k)
  BY <1>8 DEF Reached
<1> HIDE DEF A, B, C, F
<1>9. ASSUME Timely(t, cp0, late) PROVE Sound(t, m, cp0)
  <2>1. Timely(s, cp0, late)  BY <1>9 DEF Timely
  <2>2. Sound(s, m, cp0)  BY <2>1 DEF PipeInv
  <2>3. /\ Settled(m) /\ (~m.nested => s.reg = m.reg) /\ Linked(s, A)
        /\ Reached(s, m, FALSE, cp0, s.dcwb) /\ Accessed(m, s.dcwb)
        /\ Reached(s, A, ExlAtExdc(s), cp0, s.exdc) /\ Executed(A, s.exdc)
        /\ Reached(s, B, ExlAtRfex(s), cp0, s.rfex) /\ Unwritten(s.rfex)
        /\ (~Squashes(s.rfex) => Reached(s, C, ExlAtIcrf(s), cp0, s.icrf))
        /\ Unwritten(s.icrf) /\ Branching(s, C)
        /\ Fetching(s, F, ExlAtFetch(s)) /\ Dispatching(s, F, ExlAtFetch(s))
        /\ Masked(s, s.exdc) /\ Masked(s, s.rfex) /\ Masked(s, s.icrf)
    BY <2>2 DEF Sound, A, B, C, F
  <2>4. Linked(t, A)
    <3>1. (Live(t.exdc) /\ t.exdc.op = "eret") <=> (Live(s.exdc) /\ s.exdc.op = "eret")
      BY <1>2, <1>3
    <3> QED BY <2>3, <3>1 DEF Linked
  <2>5. Reached(t, m, FALSE, cp0, t.dcwb) /\ Accessed(m, t.dcwb)
    BY <1>2, <1>3, <1>8, <2>3 DEF Accessed
  <2>6. Reached(t, A, ExlAtExdc(t), cp0, t.exdc)  BY <1>2, <1>3, <1>7, <1>8, <2>3
  <2>7. Executed(A, t.exdc)  BY <1>2, <1>3, <2>3 DEF Executed
  <2>8. Reached(t, B, ExlAtRfex(t), cp0, t.rfex)  BY <1>2, <1>3, <1>7, <1>8, <2>3
  <2>9. Unwritten(t.rfex) /\ Unwritten(t.icrf)  BY <1>2, <1>3, <2>3 DEF Unwritten
  <2>10. ~Squashes(t.rfex) => Reached(t, C, ExlAtIcrf(t), cp0, t.icrf)
    BY <1>2, <1>3, <1>5, <1>7, <1>8, <2>3
  <2>11. Branching(t, C)  BY <1>2, <1>3, <2>3 DEF Branching
  <2>12. Fetching(t, F, ExlAtFetch(t))
    <3> DEFINE a == ExlAtFetch(t)  b == ExlAtFetch(s)
    <3>1. a <=> b  BY <1>7
    <3>2. Fetching(s, F, b)  BY <2>3
    <3> HIDE DEF a, b
    <3>3. Fetching(t, F, a)  BY <1>2, <1>3, <3>1, <3>2 DEF Fetching
    <3> QED BY <3>3 DEF a
  <2>13. Dispatching(t, F, ExlAtFetch(t))
    <3> DEFINE a == ExlAtFetch(t)  b == ExlAtFetch(s)
    <3>1. a <=> b  BY <1>7
    <3>2. Dispatching(s, F, b)  BY <2>3
    <3> HIDE DEF a, b
    <3>3. Dispatching(t, F, a)  BY <3>1, <3>2 DEF Dispatching
    <3> QED BY <3>3 DEF a
  <2>14. Masked(t, t.exdc) /\ Masked(t, t.rfex) /\ Masked(t, t.icrf)  BY <2>3 DEF Masked
  <2> QED BY <1>6, <2>3, <2>4, <2>5, <2>6, <2>7, <2>8, <2>9, <2>10, <2>11, <2>12, <2>13, <2>14
          DEF Sound
<1>10. SlotThere(s) => SlotThere(t)  BY <1>2, <1>3 DEF SlotThere
<1> QED BY <1>1, <1>4, <1>9, <1>10 DEF PipeInv

\* The machine knows of no exception that the pipeline does not.
LEMMA ChainEpochs ==
  ASSUME NEW s \in Pipe, NEW m \in Machine, NEW cp0, Chronology(s, m.epoch, cp0)
  PROVE  AtIcrf(s, m).epoch <= s.epoch /\ AtFetch(s, m).epoch <= s.epoch
<1>1. /\ s.icrf \in Latch /\ s.rfex \in Latch /\ s.exdc \in Latch /\ s.dcwb \in Latch
      /\ s.epoch \in Nat
  BY PipeIs
<1>2. /\ m.epoch <= s.epoch
      /\ Live(s.dcwb) => s.dcwb.epoch <= s.epoch
      /\ Live(s.exdc) => s.exdc.epoch <= s.epoch
      /\ Live(s.rfex) => s.rfex.epoch <= s.epoch
      /\ Live(s.icrf) => s.icrf.epoch <= s.epoch
  BY DEF Chronology, Dated, Live
<1>3. AtExdc(s, m).epoch <= s.epoch  BY <1>2, ChainIs
<1>4. AtRfex(s, m).epoch <= s.epoch  BY <1>2, <1>3, ChainIs
<1>5. AtIcrf(s, m).epoch <= s.epoch  BY <1>2, <1>4, ChainIs
<1>6. AtFetch(s, m).epoch <= s.epoch  BY <1>2, <1>5, ChainIs
<1> QED BY <1>5, <1>6

DispatchTaken(s, n) ==
  LET c == s.pending[1]
  IN  [s EXCEPT !.prevRun = TRUE, !.flush = FALSE, !.stall = n, !.pending = <<>>,
                !.epc = IF s.exl THEN s.epc ELSE IF c.slot THEN c.pc - 1 ELSE c.pc,
                !.bd = IF s.exl THEN s.bd ELSE c.slot,
                !.exl = TRUE, !.nextPc = Vector, !.epoch = s.epoch + 1]

LEMMA DispatchKeeps ==
  ASSUME NEW s, NEW m, NEW cp0, NEW late, PipeInv(s, m, cp0, late), SlotThere(s), Quashed(s),
         s.pending # <<>>, NEW n \in Nat
  PROVE  LET t == DispatchTaken(s, n)
             q == s.pending[1].seq
         IN  /\ PipeInv(t, m, Newest(cp0, TRUE, q), Overtaken(late, cp0, TRUE, q))
             /\ SlotThere(t) /\ t.pending = <<>>
<1> DEFINE t == DispatchTaken(s, n)  c == s.pending[1]  q == c.seq
           epc == IF s.exl THEN s.epc ELSE IF c.slot THEN c.pc - 1 ELSE c.pc
           bd == IF s.exl THEN s.bd ELSE c.slot
           now == Newest(cp0, TRUE, q)  over == Overtaken(late, cp0, TRUE, q)
<1>1. /\ s \in Pipe /\ m \in Machine /\ cp0 \in Nat /\ late \in BOOLEAN
      /\ Chronology(s, m.epoch, cp0) /\ m.epoch \in Nat
  BY DEF PipeInv, Machine
<1>2. /\ s.icrf \in Latch /\ s.rfex \in Latch /\ s.exdc \in Latch /\ s.dcwb \in Latch
      /\ s.epc \in Int /\ s.bd \in BOOLEAN /\ s.exl \in BOOLEAN /\ s.epoch \in Nat
      /\ c \in Charge
  BY <1>1, PipeIs
<1>3. c.pc \in Int /\ c.slot \in BOOLEAN /\ q \in Nat  BY <1>2 DEF Charge
<1>4. t = [s EXCEPT !.prevRun = TRUE, !.flush = FALSE, !.stall = n, !.pending = <<>>,
                    !.epc = epc, !.bd = bd, !.exl = TRUE, !.nextPc = Vector,
                    !.epoch = s.epoch + 1]
  BY DEF DispatchTaken
<1>5. epc \in Int /\ bd \in BOOLEAN  BY <1>2, <1>3
<1>6. /\ now \in Nat /\ over \in BOOLEAN /\ q <= now
      /\ ~over => ~late /\ cp0 <= q /\ now = q
      /\ cp0 <= now
  BY <1>1, <1>3 DEF Newest, Overtaken
<1> HIDE DEF t, c, q, epc, bd, now, over
<1>7. t \in Pipe
  <2> DEFINE u == [s EXCEPT !.prevRun = TRUE, !.flush = FALSE, !.stall = n, !.pending = <<>>]
             v == [u EXCEPT !.epc = epc, !.bd = bd, !.exl = TRUE]
  <2>1. u \in Pipe  BY <1>1 DEF Pipe
  <2> HIDE DEF u
  <2>2. v \in Pipe  BY <1>5, <2>1 DEF Pipe
  <2>3. t = [v EXCEPT !.nextPc = Vector, !.epoch = s.epoch + 1]  BY <1>4 DEF u
  <2>4. Vector \in Int /\ s.epoch + 1 \in Nat  BY <1>2 DEF Vector
  <2> HIDE DEF v
  <2> QED BY <2>2, <2>3, <2>4 DEF Pipe
<1>8. /\ t.icrf = s.icrf /\ t.rfex = s.rfex /\ t.exdc = s.exdc /\ t.dcwb = s.dcwb
      /\ t.pending = <<>> /\ ~t.flush /\ t.flush = FALSE
      /\ t.epc = epc /\ t.bd = bd /\ t.exl /\ t.nextPc = Vector /\ t.epoch = s.epoch + 1
      /\ t.ll = s.ll /\ t.reg = s.reg /\ t.fetched = s.fetched
  BY <1>1, <1>4 DEF Pipe
<1>9. Chronology(t, m.epoch, now)
  <2>1. InOrder(t)  BY <1>1, <1>8 DEF Chronology, InOrder
  <2>2. ASSUME NEW l \in {s.dcwb, s.exdc, s.rfex, s.icrf}
        PROVE  Dated(t, m.epoch, now, l)
    <3>1. Dated(s, m.epoch, cp0, l)  BY <1>1 DEF Chronology
    <3>2. l.seq \in Nat /\ l.epoch \in Nat  BY <1>2 DEF Latch
    <3>3. l.occupied /\ ~l.abort => l.seq < now
      BY <1>3, <1>6, <3>1, <3>2 DEF Dated, q, c
    <3> QED BY <1>1, <1>2, <1>8, <3>1, <3>2, <3>3 DEF Dated
  <2>3. m.epoch <= t.epoch  BY <1>1, <1>2, <1>8 DEF Chronology
  <2>4. now <= t.fetched
    <3>1. q <= s.fetched /\ cp0 <= s.fetched  BY <1>1 DEF Chronology, q, c
    <3> QED BY <1>8, <3>1 DEF now, Newest
  <2>5. Live(t.exdc) /\ t.exdc.op = "eret" => t.exdc.seq <= now
    <3>1. Live(s.exdc) /\ s.exdc.op = "eret" => s.exdc.seq <= cp0  BY <1>1 DEF Chronology
    <3>2. s.exdc.seq \in Nat  BY <1>2 DEF Latch
    <3> QED BY <1>1, <1>6, <1>8, <3>1, <3>2
  <2>6. t.icrf.occupied /\ t.icrf.abort => t.icrf.op = "alu"  BY <1>8 DEF Quashed
  <2> QED BY <1>8, <2>1, <2>2, <2>3, <2>4, <2>5, <2>6 DEF Chronology
<1> DEFINE A == AtExdc(s, m)  B == AtRfex(s, m)  C == AtIcrf(s, m)  F == AtFetch(s, m)
<1>10. /\ AtExdc(t, m) = A /\ AtRfex(t, m) = B /\ AtIcrf(t, m) = C /\ AtFetch(t, m) = F
  <2>1. AtExdc(t, m) = A  BY <1>8 DEF AtExdc
  <2>2. AtRfex(t, m) = B  BY <1>8, <2>1 DEF AtRfex
  <2>3. AtIcrf(t, m) = C  BY <1>8, <2>2 DEF AtIcrf
  <2> QED BY <1>8, <2>1, <2>2, <2>3 DEF AtFetch
<1>11. /\ ExlAtExdc(t) = ExlAtExdc(s) /\ ExlAtRfex(t) = ExlAtRfex(s)
       /\ ExlAtIcrf(t) = ExlAtIcrf(s) /\ ExlAtFetch(t) = ExlAtFetch(s)
  <2>1. ExlAtExdc(t) = ExlAtExdc(s)  BY <1>8 DEF ExlAtExdc
  <2>2. ExlAtRfex(t) = ExlAtRfex(s)  BY <1>8, <2>1 DEF ExlAtRfex
  <2>3. ExlAtIcrf(t) = ExlAtIcrf(s)  BY <1>8, <2>2 DEF ExlAtIcrf
  <2> QED BY <1>8, <2>1, <2>2, <2>3 DEF ExlAtFetch
<1>12. t.epoch # C.epoch /\ t.epoch # F.epoch
  <2>1. C.epoch \in Nat /\ F.epoch \in Nat  BY <1>1, ChainIs DEF Machine
  <2>2. C.epoch <= s.epoch /\ F.epoch <= s.epoch  BY <1>1, ChainEpochs
  <2> HIDE DEF C, F
  <2> QED BY <1>2, <1>8, <2>1, <2>2
<1> HIDE DEF A, B, C, F
\* Whatever is alive is older than the exception.
<1>13. ASSUME NEW l \in {s.dcwb, s.exdc, s.rfex, s.icrf}, Live(l), ~over
       PROVE  ~(l.seq >= now)
  <2>1. Dated(s, m.epoch, cp0, l)  BY <1>1 DEF Chronology
  <2>2. l.seq \in Nat /\ l.occupied /\ ~l.abort  BY <1>2, <1>13 DEF Latch, Live
  <2>3. l.seq < q  BY <2>1, <2>2 DEF Dated, q, c
  <2> QED BY <1>3, <1>6, <1>13, <2>2, <2>3
<1>14. ASSUME NEW l \in {s.dcwb, s.exdc, s.rfex, s.icrf}, NEW M, NEW exl, ~over,
              Reached(s, M, exl, cp0, l)
       PROVE  Reached(t, M, exl, now, l)
  BY <1>13, <1>14 DEF Reached
<1>15. ASSUME Timely(t, now, over) PROVE Sound(t, m, now)
  <2>1. ~over  BY <1>15 DEF Timely
  <2>2. Timely(s, cp0, late)  BY <1>1, <1>3, <1>6, <2>1 DEF Timely, q, c
  <2>3. Sound(s, m, cp0)  BY <2>2 DEF PipeInv
  <2>4. /\ Settled(m) /\ (~m.nested => s.reg = m.reg) /\ Linked(s, A)
        /\ Reached(s, m, FALSE, cp0, s.dcwb) /\ Accessed(m, s.dcwb)
        /\ Reached(s, A, ExlAtExdc(s), cp0, s.exdc) /\ Executed(A, s.exdc)
        /\ Reached(s, B, ExlAtRfex(s), cp0, s.rfex) /\ Unwritten(s.rfex)
        /\ (~Squashes(s.rfex) => Reached(s, C, ExlAtIcrf(s), cp0, s.icrf))
        /\ Unwritten(s.icrf) /\ Dispatching(s, F, ExlAtFetch(s))
    BY <2>3 DEF Sound, A, B, C, F
  <2>5. Linked(t, A)  BY <1>8, <2>4 DEF Linked
  <2>6. /\ Reached(t, m, FALSE, now, t.dcwb)
        /\ Reached(t, A, ExlAtExdc(t), now, t.exdc)
        /\ Reached(t, B, ExlAtRfex(t), now, t.rfex)
        /\ ~Squashes(t.rfex) => Reached(t, C, ExlAtIcrf(t), now, t.icrf)
    BY <1>8, <1>11, <1>14, <2>1, <2>4
  <2>7. Branching(t, C)
    <3>1. SUFFICES ASSUME Live(s.rfex), HasDelaySlot(s.rfex)
                   PROVE  s.icrf.occupied /\ s.icrf.slot /\ s.icrf.abort
      BY <1>8, <1>12 DEF Branching
    <3> QED BY <3>1 DEF SlotThere, Quashed
  <2>8. Fetching(t, F, ExlAtFetch(t))
    <3>1. ~Live(s.icrf) /\ (Live(s.rfex) => s.icrf.occupied)  BY DEF Quashed, Live
    <3>2. ASSUME ~F.nested, ~ExlAtFetch(s) PROVE epc = Resume(F, bd)
      <4>1. IF s.exl THEN s.epc = Resume(F, s.bd)
            ELSE (IF c.slot THEN c.pc - 1 ELSE c.pc) = Resume(F, c.slot)
        BY <2>4, <3>2 DEF Dispatching, c
      <4> QED BY <4>1 DEF epc, bd
    <3> QED BY <1>8, <1>11, <1>12, <3>1, <3>2 DEF Fetching
  <2>9. Dispatching(t, F, ExlAtFetch(t))  BY <1>8 DEF Dispatching
  <2>10. Masked(t, t.exdc) /\ Masked(t, t.rfex) /\ Masked(t, t.icrf)  BY <1>8 DEF Masked
  <2> QED BY <1>8, <1>10, <2>4, <2>5, <2>6, <2>7, <2>8, <2>9, <2>10 DEF Sound
<1>16. SlotThere(t)  BY <1>8 DEF SlotThere
<1> QED BY <1>1, <1>6, <1>7, <1>8, <1>9, <1>15, <1>16 DEF PipeInv, t, now, over, q, c

Ended(s) ==
  LET q == Dispatch([s EXCEPT !.prevRun = TRUE, !.flush = FALSE])
  IN  [q EXCEPT !.retired = <<>>, !.pending = <<>>, !.icrf = Tidy(q.icrf), !.rfex = Tidy(q.rfex),
                !.exdc = Tidy(q.exdc), !.dcwb = Tidy(q.dcwb)]

\* What only the observer writes of the machine has no part in the invariant.
SameMachine(m, k) ==
  /\ k.pc = m.pc /\ k.npc = m.npc /\ k.slot = m.slot /\ k.branch = m.branch /\ k.reg = m.reg
  /\ k.ll = m.ll /\ k.exl = m.exl /\ k.epc = m.epc /\ k.epoch = m.epoch /\ k.nested = m.nested

LEMMA SameEntered ==
  ASSUME NEW m \in Machine, NEW k \in Machine, SameMachine(m, k), NEW l \in Latch
  PROVE  SameMachine(Entered(m, l), Entered(k, l))
<1>1. CASE l.epoch = m.epoch
  <2>1. Entered(m, l) = m /\ Entered(k, l) = k  BY <1>1 DEF Entered, SameMachine
  <2> QED BY <2>1
<1>2. CASE l.epoch # m.epoch
  <2>1. l.epoch # k.epoch  BY <1>2 DEF SameMachine
  <2> DEFINE e == Entered(m, l)  d == Entered(k, l)
  <2>2. /\ e.pc = Vector /\ e.npc = Vector + 1 /\ e.slot = FALSE /\ e.branch = m.branch
        /\ e.reg = m.reg /\ e.ll = m.ll /\ e.exl = TRUE /\ e.epc = l.epc /\ e.epoch = l.epoch
        /\ e.nested = m.nested
    BY <1>2 DEF Entered, Machine
  <2>3. /\ d.pc = Vector /\ d.npc = Vector + 1 /\ d.slot = FALSE /\ d.branch = k.branch
        /\ d.reg = k.reg /\ d.ll = k.ll /\ d.exl = TRUE /\ d.epc = l.epc /\ d.epoch = l.epoch
        /\ d.nested = k.nested
    BY <2>1 DEF Entered, Machine
  <2> HIDE DEF e, d
  <2>4. SameMachine(e, d)  BY <2>2, <2>3 DEF SameMachine
  <2> QED BY <2>4 DEF e, d
<1> QED BY <1>1, <1>2

LEMMA SameResult ==
  ASSUME NEW m, NEW k, SameMachine(m, k), NEW l
  PROVE  /\ Follow(m, l) = Follow(k, l)
         /\ Writes(l) => Result(m, l) = Result(k, l)
BY DEF SameMachine, Follow, Result, Writes

LEMMA SameAfter ==
  ASSUME NEW m \in Machine, NEW k \in Machine, SameMachine(m, k), NEW l \in Latch
  PROVE  /\ After(m, l) \in Machine /\ After(k, l) \in Machine
         /\ SameMachine(After(m, l), After(k, l))
<1> DEFINE e == Entered(m, l)  d == Entered(k, l)  r == Retire(m, l)  q == Retire(k, l)
<1>1. e \in Machine /\ d \in Machine /\ SameMachine(e, d)  BY EnteredIs, SameEntered
<1>3. /\ Follow(e, l) = Follow(d, l)
      /\ Writes(l) => Result(e, l) = Result(d, l)
  BY <1>1, SameResult
<1>4. /\ r.pc = Follow(e, l)[1] /\ r.npc = Follow(e, l)[2]
      /\ r.slot = (HasDelaySlot(l) /\ l.op # "likely")
      /\ r.branch = (IF HasDelaySlot(l) THEN l.pc ELSE 99)
      /\ r.reg = (IF Writes(l) THEN Result(e, l) ELSE e.reg)
      /\ r.ll = ((e.ll \/ l.op = "ll") /\ l.op # "eret")
      /\ r.nested = (e.nested \/ Nested(l))
      /\ r.exl = (e.exl /\ l.op \notin {"eret", "mtc0"})
      /\ r.epc = e.epc /\ r.epoch = e.epoch
  <2> HIDE DEF e
  <2>1. r = [e EXCEPT !.pc = Follow(e, l)[1], !.npc = Follow(e, l)[2],
                  !.slot = HasDelaySlot(l) /\ l.op # "likely",
                  !.branch = IF HasDelaySlot(l) THEN l.pc ELSE 99,
                  !.reg = IF Writes(l) THEN Result(e, l) ELSE e.reg,
                  !.ll = (e.ll \/ l.op = "ll") /\ l.op # "eret",
                  !.nested = e.nested \/ Nested(l),
                  !.exl = e.exl /\ l.op \notin {"eret", "mtc0"}]
    BY Zenon DEF Retire, e
  <2> HIDE DEF r
  <2> QED BY <1>1, <2>1 DEF Machine
<1>5. /\ q.pc = Follow(d, l)[1] /\ q.npc = Follow(d, l)[2]
      /\ q.slot = (HasDelaySlot(l) /\ l.op # "likely")
      /\ q.branch = (IF HasDelaySlot(l) THEN l.pc ELSE 99)
      /\ q.reg = (IF Writes(l) THEN Result(d, l) ELSE d.reg)
      /\ q.ll = ((d.ll \/ l.op = "ll") /\ l.op # "eret")
      /\ q.nested = (d.nested \/ Nested(l))
      /\ q.exl = (d.exl /\ l.op \notin {"eret", "mtc0"})
      /\ q.epc = d.epc /\ q.epoch = d.epoch
  <2> HIDE DEF d
  <2>1. q = [d EXCEPT !.pc = Follow(d, l)[1], !.npc = Follow(d, l)[2],
                  !.slot = HasDelaySlot(l) /\ l.op # "likely",
                  !.branch = IF HasDelaySlot(l) THEN l.pc ELSE 99,
                  !.reg = IF Writes(l) THEN Result(d, l) ELSE d.reg,
                  !.ll = (d.ll \/ l.op = "ll") /\ l.op # "eret",
                  !.nested = d.nested \/ Nested(l),
                  !.exl = d.exl /\ l.op \notin {"eret", "mtc0"}]
    BY Zenon DEF Retire, d
  <2> HIDE DEF q
  <2> QED BY <1>1, <2>1 DEF Machine
<1> HIDE DEF e, d, r, q
<1>6. SameMachine(r, q)
  <2>1. /\ d.reg = e.reg /\ d.ll = e.ll /\ d.nested = e.nested /\ d.exl = e.exl /\ d.epc = e.epc
        /\ d.epoch = e.epoch
    BY <1>1 DEF SameMachine
  <2>2. q.pc = r.pc /\ q.npc = r.npc  BY <1>3, <1>4, <1>5
  <2>3. q.slot = r.slot /\ q.branch = r.branch  BY <1>4, <1>5
  <2>4. q.reg = r.reg  BY <1>3, <1>4, <1>5, <2>1
  <2>5. q.ll = r.ll /\ q.nested = r.nested /\ q.exl = r.exl  BY <1>4, <1>5, <2>1
  <2>6. q.epc = r.epc /\ q.epoch = r.epoch  BY <1>4, <1>5, <2>1
  <2> QED BY <2>2, <2>3, <2>4, <2>5, <2>6 DEF SameMachine
<1>7. After(m, l) \in Machine /\ After(k, l) \in Machine  BY AfterIs
<1> QED BY <1>6, <1>7 DEF After, r, q

LEMMA SameChain ==
  ASSUME NEW s \in Pipe, NEW m \in Machine, NEW k \in Machine, SameMachine(m, k)
  PROVE  /\ SameMachine(AtExdc(s, m), AtExdc(s, k))
         /\ SameMachine(AtRfex(s, m), AtRfex(s, k))
         /\ SameMachine(AtIcrf(s, m), AtIcrf(s, k))
         /\ SameMachine(AtFetch(s, m), AtFetch(s, k))
<1>1. s.icrf \in Latch /\ s.rfex \in Latch /\ s.exdc \in Latch /\ s.dcwb \in Latch  BY PipeIs
<1>2. AtExdc(s, m) \in Machine /\ AtExdc(s, k) \in Machine /\ SameMachine(AtExdc(s, m), AtExdc(s, k))
  BY <1>1, SameAfter DEF AtExdc
<1>3. AtRfex(s, m) \in Machine /\ AtRfex(s, k) \in Machine /\ SameMachine(AtRfex(s, m), AtRfex(s, k))
  BY <1>1, <1>2, SameAfter DEF AtRfex
<1>4. AtIcrf(s, m) \in Machine /\ AtIcrf(s, k) \in Machine /\ SameMachine(AtIcrf(s, m), AtIcrf(s, k))
  BY <1>1, <1>3, SameAfter DEF AtIcrf
<1>5. SameMachine(AtFetch(s, m), AtFetch(s, k))
  BY <1>1, <1>4, SameAfter DEF AtFetch
<1> QED BY <1>2, <1>3, <1>4, <1>5

-----------------------------------------------------------------------------
(* Stalls and fetches, stage by stage.                                     *)

SameCount(s, t) == t.fetched = s.fetched /\ t.stall \in {s.stall, 1, 2}

LEMMA StallForIs ==
  ASSUME NEW s \in Pipe, NEW n \in 0 .. 2
  PROVE  SameCount(s, StallFor(s, n))
<1>1. CASE n = 0  BY <1>1 DEF StallFor, SameCount
<1>2. CASE n # 0
  <2>1. StallFor(s, n) = [s EXCEPT !.stall = n]  BY <1>2 DEF StallFor
  <2>2. n \in {1, 2}  BY <1>2
  <2> QED BY <2>1, <2>2 DEF SameCount, Pipe
<1> QED BY <1>1, <1>2

LEMMA WbCounts ==
  ASSUME NEW s \in Pipe, NEW trap
  PROVE  SameCount(s, WbStage(s, trap))
<1> DEFINE l == s.dcwb  done == [s EXCEPT !.dcwb.occupied = FALSE]
           a == AbortFrom(s, "wb")
<1>1. done.fetched = s.fetched /\ done.stall = s.stall  BY DEF Pipe
<1>2. CASE ~Live(l)  BY <1>1, <1>2 DEF WbStage, SameCount
<1>3. CASE Live(l) /\ l.op = "fp" /\ trap
  <2>1. a \in Pipe /\ a.fetched = s.fetched /\ a.stall = s.stall  BY AbortIs
  <2>2. WbStage(s, trap) = [a EXCEPT !.dcwb.occupied = FALSE]  BY <1>3 DEF WbStage
  <2> HIDE DEF a
  <2> QED BY <2>1, <2>2 DEF SameCount, Pipe
<1>4. CASE Live(l) /\ ~(l.op = "fp" /\ trap)
  BY <1>4 DEF WbStage, SameCount, Pipe
<1> QED BY <1>2, <1>3, <1>4

LEMMA DcCounts ==
  ASSUME NEW s \in Pipe, NEW irq, NEW fault, NEW miss
  PROVE  SameCount(s, DcStage(s, irq, fault, miss))
<1> DEFINE taken == irq /\ s.prevRun /\ ~s.exl /\ InterruptChargeable(s)
           a == AbortFrom(s, "dc")
           s1 == IF taken THEN a ELSE s
           l == s1.exdc
           b == AbortFrom(s1, "dc")
           x == Access(s1, fault, miss)
           t == DcStage(s, irq, fault, miss)
<1>1. a \in Pipe /\ a.fetched = s.fetched /\ a.stall = s.stall  BY AbortIs
<1>2. s1 \in Pipe /\ s1.fetched = s.fetched /\ s1.stall = s.stall  BY <1>1
<1>3. t = [x EXCEPT !.exdc.occupied = FALSE]  BY DEF DcStage
<1> HIDE DEF s1, t
<1> SUFFICES SameCount(s, t)  BY DEF t
<1>4. b \in Pipe /\ b.fetched = s1.fetched /\ b.stall = s1.stall  BY <1>2, AbortIs
<1> HIDE DEF b
<1>5. CASE ~(Live(l) /\ Accesses(l))
  <2>1. x = [s1 EXCEPT !.dcwb = l]  BY <1>5 DEF Access
  <2> HIDE DEF x, l
  <2> QED BY <1>2, <1>3, <2>1 DEF SameCount, Pipe
<1>6. CASE Live(l) /\ Accesses(l) /\ fault
  <2>1. x = [b EXCEPT !.dcwb = b.exdc]  BY <1>6 DEF Access, b
  <2> HIDE DEF x, l
  <2> QED BY <1>2, <1>3, <1>4, <2>1 DEF SameCount, Pipe
<1>7. CASE Live(l) /\ Accesses(l) /\ ~fault
  <2> DEFINE k == IF l.op = "store" THEN l
                  ELSE [l EXCEPT !.write = l.dst,
                                 !.value = IF l.op = "sc" THEN Flag(s1.ll) ELSE l.seq]
             w == [s1 EXCEPT !.dcwb = k, !.ll = @ \/ l.op = "ll"]
             n == IF miss THEN 1 ELSE 0
  <2>1. x = StallFor(w, n)  BY <1>7 DEF Access
  <2> HIDE DEF x, k, l
  <2>2. w.fetched = s.fetched /\ w.stall = s.stall  BY <1>2 DEF Pipe
  <2>3. t.fetched = w.fetched /\ t.stall \in {w.stall, 1}
    <3>1. CASE miss
      <4>1. x = [w EXCEPT !.stall = 1]  BY <2>1, <3>1 DEF StallFor
      <4> QED BY <1>2, <1>3, <4>1 DEF Pipe
    <3>2. CASE ~miss
      <4>1. x = w  BY <2>1, <3>2 DEF StallFor
      <4> QED BY <1>2, <1>3, <4>1 DEF Pipe
    <3> QED BY <3>1, <3>2
  <2> QED BY <2>2, <2>3 DEF SameCount
<1> QED BY <1>5, <1>6, <1>7

LEMMA ExCounts ==
  ASSUME NEW s \in Pipe
  PROVE  SameCount(s, ExStage(s))
<1> DEFINE l == s.rfex  k == [l EXCEPT !.rs = BypassValue(s, l.src)]
           a == AbortFrom(s, "ex")
           x == Execute(s, k)
           t == ExStage(s)
<1>1. a \in Pipe /\ a.fetched = s.fetched /\ a.stall = s.stall  BY AbortIs
<1>2. CASE ~Live(l)
  <2>1. t = [[s EXCEPT !.exdc = l] EXCEPT !.rfex.occupied = FALSE]  BY <1>2 DEF ExStage
  <2> QED BY <2>1 DEF SameCount, Pipe
<1>3. CASE Live(l)
  <2>1. t = [x EXCEPT !.rfex.occupied = FALSE]  BY <1>3 DEF ExStage
  <2> HIDE DEF a, k, t
  <2>2. CASE k.op = "syscall"
    <3>1. x = [a EXCEPT !.exdc = a.rfex]  BY <2>2 DEF Execute, HasDelaySlot, a
    <3> HIDE DEF x
    <3> QED BY <1>1, <2>1, <3>1 DEF SameCount, Pipe, t
  <2>3. CASE k.op = "eret"
    <3>1. x = Eret(s, k)  BY <2>3 DEF Execute, HasDelaySlot
    <3> HIDE DEF x
    <3> QED BY <2>1, <3>1 DEF Eret, SameCount, Pipe, t
  <2>4. CASE HasDelaySlot(k)
    <3>1. x = ResolveBranch(s, k)  BY <2>4 DEF Execute, HasDelaySlot
    <3>2. x.fetched = s.fetched /\ x.stall = s.stall /\ t.fetched = x.fetched /\ t.stall = x.stall
      <4> DEFINE r == ResolveBranch(s, k)
                 lk == IF k.op = "jal"
                       THEN [k EXCEPT !.write = k.dst,
                                      !.value = Link(IF DelaySlotFaulted(s, k) THEN k.pc + 2
                                                     ELSE s.nextPc)]
                       ELSE k
      <4>1. r = [s EXCEPT !.exdc = lk,
                  !.nextPc = IF DelaySlotFaulted(s, k) THEN @
                             ELSE IF k.op \in {"taken", "jal"} THEN Target
                             ELSE IF k.op = "likely" THEN k.pc + 2 ELSE @,
                  !.icrf = IF k.op = "likely" /\ ~DelaySlotFaulted(s, k) THEN Bubble ELSE @]
        BY Zenon DEF ResolveBranch
      <4> HIDE DEF x, lk, r
      <4> QED BY <2>1, <3>1, <4>1 DEF Pipe, r
    <3> QED BY <3>2 DEF SameCount, t
  <2>5. CASE k.op = "alu"
    <3>1. x = [s EXCEPT !.exdc = [k EXCEPT !.write = k.dst, !.value = k.seq]]
      BY <2>5 DEF Execute, HasDelaySlot
    <3> HIDE DEF x
    <3> QED BY <2>1, <3>1 DEF SameCount, Pipe, t
  <2>6. CASE k.op = "mult"
    <3>1. x = [[s EXCEPT !.exdc = k] EXCEPT !.stall = 2]
      BY <2>6 DEF Execute, HasDelaySlot, StallFor
    <3> HIDE DEF x
    <3> QED BY <2>1, <3>1 DEF SameCount, Pipe, t
  <2>7. CASE k.op \notin {"syscall", "eret", "alu", "mult"} /\ ~HasDelaySlot(k)
    <3>1. x = [s EXCEPT !.exdc = k]  BY <2>7 DEF Execute
    <3> HIDE DEF x
    <3> QED BY <2>1, <3>1 DEF SameCount, Pipe, t
  <2> QED BY <2>2, <2>3, <2>4, <2>5, <2>6, <2>7 DEF t
<1> QED BY <1>2, <1>3

LEMMA RfCounts ==
  ASSUME NEW s \in Pipe
  PROVE  SameCount(s, RfStage(s))
<1> DEFINE w == [s EXCEPT !.rfex = s.icrf, !.icrf.occupied = FALSE]
<1>1. w.fetched = s.fetched /\ w.stall = s.stall  BY DEF Pipe
<1>2. RfStage(s) = w \/ RfStage(s) = [w EXCEPT !.stall = 1]  BY DEF RfStage, StallFor
<1> QED BY <1>1, <1>2 DEF SameCount, Pipe

LEMMA IcCounts ==
  ASSUME NEW s \in Pipe, NEW i \in [op : Op, src : {0, 1}, dst : {0, 1}], NEW fault \in BOOLEAN
  PROVE  LET t == IcStage(s, i, fault) IN
           t.stall = s.stall /\ t.fetched \in {s.fetched, s.fetched + 1}
<1> DEFINE j == IF fault THEN Nop ELSE i
           f == [s EXCEPT !.icrf = Fetched(s, j), !.fetched = s.fetched + 1]
           t == IcStage(s, i, fault)
<1>1. CASE s.flush
  <2>1. t = [s EXCEPT !.icrf = Bubble]  BY <1>1 DEF IcStage
  <2> QED BY <2>1 DEF Pipe
<1>2. CASE ~s.flush
  <2>1. j \in [op : Op, src : {0, 1}, dst : {0, 1}]  BY DEF Nop, Op
  <2>2. Fetched(s, j) \in Latch  BY <2>1, FetchedIs
  <2>3. s.fetched + 1 \in Nat  BY PipeIs
  <2>4. t = IF fault THEN AbortFrom(f, "ic") ELSE [f EXCEPT !.nextPc = f.nextPc + 1]
    BY <1>2 DEF IcStage
  <2> HIDE DEF j, t
  <2>5. f \in Pipe /\ f.stall = s.stall /\ f.fetched = s.fetched + 1
    <3> DEFINE u == [s EXCEPT !.icrf = Fetched(s, j)]
    <3>1. u \in Pipe /\ u.stall = s.stall  BY <2>2 DEF Pipe
    <3>2. f = [u EXCEPT !.fetched = s.fetched + 1]  OBVIOUS
    <3> HIDE DEF u, f
    <3> QED BY <2>3, <3>1, <3>2 DEF Pipe
  <2> HIDE DEF f
  <2>6. CASE fault
    <3>1. t = AbortFrom(f, "ic")  BY <2>4, <2>6
    <3>2. t.stall = f.stall /\ t.fetched = f.fetched  BY <2>5, <3>1, AbortIs
    <3> QED BY <2>5, <3>2 DEF t
  <2>7. CASE ~fault
    <3>1. t = [f EXCEPT !.nextPc = f.nextPc + 1]  BY <2>4, <2>7
    <3> QED BY <2>5, <3>1 DEF t, Pipe
  <2> QED BY <2>6, <2>7
<1> QED BY <1>1, <1>2

LEMMA SameSound ==
  ASSUME NEW s, NEW m, NEW k \in Machine, NEW cp0, NEW late, PipeInv(s, m, cp0, late),
         SameMachine(m, k)
  PROVE  PipeInv(s, k, cp0, late)
<1>1. s \in Pipe /\ m \in Machine  BY DEF PipeInv
<1>2. s.icrf \in Latch /\ s.rfex \in Latch /\ s.exdc \in Latch /\ s.dcwb \in Latch
  BY <1>1, PipeIs
<1> DEFINE A == AtExdc(s, m)  B == AtRfex(s, m)  C == AtIcrf(s, m)  F == AtFetch(s, m)
           AA == AtExdc(s, k)  BB == AtRfex(s, k)  CC == AtIcrf(s, k)  FF == AtFetch(s, k)
<1>3. SameMachine(A, AA) /\ SameMachine(B, BB) /\ SameMachine(C, CC) /\ SameMachine(F, FF)
  BY <1>1, SameChain
<1>4. A \in Machine /\ B \in Machine /\ C \in Machine /\ F \in Machine
      /\ AA \in Machine /\ BB \in Machine /\ CC \in Machine /\ FF \in Machine
  BY <1>1, ChainIs
<1> HIDE DEF A, B, C, F, AA, BB, CC, FF
<1>5. ASSUME NEW M \in Machine, NEW K \in Machine, SameMachine(M, K), NEW l \in Latch, NEW exl,
             Reached(s, M, exl, cp0, l)
      PROVE  Reached(s, K, exl, cp0, l)
  <2> DEFINE e == Entered(M, l)  d == Entered(K, l)
  <2>1. SameMachine(e, d)  BY <1>5, SameEntered
  <2> HIDE DEF e, d
  <2>2. Resume(M, l.bd) = Resume(K, l.bd)  BY <1>5 DEF SameMachine, Resume
  <2>3. d.pc = e.pc /\ d.slot = e.slot /\ d.epc = e.epc /\ d.exl = e.exl  BY <2>1 DEF SameMachine
  <2>4. K.nested = M.nested /\ K.epoch = M.epoch  BY <1>5 DEF SameMachine
  <2> QED BY <1>5, <2>2, <2>3, <2>4 DEF Reached, e, d
<1>6. ASSUME NEW M \in Machine, NEW K \in Machine, SameMachine(M, K), NEW l \in Latch
      PROVE  /\ Accessed(M, l) => Accessed(K, l)
             /\ Executed(M, l) => Executed(K, l)
  <2>1. K.nested = M.nested /\ K.reg = M.reg  BY <1>6 DEF SameMachine
  <2>2. Operand(M, l) = Operand(K, l)  BY <2>1 DEF Operand
  <2>3. Writes(l) => Result(Entered(M, l), l) = Result(Entered(K, l), l)
    BY <1>6, SameEntered, SameResult
  <2>4. Written(M, l) => Written(K, l)  BY <2>3 DEF Written
  <2> QED BY <2>1, <2>2, <2>4 DEF Accessed, Executed
<1>7. Chronology(s, k.epoch, cp0)  BY DEF PipeInv, SameMachine
<1>8. ASSUME Timely(s, cp0, late) PROVE Sound(s, k, cp0)
  <2>1. /\ Settled(m) /\ (~m.nested => s.reg = m.reg) /\ Linked(s, A)
        /\ Reached(s, m, FALSE, cp0, s.dcwb) /\ Accessed(m, s.dcwb)
        /\ Reached(s, A, ExlAtExdc(s), cp0, s.exdc) /\ Executed(A, s.exdc)
        /\ Reached(s, B, ExlAtRfex(s), cp0, s.rfex) /\ Unwritten(s.rfex)
        /\ (~Squashes(s.rfex) => Reached(s, C, ExlAtIcrf(s), cp0, s.icrf))
        /\ Unwritten(s.icrf) /\ Branching(s, C)
        /\ Fetching(s, F, ExlAtFetch(s)) /\ Dispatching(s, F, ExlAtFetch(s))
        /\ Masked(s, s.exdc) /\ Masked(s, s.rfex) /\ Masked(s, s.icrf)
    BY <1>8 DEF PipeInv, Sound, A, B, C, F
  <2>2. Settled(k)  BY <2>1 DEF Settled, SameMachine
  <2>3. ~k.nested => s.reg = k.reg  BY <2>1 DEF SameMachine
  <2>4. Linked(s, AA)  BY <1>3, <2>1 DEF Linked, SameMachine
  <2>5. Reached(s, k, FALSE, cp0, s.dcwb) /\ Accessed(k, s.dcwb)
    BY <1>1, <1>2, <1>5, <1>6, <2>1
  <2>6. Reached(s, AA, ExlAtExdc(s), cp0, s.exdc) /\ Executed(AA, s.exdc)
    BY <1>2, <1>3, <1>4, <1>5, <1>6, <2>1
  <2>7. Reached(s, BB, ExlAtRfex(s), cp0, s.rfex)  BY <1>2, <1>3, <1>4, <1>5, <2>1
  <2>8. ~Squashes(s.rfex) => Reached(s, CC, ExlAtIcrf(s), cp0, s.icrf)
    BY <1>2, <1>3, <1>4, <1>5, <2>1
  <2>9. Branching(s, CC)
    <3>1. CC.nested = C.nested /\ CC.epoch = C.epoch  BY <1>3 DEF SameMachine
    <3> QED BY <2>1, <3>1 DEF Branching
  <2>10. Resume(F, s.bd) = Resume(FF, s.bd)  BY <1>3 DEF SameMachine, Resume
  <2>11. /\ FF.nested = F.nested /\ FF.epoch = F.epoch /\ FF.epc = F.epc /\ FF.exl = F.exl
         /\ FF.pc = F.pc /\ FF.slot = F.slot
    BY <1>3 DEF SameMachine
  <2>12. Fetching(s, FF, ExlAtFetch(s))
    <3> DEFINE exl == ExlAtFetch(s)
    <3>1. Fetching(s, F, exl)  BY <2>1
    <3> HIDE DEF exl
    <3>2. Fetching(s, FF, exl)  BY <2>10, <2>11, <3>1 DEF Fetching
    <3> QED BY <3>2 DEF exl
  <2>13. Dispatching(s, FF, ExlAtFetch(s))
    <3> DEFINE exl == ExlAtFetch(s)
    <3>1. Dispatching(s, F, exl)  BY <2>1
    <3> HIDE DEF exl
    <3>2. \A b : Resume(F, b) = Resume(FF, b)  BY <1>3 DEF SameMachine, Resume
    <3>3. Dispatching(s, FF, exl)  BY <2>11, <3>1, <3>2 DEF Dispatching
    <3> QED BY <3>3 DEF exl
  <2> QED BY <2>1, <2>2, <2>3, <2>4, <2>5, <2>6, <2>7, <2>8, <2>9, <2>12, <2>13
          DEF Sound, AA, BB, CC, FF
<1> QED BY <1>7, <1>8 DEF PipeInv

Closed(s) == Dispatch([s EXCEPT !.prevRun = TRUE, !.flush = FALSE])

LEMMA DispatchIs ==
  ASSUME NEW s \in Pipe
  PROVE  LET q == Closed(s)
             c == s.pending[1]
         IN  /\ q \in Pipe /\ SameCount(s, q)
             /\ ~q.flush /\ q.pending = s.pending /\ q.retired = s.retired
             /\ q.icrf = s.icrf /\ q.rfex = s.rfex /\ q.exdc = s.exdc /\ q.dcwb = s.dcwb
             /\ q.ll = s.ll /\ q.reg = s.reg /\ q.fetched = s.fetched
             /\ s.pending = <<>> => /\ q.nextPc = s.nextPc /\ q.exl = s.exl /\ q.epc = s.epc
                                    /\ q.bd = s.bd /\ q.epoch = s.epoch
             /\ s.pending # <<>> =>
                  /\ q.nextPc = Vector /\ q.exl = TRUE /\ q.epoch = s.epoch + 1
                  /\ q.epc = IF s.exl THEN s.epc ELSE IF c.slot THEN c.pc - 1 ELSE c.pc
                  /\ q.bd = IF s.exl THEN s.bd ELSE c.slot
<1> DEFINE r == [s EXCEPT !.prevRun = TRUE, !.flush = FALSE]
           q == Closed(s)
           c == s.pending[1]
           epc == IF s.exl THEN s.epc ELSE IF c.slot THEN c.pc - 1 ELSE c.pc
           bd == IF s.exl THEN s.bd ELSE c.slot
<1>1. /\ r \in Pipe /\ r.stall = s.stall /\ ~r.flush /\ r.pending = s.pending /\ r.retired = s.retired
      /\ r.icrf = s.icrf /\ r.rfex = s.rfex /\ r.exdc = s.exdc /\ r.dcwb = s.dcwb
      /\ r.ll = s.ll /\ r.reg = s.reg /\ r.fetched = s.fetched
      /\ r.nextPc = s.nextPc /\ r.exl = s.exl /\ r.epc = s.epc
      /\ r.bd = s.bd /\ r.epoch = s.epoch
  BY DEF Pipe
<1>4. q = Dispatch(r)  BY DEF Closed
<1> HIDE DEF r, q
<1>2. CASE s.pending = <<>>
  <2>1. q = r  BY <1>1, <1>2, <1>4 DEF Dispatch
  <2> QED BY <1>1, <1>2, <2>1 DEF q, SameCount
<1>3. CASE s.pending # <<>>
  <2>1. s.epc \in Int /\ s.bd \in BOOLEAN /\ s.exl \in BOOLEAN /\ s.epoch \in Nat /\ c \in Charge
    BY <1>3, PipeIs
  <2>2. epc \in Int /\ bd \in BOOLEAN /\ Vector \in Int /\ s.epoch + 1 \in Nat
    BY <2>1 DEF Charge, Vector
  <2> DEFINE x == [r EXCEPT !.epc = epc, !.bd = bd, !.exl = TRUE]
             y == [x EXCEPT !.nextPc = Vector, !.epoch = s.epoch + 1]
  <2>3. q = [r EXCEPT !.epc = epc, !.bd = bd, !.exl = TRUE, !.nextPc = Vector,
                      !.epoch = s.epoch + 1, !.stall = 2]
    BY <1>1, <1>3, <1>4 DEF Dispatch, StallFor
  <2> HIDE DEF epc, bd
  <2>4. x \in Pipe  BY <1>1, <2>2 DEF Pipe
  <2>5. y \in Pipe
    <3> HIDE DEF x
    <3> QED BY <2>2, <2>4 DEF Pipe
  <2>6. q = [y EXCEPT !.stall = 2]  BY <2>3
  <2>7. q \in Pipe
    <3> HIDE DEF y
    <3> QED BY <2>5, <2>6 DEF Pipe
  <2>8. /\ q.flush = r.flush /\ q.pending = r.pending /\ q.retired = r.retired
        /\ q.icrf = r.icrf /\ q.rfex = r.rfex /\ q.exdc = r.exdc /\ q.dcwb = r.dcwb
        /\ q.ll = r.ll /\ q.reg = r.reg /\ q.fetched = r.fetched /\ q.stall = 2
        /\ q.nextPc = Vector /\ q.exl = TRUE /\ q.epc = epc
        /\ q.bd = bd /\ q.epoch = s.epoch + 1
    BY <1>1, <2>3 DEF Pipe
  <2> QED BY <1>1, <1>3, <2>7, <2>8 DEF q, epc, bd, SameCount
<1> QED BY <1>2, <1>3

LEMMA EndedIs ==
  ASSUME NEW s \in Pipe
  PROVE  LET q == Closed(s)
             t == Ended(s)
         IN  /\ t \in Pipe /\ t.pending = <<>> /\ t.retired = <<>>
             /\ t.icrf = Tidy(s.icrf) /\ t.rfex = Tidy(s.rfex)
             /\ t.exdc = Tidy(s.exdc) /\ t.dcwb = Tidy(s.dcwb)
             /\ t.flush = q.flush /\ t.ll = q.ll /\ t.reg = q.reg /\ t.fetched = q.fetched
             /\ t.nextPc = q.nextPc /\ t.exl = q.exl /\ t.epc = q.epc /\ t.bd = q.bd
             /\ t.epoch = q.epoch /\ t.stall = q.stall
<1> DEFINE q == Closed(s)  t == Ended(s)
           x == [q EXCEPT !.retired = <<>>, !.pending = <<>>, !.icrf = Tidy(s.icrf),
                          !.rfex = Tidy(s.rfex)]
<1>1. /\ q \in Pipe /\ q.icrf = s.icrf /\ q.rfex = s.rfex /\ q.exdc = s.exdc /\ q.dcwb = s.dcwb
  BY DispatchIs
<1>2. s.icrf \in Latch /\ s.rfex \in Latch /\ s.exdc \in Latch /\ s.dcwb \in Latch  BY PipeIs
<1>3. /\ Tidy(s.icrf) \in Latch /\ Tidy(s.rfex) \in Latch /\ Tidy(s.exdc) \in Latch
      /\ Tidy(s.dcwb) \in Latch
  BY <1>2, TidyIs
<1>4. t = [q EXCEPT !.retired = <<>>, !.pending = <<>>, !.icrf = Tidy(s.icrf),
                    !.rfex = Tidy(s.rfex), !.exdc = Tidy(s.exdc), !.dcwb = Tidy(s.dcwb)]
  BY <1>1 DEF Ended, Closed
<1> HIDE DEF q, t
<1>5. x \in Pipe  BY <1>1, <1>3 DEF Pipe
<1>6. t = [x EXCEPT !.exdc = Tidy(s.exdc), !.dcwb = Tidy(s.dcwb)]  BY <1>4
<1>7. t \in Pipe
  <2> HIDE DEF x
  <2> QED BY <1>3, <1>5, <1>6 DEF Pipe
<1>8. /\ t.pending = <<>> /\ t.retired = <<>>
      /\ t.icrf = Tidy(s.icrf) /\ t.rfex = Tidy(s.rfex)
      /\ t.exdc = Tidy(s.exdc) /\ t.dcwb = Tidy(s.dcwb)
      /\ t.flush = q.flush /\ t.ll = q.ll /\ t.reg = q.reg /\ t.fetched = q.fetched
      /\ t.nextPc = q.nextPc /\ t.exl = q.exl /\ t.epc = q.epc /\ t.bd = q.bd
      /\ t.epoch = q.epoch /\ t.stall = q.stall
  BY <1>1, <1>4 DEF Pipe
<1> QED BY <1>7, <1>8 DEF q, t

LEMMA EndKeeps ==
  ASSUME NEW s, NEW m, NEW cp0, NEW late, PipeInv(s, m, cp0, late), SlotThere(s), Quashed(s)
  PROVE  LET t == Ended(s)
             b == s.pending # <<>>
             n == s.pending[1].seq
         IN  /\ PipeInv(t, m, Newest(cp0, b, n), Overtaken(late, cp0, b, n))
             /\ SlotThere(t) /\ t.pending = <<>> /\ t.retired = <<>>
<1> DEFINE t == Ended(s)
           q == Closed(s)
           b == s.pending # <<>>
           n == s.pending[1].seq
           now == Newest(cp0, b, n)  over == Overtaken(late, cp0, b, n)
<1>1. s \in Pipe /\ s.flush = (s.pending # <<>>) /\ late \in BOOLEAN  BY DEF PipeInv, Chronology
<1>2. /\ q \in Pipe /\ ~q.flush
      /\ q.ll = s.ll /\ q.reg = s.reg /\ q.fetched = s.fetched
      /\ s.pending = <<>> => /\ q.nextPc = s.nextPc /\ q.exl = s.exl /\ q.epc = s.epc
                             /\ q.bd = s.bd /\ q.epoch = s.epoch
      /\ s.pending # <<>> =>
           /\ q.nextPc = Vector /\ q.exl = TRUE /\ q.epoch = s.epoch + 1
           /\ q.epc = IF s.exl THEN s.epc ELSE IF s.pending[1].slot THEN s.pending[1].pc - 1
                                               ELSE s.pending[1].pc
           /\ q.bd = IF s.exl THEN s.bd ELSE s.pending[1].slot
  BY <1>1, DispatchIs
<1>3. /\ t \in Pipe /\ t.pending = <<>> /\ t.retired = <<>>
      /\ t.icrf = Tidy(s.icrf) /\ t.rfex = Tidy(s.rfex)
      /\ t.exdc = Tidy(s.exdc) /\ t.dcwb = Tidy(s.dcwb)
      /\ t.flush = q.flush /\ t.ll = q.ll /\ t.reg = q.reg /\ t.fetched = q.fetched
      /\ t.nextPc = q.nextPc /\ t.exl = q.exl /\ t.epc = q.epc /\ t.bd = q.bd
      /\ t.epoch = q.epoch
  BY <1>1, EndedIs
<1>4. /\ t.icrf.occupied = s.icrf.occupied /\ (s.icrf.occupied => t.icrf = s.icrf)
      /\ t.rfex.occupied = s.rfex.occupied /\ (s.rfex.occupied => t.rfex = s.rfex)
      /\ t.exdc.occupied = s.exdc.occupied /\ (s.exdc.occupied => t.exdc = s.exdc)
      /\ t.dcwb.occupied = s.dcwb.occupied /\ (s.dcwb.occupied => t.dcwb = s.dcwb)
  <2>1. s.icrf \in Latch /\ s.rfex \in Latch /\ s.exdc \in Latch /\ s.dcwb \in Latch
    BY <1>1, PipeIs
  <2> QED BY <1>3, <2>1, TidyIs
<1> HIDE DEF t, q
<1>5. CASE s.pending = <<>>
  <2>1. now = cp0 /\ over = late  BY <1>1, <1>5 DEF Newest, Overtaken
  <2>2. t.flush = s.flush /\ t.pending = s.pending
    <3>1. q.flush \in BOOLEAN  BY <1>2, PipeIs
    <3> QED BY <1>1, <1>2, <1>3, <1>5, <3>1
  <2>3. PipeInv(t, m, cp0, late) /\ SlotThere(t)
    BY <1>2, <1>3, <1>4, <1>5, <2>2, SameInv
  <2> QED BY <1>3, <2>1, <2>3 DEF t
<1>6. CASE s.pending # <<>>
  <2> DEFINE u == DispatchTaken(s, 2)
  <2>1. PipeInv(u, m, now, over) /\ SlotThere(u) /\ u.pending = <<>>
    <3>1. now = Newest(cp0, TRUE, n) /\ over = Overtaken(late, cp0, TRUE, n)
      BY <1>6 DEF Newest, Overtaken
    <3> HIDE DEF now, over
    <3> QED BY <1>6, <3>1, DispatchKeeps
  <2>2. /\ u.icrf = s.icrf /\ u.rfex = s.rfex /\ u.exdc = s.exdc /\ u.dcwb = s.dcwb
        /\ u.nextPc = Vector /\ u.exl = TRUE /\ u.epoch = s.epoch + 1 /\ u.flush = FALSE
        /\ u.epc = IF s.exl THEN s.epc ELSE IF s.pending[1].slot THEN s.pending[1].pc - 1
                                            ELSE s.pending[1].pc
        /\ u.bd = IF s.exl THEN s.bd ELSE s.pending[1].slot
        /\ u.ll = s.ll /\ u.reg = s.reg /\ u.fetched = s.fetched
    BY <1>1 DEF DispatchTaken, Pipe
  <2> HIDE DEF u, now, over
  <2>3. t.flush = u.flush /\ t.epc = u.epc /\ t.bd = u.bd
    <3>1. q.flush \in BOOLEAN  BY <1>2, PipeIs
    <3> QED BY <1>2, <1>3, <1>6, <2>2, <3>1
  <2>4. /\ t.nextPc = u.nextPc /\ t.exl = u.exl /\ t.epoch = u.epoch /\ t.ll = u.ll
        /\ t.reg = u.reg /\ t.fetched = u.fetched /\ t.pending = u.pending
    BY <1>2, <1>3, <1>6, <2>1, <2>2
  <2>5. PipeInv(t, m, now, over) /\ SlotThere(t)
    BY <1>3, <1>4, <2>1, <2>2, <2>3, <2>4, SameInv
  <2> QED BY <1>3, <2>5 DEF t, now, over
<1> QED BY <1>5, <1>6

-----------------------------------------------------------------------------
(* The observer, who sees a cycle as a whole.                              *)

Effect(b, n) == IF b THEN <<n>> ELSE <<>>

LEMMA EffectIs ==
  ASSUME NEW b \in BOOLEAN, NEW n, b => n \in Nat
  PROVE  /\ Effect(b, n) \in Seq(Nat) /\ Len(Effect(b, n)) = IF b THEN 1 ELSE 0
         /\ b => Effect(b, n)[1] = n
BY DEF Effect

\* The effects of a cycle: which of them come after a younger one, and how young they are.
Effects(b1, n1, b2, n2, b3, n3) == Effect(b1, n1) \o Effect(b2, n2) \o Effect(b3, n3)
Occurs(fx, x)  == \E k \in DOMAIN fx : x = fx[k]
Late(fx, cp0) == \E k \in DOMAIN fx : fx[k] < cp0 \/ \E j \in DOMAIN fx : j < k /\ fx[k] < fx[j]

LEMMA EffectsAre ==
  ASSUME NEW b1 \in BOOLEAN, NEW b2 \in BOOLEAN, NEW b3 \in BOOLEAN, NEW n1, NEW n2, NEW n3,
         b1 => n1 \in Nat, b2 => n2 \in Nat, b3 => n3 \in Nat, NEW cp0 \in Nat,
         NEW x
  PROVE  LET fx == Effects(b1, n1, b2, n2, b3, n3) IN
         /\ Occurs(fx, x) <=> (b1 /\ x = n1) \/ (b2 /\ x = n2) \/ (b3 /\ x = n3)
         /\ Late(fx, cp0)
              <=> \/ b1 /\ n1 < cp0
                  \/ b2 /\ (n2 < cp0 \/ (b1 /\ n2 < n1))
                  \/ b3 /\ (n3 < cp0 \/ (b1 /\ n3 < n1) \/ (b2 /\ n3 < n2))
<1> DEFINE fx == Effects(b1, n1, b2, n2, b3, n3)
<1> SUFFICES /\ Occurs(fx, x) <=> (b1 /\ x = n1) \/ (b2 /\ x = n2) \/ (b3 /\ x = n3)
             /\ Late(fx, cp0)
                  <=> \/ b1 /\ n1 < cp0
                      \/ b2 /\ (n2 < cp0 \/ (b1 /\ n2 < n1))
                      \/ b3 /\ (n3 < cp0 \/ (b1 /\ n3 < n1) \/ (b2 /\ n3 < n2))
  OBVIOUS
<1> DEFINE e1 == Effect(b1, n1)  e2 == Effect(b2, n2)  e3 == Effect(b3, n3)  e12 == e1 \o e2
<1>1. /\ e1 \in Seq(Nat) /\ Len(e1) = (IF b1 THEN 1 ELSE 0) /\ (b1 => e1[1] = n1)
      /\ e2 \in Seq(Nat) /\ Len(e2) = (IF b2 THEN 1 ELSE 0) /\ (b2 => e2[1] = n2)
      /\ e3 \in Seq(Nat) /\ Len(e3) = (IF b3 THEN 1 ELSE 0) /\ (b3 => e3[1] = n3)
  BY EffectIs
<1>2. fx = e12 \o e3  BY DEF Effects
<1> HIDE DEF fx, e1, e2, e3
<1>3. /\ e12 \in Seq(Nat) /\ Len(e12) = Len(e1) + Len(e2)
      /\ \A i \in 1 .. Len(e1) + Len(e2) :
           e12[i] = IF i <= Len(e1) THEN e1[i] ELSE e2[i - Len(e1)]
  BY <1>1, ConcatProperties
<1> HIDE DEF e12
<1>4. /\ fx \in Seq(Nat) /\ Len(fx) = Len(e12) + Len(e3)
      /\ \A i \in 1 .. Len(e12) + Len(e3) :
           fx[i] = IF i <= Len(e12) THEN e12[i] ELSE e3[i - Len(e12)]
  <2>1. /\ e12 \o e3 \in Seq(Nat) /\ Len(e12 \o e3) = Len(e12) + Len(e3)
        /\ \A i \in 1 .. Len(e12) + Len(e3) :
             (e12 \o e3)[i] = IF i <= Len(e12) THEN e12[i] ELSE e3[i - Len(e12)]
    <3>1. e12 \in Seq(Nat) /\ e3 \in Seq(Nat)  BY <1>1, <1>3
    <3> QED BY ONLY <3>1, ConcatProperties
  <2> QED BY <1>2, <2>1
<1>5. DOMAIN fx = 1 .. Len(fx)  BY <1>4
<1> DEFINE a1 == Len(e1)  a2 == Len(e2)  a3 == Len(e3)
<1>6. /\ a1 = (IF b1 THEN 1 ELSE 0) /\ a2 = (IF b2 THEN 1 ELSE 0) /\ a3 = (IF b3 THEN 1 ELSE 0)
      /\ Len(e12) = a1 + a2 /\ Len(fx) = a1 + a2 + a3
  BY <1>1, <1>3, <1>4
<1>7. b1 => fx[1] = n1
  <2> SUFFICES ASSUME b1 PROVE fx[1] = n1  OBVIOUS
  <2>1. 1 \in 1 .. Len(e1) + Len(e2) /\ 1 <= Len(e1) /\ 1 \in 1 .. Len(e12) + Len(e3)
        /\ 1 <= Len(e12)
    BY <1>6
  <2> QED BY <1>1, <1>3, <1>4, <2>1
<1>8. b2 => fx[a1 + 1] = n2
  <2> SUFFICES ASSUME b2 PROVE fx[a1 + 1] = n2  OBVIOUS
  <2> DEFINE i == a1 + 1
  <2>1. i \in 1 .. Len(e1) + Len(e2) /\ ~(i <= Len(e1)) /\ i - Len(e1) = 1
        /\ i \in 1 .. Len(e12) + Len(e3) /\ i <= Len(e12)
    BY <1>6
  <2> HIDE DEF i
  <2>2. fx[i] = e2[1]  BY <1>3, <1>4, <2>1
  <2> QED BY <1>1, <2>2 DEF i
<1>9. b3 => fx[a1 + a2 + 1] = n3
  <2> SUFFICES ASSUME b3 PROVE fx[a1 + a2 + 1] = n3  OBVIOUS
  <2> DEFINE i == a1 + a2 + 1
  <2>1. i \in 1 .. Len(e12) + Len(e3) /\ ~(i <= Len(e12)) /\ i - Len(e12) = 1
    BY <1>6
  <2> HIDE DEF i
  <2>2. fx[i] = e3[1]  BY <1>4, <2>1
  <2> QED BY <1>1, <2>2 DEF i
<1> HIDE DEF a1, a2, a3
<1>10. CASE b1 /\ b2 /\ b3
  <2>1. DOMAIN fx = {1, 2, 3} /\ fx[1] = n1 /\ fx[2] = n2 /\ fx[3] = n3  BY ONLY <1>10, <1>5, <1>6, <1>7, <1>8, <1>9
  <2> QED BY ONLY <1>10, <2>1 DEF Occurs, Late
<1>11. CASE b1 /\ b2 /\ ~b3
  <2>1. DOMAIN fx = {1, 2} /\ fx[1] = n1 /\ fx[2] = n2  BY ONLY <1>11, <1>5, <1>6, <1>7, <1>8, <1>9
  <2> QED BY ONLY <1>11, <2>1 DEF Occurs, Late
<1>12. CASE b1 /\ ~b2 /\ b3
  <2>1. DOMAIN fx = {1, 2} /\ fx[1] = n1 /\ fx[2] = n3  BY ONLY <1>12, <1>5, <1>6, <1>7, <1>8, <1>9
  <2> QED BY ONLY <1>12, <2>1 DEF Occurs, Late
<1>13. CASE b1 /\ ~b2 /\ ~b3
  <2>1. DOMAIN fx = {1} /\ fx[1] = n1  BY ONLY <1>13, <1>5, <1>6, <1>7, <1>8, <1>9
  <2> QED BY ONLY <1>13, <2>1 DEF Occurs, Late
<1>14. CASE ~b1 /\ b2 /\ b3
  <2>1. DOMAIN fx = {1, 2} /\ fx[1] = n2 /\ fx[2] = n3  BY ONLY <1>14, <1>5, <1>6, <1>7, <1>8, <1>9
  <2> QED BY ONLY <1>14, <2>1 DEF Occurs, Late
<1>15. CASE ~b1 /\ b2 /\ ~b3
  <2>1. DOMAIN fx = {1} /\ fx[1] = n2  BY ONLY <1>15, <1>5, <1>6, <1>7, <1>8, <1>9
  <2> QED BY ONLY <1>15, <2>1 DEF Occurs, Late
<1>16. CASE ~b1 /\ ~b2 /\ b3
  <2>1. DOMAIN fx = {1} /\ fx[1] = n3  BY ONLY <1>16, <1>5, <1>6, <1>7, <1>8, <1>9
  <2> QED BY ONLY <1>16, <2>1 DEF Occurs, Late
<1>17. CASE ~b1 /\ ~b2 /\ ~b3
  <2>1. DOMAIN fx = {}  BY ONLY <1>17, <1>5, <1>6, <1>7, <1>8, <1>9
  <2> QED BY ONLY <1>17, <2>1 DEF Occurs, Late
<1> QED BY <1>10, <1>11, <1>12, <1>13, <1>14, <1>15, <1>16, <1>17

LEMMA RetiredIs ==
  ASSUME NEW m \in Machine, NEW q, q.retired \in {<<>>} \cup {<<l>> : l \in Latch}
  PROVE  /\ Retired(m, q) \in Machine
         /\ Retired(m, q).cp0 = m.cp0 /\ Retired(m, q).overtaken = m.overtaken
<1>1. CASE q.retired = <<>>  BY <1>1 DEF Retired
<1>2. CASE q.retired # <<>>
  <2> DEFINE l == q.retired[1]
  <2>1. l \in Latch /\ Retired(m, q) = Retire(m, l)  BY <1>2 DEF Retired
  <2> HIDE DEF l
  <2>2. Retire(m, l) \in Machine  BY <2>1, RetireIs
  <2>3. /\ Entered(m, l) \in Machine
        /\ Entered(m, l).cp0 = m.cp0 /\ Entered(m, l).overtaken = m.overtaken
    <3>1. Entered(m, l) \in Machine  BY <2>1, EnteredIs
    <3> QED BY <3>1 DEF Entered, Machine
  <2>4. Retire(m, l).cp0 = m.cp0 /\ Retire(m, l).overtaken = m.overtaken
    BY <2>3 DEF Retire, Machine
  <2> QED BY <2>1, <2>2, <2>4
<1> QED BY <1>1, <1>2

LEMMA Latest ==
  ASSUME NEW high \in SUBSET Nat, NEW x \in high, \A y \in high : y <= x
  PROVE  (CHOOSE z \in high : \A y \in high : y <= z) = x
<1> DEFINE c == CHOOSE z \in high : \A y \in high : y <= z
<1>1. c \in high /\ \A y \in high : y <= c  OBVIOUS
<1> HIDE DEF c
<1>2. c <= x /\ x <= c /\ c \in Nat /\ x \in Nat  BY <1>1
<1> QED BY <1>2 DEF c

LEMMA ObserveIs ==
  ASSUME NEW m \in Machine, NEW q, q.retired \in {<<>>} \cup {<<l>> : l \in Latch},
         q.exdc \in Latch, q.pending # <<>> => q.pending[1].seq \in Nat
  PROVE  LET k  == Observe(m, q)
             b1 == WroteCp0(q)         n1 == q.retired[1].seq
             b2 == ReturnedCp0(q)      n2 == q.exdc.seq
             b3 == q.pending # <<>>    n3 == q.pending[1].seq
             c1 == Newest(m.cp0, b1, n1)  o1 == Overtaken(m.overtaken, m.cp0, b1, n1)
             c2 == Newest(c1, b2, n2)     o2 == Overtaken(o1, c1, b2, n2)
         IN  /\ k \in Machine /\ SameMachine(Retired(m, q), k)
             /\ k.cp0 = Newest(c2, b3, n3)
             /\ k.overtaken = Overtaken(o2, c2, b3, n3)
<1> DEFINE k  == Observe(m, q)
           b1 == WroteCp0(q)         n1 == q.retired[1].seq
           b2 == ReturnedCp0(q)      n2 == q.exdc.seq
           b3 == q.pending # <<>>    n3 == q.pending[1].seq
           c1 == Newest(m.cp0, b1, n1)  o1 == Overtaken(m.overtaken, m.cp0, b1, n1)
           c2 == Newest(c1, b2, n2)     o2 == Overtaken(o1, c1, b2, n2)
           c3 == Newest(c2, b3, n3)     o3 == Overtaken(o2, c2, b3, n3)
           r == Retired(m, q)  fx == Cp0Effects(q)
           high == {r.cp0} \cup {fx[i] : i \in DOMAIN fx}
           passed == Late(fx, r.cp0)
           top == CHOOSE x \in high : \A y \in high : y <= x
<1>1. r \in Machine /\ r.cp0 = m.cp0 /\ r.overtaken = m.overtaken  BY RetiredIs
<1>2. /\ b1 \in BOOLEAN /\ b2 \in BOOLEAN /\ b3 \in BOOLEAN
      /\ (b1 => n1 \in Nat) /\ (b2 => n2 \in Nat) /\ (b3 => n3 \in Nat)
  <2>1. b1 => n1 \in Nat
    <3>1. SUFFICES ASSUME q.retired # <<>> PROVE n1 \in Nat  BY DEF WroteCp0
    <3>2. q.retired[1] \in Latch  BY <3>1
    <3> QED BY <3>2 DEF Latch
  <2>2. n2 \in Nat  BY DEF Latch
  <2>3. b1 \in BOOLEAN /\ b2 \in BOOLEAN /\ b3 \in BOOLEAN
    BY DEF WroteCp0, ReturnedCp0, Live, Latch
  <2> QED BY <2>1, <2>2, <2>3
<1>3. m.cp0 \in Nat /\ m.overtaken \in BOOLEAN  BY DEF Machine
<1>4. fx = Effects(b1, n1, b2, n2, b3, n3)
  BY Zenon DEF Cp0Effects, Effects, Effect, WroteCp0, ReturnedCp0
<1>5. k = [r EXCEPT !.cp0 = top, !.overtaken = r.overtaken \/ passed]
  BY Zenon DEF Observe, Retired, Late
<1> HIDE DEF b1, b2, b3, n1, n2, n3, r, fx, k
<1>6. /\ \A x : Occurs(fx, x) <=> (b1 /\ x = n1) \/ (b2 /\ x = n2) \/ (b3 /\ x = n3)
      /\ Late(fx, m.cp0) <=> \/ b1 /\ n1 < m.cp0
                             \/ b2 /\ (n2 < m.cp0 \/ (b1 /\ n2 < n1))
                             \/ b3 /\ (n3 < m.cp0 \/ (b1 /\ n3 < n1) \/ (b2 /\ n3 < n2))
  <2>1. SUFFICES ASSUME NEW x
        PROVE  /\ Occurs(fx, x) <=> (b1 /\ x = n1) \/ (b2 /\ x = n2) \/ (b3 /\ x = n3)
               /\ Late(fx, m.cp0)
                    <=> \/ b1 /\ n1 < m.cp0
                        \/ b2 /\ (n2 < m.cp0 \/ (b1 /\ n2 < n1))
                        \/ b3 /\ (n3 < m.cp0 \/ (b1 /\ n3 < n1) \/ (b2 /\ n3 < n2))
    OBVIOUS
  <2> DEFINE c0 == m.cp0
  <2>2. c0 \in Nat  BY <1>3
  <2> HIDE DEF c0
  <2>3. /\ Occurs(fx, x) <=> (b1 /\ x = n1) \/ (b2 /\ x = n2) \/ (b3 /\ x = n3)
        /\ Late(fx, c0)
             <=> \/ b1 /\ n1 < c0
                 \/ b2 /\ (n2 < c0 \/ (b1 /\ n2 < n1))
                 \/ b3 /\ (n3 < c0 \/ (b1 /\ n3 < n1) \/ (b2 /\ n3 < n2))
    BY ONLY <1>2, <2>2, <1>4, EffectsAre
  <2> QED BY <2>3 DEF c0
<1>7. /\ c1 \in Nat /\ c2 \in Nat /\ c3 \in Nat
      /\ c3 = m.cp0 \/ (b1 /\ c3 = n1) \/ (b2 /\ c3 = n2) \/ (b3 /\ c3 = n3)
      /\ m.cp0 <= c3 /\ (b1 => n1 <= c3) /\ (b2 => n2 <= c3) /\ (b3 => n3 <= c3)
  BY <1>2, <1>3 DEF Newest
<1>8. o3 <=> m.overtaken \/ passed
  BY <1>1, <1>2, <1>3, <1>6 DEF Newest, Overtaken
<1>9. top = c3
  <2>1. \A x : x \in high <=> x = m.cp0 \/ (b1 /\ x = n1) \/ (b2 /\ x = n2) \/ (b3 /\ x = n3)
    BY <1>1, <1>6 DEF Occurs
  <2> HIDE DEF high, c3
  <2>2. high \in SUBSET Nat /\ c3 \in high /\ \A y \in high : y <= c3
    BY <1>2, <1>3, <1>7, <2>1
  <2> QED BY <2>2, Latest
<1> HIDE DEF top, passed, c3, o3
<1>10. /\ k.pc = r.pc /\ k.npc = r.npc /\ k.slot = r.slot /\ k.branch = r.branch
       /\ k.reg = r.reg /\ k.ll = r.ll /\ k.exl = r.exl /\ k.epc = r.epc /\ k.epoch = r.epoch
       /\ k.nested = r.nested /\ k.cp0 = top /\ k.overtaken = (r.overtaken \/ passed)
  BY <1>1, <1>5 DEF Machine
<1>11. k \in Machine
  <2>1. top \in Nat /\ (r.overtaken \/ passed) \in BOOLEAN  BY <1>7, <1>9
  <2> QED BY <1>1, <1>5, <2>1 DEF Machine
<1>12. o3 \in BOOLEAN /\ k.overtaken = o3
  <2>1. o3 \in BOOLEAN  BY DEF o3, Overtaken
  <2> QED BY <1>1, <1>8, <1>10, <2>1
<1> QED BY <1>9, <1>10, <1>11, <1>12 DEF SameMachine, k, r, c3, o3, b1, b2, b3, n1, n2, n3

-----------------------------------------------------------------------------
(* The invariant of the specification.                                     *)

PipelineInv ==
  /\ PipeInv(p, isa, isa.cp0, isa.overtaken)
  /\ p.pending = <<>> /\ p.retired = <<>> /\ SlotThere(p)

\* Between cycles a latch that is not occupied holds nothing.
Tidied(s) == \A l \in {s.icrf, s.rfex, s.exdc, s.dcwb} : l.occupied \/ l = Bubble

LEMMA CycleKeeps ==
  ASSUME NEW s, NEW m, PipeInv(s, m, m.cp0, m.overtaken),
         s.pending = <<>>, s.retired = <<>>, SlotThere(s),
         NEW irq \in BOOLEAN, NEW trap \in BOOLEAN, NEW fault \in BOOLEAN, NEW miss \in BOOLEAN,
         NEW bad \in BOOLEAN, NEW i \in [op : Op, src : {0, 1}, dst : {0, 1}]
  PROVE  LET s5 == IcStage(RfStage(ExStage(DcStage(WbStage(s, trap), irq, fault, miss))), i, bad)
             k  == Observe(m, Closed(s5))
             t  == Ended(s5)
         IN  /\ PipeInv(t, k, k.cp0, k.overtaken)
             /\ t.pending = <<>> /\ t.retired = <<>> /\ SlotThere(t)
             /\ t.stall \in {s.stall, 1, 2} /\ t.fetched \in {s.fetched, s.fetched + 1}
             /\ Tidied(t)
<1> DEFINE s1 == WbStage(s, trap)
           s2 == DcStage(s1, irq, fault, miss)
           s3 == ExStage(s2)
           s4 == RfStage(s3)
           s5 == IcStage(s4, i, bad)
           q  == Closed(s5)
           k  == Observe(m, q)
           m1 == Retired(m, s1)
           b1 == WroteCp0(s1)         n1 == s1.retired[1].seq
           b2 == ReturnedCp0(s3)      n2 == s3.exdc.seq
           b3 == s5.pending # <<>>    n3 == s5.pending[1].seq
           c1 == Newest(m.cp0, b1, n1)  o1 == Overtaken(m.overtaken, m.cp0, b1, n1)
           c2 == Newest(c1, b2, n2)     o2 == Overtaken(o1, c1, b2, n2)
           c3 == Newest(c2, b3, n3)     o3 == Overtaken(o2, c2, b3, n3)
<1>1. /\ PipeInv(s1, m1, c1, o1) /\ ~s1.dcwb.occupied /\ Flushed(s1) /\ SlotThere(s1)
      /\ SameCount(s, s1) /\ s1 \in Pipe
  <2>1. PipeInv(s1, m1, c1, o1) /\ ~s1.dcwb.occupied /\ Flushed(s1) /\ SlotThere(s1)
    BY WbKeeps
  <2> HIDE DEF m1, c1, o1
  <2>2. s \in Pipe /\ s1 \in Pipe  BY <2>1 DEF PipeInv
  <2> QED BY <2>1, <2>2, WbCounts
<1> HIDE DEF s1, m1, c1, o1
<1>2. /\ PipeInv(s2, m1, c1, o1) /\ Flushed(s2) /\ SlotThere(s2)
      /\ s2.retired = s1.retired /\ ~s2.exdc.occupied
      /\ SameCount(s1, s2) /\ s2 \in Pipe
  <2>1. /\ PipeInv(s2, m1, c1, o1) /\ Flushed(s2) /\ SlotThere(s2)
        /\ s2.retired = s1.retired /\ ~s2.exdc.occupied
    BY <1>1, DcKeeps
  <2>2. s2 \in Pipe  BY <2>1 DEF PipeInv
  <2> QED BY <1>1, <2>1, <2>2, DcCounts
<1> HIDE DEF s2
<1>3. /\ PipeInv(s3, m1, c2, o2) /\ Flushed(s3) /\ s3.retired = s2.retired /\ ~s3.rfex.occupied
      /\ SameCount(s2, s3) /\ s3 \in Pipe
  <2>1. PipeInv(s3, m1, c2, o2) /\ Flushed(s3) /\ s3.retired = s2.retired /\ ~s3.rfex.occupied
    BY <1>2, ExKeeps
  <2>2. s3 \in Pipe  BY <2>1 DEF PipeInv
  <2> QED BY <1>2, <2>1, <2>2, ExCounts
<1> HIDE DEF s3, c2, o2
<1>4. /\ PipeInv(s4, m1, c2, o2) /\ Flushed(s4) /\ AbortedFetch(s4)
      /\ s4.retired = s3.retired /\ s4.exdc = s3.exdc /\ ~s4.icrf.occupied
      /\ SameCount(s3, s4) /\ s4 \in Pipe
  <2>1. /\ PipeInv(s4, m1, c2, o2) /\ Flushed(s4) /\ AbortedFetch(s4)
        /\ s4.retired = s3.retired /\ s4.exdc = s3.exdc /\ ~s4.icrf.occupied
    BY <1>3, RfKeeps
  <2>2. s4 \in Pipe  BY <2>1 DEF PipeInv
  <2> QED BY <1>3, <2>1, <2>2, RfCounts
<1> HIDE DEF s4
<1>5. /\ PipeInv(s5, m1, c2, o2) /\ SlotThere(s5) /\ Quashed(s5)
      /\ s5.retired = s4.retired /\ s5.exdc = s4.exdc
      /\ s5.stall = s4.stall /\ s5.fetched \in {s4.fetched, s4.fetched + 1} /\ s5 \in Pipe
  <2>1. /\ PipeInv(s5, m1, c2, o2) /\ SlotThere(s5) /\ Quashed(s5)
        /\ s5.retired = s4.retired /\ s5.exdc = s4.exdc
    BY <1>4, IcKeeps
  <2>2. s5 \in Pipe  BY <2>1 DEF PipeInv
  <2> QED BY <1>4, <2>1, <2>2, IcCounts
<1> HIDE DEF s5
<1>6. /\ PipeInv(Ended(s5), m1, c3, o3) /\ SlotThere(Ended(s5))
      /\ Ended(s5).pending = <<>> /\ Ended(s5).retired = <<>>
  BY <1>5, EndKeeps
<1>7. /\ q.pending = s5.pending /\ q.retired = s1.retired /\ q.exdc = s3.exdc
      /\ q \in Pipe /\ SameCount(s5, q)
  <2>1. q \in Pipe /\ SameCount(s5, q) /\ q.pending = s5.pending /\ q.retired = s5.retired
        /\ q.exdc = s5.exdc
    BY <1>5, DispatchIs
  <2> HIDE DEF q
  <2> QED BY <1>2, <1>3, <1>4, <1>5, <2>1
<1>8. m \in Machine  BY DEF PipeInv
<1> HIDE DEF q
<1>9. k \in Machine /\ SameMachine(m1, k) /\ k.cp0 = c3 /\ k.overtaken = o3
  <2>1. /\ q.retired \in {<<>>} \cup {<<l>> : l \in Latch} /\ q.exdc \in Latch
        /\ q.pending # <<>> => q.pending[1].seq \in Nat
    <3>1. q.pending # <<>> => q.pending[1] \in Charge  BY <1>7, PipeIs
    <3> QED BY <1>7, <3>1 DEF Pipe, Charge
  <2>2. /\ WroteCp0(q) = b1 /\ q.retired[1].seq = n1 /\ ReturnedCp0(q) = b2 /\ q.exdc.seq = n2
        /\ (q.pending # <<>>) = b3 /\ q.pending[1].seq = n3 /\ Retired(m, q) = m1
    BY <1>7 DEF WroteCp0, ReturnedCp0, Retired, m1
  <2> HIDE DEF b1, b2, b3, n1, n2, n3
  <2>3. LET d1 == Newest(m.cp0, b1, n1)  a1 == Overtaken(m.overtaken, m.cp0, b1, n1)
            d2 == Newest(d1, b2, n2)     a2 == Overtaken(a1, d1, b2, n2)
        IN  /\ k \in Machine /\ SameMachine(m1, k)
            /\ k.cp0 = Newest(d2, b3, n3)
            /\ k.overtaken = Overtaken(a2, d2, b3, n3)
    <3>1. LET d1 == Newest(m.cp0, WroteCp0(q), q.retired[1].seq)
              a1 == Overtaken(m.overtaken, m.cp0, WroteCp0(q), q.retired[1].seq)
              d2 == Newest(d1, ReturnedCp0(q), q.exdc.seq)
              a2 == Overtaken(a1, d1, ReturnedCp0(q), q.exdc.seq)
          IN  /\ k \in Machine /\ SameMachine(Retired(m, q), k)
              /\ k.cp0 = Newest(d2, q.pending # <<>>, q.pending[1].seq)
              /\ k.overtaken = Overtaken(a2, d2, q.pending # <<>>, q.pending[1].seq)
      BY <1>8, <2>1, ObserveIs
    <3> QED BY <2>2, <3>1
  <2> QED BY <2>3 DEF c1, c2, c3, o1, o2, o3
<1> HIDE DEF k, c3, o3
<1>10. PipeInv(Ended(s5), k, c3, o3)  BY <1>6, <1>9, SameSound
<1> DEFINE t == Ended(s5)
<1>11. t.stall = q.stall /\ t.fetched = q.fetched /\ Tidied(t)
  <2>1. /\ t.stall = q.stall /\ t.fetched = q.fetched
        /\ t.icrf = Tidy(s5.icrf) /\ t.rfex = Tidy(s5.rfex)
        /\ t.exdc = Tidy(s5.exdc) /\ t.dcwb = Tidy(s5.dcwb)
    BY <1>5, EndedIs DEF q
  <2> HIDE DEF t
  <2> QED BY <2>1 DEF Tidy, Tidied
<1>12. t.stall \in {s.stall, 1, 2} /\ t.fetched \in {s.fetched, s.fetched + 1}
  <2> HIDE DEF t
  <2> QED BY <1>1, <1>2, <1>3, <1>4, <1>5, <1>7, <1>11 DEF SameCount
<1> QED BY <1>6, <1>9, <1>10, <1>11, <1>12 DEF k, q, s5, s4, s3, s2, s1

LEMMA InitKeeps ==
  ASSUME Init
  PROVE  PipelineInv
<1>1. Bubble \in Latch /\ ~Bubble.occupied /\ ~Live(Bubble)  BY DEF Bubble, Latch, Live, Op
<1>2. p \in Pipe
  <2>1. Start \in Int /\ 0 \in Nat /\ NoStall \in Nat  BY DEF Start, NoStall
  <2> QED BY <1>1, <2>1 DEF Init, Pipe
<1>3. isa \in Machine  BY DEF Init, IsaInit, Machine, Start
<1>4. /\ p.icrf = Bubble /\ p.rfex = Bubble /\ p.exdc = Bubble /\ p.dcwb = Bubble
      /\ p.pending = <<>> /\ p.flush = FALSE /\ p.retired = <<>> /\ p.nextPc = Start
      /\ p.exl = FALSE /\ p.epc = 0 /\ p.ll = FALSE /\ p.reg = 0 /\ p.fetched = 0 /\ p.epoch = 0
  BY DEF Init
<1>5. /\ isa.pc = Start /\ isa.npc = Start + 1 /\ isa.slot = FALSE /\ isa.reg = 0
      /\ isa.ll = FALSE /\ isa.exl = FALSE /\ isa.epc = 0 /\ isa.epoch = 0 /\ isa.cp0 = 0
      /\ isa.nested = FALSE /\ isa.overtaken = FALSE
  BY DEF Init, IsaInit
<1>6. AtExdc(p, isa) = isa /\ AtRfex(p, isa) = isa /\ AtIcrf(p, isa) = isa /\ AtFetch(p, isa) = isa
  BY <1>1, <1>4 DEF AtExdc, AtRfex, AtIcrf, AtFetch, After
<1>7. Chronology(p, isa.epoch, isa.cp0)
  <2>1. InOrder(p)  BY <1>1, <1>4 DEF InOrder, Before
  <2>2. Dated(p, isa.epoch, isa.cp0, Bubble)  BY <1>1 DEF Dated
  <2>3. p.flush = (p.pending # <<>>)  BY <1>4
  <2> QED BY <1>1, <1>4, <1>5, <2>1, <2>2, <2>3 DEF Chronology
<1>8. Sound(p, isa, isa.cp0)
  <2>1. Settled(isa)  BY <1>5 DEF Settled
  <2>2. Linked(p, isa)  BY <1>1, <1>4, <1>5 DEF Linked
  <2>3. ASSUME NEW exl PROVE Reached(p, isa, exl, isa.cp0, Bubble)  BY <1>1 DEF Reached
  <2>4. Accessed(isa, Bubble) /\ Executed(isa, Bubble) /\ Unwritten(Bubble)
    BY <1>1 DEF Accessed, Executed, Unwritten
  <2>5. Branching(p, isa)  BY <1>1, <1>4 DEF Branching
  <2>6. Fetching(p, isa, ExlAtFetch(p))  BY <1>1, <1>4, <1>5 DEF Fetching
  <2>7. Dispatching(p, isa, ExlAtFetch(p))  BY <1>4 DEF Dispatching
  <2>8. Masked(p, Bubble)  BY <1>1 DEF Masked
  <2> QED BY <1>4, <1>5, <1>6, <2>1, <2>2, <2>3, <2>4, <2>5, <2>6, <2>7, <2>8 DEF Sound
<1>9. SlotThere(p)  BY <1>1, <1>4 DEF SlotThere
<1>10. isa.cp0 \in Nat /\ isa.overtaken \in BOOLEAN  BY <1>3 DEF Machine
<1> QED BY <1>2, <1>3, <1>4, <1>7, <1>8, <1>9, <1>10 DEF PipelineInv, PipeInv

LEMMA StallKeeps ==
  ASSUME PipelineInv, StallCycle
  PROVE  PipelineInv'
<1>1. p \in Pipe  BY DEF PipelineInv, PipeInv
<1>2. p.stall \in Nat /\ p.stall > 0 /\ p.stall - 1 \in Nat  BY <1>1, PipeIs DEF StallCycle
<1>3. p' = [p EXCEPT !.stall = p.stall - 1, !.prevRun = FALSE] /\ isa' = isa  BY DEF StallCycle
<1>4. /\ p' \in Pipe /\ p'.icrf = p.icrf /\ p'.rfex = p.rfex /\ p'.exdc = p.exdc /\ p'.dcwb = p.dcwb
      /\ p'.nextPc = p.nextPc /\ p'.exl = p.exl /\ p'.epc = p.epc /\ p'.bd = p.bd
      /\ p'.ll = p.ll /\ p'.reg = p.reg /\ p'.fetched = p.fetched /\ p'.epoch = p.epoch
      /\ p'.pending = p.pending /\ p'.flush = p.flush /\ p'.retired = p.retired
  BY <1>1, <1>2, <1>3 DEF Pipe
<1>5. PipeInv(p', isa, isa.cp0, isa.overtaken) /\ SlotThere(p')
  BY <1>4, SameInv DEF PipelineInv
<1> QED BY <1>3, <1>4, <1>5 DEF PipelineInv

LEMMA CycleStep ==
  ASSUME PipelineInv, Cycle
  PROVE  /\ PipelineInv'
         /\ p'.stall \in {p.stall, 1, 2} /\ p'.fetched \in {p.fetched, p.fetched + 1}
         /\ Tidied(p')
<1>1. PICK irq, trap, fault, miss, bad \in BOOLEAN,
           i \in IF p.fetched < MaxFetch THEN Instr ELSE {Nop} :
        /\ irq => p.exdc.occupied /\ p.prevRun /\ (~p.exl \/ p.dcwb.op = "mtc0")
        /\ trap => p.dcwb.op = "fp"
        /\ (fault \/ miss) => Accesses(p.exdc)
        /\ bad => p.fetched < MaxFetch
        /\ LET q == RunCycle(irq, trap, fault, miss, i, bad)
           IN  /\ p' = [q EXCEPT !.retired = <<>>, !.pending = <<>>,
                                 !.icrf = Tidy(@), !.rfex = Tidy(@),
                                 !.exdc = Tidy(@), !.dcwb = Tidy(@)]
               /\ isa' = Observe(isa, q)
  BY Zenon DEF Cycle
<1>2. i \in [op : Op, src : {0, 1}, dst : {0, 1}]
  BY PipelineAssumption DEF Nop, Op
<1> DEFINE s5 == IcStage(RfStage(ExStage(DcStage(WbStage(p, trap), irq, fault, miss))), i, bad)
<1>3. RunCycle(irq, trap, fault, miss, i, bad) = Closed(s5)  BY Zenon DEF RunCycle, Closed
<1>4. p' = Ended(s5)  BY <1>1, <1>3, Zenon DEF Ended, Closed
<1>5. isa' = Observe(isa, Closed(s5))  BY <1>1, <1>3, Zenon
<1>6. /\ PipeInv(p, isa, isa.cp0, isa.overtaken) /\ p.pending = <<>> /\ p.retired = <<>>
      /\ SlotThere(p)
  BY DEF PipelineInv
<1>7. LET k == Observe(isa, Closed(s5))
          t == Ended(s5)
      IN  /\ PipeInv(t, k, k.cp0, k.overtaken)
          /\ t.pending = <<>> /\ t.retired = <<>> /\ SlotThere(t)
          /\ t.stall \in {p.stall, 1, 2} /\ t.fetched \in {p.fetched, p.fetched + 1}
          /\ Tidied(t)
  BY <1>2, <1>6, CycleKeeps
<1> HIDE DEF s5
<1> QED BY <1>4, <1>5, <1>7 DEF PipelineInv

LEMMA StepKeeps ==
  ASSUME PipelineInv, [Next]_vars
  PROVE  PipelineInv'
<1>1. CASE StallCycle  BY <1>1, StallKeeps
<1>2. CASE Cycle  BY <1>2, CycleStep
<1>3. CASE UNCHANGED vars
  BY <1>3 DEF PipelineInv, vars
<1> QED BY <1>1, <1>2, <1>3 DEF Next, Finished

\* Of the instruction in the last latch: what the machine would have it be.
LEMMA InvRetiresInOrder ==
  ASSUME PipelineInv
  PROVE  RetiresInOrder
<1> DEFINE l == p.dcwb
<1>1. /\ p \in Pipe /\ isa \in Machine /\ p.pending = <<>>
      /\ PipeInv(p, isa, isa.cp0, isa.overtaken)
  BY DEF PipelineInv, PipeInv
<1>2. l \in Latch  BY <1>1, PipeIs
<1>3. ~isa.overtaken => Reached(p, isa, FALSE, isa.cp0, l) /\ Accessed(isa, l)
  BY <1>1 DEF PipeInv, Timely, Sound
<1> HIDE DEF l
<1>4. NextInOrder
  BY <1>3 DEF NextInOrder, Judged, Reached, l
<1>5. OperandsInOrder
  <2>1. SUFFICES ASSUME Judged(l)
        PROVE  /\ l.rs = IF l.src = 0 THEN 0 ELSE Entered(isa, l).reg
               /\ Writes(l) => l.write = l.dst /\ l.value = Result(Entered(isa, l), l)
    BY DEF OperandsInOrder, l
  <2>2. Operand(isa, l) /\ Written(isa, l)  BY <1>3, <2>1 DEF Judged, Accessed
  <2>3. Entered(isa, l).reg = isa.reg  BY <1>1, <1>2, EnteredIs
  <2> QED BY <2>2, <2>3 DEF Operand, Written
<1>6. PreciseEntry
  BY <1>3 DEF PreciseEntry, Reached, Resume, l
<1> QED BY <1>4, <1>5, <1>6 DEF RetiresInOrder

\* However the pipeline stalls, faults, traps, misses and is interrupted, and whatever
\* instructions it is given, what retires is what a sequential machine would execute next,
\* with the operands it would have, and an exception enters where it would (pipeline.rs,
\* advance_at).
THEOREM RetirementCorrect == Spec => []RetiresInOrder
<1>1. Init => PipelineInv  BY InitKeeps
<1>2. PipelineInv /\ [Next]_vars => PipelineInv'  BY StepKeeps
<1>3. PipelineInv => RetiresInOrder  BY InvRetiresInOrder
<1> QED BY <1>1, <1>2, <1>3, PTL DEF Spec

-----------------------------------------------------------------------------
(* Types.                                                                  *)

TypeInv ==
  /\ PipelineInv
  /\ p.stall \in 0 .. 2 /\ p.fetched \in 0 .. MaxFetch + Padding
  /\ Tidied(p)

\* The state stays in its types; stalls are of 0 to 2 cycles (pipeline.rs, stall_for).
THEOREM PipelineTypes == Spec => []TypeOK
<1>1. Init => TypeInv
  <2> SUFFICES ASSUME Init PROVE TypeInv  OBVIOUS
  <2>1. PipelineInv  BY InitKeeps
  <2>2. p.stall = 0 /\ p.fetched = 0 /\ Tidied(p)  BY DEF Init, NoStall, Tidied
  <2>3. MaxFetch + Padding \in Nat  BY PipelineAssumption DEF Padding
  <2> QED BY <2>1, <2>2, <2>3 DEF TypeInv
<1>2. TypeInv /\ [Next]_vars => TypeInv'
  <2> SUFFICES ASSUME TypeInv, [Next]_vars PROVE TypeInv'  OBVIOUS
  <2>1. PipelineInv'  BY StepKeeps DEF TypeInv
  <2>2. p \in Pipe /\ MaxFetch + Padding \in Nat
    BY PipelineAssumption DEF TypeInv, PipelineInv, PipeInv, Padding
  <2>3. CASE StallCycle
    <3>1. p' = [p EXCEPT !.stall = p.stall - 1, !.prevRun = FALSE] /\ p.stall > 0
      BY <2>3 DEF StallCycle
    <3>2. /\ p'.stall = p.stall - 1 /\ p'.fetched = p.fetched
          /\ p'.icrf = p.icrf /\ p'.rfex = p.rfex /\ p'.exdc = p.exdc /\ p'.dcwb = p.dcwb
      BY <2>2, <3>1 DEF Pipe
    <3>3. p'.stall \in 0 .. 2  BY <3>1, <3>2 DEF TypeInv
    <3> QED BY <2>1, <3>2, <3>3 DEF TypeInv, Tidied
  <2>4. CASE Cycle
    <3>1. /\ p'.stall \in {p.stall, 1, 2} /\ p'.fetched \in {p.fetched, p.fetched + 1}
          /\ Tidied(p')
      BY <2>4, CycleStep DEF TypeInv
    <3>2. p.fetched < MaxFetch + Padding  BY <2>4 DEF Cycle
    <3>3. p'.stall \in 0 .. 2 /\ p'.fetched \in 0 .. MaxFetch + Padding
      BY <2>2, <3>1, <3>2 DEF TypeInv
    <3> QED BY <2>1, <3>1, <3>3 DEF TypeInv, Tidied
  <2>5. CASE UNCHANGED vars  BY <2>1, <2>5 DEF TypeInv, Tidied, vars
  <2> QED BY <2>3, <2>4, <2>5 DEF Next, Finished
<1>3. TypeInv => TypeOK
  <2> SUFFICES ASSUME TypeInv PROVE TypeOK  OBVIOUS
  <2>1. /\ p \in Pipe /\ isa \in Machine /\ Chronology(p, isa.epoch, isa.cp0)
        /\ p.pending = <<>> /\ p.retired = <<>>
        /\ p.fetched \in Nat /\ p.epoch \in Nat /\ isa.epoch \in Nat /\ isa.cp0 \in Nat
    BY PipeIs DEF TypeInv, PipelineInv, PipeInv, Machine
  <2>2. ASSUME NEW l \in {p.icrf, p.rfex, p.exdc, p.dcwb}
        PROVE  l.op \in Op /\ l.seq \in 0 .. p.fetched /\ l.epoch \in 0 .. p.epoch
    <3>1. l \in Latch  BY <2>1, PipeIs
    <3>2. l.op \in Op /\ l.seq \in Nat /\ l.epoch \in Nat  BY <3>1 DEF Latch
    <3>3. CASE l.occupied
      <4>1. Dated(p, isa.epoch, isa.cp0, l)  BY <2>1 DEF Chronology
      <4> QED BY <2>1, <3>2, <3>3, <4>1 DEF Dated
    <3>4. CASE ~l.occupied
      <4>1. l = Bubble  BY <3>4 DEF TypeInv, Tidied
      <4>2. l.seq = 0 /\ l.epoch = 0  BY <4>1 DEF Bubble
      <4> QED BY <2>1, <3>2, <4>2
    <3> QED BY <3>3, <3>4
  <2>3. isa.epoch \in 0 .. p.epoch /\ isa.cp0 \in 0 .. p.fetched  BY <2>1 DEF Chronology
  <2> QED BY <2>1, <2>2, <2>3 DEF TypeInv, TypeOK
<1> QED BY <1>1, <1>2, <1>3, PTL DEF Spec
=============================================================================
