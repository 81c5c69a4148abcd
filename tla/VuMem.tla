------------------------------- MODULE VuMem -------------------------------
(***************************************************************************)
(* The moves between the RSP's vector registers and what is outside them   *)
(* (vu.rs): the vector loads and stores, and MTC2, MFC2, CTC2, CFC2.       *)
(*                                                                         *)
(* A register is sixteen bytes, two to a lane.  Each load and store has    *)
(* its own rule for the bytes it touches, which depends on the address,    *)
(* the element and on whether it loads or stores; programs combine them.   *)
(* One step is one instruction of a program chosen at the start, which     *)
(* finds in registers and in memory whatever Regs0 and Dmem0 have there.   *)
(***************************************************************************)
EXTENDS Integers, Sequences

CONSTANTS
  DMEM_LEN,   \* the size of DMEM
  Bases,      \* the addresses programs are run at
  Regs0,      \* the eight registers, byte by byte, that they find
  Dmem0       \* and the memory

Addr == 0 .. DMEM_LEN - 1
ByteOf == 0 .. 15

\* The matrix that is turned has room.
ASSUME VuMemAssumption ==
  /\ DMEM_LEN \in Nat /\ DMEM_LEN % 16 = 0 /\ DMEM_LEN >= 128
  /\ Bases \subseteq Nat
  /\ Regs0 \in [0 .. 7 -> [ByteOf -> 0 .. 255]] /\ Dmem0 \in [Addr -> 0 .. 255]

VARIABLES
  regs,     \* eight registers, byte by byte
  dmem,
  control,  \* VCO, VCC, VCE
  gpr,      \* the scalar register moves go to
  program,  \* the program, and the address and the element it is run with
  done      \* how much of it has been run

vuMemVars == <<regs, dmem, control, gpr, program, done>>

-----------------------------------------------------------------------------
Least(a, b) == IF a < b THEN a ELSE b

Mem(a) == dmem[a % DMEM_LEN]
\* A lane of a register.
Lane == 0 .. 7
LaneOf(r, l) == regs[r][2 * l] * 256 + regs[r][2 * l + 1]
Sext(v) == IF v < 32768 THEN v ELSE v - 65536

\* sext7
Signed7(offset) == IF offset < 64 THEN offset ELSE offset - 128

\* The offset is in units of the access.
Scale(op) ==
  CASE op = "b" -> 1 [] op = "s" -> 2 [] op = "l" -> 4 [] op \in {"d", "p", "u"} -> 8
    [] OTHER -> 16

Address(i) == i.base + Signed7(i.offset) * Scale(i.op)

\* Memory of which n bytes have become byte[i], the i-th at to[i].
Stored(memory, n, to, byte) ==
  [a \in Addr |->
     IF \E i \in 0 .. n - 1 : to[i] % DMEM_LEN = a
       THEN byte[CHOOSE i \in 0 .. n - 1 : to[i] % DMEM_LEN = a] ELSE memory[a]]

Store(n, to, byte) == dmem' = Stored(dmem, n, to, byte) /\ UNCHANGED regs

\* A register of which n bytes have become byte[i], from the first on.
Loaded(register, first, n, byte) ==
  [b \in ByteOf |-> IF b \in first .. first + n - 1 THEN byte[b - first] ELSE register[b]]

Load(r, first, n, byte) ==
  regs' = [regs EXCEPT ![r] = Loaded(@, first, n, byte)] /\ UNCHANGED dmem

\* The bytes of lanes.
HalvesOf(v) ==
  [b \in ByteOf |-> IF b % 2 = 0 THEN (v[b \div 2] \div 256) % 256 ELSE v[b \div 2] % 256]

-----------------------------------------------------------------------------
\* LBV, LSV, LLV, LDV are cut short by the register's end; SBV, SSV, SLV, SDV go round it.
ScalarLoad(i, a) ==
  Load(i.vt, i.e, Least(Scale(i.op), 16 - i.e), [k \in ByteOf |-> Mem(a + k)])
ScalarStore(i, a) ==
  Store(Scale(i.op), [k \in ByteOf |-> a + k], [k \in ByteOf |-> regs[i.vt][(i.e + k) % 16]])

\* LQV and SQV end with the sixteen bytes the address is in.
QuadLoad(i, a) ==
  Load(i.vt, i.e, Least(16 - (a % 16), 16 - i.e), [k \in ByteOf |-> Mem(a + k)])
QuadStore(i, a) ==
  Store(16 - (a % 16), [k \in ByteOf |-> a + k], [k \in ByteOf |-> regs[i.vt][(i.e + k) % 16]])

\* A mutant: the rest lands at the register's front.
RestFirstBug(n, e) == e

\* LRV and SRV have the bytes before the address, in the far end of the register.
RestFirst(n, e) == 16 - n + e

RestLoad(i, a) ==
  LET n == a % 16 IN
  Load(i.vt, RestFirst(n, i.e), IF i.e < n THEN n - i.e ELSE 0,
       [k \in ByteOf |-> Mem(a - n + k)])
RestStore(i, a) ==
  LET n == a % 16 IN
  Store(n, [k \in ByteOf |-> a - n + k],
        [k \in ByteOf |-> regs[i.vt][(i.e + 16 - n + k) % 16]])

\* LPV, LUV: a byte to a lane, at its top or one bit below.
PackedLoad(i, a) ==
  Load(i.vt, 0, 16, HalvesOf([l \in Lane |->
    Mem(a - (a % 8) + (((a % 8) - i.e + l) % 16)) * (IF i.op = "u" THEN 128 ELSE 256)]))

\* SPV, SUV: which of the two is stored alternates with the element.
PackedStore(i, a) ==
  Store(8, [k \in Lane |-> a + k], [k \in Lane |->
    LET l == (i.e + k) % 8 IN
    IF ((i.e + k) % 16 < 8) # (i.op = "u") THEN regs[i.vt][2 * l]
    ELSE (LaneOf(i.vt, l) \div 128) % 256])

\* LHV, SHV: every other byte.
HalfLoad(i, a) ==
  Load(i.vt, 0, 16, HalvesOf([l \in Lane |->
    Mem(a - (a % 8) + (((a % 8) - i.e + 2 * l) % 16)) * 128]))
HalfStore(i, a) ==
  Store(8, [k \in Lane |-> a - (a % 8) + (((a % 8) + 2 * k) % 16)], [k \in Lane |->
    (regs[i.vt][(i.e + 2 * k) % 16] * 2 + regs[i.vt][(i.e + 2 * k + 1) % 16] \div 128) % 256])

\* LFV, SFV: every fourth, into half of the register.
Fourth(e) == <<e, 4 - e, 8 - e, 12 - e, 8 - e, 12 - e, -e, 4 - e>>

FourthLoad(i, a) ==
  LET v == [l \in Lane |->
             Mem(a - (a % 8) + (((a % 8) + Fourth(i.e)[l + 1]) % 16)) * 128]
  IN Load(i.vt, i.e, Least(8, 16 - i.e), [k \in ByteOf |-> HalvesOf(v)[i.e + k]])

FourthLanes(e) ==
  CASE e \in {0, 15} -> <<0, 1, 2, 3>> [] e = 1  -> <<6, 7, 4, 5>> [] e = 4  -> <<1, 2, 3, 0>>
    [] e = 5         -> <<7, 4, 5, 6>> [] e = 8  -> <<4, 5, 6, 7>> [] e = 11 -> <<3, 0, 1, 2>>
    [] e = 12        -> <<5, 6, 7, 4>> [] OTHER  -> <<>>

FourthStore(i, a) ==
  Store(4, [k \in 0 .. 3 |-> a - (a % 8) + (((a % 8) + 4 * k) % 16)], [k \in 0 .. 3 |->
    IF FourthLanes(i.e) = <<>> THEN 0
    ELSE (LaneOf(i.vt, FourthLanes(i.e)[k + 1]) \div 128) % 256])

\* SWV: the register, rotated within sixteen bytes.
WrapStore(i, a) ==
  Store(16, [k \in ByteOf |-> a - (a % 8) + (((a % 8) + k) % 16)],
            [k \in ByteOf |-> regs[i.vt][(i.e + k) % 16]])

\* A mutant: the first register is the group's first, whatever the element.
FirstOfGroupBug(e) == 0

\* LTV: a lane to each register of a group, from a diagonal.
FirstOfGroup(e) == e \div 2

TransposeLoad(i, a) ==
  LET byte(r, b) ==
        Mem(a - (a % 8) + ((i.e + (IF a % 16 < 8 THEN 0 ELSE 8) + b) % 16))
  IN /\ regs' = [r \in DOMAIN regs |-> [b \in ByteOf |->
                  IF (FirstOfGroup(i.e) + b \div 2) % 8 = r THEN byte(r, b) ELSE regs[r][b]]]
     /\ UNCHANGED dmem

TransposeStore(i, a) ==
  LET e == i.e - (i.e % 2) IN
  Store(16, [k \in ByteOf |-> a - (a % 8) + (((a % 8) - e + k) % 16)],
            [k \in ByteOf |-> regs[k \div 2][(16 - e + k) % 16]])

-----------------------------------------------------------------------------
\* vector_mem; LWV does nothing.
Memory(i) ==
  LET a == Address(i) + DMEM_LEN IN
  /\ UNCHANGED <<control, gpr>>
  /\ IF i.store
       THEN \/ i.op \in {"b", "s", "l", "d"} /\ ScalarStore(i, a)
            \/ i.op = "q" /\ QuadStore(i, a)
            \/ i.op = "r" /\ RestStore(i, a)
            \/ i.op \in {"p", "u"} /\ PackedStore(i, a)
            \/ i.op = "h" /\ HalfStore(i, a)
            \/ i.op = "f" /\ FourthStore(i, a)
            \/ i.op = "w" /\ WrapStore(i, a)
            \/ i.op = "t" /\ TransposeStore(i, a)
       ELSE \/ i.op \in {"b", "s", "l", "d"} /\ ScalarLoad(i, a)
            \/ i.op = "q" /\ QuadLoad(i, a)
            \/ i.op = "r" /\ RestLoad(i, a)
            \/ i.op \in {"p", "u"} /\ PackedLoad(i, a)
            \/ i.op = "h" /\ HalfLoad(i, a)
            \/ i.op = "f" /\ FourthLoad(i, a)
            \/ i.op = "w" /\ UNCHANGED <<regs, dmem>>
            \/ i.op = "t" /\ TransposeLoad(i, a)

\* MTC2 has one byte only to write at the end of a register; MFC2 goes round it.
Mtc2(r, e) ==
  /\ Load(r, e, Least(2, 16 - e),
          [k \in ByteOf |-> IF k = 0 THEN (gpr \div 256) % 256 ELSE gpr % 256])
  /\ UNCHANGED <<control, gpr>>

Mfc2(r, e) ==
  /\ gpr' = Sext(regs[r][e] * 256 + regs[r][(e + 1) % 16])
  /\ UNCHANGED <<regs, dmem, control>>

ControlIndex(n) == Least(n % 4, 2)

Ctc2(n) ==
  /\ control' = [control EXCEPT ![ControlIndex(n)] =
       IF ControlIndex(n) = 2 THEN gpr % 256 ELSE gpr % 65536]
  /\ UNCHANGED <<regs, dmem, gpr>>

Cfc2(n) == gpr' = Sext(control[ControlIndex(n)]) /\ UNCHANGED <<regs, dmem, control>>

Execute(i) ==
  CASE i.op = "mtc2" -> Mtc2(i.vt, i.e)
    [] i.op = "mfc2" -> Mfc2(i.vt, i.e)
    [] i.op = "ctc2" -> Ctc2(i.vt)
    [] i.op = "cfc2" -> Cfc2(i.vt)
    [] OTHER         -> Memory(i)

-----------------------------------------------------------------------------
\* The programs.
I(store, op, vt, e, offset) ==
  [store |-> store, op |-> op, vt |-> vt, e |-> e, base |-> program.base, offset |-> offset]

ScalarSizes == {"b", "s", "l", "d"}
Names == ScalarSizes \cup {"load", "store", "p", "u", "h", "f", "w", "transpose", "move"}

Code ==
  CASE program.name = "load"  -> <<I(FALSE, "q", 1, 0, 0), I(FALSE, "r", 1, 0, 1)>>
    [] program.name = "store" -> <<I(TRUE, "q", 1, 0, 127), I(TRUE, "r", 1, 0, 0)>>
    [] program.name \in ScalarSizes ->
         <<I(FALSE, program.name, 1, program.e, 0), I(TRUE, program.name, 1, program.e, 2)>>
    [] program.name \in {"p", "u", "h"} ->
         <<I(TRUE, program.name, 1, 0, 0), I(FALSE, program.name, 2, 0, 0)>>
    [] program.name = "f" ->
         <<I(TRUE, "f", 1, 0, 0), I(TRUE, "f", 2, 8, 1),
           I(FALSE, "f", 3, 0, 0), I(FALSE, "f", 3, 8, 1)>>
    [] program.name = "w" -> <<I(TRUE, "w", 1, program.e, 0), I(FALSE, "w", 1, 0, 0)>>
    [] program.name = "transpose" ->
         [k \in 1 .. 16 |-> IF k <= 8 THEN I(TRUE, "t", 0, 2 * (k - 1), k - 1)
                            ELSE I(FALSE, "t", 0, (16 - 2 * (k - 9)) % 16, k - 9)]
    [] program.name = "move" ->
         <<I(FALSE, "mfc2", 1, program.e, 0), I(FALSE, "mtc2", 2, program.e, 0),
           I(FALSE, "ctc2", program.e, 0, 0), I(FALSE, "cfc2", program.e, 0, 0)>>

VuMemInit ==
  /\ regs = Regs0 /\ dmem = Dmem0
  /\ control = [n \in 0 .. 2 |-> 0] /\ gpr = 0
  /\ program \in [name : Names, base : Bases, e : ByteOf]
  /\ program.name \in ScalarSizes \cup {"w", "move"} \/ program.e = 0
  /\ program.name = "transpose" => program.base % 16 = 0
  /\ done = 0

VuMemNext ==
  /\ done < Len(Code)
  /\ done' = done + 1
  /\ \E i \in {Code[done + 1]} : Execute(i)
  /\ UNCHANGED program

VuMemSpec == VuMemInit /\ [][VuMemNext]_vuMemVars

-----------------------------------------------------------------------------
Ended(names) == program.name \in names /\ done = Len(Code)

Mem0(a) == Dmem0[a % DMEM_LEN]
Lane0(r, l) == Regs0[r][2 * l] * 256 + Regs0[r][2 * l + 1]

\* Memory is as it was but for the n bytes from a.
Untouched(a, n) ==
  \A x \in Addr : x \notin {(a + k) % DMEM_LEN : k \in 0 .. n - 1} => dmem[x] = Dmem0[x]

\* Vector loads and stores compose, whatever the alignment: LQV with LRV, and SQV with SRV,
\* move sixteen bytes from or to any address and touch no other; a scalar load and a store
\* with the same element copy what fits; the packed, strided and fractional loads read back
\* what their stores have kept of each lane; eight transposing stores and loads turn a
\* matrix; and a value moved to a register and back is the value, at any byte but the last.
MovesCompose ==
  LET b == program.base IN
  /\ Ended({"load"}) => \A k \in ByteOf : regs[1][k] = Mem0(b + k)
  /\ Ended({"store"}) =>
       /\ \A k \in ByteOf : dmem[(b - 16 + k + DMEM_LEN) % DMEM_LEN] = Regs0[1][k]
       /\ Untouched(b - 16 + DMEM_LEN, 16)
  /\ Ended(ScalarSizes) =>
       LET n == Scale(program.name) IN
       /\ \A k \in 0 .. Least(n, 16 - program.e) - 1 :
            dmem[(b + 2 * n + k) % DMEM_LEN] = Mem0(b + k)
       /\ \A k \in 16 - program.e .. n - 1 :
            dmem[(b + 2 * n + k) % DMEM_LEN] = Regs0[1][(program.e + k) % 16]
       /\ Untouched(b + 2 * n, n)
  /\ Ended({"p"}) => \A l \in 0 .. 7 : LaneOf(2, l) = Regs0[1][2 * l] * 256
  /\ Ended({"u", "h"}) =>
       \A l \in 0 .. 7 : LaneOf(2, l) = ((Lane0(1, l) \div 128) % 256) * 128
  /\ Ended({"f"}) =>
       \A l \in 0 .. 7 : LaneOf(3, l) = ((Lane0(IF l < 4 THEN 1 ELSE 2, l) \div 128) % 256) * 128
  /\ Ended({"w"}) =>
       /\ {dmem[(b - (b % 8) + k) % DMEM_LEN] : k \in ByteOf} = {Regs0[1][k] : k \in ByteOf}
       /\ dmem[b % DMEM_LEN] = Regs0[1][program.e]
  /\ Ended({"transpose"}) =>
       \A r, l \in 0 .. 7 : LaneOf(r, l) = Lane0(l, r)
  /\ Ended({"move"}) =>
       LET v == Regs0[1][program.e] * 256 + Regs0[1][(program.e + 1) % 16] IN
       /\ regs[2][program.e] = Regs0[1][program.e]
       /\ IF program.e < 15 THEN regs[2][program.e + 1] = Regs0[1][program.e + 1]
          ELSE regs[2][0] = Regs0[2][0]
       /\ gpr = IF ControlIndex(program.e) = 2 THEN v % 256 ELSE Sext(v)
=============================================================================
