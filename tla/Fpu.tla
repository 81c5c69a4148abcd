-------------------------------- MODULE Fpu --------------------------------
(***************************************************************************)
(* The floating-point unit of the VR4300: the arithmetic of                *)
(* crates/rustyn64-cpu/src/softfloat.rs, the predicates and conversions of *)
(* fpu.rs, and the instructions of pipeline.rs that commit or trap.        *)
(*                                                                         *)
(* The code is written for any IEEE format (p bits of precision, a bias);  *)
(* the model keeps the code and takes small formats, so that every pair of *)
(* operands can be tried.  A number is the three fields of its bit         *)
(* pattern.  The 128-bit intermediate is wide enough for every shift that  *)
(* the two formats of the chip ask for, and is not bounded here.           *)
(***************************************************************************)
EXTENDS Integers, FiniteSets, FiniteSetsExt

CONSTANTS
    F32, F64,      \* the two formats: [p, bias, max]
    Guard,         \* the guard bits of an addition
    Norm,          \* the width a divisor or a radicand is normalised to
    WordBits, LongBits,
    LongTop,       \* a long with more significant bits is not converted
    Conds,         \* the conditions compared for
    FcsrWrites     \* what software writes to the control register

(* The five conditions of IEEE 754; the sixth, "unimplemented", has no enable. *)
Conditions == {"inexact", "underflow", "overflow", "div_by_zero", "invalid"}

ControlRegister ==
    [cause : SUBSET (Conditions \cup {"unimplemented"}), enables : SUBSET Conditions,
     flags : SUBSET Conditions, flush : BOOLEAN, rm : 0..3, c : BOOLEAN]

ASSUME FpuAssumption ==
    /\ F32.p \in Nat \ {0, 1} /\ F64.p > F32.p
    /\ Guard >= F32.p + 1 /\ Norm % 2 = 0 /\ Norm >= F64.p + 3
    /\ WordBits < LongBits /\ LongTop < LongBits
    /\ Conds \subseteq SUBSET {"less", "equal", "unordered", "signals"}
    /\ FcsrWrites \subseteq ControlRegister

VARIABLES
    fs,       \* the register the first operand is in: a number or an integer
    fcsr,     \* [cause, enables, flags, flush, rm, c]
    last      \* the instruction executed last and what became of it

fpuVars == <<fs, fcsr, last>>

-----------------------------------------------------------------------------
(* Formats (`Format`) and the fields of a number.                          *)
Pow2(n)     == 2 ^ n
Abs(n)      == IF n < 0 THEN -n ELSE n
ManBits(f)  == f.p - 1
MinLsb(f)   == 1 - f.bias - ManBits(f)
Floats(f)   == [neg : BOOLEAN, exp : 0..f.max, man : 0..Pow2(ManBits(f)) - 1]

Zero(neg)        == [neg |-> neg, exp |-> 0, man |-> 0]
Inf(neg, f)      == [neg |-> neg, exp |-> f.max, man |-> 0]
MaxFinite(neg, f) == [neg |-> neg, exp |-> f.max - 1, man |-> Pow2(ManBits(f)) - 1]
MinNormal(neg)   == [neg |-> neg, exp |-> 1, man |-> 0]
SignalBit(f)     == Pow2(ManBits(f) - 1)
DefaultNan(f)    == [neg |-> FALSE, exp |-> f.max, man |-> SignalBit(f) - 1]

IsNan(x, f)            == x.exp = f.max /\ x.man # 0
IsInf(x, f)            == x.exp = f.max /\ x.man = 0
IsZero(x)              == x.exp = 0 /\ x.man = 0
IsSnan(x, f)           == IsNan(x, f) /\ x.man >= SignalBit(f)
IsUnimplementedNan(x, f) == IsNan(x, f) /\ x.man < SignalBit(f)
IsSubnormal(x)         == x.exp = 0 /\ x.man # 0
Unimplemented(x, f)    == IsSubnormal(x) \/ IsUnimplementedNan(x, f)

Sig(x, f) == IF x.exp = 0 THEN x.man ELSE x.man + Pow2(ManBits(f))
Lsb(x, f) == IF x.exp = 0 THEN MinLsb(f) ELSE x.exp - f.bias - ManBits(f)

Done(bits, flags)  == [bits |-> bits, flags |-> flags]
InvalidResult(f)   == Done(DefaultNan(f), {"invalid"})
NanResult(args, f) == Done(DefaultNan(f), IF \E x \in args : IsSnan(x, f) THEN {"invalid"} ELSE {})

-----------------------------------------------------------------------------
(* Rounding.                                                               *)
Mode(rm) == CASE rm = 0 -> "nearest" [] rm = 1 -> "zero" [] rm = 2 -> "up" [] rm = 3 -> "down"

Away(neg, mode) == (mode = "up" /\ ~neg) \/ (mode = "down" /\ neg)

Overflowed(neg, f, mode) ==
    Done(IF mode = "nearest" \/ Away(neg, mode) THEN Inf(neg, f) ELSE MaxFinite(neg, f),
         {"overflow", "inexact"})

BitLength(n) == CHOOSE k \in 1..31 : Pow2(k - 1) <= n /\ (k = 31 \/ n < Pow2(k))

(* The bits that fall off decide, with those lost earlier (`sticky`).       *)
Increment(neg, kept, rest, half, sticky, mode) ==
    \/ mode = "nearest" /\ rest >= half /\ (rest > half \/ sticky \/ kept % 2 = 1)
    \/ Away(neg, mode) /\ (rest # 0 \/ sticky)

(* `round_pack`: the value sig * 2^exp, and a little more if sticky.        *)
RoundPack(neg, sig, exp, sticky, f, mode) ==
    LET toP     == BitLength(sig) - f.p
        toMin   == MinLsb(f) - exp
        shift   == IF toP > toMin THEN toP ELSE toMin
        rest    == IF shift > 0 THEN sig % Pow2(shift) ELSE 0
        low     == IF shift > 0 THEN sig \div Pow2(shift) ELSE sig * Pow2(-shift)
        kept    == IF shift > 0 /\ Increment(neg, low, rest, Pow2(shift - 1), sticky, mode)
                   THEN low + 1 ELSE low
        carry   == kept = Pow2(f.p)
        inexact == rest # 0 \/ sticky
        flags   == {x \in {"inexact", "underflow"} : inexact /\ (x = "underflow" => toMin > toP)}
        biased  == exp + shift + (IF carry THEN 1 ELSE 0) + f.p - 1 + f.bias
        man     == (IF carry THEN kept \div 2 ELSE kept) - Pow2(ManBits(f))
    IN  IF sig = 0 THEN Done(Zero(neg), {})
        ELSE IF man < 0 THEN Done([neg |-> neg, exp |-> 0, man |-> kept], flags)
        ELSE IF biased >= f.max THEN Overflowed(neg, f, mode)
        ELSE Done([neg |-> neg, exp |-> biased, man |-> man], flags)

Repack(x, f, to, mode) == RoundPack(x.neg, Sig(x, f), Lsb(x, f), FALSE, to, mode)

-----------------------------------------------------------------------------
(* The operations of softfloat.rs.                                         *)

(* A mutant: the bits the smaller operand loses are forgotten.              *)
AlignedBug(sig, diff) ==
    IF diff <= Guard THEN [sig |-> sig * Pow2(Guard - diff), sticky |-> FALSE]
    ELSE [sig |-> sig \div Pow2(diff - Guard), sticky |-> FALSE]

Aligned(sig, diff) ==
    IF diff <= Guard THEN [sig |-> sig * Pow2(Guard - diff), sticky |-> FALSE]
    ELSE [sig |-> sig \div Pow2(diff - Guard), sticky |-> sig % Pow2(diff - Guard) # 0]

AddFinite(a, b, f, mode) ==
    LET hi == IF Lsb(a, f) >= Lsb(b, f) THEN a ELSE b
        lo == IF Lsb(a, f) >= Lsb(b, f) THEN b ELSE a
        h  == Sig(hi, f) * Pow2(Guard)
        l  == Aligned(Sig(lo, f), Lsb(hi, f) - Lsb(lo, f))
        e  == Lsb(hi, f) - Guard
    IN  IF hi.neg = lo.neg THEN RoundPack(hi.neg, h + l.sig, e, l.sticky, f, mode)
        ELSE IF l.sticky THEN RoundPack(hi.neg, h - l.sig - 1, e, TRUE, f, mode)
        ELSE IF h = l.sig THEN Done(Zero(mode = "down"), {})
        ELSE RoundPack(IF h > l.sig THEN hi.neg ELSE lo.neg, Abs(h - l.sig), e, FALSE, f, mode)

AddUnpacked(a, b, f, mode) ==
    IF IsNan(a, f) \/ IsNan(b, f) THEN NanResult({a, b}, f)
    ELSE IF IsInf(a, f) /\ IsInf(b, f) /\ a.neg # b.neg THEN InvalidResult(f)
    ELSE IF IsInf(a, f) THEN Done(Inf(a.neg, f), {})
    ELSE IF IsInf(b, f) THEN Done(Inf(b.neg, f), {})
    ELSE IF IsZero(a) /\ IsZero(b) THEN Done(Zero(IF a.neg = b.neg THEN a.neg ELSE mode = "down"), {})
    ELSE IF IsZero(a) THEN Repack(b, f, f, mode)
    ELSE IF IsZero(b) THEN Repack(a, f, f, mode)
    ELSE AddFinite(a, b, f, mode)

Negated(x) == [x EXCEPT !.neg = ~@]

Mul(a, b, f, mode) ==
    LET neg  == a.neg # b.neg
        inf  == IsInf(a, f) \/ IsInf(b, f)
        zero == IsZero(a) \/ IsZero(b)
    IN  IF IsNan(a, f) \/ IsNan(b, f) THEN NanResult({a, b}, f)
        ELSE IF inf /\ zero THEN InvalidResult(f)
        ELSE IF inf THEN Done(Inf(neg, f), {})
        ELSE IF zero THEN Done(Zero(neg), {})
        ELSE RoundPack(neg, Sig(a, f) * Sig(b, f), Lsb(a, f) + Lsb(b, f), FALSE, f, mode)

(* `norm_to_63`: the significand shifted to Norm bits.                      *)
Normalised(x, f) ==
    LET sh == Norm - BitLength(Sig(x, f))
    IN  [sig |-> Sig(x, f) * Pow2(sh), exp |-> Lsb(x, f) - sh]

Div(a, b, f, mode) ==
    LET neg == a.neg # b.neg
        n   == Normalised(a, f)
        d   == Normalised(b, f)
        num == n.sig * Pow2(Norm)
    IN  IF IsNan(a, f) \/ IsNan(b, f) THEN NanResult({a, b}, f)
        ELSE IF (IsInf(a, f) /\ IsInf(b, f)) \/ (IsZero(a) /\ IsZero(b)) THEN InvalidResult(f)
        ELSE IF IsInf(a, f) THEN Done(Inf(neg, f), {})
        ELSE IF IsInf(b, f) \/ IsZero(a) THEN Done(Zero(neg), {})
        ELSE IF IsZero(b) THEN Done(Inf(neg, f), {"div_by_zero"})
        ELSE RoundPack(neg, num \div d.sig, n.exp - d.exp - Norm, num % d.sig # 0, f, mode)

Isqrt(n) == CHOOSE q \in 0..Pow2(Norm) : q * q <= n /\ n < (q + 1) * (q + 1)

Sqrt(a, f, mode) ==
    LET m == Normalised(a, f)
        o == m.exp % 2
        n == m.sig * Pow2(o) * Pow2(Norm - 2)
        q == Isqrt(n)
    IN  IF IsNan(a, f) THEN NanResult({a}, f)
        ELSE IF IsZero(a) THEN Done(Zero(a.neg), {})
        ELSE IF a.neg THEN InvalidResult(f)
        ELSE IF IsInf(a, f) THEN Done(Inf(FALSE, f), {})
        ELSE RoundPack(FALSE, q, (m.exp - o) \div 2 - (Norm - 2) \div 2, q * q # n, f, mode)

Convert(a, from, to, mode) ==
    IF IsNan(a, from) THEN Done(DefaultNan(to), IF IsSnan(a, from) THEN {"invalid"} ELSE {})
    ELSE IF IsInf(a, from) THEN Done(Inf(a.neg, to), {})
    ELSE IF IsZero(a) THEN Done(Zero(a.neg), {})
    ELSE Repack(a, from, to, mode)

FromInt(v, f, mode) ==
    IF v = 0 THEN Done(Zero(FALSE), {}) ELSE RoundPack(v < 0, Abs(v), 0, FALSE, f, mode)

-----------------------------------------------------------------------------
(* fpu.rs: comparison and conversion to integers.  A finite number is its  *)
(* integer multiple of the format's smallest step, 1 / Unit(f).            *)
Unit(f)       == Pow2(-MinLsb(f))
Magnitude(x, f) == IF x.exp = 0 THEN x.man ELSE (x.man + Pow2(ManBits(f))) * Pow2(x.exp - 1)
Scaled(x, f)  == IF x.neg THEN -Magnitude(x, f) ELSE Magnitude(x, f)

(* cond: which of Less, Equal and Unordered satisfy it, and whether an      *)
(* unordered comparison is invalid.                                        *)
Compare(a, b, f, cond) ==
    LET unordered == IsNan(a, f) \/ IsNan(b, f)
        value == \/ "less" \in cond /\ ~unordered /\ Scaled(a, f) < Scaled(b, f)
                 \/ "equal" \in cond /\ ~unordered /\ Scaled(a, f) = Scaled(b, f)
                 \/ "unordered" \in cond /\ unordered
        bad   == (unordered /\ "signals" \in cond) \/ IsSnan(a, f) \/ IsSnan(b, f)
    IN  Done(value, IF bad THEN {"invalid"} ELSE {})

(* n / u rounded to an integer (`trunc`, `floor`, `ceil`,                   *)
(* `round_ties_even`).                                                     *)
Trunc(n, u) == IF n < 0 THEN -((-n) \div u) ELSE n \div u
Floor(n, u) == IF n < 0 /\ Trunc(n, u) * u # n THEN Trunc(n, u) - 1 ELSE Trunc(n, u)
Ceil(n, u)  == IF n > 0 /\ Trunc(n, u) * u # n THEN Trunc(n, u) + 1 ELSE Trunc(n, u)
TiesEven(n, u) ==
    LET lo   == Floor(n, u)
        diff == 2 * (n - lo * u)
    IN  IF diff > u \/ (diff = u /\ lo % 2 # 0) THEN lo + 1 ELSE lo

RoundToInt(n, u, mode) ==
    CASE mode = "nearest" -> TiesEven(n, u) [] mode = "zero" -> Trunc(n, u)
      [] mode = "up" -> Ceil(n, u)          [] mode = "down" -> Floor(n, u)

(* `to_i32` and `to_i64`.                                                  *)
ToInt(x, f, bits, mode) ==
    LET r == RoundToInt(Scaled(x, f), Unit(f), mode)
    IN  IF IsNan(x, f) \/ r < -Pow2(bits - 1) \/ r >= Pow2(bits - 1) THEN Done(0, {"invalid"})
        ELSE Done(r, IF r * Unit(f) # Scaled(x, f) THEN {"inexact"} ELSE {})

LongConvertible(v) == v \in -Pow2(LongTop)..Pow2(LongTop) - 1

-----------------------------------------------------------------------------
(* The instructions (`fp_arith` and what it calls).  Each gives a value or  *)
(* none, the flags it raises, and whether it is left to software.          *)
Given(o)      == [bits |-> o.bits, flags |-> o.flags, unimplemented |-> FALSE]
NotDone       == [bits |-> 0, flags |-> {}, unimplemented |-> TRUE]

(* A result below the normal range is flushed, if FS says so and nobody     *)
(* wants to hear of it.                                                    *)
SubnormalPolicy(o, mode) ==
    IF ~IsSubnormal(o.bits) /\ "underflow" \notin o.flags THEN Given(o)
    ELSE IF ~fcsr.flush \/ fcsr.enables \cap {"underflow", "inexact"} # {} THEN NotDone
    ELSE Given(Done(IF Away(o.bits.neg, mode) THEN MinNormal(o.bits.neg) ELSE Zero(o.bits.neg),
                    o.flags \cup {"underflow", "inexact"}))

Binary(i, mode) ==
    IF Unimplemented(i.a, F32) \/ Unimplemented(i.b, F32) THEN NotDone
    ELSE SubnormalPolicy(CASE i.op = "add" -> AddUnpacked(i.a, i.b, F32, mode)
                           [] i.op = "sub" -> AddUnpacked(i.a, Negated(i.b), F32, mode)
                           [] i.op = "mul" -> Mul(i.a, i.b, F32, mode)
                           [] i.op = "div" -> Div(i.a, i.b, F32, mode), mode)

FpSqrt(i, mode) == IF Unimplemented(i.a, F32) THEN NotDone ELSE Given(Sqrt(i.a, F32, mode))

SignOp(i) ==
    IF Unimplemented(i.a, i.fmt) THEN NotDone
    ELSE Given(IF IsSnan(i.a, i.fmt) THEN InvalidResult(i.fmt)
               ELSE Done([i.a EXCEPT !.neg = i.op = "neg" /\ ~@], {}))

IntegerConversionUnimplemented(x, f) ==
    IsSubnormal(x) \/ (~IsNan(x, f) /\ Magnitude(x, f) >= Pow2(F64.p) * Unit(f))

ToInteger(i, mode) ==
    LET o == ToInt(i.a, i.fmt, IF i.wide THEN LongBits ELSE WordBits, mode)
    IN  IF IntegerConversionUnimplemented(i.a, i.fmt) \/ "invalid" \in o.flags THEN NotDone ELSE Given(o)

(* CVT.S.D, CVT.D.S; CVT.S and CVT.D of a word or a long.                   *)
ConvertFloat(i, mode) ==
    IF Unimplemented(i.a, i.fmt) THEN NotDone
    ELSE IF i.fmt = F64 THEN SubnormalPolicy(Convert(i.a, F64, F32, mode), mode)
    ELSE Given(Convert(i.a, F32, F64, mode))

ConvertInt(i, mode) ==
    IF i.wide /\ ~LongConvertible(i.a) THEN NotDone ELSE Given(FromInt(i.a, i.to, mode))

Outcome(i) ==
    LET mode == Mode(fcsr.rm)
    IN  CASE i.op \in {"add", "sub", "mul", "div"} -> Binary(i, mode)
          [] i.op = "sqrt"                        -> FpSqrt(i, mode)
          [] i.op \in {"abs", "neg"}              -> SignOp(i)
          [] i.op = "toint"                       -> ToInteger(i, IF i.rm = "cvt" THEN mode ELSE i.rm)
          [] i.op = "cvt"                         -> ConvertFloat(i, mode)
          [] i.op = "fromint"                     -> ConvertInt(i, mode)
          [] i.op = "c"                           -> Given(Compare(i.a, i.b, F32, i.cond))

-----------------------------------------------------------------------------
None == [op |-> "none"]

Ints(bits) == -Pow2(bits - 1)..Pow2(bits - 1) - 1

FpuInit ==
    /\ fs \in [holds : {"S"}, value : Floats(F32)] \cup [holds : {"D"}, value : Floats(F64)]
             \cup [holds : {"word"}, value : Ints(WordBits)]
             \cup [holds : {"long"}, value : Ints(LongBits)]
    /\ fcsr = [cause |-> {}, enables |-> {}, flags |-> {}, flush |-> FALSE, rm |-> 0, c |-> FALSE]
    /\ last = [instr |-> None, trapped |-> FALSE, bits |-> "old", before |-> fcsr]

(* The bound: one instruction after the control register is written.        *)
Ready == last.instr = None

(* CTC1 writes every field; it traps at once on what it has written.        *)
Ctc1(w) ==
    /\ fcsr' = w /\ UNCHANGED fs
    /\ last' = [instr |-> None, bits |-> "old", before |-> w,
                trapped |-> "unimplemented" \in w.cause \/ w.cause \cap w.enables # {}]

(* A mutant: the flags are set before the trap is decided.                  *)
CommitBug(i, o) ==
    LET raised == o.flags \cup (IF o.unimplemented THEN {"unimplemented"} ELSE {})
        trap   == o.unimplemented \/ raised \cap fcsr.enables # {}
    IN  /\ fcsr' = [fcsr EXCEPT !.cause = raised, !.flags = @ \cup o.flags] /\ UNCHANGED fs
        /\ last' = [instr |-> i, before |-> fcsr, trapped |-> trap, bits |-> IF trap THEN "old" ELSE o.bits]

Commit(i, o) ==
    LET raised == o.flags \cup (IF o.unimplemented THEN {"unimplemented"} ELSE {})
        trap   == o.unimplemented \/ raised \cap fcsr.enables # {}
    IN  /\ fcsr' = IF trap THEN [fcsr EXCEPT !.cause = raised]
                   ELSE [fcsr EXCEPT !.cause = raised, !.flags = @ \cup raised,
                                     !.c = IF i.op = "c" THEN o.bits ELSE @]
        /\ UNCHANGED fs
        /\ last' = [instr |-> i, before |-> fcsr, trapped |-> trap, bits |-> IF trap THEN "old" ELSE o.bits]

(* One instruction at WB.                                                  *)
FpArith(i) == Commit(i, Outcome(i))

Format == IF fs.holds = "S" THEN F32 ELSE F64

(* What can be done with the register, by what it holds.                    *)
Single ==
    [op : {"add", "sub", "mul", "div"}, a : {fs.value}, b : Floats(F32)]
      \cup [op : {"sqrt", "abs", "neg"}, a : {fs.value}, fmt : {F32}]
      \cup [op : {"c"}, a : {fs.value}, b : {b \in Floats(F32) : b.exp \in {0, F32.max}}, cond : Conds]

FloatTo ==
    [op : {"cvt"}, a : {fs.value}, fmt : {Format}]
      \cup [op : {"toint"}, a : {fs.value}, fmt : {Format}, wide : BOOLEAN,
            rm : {"cvt", "nearest", "zero", "up", "down"}]

IntegerTo == [op : {"fromint"}, a : {fs.value}, wide : {fs.holds = "long"}, to : {F32, F64}]

Instructions ==
    (IF fs.holds = "S" THEN Single ELSE {})
      \cup (IF fs.holds \in {"S", "D"} THEN FloatTo ELSE IntegerTo)

Execute == Ready /\ \E i \in Instructions : FpArith(i)

FpuNext == (Ready /\ \E w \in FcsrWrites : Ctc1(w)) \/ Execute

FpuSpec == FpuInit /\ [][FpuNext]_fpuVars

-----------------------------------------------------------------------------
(* Reference arithmetic: the exact result of an instruction, num / den (or  *)
(* its square root) in steps of the target format, and the number of that  *)
(* format IEEE 754 rounds it to, found by looking at all of them.           *)
Target(i) == CASE i.op = "cvt"     -> IF i.fmt = F32 THEN F64 ELSE F32
               [] i.op = "fromint" -> i.to
               [] OTHER            -> F32

Fraction(num, den) == [neg |-> num < 0, num |-> Abs(num), den |-> den, root |-> FALSE]

Exact(i) ==
    LET a == Scaled(i.a, F32)
        b == Scaled(i.b, F32)
    IN  CASE i.op = "add"     -> Fraction(a + b, 1)
          [] i.op = "sub"     -> Fraction(a - b, 1)
          [] i.op = "mul"     -> Fraction(a * b, Unit(F32))
          [] i.op = "div"     -> Fraction((IF b < 0 THEN -a ELSE a) * Unit(F32), Abs(b))
          [] i.op = "sqrt"    -> [Fraction(a * Unit(F32), 1) EXCEPT !.root = TRUE]
          [] i.op = "fromint" -> Fraction(i.a * Unit(i.to), 1)
          [] i.op = "cvt"     -> IF i.fmt = F32 THEN Fraction(a * (Unit(F64) \div Unit(F32)), 1)
                                 ELSE Fraction(Scaled(i.a, F64), Unit(F64) \div Unit(F32))

(* k half steps against x.                                                 *)
AtMost(k, x)  == IF x.root THEN k * k * x.den <= 4 * x.num ELSE k * x.den <= 2 * x.num
AtLeast(k, x) == IF x.root THEN k * k * x.den >= 4 * x.num ELSE k * x.den >= 2 * x.num

Ieee(x, f, mode) ==
    LET numbers == {y \in Floats(f) : ~y.neg /\ ~IsNan(y, f)}
        low   == {y \in numbers : AtMost(2 * Magnitude(y, f), x)}
        high  == {y \in numbers : AtLeast(2 * Magnitude(y, f), x)}
        down  == FoldSet(LAMBDA y, z : IF Magnitude(y, f) > Magnitude(z, f) THEN y ELSE z,
                         Zero(FALSE), low)
        up    == FoldSet(LAMBDA y, z : IF Magnitude(y, f) < Magnitude(z, f) THEN y ELSE z,
                         Inf(FALSE, f), high)
        mid   == Magnitude(down, f) + Magnitude(up, f)
        above == ~AtLeast(mid, x) \/ (AtMost(mid, x) /\ down.man % 2 = 1)
        pick  == IF Away(x.neg, mode) \/ (mode = "nearest" /\ above) THEN up ELSE down
        over  == IsInf(pick, f)
        bits  == IF over /\ mode # "nearest" /\ ~Away(x.neg, mode) THEN MaxFinite(FALSE, f) ELSE pick
    IN  Done([bits EXCEPT !.neg = x.neg],
             (IF over THEN {"overflow"} ELSE {}) \cup
             (IF over \/ low \cap high = {} THEN {"inexact"} ELSE {}))

Tiny(x, f) == ~AtLeast(0, x) /\ ~AtMost(2 * Magnitude(MinNormal(FALSE), f), x)

Finite(x, f) == x.exp < f.max

(* The instruction has a finite nonzero exact result to be rounded.         *)
HasResult(i) ==
    /\ i.op \in {"add", "sub", "mul", "div", "sqrt", "cvt", "fromint"}
    /\ i.op = "fromint" => ~i.wide \/ LongConvertible(i.a)
    /\ i.op = "cvt" => Finite(i.a, i.fmt) /\ ~Unimplemented(i.a, i.fmt)
    /\ i.op \in {"add", "sub", "mul", "div", "sqrt"} => Finite(i.a, F32) /\ ~Unimplemented(i.a, F32)
    /\ i.op \in {"add", "sub", "mul", "div"} => Finite(i.b, F32) /\ ~Unimplemented(i.b, F32)
    /\ i.op = "div" => ~IsZero(i.b)
    /\ i.op = "sqrt" => ~i.a.neg
    /\ Exact(i).num # 0

-----------------------------------------------------------------------------
(* Properties.                                                             *)

(* Every arithmetic instruction and conversion with a finite result gives   *)
(* the number IEEE 754 rounds the exact result to in the mode of FCSR, and *)
(* raises the conditions it asks for: through alignment, sticky bits,       *)
(* carries and double shifts.  Below the normal range, where the chip       *)
(* leaves IEEE, the result is flushed or left to software, never subnormal. *)
CorrectlyRounded ==
    LET i    == last.instr
        mode == Mode(last.before.rm)
        x    == Exact(i)
        r    == Ieee(x, Target(i), mode)
        en   == last.before.enables
    IN  i.op # "none" /\ HasResult(i) =>
          IF Tiny(x, Target(i))
          THEN IF last.before.flush /\ en \cap {"underflow", "inexact"} = {}
               THEN /\ fcsr.cause = {"underflow", "inexact"} /\ ~last.trapped
                    /\ last.bits = IF Away(x.neg, mode) THEN MinNormal(x.neg) ELSE Zero(x.neg)
               ELSE last.trapped /\ fcsr.cause = {"unimplemented"}
          ELSE /\ fcsr.cause = r.flags
               /\ last.trapped <=> r.flags \cap en # {}
               /\ last.trapped \/ last.bits = r.bits

(* A conversion to an integer gives the integer the mode asks for, within   *)
(* the width of the destination, and inexact if it is another number; what *)
(* has no such integer is left to software and never truncated.            *)
IntegerRounded ==
    LET i    == last.instr
        mode == IF i.rm = "cvt" THEN Mode(last.before.rm) ELSE i.rm
        u    == Unit(i.fmt)
        x    == Scaled(i.a, i.fmt)
        d    == last.bits * u - x
        top  == Pow2((IF i.wide THEN LongBits ELSE WordBits) - 1)
    IN  i.op = "toint" =>
          /\ "unimplemented" \in fcsr.cause <=>
                \/ IsSubnormal(i.a) \/ ~Finite(i.a, i.fmt) \/ Abs(x) >= Pow2(F64.p) * u
                \/ ~\E r \in -top..top - 1 : RoundToInt(x, u, mode) = r
          /\ ~last.trapped =>
                /\ last.bits \in -top..top - 1
                /\ fcsr.cause = IF d = 0 THEN {} ELSE {"inexact"}
                /\ mode = "nearest" => 2 * Abs(d) <= u /\ (2 * Abs(d) = u => last.bits % 2 = 0)
                /\ mode = "up" => d \in 0..u - 1
                /\ mode = "down" => -d \in 0..u - 1
                /\ mode = "zero" => Abs(d) < u /\ Abs(last.bits) * u <= Abs(x)

(* An instruction that traps says why and leaves the sticky flags and the   *)
(* condition as they were, so that it can be run again; one that does not   *)
(* leaves no condition pending that is enabled, and its flags stick.        *)
TrapOrCommit ==
    LET old == last.before
    IN  /\ last.trapped <=> "unimplemented" \in fcsr.cause \/ fcsr.cause \cap fcsr.enables # {}
        /\ last.instr # None =>
              /\ fcsr.flags = IF last.trapped THEN old.flags ELSE old.flags \cup fcsr.cause
              /\ fcsr.c # old.c => ~last.trapped /\ last.instr.op = "c"
              /\ [fcsr EXCEPT !.cause = old.cause, !.flags = old.flags, !.c = old.c] = old
=============================================================================
