--------------------------------- MODULE Vu ---------------------------------
(***************************************************************************)
(* The computational instructions of the RSP's vector unit (vu.rs): eight  *)
(* lanes of W bits, an accumulator of 3 * W bits a lane, the flag          *)
(* registers VCO, VCC and VCE, and the reciprocal unit with its latches.   *)
(*                                                                         *)
(* The code has W = 16 and tables of 2^9 entries; every other constant of  *)
(* its arithmetic follows from those and is written here in terms of them. *)
(* A flag register is kept as the sets of the lanes whose bits are set.    *)
(* One step executes the next instruction of a program chosen at the       *)
(* start; two registers hold the high and the low halves of S, two those   *)
(* of T, so that a program may compute with numbers of double width.       *)
(***************************************************************************)
EXTENDS Integers, Sequences

CONSTANTS
  W,          \* bits of a lane
  K,          \* index bits of the reciprocal tables
  Q,          \* VMULQ and VMACQ leave multiples of 2^Q
  Rows        \* what S and T may be: pairs of vectors of double-width numbers

VuAssumption == W \in Nat /\ W > 2 /\ K \in 1 .. 2 * W - 2 /\ Q \in 0 .. W - 2

VARIABLES
  vpr,      \* vu_regs
  acc,      \* vu_acc, signed
  ctrl,     \* VCO: carry, ne; VCC: lo, hi; VCE: ce
  div,      \* the latches of the reciprocal unit
  idiom,    \* the program being run
  at,       \* how much of it has been
  idle,     \* whether nothing foreign has come between its instructions
  row       \* history: the operands

vars == <<vpr, acc, ctrl, div, idiom, at, idle, row>>

-----------------------------------------------------------------------------
Lane == 0 .. 7
Sh == 0
Sl == 1
Th == 2
Tl == 3
Zero == 7

P(n) == 2 ^ n
Signed(v) == IF v < P(W - 1) THEN v ELSE v - P(W)
Bits(v) == v % P(W)
High(v) == Bits(v \div P(W))
Low(v) == Bits(v)
Negated(t) == Bits(-t)
Complement(t) == P(W) - 1 - t

Flag(S, l, v) == IF v THEN S \cup {l} ELSE S \ {l}

\* vt_lane: the broadcast modifier.
Broadcast(v, e) ==
  [l \in Lane |->
     v[CASE e \in 0 .. 1 -> l
         [] e \in 2 .. 3 -> (l - (l % 2)) + e - 2
         [] e \in 4 .. 7 -> (l - (l % 4)) + e - 4
         [] OTHER        -> e - 8]]

MaxSigned == P(W - 1) - 1
MinSigned == -P(W - 1)

clamp_signed(v) == Bits(IF v > MaxSigned THEN MaxSigned ELSE IF v < MinSigned THEN MinSigned ELSE v)

\* The threshold is that of a signed lane, the saturated value is not.
clamp_unsigned(v) == IF v < 0 THEN 0 ELSE IF v > MaxSigned THEN P(W) - 1 ELSE v

\* What VMADL and VMADN return: the low slice, or a saturation decided by the slices above.
extract_low(a) ==
  LET mid == a \div P(W) IN
  IF mid > MaxSigned THEN P(W) - 1 ELSE IF mid < MinSigned THEN 0 ELSE Bits(a)

\* A value as 3 * W bits hold it (set_acc, acc_signed, sclip48).
Wrap(v) == ((v + P(3 * W - 1)) % P(3 * W)) - P(3 * W - 1)

AccLow(a, v) == (a - (a % P(W))) + v

-----------------------------------------------------------------------------
\* The multiply group: what is multiplied, how it enters the accumulator, and what of it is
\* returned.
Multiplies == {"vmulf", "vmulu", "vmulq", "vmudl", "vmudm", "vmudn", "vmudh",
               "vmacf", "vmacu", "vmadl", "vmadm", "vmadn", "vmadh"}
Accumulates == {"vmacf", "vmacu", "vmadl", "vmadm", "vmadn", "vmadh"}

\* A mutant: the first factor of a mixed product is taken as signed.
ProductBug(op, s, t) ==
  CASE op \in {"vmudl", "vmadl"} -> (s * t) \div P(W)
    [] op \in {"vmudm", "vmadm"} -> Signed(s) * t
    [] op \in {"vmudn", "vmadn"} -> Signed(s) * Signed(t)
    [] op \in {"vmudh", "vmadh"} -> Signed(s) * Signed(t) * P(W)
    [] OTHER                     -> Signed(s) * Signed(t) * 2

Product(op, s, t) ==
  CASE op \in {"vmudl", "vmadl"} -> (s * t) \div P(W)
    [] op \in {"vmudm", "vmadm"} -> Signed(s) * t
    [] op \in {"vmudn", "vmadn"} -> s * Signed(t)
    [] op \in {"vmudh", "vmadh"} -> Signed(s) * Signed(t) * P(W)
    [] op = "vmulq" ->
         LET p == Signed(s) * Signed(t) IN (IF p < 0 THEN p + P(Q + 1) - 1 ELSE p) * P(W)
    [] OTHER                     -> Signed(s) * Signed(t) * 2

\* The rounding constant goes into the accumulator, and only when it is set.
Accumulated(op, a, s, t) ==
  Wrap(Product(op, s, t) + (IF op \in Accumulates THEN a
                            ELSE IF op \in {"vmulf", "vmulu"} THEN P(W - 1) ELSE 0))

Extracted(op, a) ==
  CASE op \in {"vmulu", "vmacu"}          -> clamp_unsigned(a \div P(W))
    [] op \in {"vmudl", "vmudn"}          -> Bits(a)
    [] op = "vmudm"                       -> Bits(a \div P(W))
    [] op \in {"vmadl", "vmadn"}          -> extract_low(a)
    [] op = "vmulq" -> LET v == clamp_signed(a \div P(W + 1)) IN v - (v % P(Q))
    [] OTHER                              -> clamp_signed(a \div P(W))

Multiply(op, s, t) ==
  LET a == [l \in Lane |-> Accumulated(op, acc[l], s[l], t[l])]
  IN  [out |-> [l \in Lane |-> Extracted(op, a[l])], acc |-> a, ctrl |-> ctrl]

\* VRNDP and VRNDN add to an accumulator of their own sign; the number of the register in
\* the vs field is a shift.
Round(positive, shift, t) ==
  LET a == [l \in Lane |->
              IF positive = (acc[l] >= 0)
                THEN Wrap(acc[l] + Signed(t[l]) * (IF shift THEN P(W) ELSE 1)) ELSE acc[l]]
  IN  [out |-> [l \in Lane |-> clamp_signed(a[l] \div P(W))], acc |-> a, ctrl |-> ctrl]

\* VMACQ makes the quantised value odd, towards zero.
Oddified(a) ==
  LET unit == P(W + Q + 1) IN
  IF (a \div unit) % 2 = 1 \/ a \div (2 * unit) = 0 THEN a
  ELSE IF a < 0 THEN a + unit ELSE a - unit

MacQ ==
  LET a == [l \in Lane |-> Oddified(acc[l])]
      value(x) == LET v == clamp_signed(x \div P(W + 1)) IN v - (v % P(Q))
  IN  [out |-> [l \in Lane |-> value(a[l])], acc |-> a, ctrl |-> ctrl]

-----------------------------------------------------------------------------
\* An instruction that leaves its result in the accumulator's low slice.
Lows(out, flags) ==
  [out |-> out, acc |-> [l \in Lane |-> AccLow(acc[l], out[l])], ctrl |-> flags]

\* A mutant: VCO is left as it was.
NoCarryBug(c) == c

\* What an instruction that consumes VCO leaves of it.
NoCarry(c) == [c EXCEPT !.carry = {}, !.ne = {}]

\* VADD and VSUB consume the carry.  The accumulator has the sum, the result is clamped.
Add(sign, s, t) ==
  LET sum == [l \in Lane |-> Signed(s[l]) + sign * Signed(t[l]) + (IF l \in ctrl.carry THEN sign ELSE 0)]
  IN  [out |-> [l \in Lane |-> clamp_signed(sum[l])],
       acc |-> [l \in Lane |-> AccLow(acc[l], Bits(sum[l]))], ctrl |-> NoCarry(ctrl)]

\* VADDC and VSUBC produce it; VSUBC also notes whether anything is left.
AddCarry(sign, s, t) ==
  LET sum == [l \in Lane |-> s[l] + sign * t[l]]
      out == [l \in Lane |-> Bits(sum[l])]
  IN  Lows(out, [ctrl EXCEPT !.carry = {l \in Lane : sum[l] \notin 0 .. P(W) - 1},
                             !.ne = IF sign = 1 THEN {} ELSE {l \in Lane : out[l] # 0}])

\* VABS: the sign of one operand on the other.  The negation of the least number saturates,
\* in the result only.
SignOf(s, t) ==
  IF Signed(s) < 0 THEN Negated(t) ELSE IF s = 0 THEN 0 ELSE t

Abs(s, t) ==
  LET a == [l \in Lane |-> SignOf(s[l], t[l])] IN
  [Lows(a, ctrl) EXCEPT
     !.out = [l \in Lane |-> IF Signed(s[l]) < 0 /\ t[l] = P(W - 1) THEN MaxSigned ELSE a[l]]]

\* VLT, VEQ, VNE, VGE look at the high halves; VCO tells how the low ones compared.
Holds(op, l, s, t) ==
  LET less == Signed(s) < Signed(t)
      carry == l \in ctrl.carry
      ne == l \in ctrl.ne
  IN CASE op = "vlt" -> less \/ (s = t /\ carry /\ ne)
       [] op = "veq" -> s = t /\ ~ne
       [] op = "vne" -> s # t \/ ne
       [] op = "vge" -> (~less /\ s # t) \/ (s = t /\ (~carry \/ ~ne))

Compare(op, s, t) ==
  LET lo == {l \in Lane : Holds(op, l, s[l], t[l])} IN
  Lows([l \in Lane |-> IF l \in lo THEN s[l] ELSE t[l]], [NoCarry(ctrl) EXCEPT !.lo = lo, !.hi = {}])

\* VMRG selects, and clears VCO as the compares do.
Merge(s, t) == Lows([l \in Lane |-> IF l \in ctrl.lo THEN s[l] ELSE t[l]], NoCarry(ctrl))

\* The bitwise group, on the sets of the bits that are set.
Logicals == {"vand", "vnand", "vor", "vnor", "vxor", "vnxor"}

Ones(v) == {b \in 0 .. W - 1 : (v \div P(b)) % 2 = 1}

Logical(op, s, t) ==
  LET ones(l) == LET x == Ones(s[l]) y == Ones(t[l]) IN
                 CASE op \in {"vand", "vnand"} -> x \cap y
                   [] op \in {"vor", "vnor"}   -> x \cup y
                   [] op \in {"vxor", "vnxor"} -> (x \cup y) \ (x \cap y)
      value(l) == CHOOSE v \in 0 .. P(W) - 1 : Ones(v) = ones(l)
  IN [l \in Lane |-> IF op \in {"vnand", "vnor", "vnxor"} THEN Complement(value(l)) ELSE value(l)]

-----------------------------------------------------------------------------
\* The clip compares.  VCH compares the high halves and leaves in VCO and VCE what VCL needs
\* to decide with the low ones.
Opposite(s, t) == (Signed(s) < 0) # (Signed(t) < 0)

VchFlags(c, l, s, t) ==
  LET neg == Opposite(s, t)
      r == IF neg THEN Signed(s) + Signed(t) ELSE Signed(s) - Signed(t)
  IN [carry |-> Flag(c.carry, l, neg),
      ne    |-> Flag(c.ne, l, r # 0 /\ (neg => s # Complement(t))),
      lo    |-> Flag(c.lo, l, IF neg THEN r <= 0 ELSE Signed(t) < 0),
      hi    |-> Flag(c.hi, l, IF neg THEN Signed(t) < 0 ELSE r >= 0),
      ce    |-> Flag(c.ce, l, neg /\ r = -1)]

\* A mutant: a sum of exactly zero is not a clip when the high halves were one apart.
SumClipsBug(sum, ce) == IF ce THEN sum < P(W) ELSE sum = 0

\* Whether S + T <= 0, from the sum of the low halves and the high halves' VCE.
SumClips(sum, ce) == IF ce THEN sum <= P(W) ELSE sum = 0

VclFlags(c, l, s, t) ==
  [c EXCEPT
     !.lo = IF l \in c.carry /\ l \notin c.ne THEN Flag(@, l, SumClips(s + t, l \in c.ce)) ELSE @,
     !.hi = IF l \notin c.carry /\ l \notin c.ne THEN Flag(@, l, s >= t) ELSE @]

VcrFlags(c, l, s, t) ==
  LET neg == Opposite(s, t) IN
  [c EXCEPT !.lo = Flag(@, l, IF neg THEN Signed(s) + Signed(t) < 0 ELSE Signed(t) < 0),
            !.hi = Flag(@, l, IF neg THEN Signed(t) < 0 ELSE Signed(s) >= Signed(t))]

\* Which side of the clip a lane takes: VCL by the sign VCH left in VCO.
Clipped(op, c, l, s, t) ==
  LET neg == IF op = "vcl" THEN l \in c.carry ELSE Opposite(s, t)
      minus == IF op = "vcr" THEN Complement(t) ELSE Negated(t)
  IN IF neg THEN (IF l \in c.lo THEN minus ELSE s) ELSE (IF l \in c.hi THEN t ELSE s)

Clip(op, s, t) ==
  LET flags(l) == CASE op = "vch" -> VchFlags(ctrl, l, s[l], t[l])
                    [] op = "vcl" -> VclFlags(ctrl, l, s[l], t[l])
                    [] op = "vcr" -> VcrFlags(ctrl, l, s[l], t[l])
      all == [f \in DOMAIN ctrl |-> {l \in Lane : l \in flags(l)[f]}]
      out == [l \in Lane |-> Clipped(op, all, l, s[l], t[l])]
  IN  Lows(out, IF op = "vch" THEN all ELSE [NoCarry(all) EXCEPT !.ce = {}])

-----------------------------------------------------------------------------
\* The reciprocal unit.  The tables, as they are built.
RECIPROCAL ==
  [i \in 0 .. P(K) - 1 |->
     IF i = 0 THEN P(W) - 1 ELSE Bits((P(W + K + 9) \div (i + P(K)) + 1) \div P(8))]

INVERSE_SQUARE_ROOT ==
  [i \in 0 .. P(K) - 1 |->
     LET a == IF i % 2 = 1 THEN (i + P(K)) \div 2 ELSE i + P(K)
         enough(b) == a * (b + 1) * (b + 1) >= P(2 * W + K + 3)
         first == CHOOSE b \in P(W + 1) .. P(W + 3) :
                    enough(b) /\ (b = P(W + 1) \/ ~enough(b - 1))
     IN Bits(first \div 2)]

LeadingZeros(v) == CHOOSE n \in 0 .. 2 * W : v < P(2 * W - n) /\ 2 * v >= P(2 * W - n)

\* reciprocal_core on its double-width operand.
Reciprocal(input, sqrt) ==
  LET data == IF input >= 0 THEN input ELSE IF input > MinSigned THEN -input ELSE -input - 1
      shift == LeadingZeros(data)
      index == ((data * P(shift)) % P(2 * W - 1)) \div P(2 * W - 1 - K)
      entry == IF sqrt THEN INVERSE_SQUARE_ROOT[(index - (index % 2)) + (shift % 2)] ELSE RECIPROCAL[index]
      back == IF sqrt THEN (2 * W - 1 - shift) \div 2 ELSE 2 * W - 1 - shift
      r == ((P(W) + entry) * P(W - 2)) \div P(back)
  IN IF data = 0 THEN P(2 * W - 1) - 1
     ELSE IF input = MinSigned THEN -P(W)
     ELSE IF input < 0 THEN -r - 1 ELSE r

\* A mutant: the staged half is used whether or not it is pending.
OperandBug(long, lane) == IF long THEN Signed(div.input) * P(W) + lane ELSE Signed(lane)

\* A staged half makes the operand of an L instruction double-width.
Operand(long, lane) ==
  IF long /\ div.pending THEN Signed(div.input) * P(W) + lane ELSE Signed(lane)

\* The single-lane group: the broadcast goes to the accumulator, one lane to the result.
Single(i) ==
  LET t == Broadcast(vpr[i.vt], i.e)
      de == i.vs % 8
      lane == t[i.e % 8]
      sqrt == i.op \in {"vrsq", "vrsql", "vrsqh"}
      r == Reciprocal(Operand(i.op \in {"vrcpl", "vrsql"}, lane), sqrt)
      value == CASE i.op \in {"vrcp", "vrcpl", "vrsq", "vrsql"} -> Low(r)
                 [] i.op \in {"vrcph", "vrsqh"}                 -> div.output
                 [] i.op = "vmov"                               -> t[de]
  IN /\ vpr' = [vpr EXCEPT ![i.vd][de] = value]
     /\ acc' = [l \in Lane |-> AccLow(acc[l], t[l])]
     /\ div' = CASE i.op \in {"vrcp", "vrcpl", "vrsq", "vrsql"} ->
                      [div EXCEPT !.pending = FALSE, !.output = High(r)]
                 [] i.op \in {"vrcph", "vrsqh"} -> [div EXCEPT !.pending = TRUE, !.input = lane]
                 [] i.op = "vmov" -> div
     /\ UNCHANGED ctrl

-----------------------------------------------------------------------------
Result(i) ==
  LET s == vpr[i.vs]
      t == Broadcast(vpr[i.vt], i.e)
  IN CASE i.op \in Multiplies                      -> Multiply(i.op, s, t)
       [] i.op \in {"vrndp", "vrndn"}              -> Round(i.op = "vrndp", i.vs % 2 = 1, t)
       [] i.op = "vmacq"                           -> MacQ
       [] i.op = "vadd"                            -> Add(1, s, t)
       [] i.op = "vsub"                            -> Add(-1, s, t)
       [] i.op = "vaddc"                           -> AddCarry(1, s, t)
       [] i.op = "vsubc"                           -> AddCarry(-1, s, t)
       [] i.op = "vabs"                            -> Abs(s, t)
       [] i.op \in {"vlt", "veq", "vne", "vge"}    -> Compare(i.op, s, t)
       [] i.op = "vmrg"                            -> Merge(s, t)
       [] i.op \in {"vch", "vcl", "vcr"}           -> Clip(i.op, s, t)
       [] i.op \in Logicals                        -> Lows(Logical(i.op, s, t), ctrl)
       [] i.op = "vzero" ->
            [out |-> [l \in Lane |-> 0], ctrl |-> ctrl,
             acc |-> [l \in Lane |-> AccLow(acc[l], Bits(s[l] + t[l]))]]
       [] i.op = "vsar" ->
            [out |-> [l \in Lane |-> CASE i.e = 8 -> High(acc[l] \div P(W))
                                       [] i.e = 9 -> High(acc[l])
                                       [] i.e = 10 -> Low(acc[l])
                                       [] OTHER -> 0],
             acc |-> acc, ctrl |-> ctrl]

SingleLane == {"vrcp", "vrcpl", "vrcph", "vrsq", "vrsql", "vrsqh", "vmov"}

Execute(i) ==
  \/ /\ i.op \in SingleLane
     /\ Single(i)
  \/ /\ i.op \notin SingleLane
     /\ vpr' = [vpr EXCEPT ![i.vd] = Result(i).out]
     /\ acc' = Result(i).acc /\ ctrl' = Result(i).ctrl
     /\ UNCHANGED div

-----------------------------------------------------------------------------
\* The programs: how numbers of double width are computed with.
I(op, e, vs, vt, vd) == [op |-> op, e |-> e, vs |-> vs, vt |-> vt, vd |-> vd]
Hi == 4
Lo == 5
Spare == 6

Compares == {"vlt", "vge", "veq", "vne"}

Code(name) ==
  CASE name = "mul" ->
         <<I("vmudl", 0, Sl, Tl, Spare), I("vmadm", 0, Sh, Tl, Spare), I("vmadn", 0, Sl, Th, Spare),
           I("vmadh", 0, Sh, Th, Hi), I("vmadn", 0, Zero, Zero, Lo)>>
    [] name = "add" -> <<I("vaddc", 0, Sl, Tl, Lo), I("vadd", 0, Sh, Th, Hi), I("vadd", 0, Sh, Th, Spare)>>
    [] name = "sub" -> <<I("vsubc", 0, Sl, Tl, Lo), I("vsub", 0, Sh, Th, Hi)>>
    [] name \in Compares ->
         <<I("vsubc", 0, Sl, Tl, Spare), I(name, 0, Sh, Th, Hi), I("vmrg", 0, Sl, Tl, Lo)>>
    [] name = "clip" -> <<I("vch", 0, Sh, Th, Spare), I("vcl", 0, Sl, Tl, Lo)>>
    [] name = "dot" -> <<I("vmulf", 0, Sh, Th, Spare), I("vmacf", 2, Sh, Tl, Hi)>>
    [] name = "quant" -> <<I("vmulq", 0, Sh, Th, Spare), I("vmacq", 0, Zero, Zero, Hi)>>
    [] name = "abs" -> <<I("vabs", 0, Sh, Sh, Hi)>>
    [] name = "rcp" ->
         <<I("vrcph", 13, 2, Th, Spare), I("vrcpl", 13, 2, Tl, Lo), I("vrcph", 8, 2, Zero, Hi)>>
    [] name = "rcp short" ->
         <<I("vrcph", 13, 2, Th, Spare), I("vrcp", 8, 2, Sl, Spare), I("vrcpl", 13, 2, Tl, Lo),
           I("vrcph", 8, 2, Zero, Hi)>>
    [] name = "rsq" ->
         <<I("vrsqh", 13, 2, Th, Spare), I("vrsql", 13, 2, Tl, Lo), I("vrsqh", 8, 2, Zero, Hi)>>

Idioms == Compares \cup {"mul", "add", "sub", "clip", "dot", "quant", "abs", "rcp", "rcp short", "rsq"}

\* Instructions another piece of code, scheduled among them, may bring in: those that leave
\* alone what the program has put aside.
Foreign ==
  CASE idiom \in {"rcp", "rcp short", "rsq"} ->
         {I("vch", 2, Sh, Tl, Spare), I("vadd", 0, Sl, Th, Spare), I("vmacf", 5, Sh, Sl, Spare)}
    [] idiom \in {"mul", "dot", "quant"} -> {I("vsar", 9, Zero, Zero, Spare)}
    [] OTHER ->
         {I("vrndp", 3, Sl, Th, Spare), I("vxor", 0, Sh, Tl, Spare), I("vrsql", 9, 1, Sl, Spare),
          I("vzero", 0, Sl, Tl, Spare)}

Init ==
  /\ row \in Rows
  /\ vpr = [r \in 0 .. 7 |-> [l \in Lane |->
              CASE r = Sh -> High(row[1][l]) [] r = Sl -> Low(row[1][l])
                [] r = Th -> High(row[2][l]) [] r = Tl -> Low(row[2][l]) [] OTHER -> 0]]
  /\ acc = [l \in Lane |-> 0]
  /\ ctrl = [carry |-> {}, ne |-> {}, lo |-> {}, hi |-> {}, ce |-> {}]
  /\ div = [pending |-> FALSE, input |-> 0, output |-> 0]
  /\ idiom \in Idioms /\ at = 0 /\ idle = TRUE

Step ==
  /\ at < Len(Code(idiom))
  /\ at' = at + 1
  /\ Execute(Code(idiom)[at + 1])
  /\ UNCHANGED <<idiom, idle, row>>

Interleave ==
  /\ at \in 1 .. Len(Code(idiom)) - 1 /\ idle
  /\ idle' = FALSE
  /\ \E i \in Foreign : Execute(i)
  /\ UNCHANGED <<idiom, at, row>>

Next == Step \/ Interleave

Spec == Init /\ [][Next]_vars

-----------------------------------------------------------------------------
Done(name) == idiom = name /\ at = Len(Code(name))

S(l) == row[1][l]
T(l) == row[2][l]
Wide(l) == Signed(vpr[Hi][l]) * P(W) + vpr[Lo][l]
Saturated(v, n) == IF v >= P(n - 1) THEN P(n - 1) - 1 ELSE IF v < -P(n - 1) THEN -P(n - 1) ELSE v
Oddly(q) == IF q % 2 = 1 \/ q = 0 THEN q ELSE IF q < 0 THEN q + 1 ELSE q - 1
TowardsZero(p, n) == IF p < 0 THEN -((-p) \div P(n)) ELSE p \div P(n)

\* What the halves are computed with, in the order the hardware wants them, is what the
\* double-width numbers would give: products, sums, differences, compares with the choice
\* they make, clips with their codes, and the rounding of fractions and of MPEG's levels;
\* for every pair of numbers, in all lanes at once, whatever other code comes in between.  So
\* VLT and VGE choose as the numbers compare, and exactly one of them holds: what the code
\* does, though docs/rsp.md has it that on equal operands "both can be false".
WideArithmetic ==
  \A l \in Lane :
    /\ Done("mul") =>
         /\ acc[l] = (S(l) * T(l)) \div P(W)
         /\ Wide(l) = Saturated((S(l) * T(l)) \div P(W), 2 * W)
    /\ Done("add") =>
         /\ Saturated(S(l) + T(l), 2 * W) = S(l) + T(l) => Wide(l) = S(l) + T(l)
         /\ Signed(vpr[Hi][l]) = Saturated((S(l) + T(l)) \div P(W), W)
         /\ Signed(vpr[Spare][l]) = Saturated(Signed(vpr[Sh][l]) + Signed(vpr[Th][l]), W)
    /\ Done("sub") =>
         /\ Saturated(S(l) - T(l), 2 * W) = S(l) - T(l) => Wide(l) = S(l) - T(l)
         /\ Signed(vpr[Hi][l]) = Saturated((S(l) - T(l)) \div P(W), W)
    /\ \A op \in Compares : Done(op) =>
         LET holds == CASE op = "vlt" -> S(l) < T(l) [] op = "vge" -> S(l) >= T(l)
                        [] op = "veq" -> S(l) = T(l) [] op = "vne" -> S(l) # T(l)
         IN (l \in ctrl.lo <=> holds) /\ Wide(l) = IF holds THEN S(l) ELSE T(l)
    /\ Done("clip") /\ T(l) > 0 =>
         /\ l \in ctrl.lo <=> S(l) <= -T(l)
         /\ l \in ctrl.hi <=> S(l) >= T(l)
         /\ vpr[Lo][l] = Low(IF S(l) <= -T(l) THEN -T(l) ELSE IF S(l) >= T(l) THEN T(l) ELSE S(l))
    /\ Done("dot") =>
         LET s == Signed(vpr[Sh][l])
             t == Signed(vpr[Th][l]) + Signed(vpr[Tl][l - (l % 2)])
         IN Signed(vpr[Hi][l]) = Saturated((2 * s * t + P(W - 1)) \div P(W), W)
    /\ Done("quant") =>
         LET q == Oddly(TowardsZero(Signed(vpr[Sh][l]) * Signed(vpr[Th][l]), Q + 1))
             v == Saturated(q * P(Q), W)
         IN Signed(vpr[Hi][l]) = v - (v % P(Q))
    /\ Done("abs") =>
         LET s == Signed(vpr[Sh][l]) IN
         Signed(vpr[Hi][l]) = Saturated(IF s < 0 THEN -s ELSE s, W)

\* The reciprocal, and the inverse square root, of a double-width number are right to the K
\* bits their tables are indexed with, for either sign, and a half that was staged is used
\* by the next instruction of the unit and by no other, whatever comes before that: what the
\* code does, and not what is said of it (StagedJustBefore).
Reciprocals ==
  LET wide == T(5)
      short == Signed(Low(T(5)))
      near(r, x) == r * x \in P(2 * W - 1) - P(W - 1) - x .. P(2 * W - 1) + P(2 * W - 1 - K)
      exact(r, x) == /\ x > 0 => near(r, x)
                     /\ x < 0 /\ x # MinSigned => near(-r - 1, -x) \/ near(-r - 1, -x - 1)
  IN /\ Done("rcp") => exact(Wide(2), wide)
     /\ Done("rcp short") => exact(Wide(2), short)
     /\ Done("rsq") /\ wide > 0 =>
          /\ Wide(2) * Wide(2) * wide <= P(4 * W - 2) + P(4 * W - 2 - K)
          /\ (Wide(2) + 1) * (Wide(2) + 1) * wide >= P(4 * W - 2) - P(3 * W - 1)

\* vu.rs, Divide::pending: "whether `input` was staged by the immediately preceding
\* instruction"; reciprocal_core: "otherwise the 16-bit lane"; docs/rsp.md says the same.
\* So once an instruction of other code has come behind the VRCPH that opens a program, and
\* is the one before the VRCPL, nothing is pending.
StagedJustBefore == at = 1 /\ ~idle => ~div.pending
=============================================================================
