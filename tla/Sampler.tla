------------------------------ MODULE Sampler ------------------------------
(***************************************************************************)
(* How the RDP finds the texels of a pixel (rustyn64-rdp/src/lib.rs): the  *)
(* perspective divide, the level of detail and the tiles it selects, the   *)
(* tile transform of a coordinate, and the filter between four texels.     *)
(*                                                                         *)
(* All of it is arithmetic of fixed point.  A behaviour walks one of the   *)
(* four along a span, in the steps of its argument, so that a property may *)
(* speak of a pixel and the next.  The widths are parameters: the RDP has  *)
(* ONE = 32 steps in a texel, 16 bits of coordinate, 6 bits of table.      *)
(***************************************************************************)
EXTENDS Integers

CONSTANTS
  ONE,          \* steps of a coordinate in a texel
  COORD_BITS,   \* bits of a coordinate the tile transform looks at
  MASK_CAP,     \* the widest mask of a tile
  T_BITS,       \* bits of T that are given back where a mask ends
  MIP_BITS,     \* bits of the level of detail above the texel
  P, TABLE_BITS,\* the reciprocal: bits of its result, bits of its index
  Axes,         \* tiles, along one axis
  Chains,       \* settings of the level of detail
  Ws,           \* what is divided by
  Levels        \* what a texel may be

SamplerAssumption ==
  /\ ONE % 4 = 0 /\ MASK_CAP \in 1 .. COORD_BITS /\ T_BITS \in Nat
  /\ TABLE_BITS \in 1 .. P - 1

VARIABLES
  walk,         \* what is walked: "axis", "level", "divide" or "filter"
  setup,        \* its tile, chain, divisor or texels
  at            \* where on the span

vars == <<walk, setup, at>>

Pow(n) == 2 ^ n
Bit(v, n) == (v \div Pow(n)) % 2
Wrapped(v, n) == ((v + Pow(n - 1)) % Pow(n)) - Pow(n - 1)
Clamp(v, lo, hi) == IF v < lo THEN lo ELSE IF v > hi THEN hi ELSE v
HighestBit(v) == CHOOSE k \in 0 .. 30 : Pow(k) <= v /\ v < 2 * Pow(k)
Quarter == ONE \div 4

-----------------------------------------------------------------------------
\* The tile transform, along one axis.
TileShift(c, x) ==
  LET low == Wrapped(c, COORD_BITS)
  IN IF x.shift < 11 THEN low \div Pow(x.shift) ELSE Wrapped(low * Pow(16 - x.shift), COORD_BITS)

Least(a, b) == IF a < b THEN a ELSE b
MaskOf(x) == Least(x.mask, MASK_CAP)

\* A mutant: the neighbour of the last texel before a reflection is the next one.
MirroredBug(x, s) ==
  LET last == Pow(MaskOf(x)) - 1
      back == Bit(s, MaskOf(x)) = 1
  IN [texel |-> IF back THEN last - (s % Pow(MaskOf(x))) ELSE s % Pow(MaskOf(x)),
      diff |-> IF back THEN -1 ELSE 1]

\* mask_coupled: the texel, and what to add for its neighbour.
Mirrored(x, s) ==
  LET last == Pow(MaskOf(x)) - 1
      back == Bit(s, MaskOf(x)) = 1
      texel == IF back THEN last - (s % Pow(MaskOf(x))) ELSE s % Pow(MaskOf(x))
      seam == (texel - (IF back THEN 1 ELSE 0)) % Pow(MaskOf(x)) = last
  IN [texel |-> texel, diff |-> IF seam THEN 0 ELSE IF back THEN -1 ELSE 1]

Repeated(x, s) ==
  LET texel == s % Pow(MaskOf(x))
      end == texel = Pow(MaskOf(x)) - 1
  IN [texel |-> texel,
      diff |-> IF ~end THEN 1 ELSE IF x.isT THEN -(texel % Pow(T_BITS)) ELSE -texel]

MaskCoupled(x, s) ==
  IF MaskOf(x) = 0 THEN [texel |-> s, diff |-> 1]
  ELSE IF x.mirror THEN Mirrored(x, s) ELSE Repeated(x, s)

Relative(c, x) == TileShift(c, x) - x.lo * Quarter
OverMax(c, x) == TileShift(c, x) \div Quarter >= x.hi
Clamps(x) == x.clamp \/ x.mask = 0
Below(c, x) == Bit(Relative(c, x), COORD_BITS) = 1
Clamped(c, x) == Clamps(x) /\ (OverMax(c, x) \/ Below(c, x))

\* sample_axis
SampleAxis(c, x) ==
  LET base == IF ~Clamped(c, x) THEN Relative(c, x) \div ONE
              ELSE IF OverMax(c, x) THEN ((x.hi \div 4) - (x.lo \div 4)) % 1024 ELSE 0
      m == MaskCoupled(x, base)
  IN [texel |-> m.texel, diff |-> m.diff,
      frac |-> IF Clamped(c, x) THEN 0 ELSE Relative(c, x) % ONE]

\* wrap_coord: the same for a copied rectangle, worked out on its own.
WrapCoord(c, x) ==
  LET s0 == Clamp(c, -Pow(COORD_BITS - 1), Pow(COORD_BITS - 1) - 1)
      shifted == IF x.shift <= 10 THEN s0 \div Pow(x.shift)
                 ELSE Wrapped(s0 * Pow(16 - x.shift), COORD_BITS)
      s == (shifted - x.lo * Quarter) \div ONE
      m == Pow(MaskOf(x))
  IN IF MaskOf(x) = 0 THEN s
     ELSE IF x.mirror /\ Bit(s, MaskOf(x)) = 1 THEN m - 1 - (s % m) ELSE s % m

-----------------------------------------------------------------------------
\* The level of detail.
COORD17 == COORD_BITS + 1
TooFar == ONE * Pow(MIP_BITS) * 2

\* lod_delta; a step back counts one less.
Fold(next, curr) ==
  LET d == Wrapped(next, COORD17) - Wrapped(curr, COORD17) IN IF d < 0 THEN -d - 1 ELSE d

LodDelta(curr, next, previous) ==
  LET d == IF Fold(next, curr) > previous THEN Fold(next, curr) ELSE previous
  IN IF d >= TooFar THEN TooFar + (d % TooFar) ELSE d

\* A mutant: the fraction is not scaled by the level.
FractionBug(lod, level) == (lod * (256 \div ONE)) % 256
Fraction(lod, level) == ((lod * (256 \div ONE)) \div Pow(level)) % 256

\* lod_signals, over a chain [min, max, sharpen, detail, base].
LodSignals(clamped, lod, h) ==
  LET plain == ~h.sharpen /\ ~h.detail
      near == lod < h.min \/ lod < ONE
      high == (lod \div ONE) % Pow(MIP_BITS)
      level == IF high < 2 THEN 0 ELSE HighestBit(high)
      distant == h.max = 0 \/ (~near /\ (lod >= ONE * Pow(MIP_BITS) \/ level >= h.max))
      base == (IF lod < h.min THEN h.min ELSE lod) * (256 \div ONE)
  IN IF clamped \/ lod >= TooFar THEN [frac |-> 255, level |-> 0, magnify |-> FALSE, distant |-> TRUE]
     ELSE [level |-> IF near THEN 0 ELSE level, magnify |-> near, distant |-> distant,
           frac |-> IF plain THEN IF distant THEN 255 ELSE IF near THEN 0 ELSE Fraction(lod, level)
                    ELSE IF near THEN IF h.sharpen THEN base - 256 ELSE base
                    ELSE Fraction(lod, level)]

\* lod_mip_tiles
MipTiles(sig, h) ==
  LET level == IF sig.distant THEN h.max ELSE sig.level
      first == (h.base + level + (IF h.detail /\ ~sig.magnify THEN 1 ELSE 0)) % 8
      second == IF h.detail THEN h.base + level + (IF sig.distant \/ sig.magnify THEN 1 ELSE 2)
                ELSE h.base + level + (IF sig.distant \/ (sig.magnify /\ ~h.sharpen) THEN 0 ELSE 1)
  IN <<first, second % 8>>

\* lod_2cycle: one texture coordinate, d further on in the direction of the chain.
Lod(d, h) ==
  LET next == IF h.back THEN h.from - d ELSE h.from + d
      clamped == h.from < 0 \/ next < 0
  IN LodSignals(clamped, IF clamped THEN 0 ELSE LodDelta(h.from, next, 0), h)

-----------------------------------------------------------------------------
\* The perspective divide.
Table(i) == (2 * Pow(P + TABLE_BITS) + Pow(TABLE_BITS) + i) \div (2 * (Pow(TABLE_BITS) + i))

\* perspective_get_lut.  A mutant: the table is not interpolated.
ReciprocalBug(norm) == Table(norm \div Pow(P - TABLE_BITS))
Reciprocal(norm) ==
  LET i == norm \div Pow(P - TABLE_BITS)
      rest == norm % Pow(P - TABLE_BITS)
  IN Table(i) + ((Table(i + 1) - Table(i)) * rest) \div Pow(P - TABLE_BITS)

\* perspective_divide, of one coordinate.
MaxCoord == Pow(P + 1) - 1
PerspectiveDivide(s, divisor) ==
  LET w == divisor % Pow(P + 1)
      shift == IF w = 0 THEN P ELSE P - HighestBit(w)
      product == s * Reciprocal((w * Pow(shift)) % Pow(P))
      outside == product \notin -Pow(2 * P + 1 - shift) .. Pow(2 * P + 1 - shift) - 1
      quotient == IF shift = P THEN product * 2 ELSE product \div Pow(P - 1 - shift)
  IN IF divisor <= 0 THEN MaxCoord
     ELSE IF outside THEN IF product < 0 THEN -MaxCoord - 1 ELSE MaxCoord
     ELSE Clamp(quotient, -Pow(P + 2), Pow(P + 2) - 1)

-----------------------------------------------------------------------------
\* bilinear_3point, of one channel, between texels t[1] .. t[4] at (s, t), (s + 1, t),
\* (s, t + 1) and (s + 1, t + 1).
Upper(sf, tf) == Bit(sf + tf, 5) = 1
Centre(mid, sf, tf) == mid /\ sf = 16 /\ tf = 16

\* A mutant: both triangles weigh from the same corner.
UpperWeightBug(f) == f
UpperWeight(f) == 32 - f

Filter(t, sf, tf, mid) ==
  IF Centre(mid, sf, tf)
    THEN t[4] + (64 * (t[2] + t[3]) - 128 * t[4] + 64 * (t[1] - t[4] - 1) + 192) \div 256
  ELSE IF Upper(sf, tf)
    THEN t[4] + (UpperWeight(sf) * (t[3] - t[4]) + UpperWeight(tf) * (t[2] - t[4]) + 16) \div 32
  ELSE t[1] + (sf * (t[2] - t[1]) + tf * (t[3] - t[1]) + 16) \div 32

-----------------------------------------------------------------------------
HalfRange == Pow(COORD_BITS - 1)

Init ==
  \/ walk = "axis" /\ setup \in Axes /\ at = -HalfRange
  \/ walk = "level" /\ setup \in Chains /\ at = 0
  \/ walk = "divide" /\ setup \in Ws /\ at = -Pow(P + 1)
  \/ walk = "filter" /\ setup \in [1 .. 4 -> Levels] /\ at = 0

Last ==
  CASE walk = "axis" -> HalfRange - 1 [] walk = "level" -> 2 * TooFar
    [] walk = "divide" -> Pow(P + 1) - 1 [] walk = "filter" -> 31

Next == at < Last /\ at' = at + 1 /\ UNCHANGED <<walk, setup>>

Spec == Init /\ [][Next]_vars

-----------------------------------------------------------------------------
Abs(n) == IF n < 0 THEN -n ELSE n

\* What a mask of T gives back where it ends reaches the first row again.
MaskFits(x) == ~x.isT \/ x.mirror \/ MaskOf(x) <= T_BITS

\* A texel's neighbour is the texel the span comes to next: over the end of a mask, the two
\* seams of a reflection and both edges of a clamped tile, nothing jumps, and the filter
\* stays on the edge once it is clamped.  The tile begins and ends on a texel, as the
\* programs that tile seamlessly have it (mask_coupled, sample_axis).
NeighbourIsNext ==
  [][ walk = "axis" /\ setup.lo % 4 = 0 /\ setup.hi % 4 = 0 /\ MaskFits(setup) =>
        LET x == setup
            here == SampleAxis(at, x)
            there == SampleAxis(at', x)
            moved == TileShift(at', x) - TileShift(at, x)
            entered == (Relative(at', x) \div ONE) - (Relative(at, x) \div ONE)
        IN /\ here.texel + here.diff >= 0
           /\ moved \in 0 .. ONE =>
                /\ there.texel =
                     IF entered = 0 \/ Clamped(at, x) THEN here.texel ELSE here.texel + here.diff
                /\ Clamped(at, x) => here.frac = 0 ]_vars

\* A texture that is copied and one that is drawn show the same texel, unless the tile is
\* clamped, which a copy is not (wrap_coord, sample_axis).
CopiedAsDrawn ==
  walk = "axis" /\ ~Clamps(setup) => WrapCoord(at, setup) = SampleAxis(at, setup).texel

\* From one level of detail to the next nothing jumps: as a texture recedes the two tiles
\* either stay, with the weight of the second no less, or the second becomes the first,
\* with a weight that has come up to the whole; down to the last level, in either direction
\* of the span, if the texture is not both sharpened and detailed (lod_signals,
\* lod_mip_tiles).
LevelsJoin ==
  [][ walk = "level" /\ setup.from - at' >= 0 /\ ~(setup.sharpen /\ setup.detail) =>
        LET here == Lod(at, setup)
            there == Lod(at', setup)
            tiles == MipTiles(here, setup)
            next == MipTiles(there, setup)
            step == 256 \div ONE
        IN \/ next = tiles /\ there.frac >= here.frac
           \/ next[1] = tiles[2] /\ (here.frac >= 256 - step \/ tiles[2] = tiles[1])
           \/ tiles[1] = tiles[2] /\ next[1] = tiles[1] /\ there.frac <= step ]_vars

\* The quotient is right to within one step and one part in half the square of the table, where
\* it is in range; beyond that it is saturated on its own side; and nothing is divided by
\* what lies behind the eye (perspective_divide).
Divided ==
  walk = "divide" =>
    LET q == PerspectiveDivide(at, setup)
        exact == at * Pow(P + 1)
        error == Abs(q * setup - exact)
    IN IF setup <= 0 THEN q = MaxCoord
       ELSE \/ (error - setup) * Pow(2 * TABLE_BITS - 1) <= Abs(exact)
            \/ /\ Abs(exact) * 16 > setup * Pow(P + 2) * 15
               /\ q = IF at < 0 THEN -MaxCoord - 1 ELSE MaxCoord

\* The filter mixes and never overshoots: the result lies between the texels of its
\* triangle, on the diagonal both triangles agree, and at the centre of a texel all four
\* count the same (bilinear_3point).
Filtered ==
  walk = "filter" =>
    \A tf \in 0 .. 31, mid \in BOOLEAN :
      LET v == Filter(setup, at, tf, mid)
          used == IF Centre(mid, at, tf) THEN 1 .. 4 ELSE IF Upper(at, tf) THEN 2 .. 4 ELSE 1 .. 3
          sum == setup[1] + setup[2] + setup[3] + setup[4]
      IN /\ \E k \in used : setup[k] <= v
         /\ \E k \in used : setup[k] >= v
         /\ Centre(mid, at, tf) => 4 * v \in sum - 1 .. sum + 2
         /\ at + tf = 32 /\ ~Centre(mid, at, tf) =>
              v = setup[1] + (at * (setup[2] - setup[1]) + tf * (setup[3] - setup[1]) + 16) \div 32
=============================================================================
