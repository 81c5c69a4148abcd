------------------------------- MODULE Pixel -------------------------------
(***************************************************************************)
(* What becomes of the pixels of the primitives that meet in one place     *)
(* (rustyn64-rdp, depth_span and what it calls): the combiner, the alpha   *)
(* compare, the test against the Z buffer and its packed depth, the        *)
(* blender with the pixel before, the dither, and the 16-bit pixel stored. *)
(*                                                                         *)
(* One color channel stands for the three, which never meet.  A depth has  *)
(* seven bits more than a stored depth's mantissa (18 in the code).  Pixels *)
(* are wholly covered: Raster has the coverage.                            *)
(***************************************************************************)
EXTENDS Integers, FiniteSets, FiniteSetsExt

CONSTANTS Mantissas,   \* how many mantissas a stored depth has; 2048
          Setups,      \* combine modes and other modes, one for a behaviour
          Fragments,   \* the pixels each setup may draw
          MaxFragments

VARIABLES setup,          \* Set Combine Mode, Set Other Modes, fog and blend colors
          zword, zhidden, \* the Z buffer's halfword and its hidden bits
          pixel,          \* the color image's pixel: 5-bit color and 1-bit alpha
          drawn,          \* the fragments drawn
          surface,        \* the last of them that stored its depth, or none
          layers          \* the colors mixed into the pixel

pixelVars == <<setup, zword, zhidden, pixel, drawn, surface, layers>>

Far == 128 * Mantissas - 1

\* What the combiner's inputs select: of a signal its color or, what is not mixed but
\* multiplies, its alpha.
Colored == [c : 0 .. 255, a : 0 .. 255]
Signals == {"combined", "texel0", "texel1", "prim", "shade", "env", "zero"}
ColorSelects == (Signals \cup {"one"}) \X {"c"}
Factors == (Signals \cup {"lod"}) \X {"c", "a"}
Selects == [a : ColorSelects, b : ColorSelects, c : Factors, d : ColorSelects]
\* A level's fraction has a ninth bit if it is sharpened.
InputValues == [Signals \cup {"one", "lod"} -> [c : 0 .. 511, a : 0 .. 511]]
AlphaSelects == (Signals \cup {"one", "lod"}) \X {"c", "a"}
Blends == [p : {"pixel", "memory", "blend", "fog"}, m : {"pixel", "memory", "blend", "fog"},
           a : {"pixel", "fog", "shade", "zero"}, b : {"1-a", "memory", "one", "zero"}]

ASSUME PixelAssumption ==
  /\ Mantissas \in 2 .. 2048
  /\ \A m \in Setups :
       /\ m.two \in BOOLEAN /\ m.dither \in {"magic", "bayer", "noise", "off"}
       /\ m.cyc0.rgb \in Selects /\ m.cyc1.rgb \in Selects
       /\ {m.cyc0.alpha, m.cyc1.alpha} \subseteq
            [a : AlphaSelects, b : AlphaSelects, c : AlphaSelects, d : AlphaSelects]
       /\ m.blend[1] \in Blends /\ m.blend[2] \in Blends
       /\ m.fog \in Colored /\ m.blend_color \in Colored
       /\ m.fill \in [c : 0 .. 31, a : 0 .. 1]
  /\ \A m \in Setups : \A f \in Fragments[m] :
       /\ f.z \in 0 .. Far /\ f.dz \in 0 .. Far
       /\ f.z_mode \in {"opaque", "interpenetrating", "transparent", "decal"}
       /\ f.inp \in InputValues
       /\ \A s \in Signals : f.inp[s] \in Colored
       /\ f.inp.one = [c |-> 256, a |-> 256]

Clamp(x, lo, hi) == IF x < lo THEN lo ELSE IF x > hi THEN hi ELSE x

\* The position of the highest bit set, or -1: of numbers of 18 bits.
Powers == <<1, 2, 4, 8, 16, 32, 64, 128, 256, 512, 1024, 2048, 4096, 8192, 16384, 32768,
            65536, 131072>>
find_msb(x) ==
  IF x <= 0 THEN -1
  ELSE CHOOSE n \in 0 .. 17 : Powers[n + 1] <= x /\ x < 2 * Powers[n + 1]

-----------------------------------------------------------------------------
\* The stored depth: an exponent that counts the leading ones and a mantissa.  Depths of
\* one exponent are less than Span from the far plane, and stored in steps of Step.
Span(exponent) == Mantissas * <<128, 64, 32, 16, 8, 4, 2, 1>>[exponent + 1]
Step(exponent) == <<64, 32, 16, 8, 4, 2, 1, 1>>[exponent + 1]

\* 17 - find_msb(inverse), from 0 to 7.
Exponent(inverse) ==
  CHOOSE e \in 0 .. 7 : inverse < Span(e) /\ (e < 7 => Span(e + 1) <= inverse)

z_decompress(w) ==
  ((w % Mantissas) * Step(w \div Mantissas)) + (Far + 1) - Span(w \div Mantissas)

Packed(depth, exponent) ==
  (exponent * Mantissas) + ((depth \div Step(exponent)) % Mantissas)
FromFar(depth) == IF depth < Far THEN Far - depth ELSE 1

\* A mutant: one bit of the exponent out.
z_compressBug(z) ==
  Packed(Clamp(z, 0, Far), Clamp(1 + Exponent(FromFar(Clamp(z, 0, Far))), 0, 7))

z_compress(z) == Packed(Clamp(z, 0, Far), Exponent(FromFar(Clamp(z, 0, Far))))

dz_decompress(d) == Powers[d + 1]
dz_compress(dz) == Clamp(find_msb(dz), 0, 15)
combine_dz(dz) == IF dz > 0 THEN Powers[find_msb(dz) + 1] ELSE 0

\* The Z buffer's entry: the depth and the high bits of dz in the halfword, the low
\* ones in the hidden bits.
StoredZ == zword \div 4
StoredDz == ((zword % 4) * 4) + zhidden

\* A mutant.
MemoryDzBug(coarse) ==
  IF coarse >= 3 THEN dz_decompress(StoredDz)
  ELSE IF StoredDz = 15 THEN 65535 ELSE 2 * dz_decompress(StoredDz)

\* How far apart two depths are that the test takes for one surface: the steeper of the
\* two, widened where the stored depth is coarse.
MemoryDz(coarse) ==
  IF coarse >= 3 THEN dz_decompress(StoredDz)
  ELSE IF StoredDz = 15 THEN 65535
  ELSE Max({2 * dz_decompress(StoredDz), <<16, 8, 4>>[coarse + 1]})

\* A fully covered pixel, so that the opaque test is the strict one.
depth_pass(f) ==
  LET coarse == StoredZ \div Mantissas
      memory_z == z_decompress(StoredZ)
      coplanar == coarse < 3 /\ StoredDz = 15
      combined == 8 * Max({combine_dz(f.dz), combine_dz(MemoryDz(coarse))})
      front == f.z < memory_z
      empty == memory_z = Far
      farther == coplanar \/ f.z + combined >= memory_z
      nearer == coplanar \/ f.z - combined <= memory_z
  IN \/ ~f.z_compare
     \/ f.z_mode \in {"opaque", "interpenetrating", "transparent"} /\ (empty \/ front)
     \/ f.z_mode = "decal" /\ farther /\ nearer /\ ~empty

-----------------------------------------------------------------------------
\* The combiner: nine-bit arithmetic whose inputs wrap around -128..383.
sext9(x) == ((x + 256) % 512) - 256
special_expand(x) == sext9(x - 128) + 128
combine_channel(a, b, c, d) ==
  (((special_expand(a) - special_expand(b)) * sext9(c) + 128) \div 256) + special_expand(d)
clamp_9bit(x) == Clamp(special_expand(x), 0, 255)

\* An input is a signal and its color or alpha.
Input(inp, sel) == inp[sel[1]][sel[2]]
Channel(inp, sels) ==
  clamp_9bit(combine_channel(Input(inp, sels.a), Input(inp, sels.b),
                             Input(inp, sels.c), Input(inp, sels.d)))
combine_cycle(cycle, inp) ==
  [c |-> Channel(inp, cycle.rgb), a |-> Channel(inp, cycle.alpha)]

\* A mutant.
SecondBug(inp, combined) == [inp EXCEPT !.combined = combined]

\* In cycle 1 the two texels have changed places.
Second(inp, combined) ==
  [inp EXCEPT !.combined = combined, !.texel0 = inp.texel1, !.texel1 = inp.texel0]

combine(inp) ==
  IF setup.two THEN combine_cycle(setup.cyc1, Second(inp, combine_cycle(setup.cyc0, inp)))
  ELSE combine_cycle(setup.cyc1, inp)

-----------------------------------------------------------------------------
\* The blender: two colors, the second's weight one more so that a weight and its
\* complement make 32.
BlendColor(sel, px, memory) ==
  CASE sel = "pixel" -> px.c [] sel = "memory" -> memory.c
    [] sel = "blend" -> setup.blend_color.c [] sel = "fog" -> setup.fog.c
BlendAlpha(sel, px, shade) ==
  CASE sel = "pixel" -> px.a [] sel = "fog" -> setup.fog.a [] sel = "shade" -> shade.a
    [] sel = "zero" -> 0
SecondAlpha(sel, memory, alpha) ==
  CASE sel = "1-a" -> 255 - alpha [] sel = "memory" -> memory.a [] sel = "one" -> 255
    [] sel = "zero" -> 0

Weight(alpha) == alpha \div 8
blend_cycle(b, px, memory, shade) ==
  LET alpha == BlendAlpha(b.a, px, shade)
      other == SecondAlpha(b.b, memory, alpha)
  IN (((BlendColor(b.p, px, memory) * Weight(alpha))
       + (BlendColor(b.m, px, memory) * (Weight(other) + 1))) \div 32) % 256

\* The second cycle sees the first one's color and the combiner's alpha.
blend(px, memory, shade) ==
  LET first == blend_cycle(setup.blend[1], px, memory, shade) IN
    IF setup.two THEN blend_cycle(setup.blend[2], [px EXCEPT !.c = first], memory, shade)
    ELSE first

-----------------------------------------------------------------------------
\* Ordered dither: round up to the next 5-bit level where the cell is below what the
\* truncation drops.
DITHER_MAGIC == <<0, 6, 1, 7, 4, 2, 5, 3, 3, 5, 2, 4, 7, 1, 6, 0>>
DITHER_BAYER == <<0, 4, 1, 5, 4, 0, 5, 1, 3, 7, 2, 6, 7, 3, 6, 2>>
DitherCell(mode, x, y) ==
  LET cell == ((y % 4) * 4) + (x % 4) + 1 IN
    CASE mode \in {"magic", "noise"} -> DITHER_MAGIC[cell]
      [] mode = "bayer" -> DITHER_BAYER[cell] [] mode = "off" -> 7
\* A mutant.
apply_ditherBug(c, cell) ==
  IF cell > c % 8 THEN c ELSE IF c > 247 THEN 255 ELSE (8 * (c \div 8)) + 8

apply_dither(c, cell) ==
  IF cell >= c % 8 THEN c ELSE IF c > 247 THEN 255 ELSE (8 * (c \div 8)) + 8

\* The 16-bit pixel and its widening back to eight bits.
pack(px) == [c |-> px.c \div 8, a |-> px.a \div 128]
unpack(p) == [c |-> (8 * p.c) + (p.c \div 4), a |-> 255 * p.a]

\* The alpha of a pixel wholly covered: its coverage.
Covered == 7 * 32

alpha_compare_passes(alpha) == ~setup.alpha_compare \/ alpha >= setup.blend_color.a

-----------------------------------------------------------------------------
\* The colors a cycle mixes: it interpolates from the input it subtracts and adds to
\* the input it adds alone.  What cycle 1 takes from cycle 0 is itself a mix.
Color(inp, sel) == Clamp(Input(inp, sel), 0, 255)
Ends(sels, inp) == {Color(inp, sels.a), Color(inp, sels.d)}
Ends1(sel, inp) ==
  IF sel[1] = "combined" THEN Ends(setup.cyc0.rgb, inp)
  ELSE {Color([inp EXCEPT !.texel0 = inp.texel1, !.texel1 = inp.texel0], sel)}
Colors(inp) ==
  IF setup.two THEN Ends1(setup.cyc1.rgb.a, inp) \cup Ends1(setup.cyc1.rgb.d, inp)
  ELSE Ends(setup.cyc1.rgb, inp)

\* A combiner that interpolates, from one input to another or not at all; a blender whose
\* weights are a share and the rest; and modes that do both in each of their cycles, with
\* no level sharpened.
Interpolates(sels) == sels.b = sels.d \/ sels.a = sels.b
Shares(b) ==
  /\ b.b = "1-a"
  /\ {b.p, b.m} \subseteq {"pixel", "memory"} \cup (IF setup.two THEN {"fog"} ELSE {})
Mixing ==
  /\ \A f \in drawn : f.inp.lod \in Colored
  /\ Interpolates(setup.cyc1.rgb) /\ Shares(setup.blend[1])
  /\ setup.two => Interpolates(setup.cyc0.rgb) /\ Shares(setup.blend[2])

PixelInit ==
  /\ setup \in Setups
  /\ zword = 4 * z_compress(Far) /\ zhidden = 0
  /\ pixel = [c |-> 0, a |-> 0]
  /\ drawn = {} /\ surface = {} /\ layers = {0}

\* What the pixel becomes if it is written: the combiner's color, blended and dithered.
Shown(f) ==
  LET color == combine(f.inp)
      final == IF f.force_blend THEN blend(color, unpack(pixel), f.inp.shade) ELSE color.c
  IN pack([c |-> apply_dither(final, DitherCell(setup.dither, f.x, f.y)), a |-> Covered])

\* The alpha compare, which a triangle with neither shade nor texture does without.
Kept(f) == f.flat \/ alpha_compare_passes(combine(f.inp).a)

\* depth_span's body: a pixel is written only if it passes the test and the alpha
\* compare, and its depth only if it is written.  A triangle with neither shade nor
\* texture writes the fill register.
DrawFragment(f) ==
  /\ f \notin drawn /\ Cardinality(drawn) < MaxFragments
  /\ drawn' = drawn \cup {f}
  /\ IF depth_pass(f) /\ Kept(f)
       THEN /\ pixel' = IF f.flat THEN setup.fill ELSE Shown(f)
            /\ layers' = IF f.flat THEN {unpack(setup.fill).c} ELSE
                 Colors(f.inp) \cup (IF setup.two THEN {setup.fog.c} ELSE {})
                 \cup (IF f.force_blend THEN layers ELSE {})
            /\ IF f.z_update
                 THEN /\ zword' = (4 * z_compress(f.z)) + (dz_compress(f.dz) \div 4)
                      /\ zhidden' = dz_compress(f.dz) % 4
                      /\ surface' = {f}
                 ELSE UNCHANGED <<zword, zhidden, surface>>
       ELSE UNCHANGED <<pixel, layers, zword, zhidden, surface>>
  /\ UNCHANGED setup

PixelNext == \E f \in Fragments[setup] : DrawFragment(f)

PixelSpec == PixelInit /\ [][PixelNext]_pixelVars

-----------------------------------------------------------------------------
\* Whatever the order they are drawn in, the surface that remains is the nearest of those
\* that store their depths, if all of those are compared and none is a decal, up to what a
\* stored depth cannot tell apart: one part in Mantissas of its distance from the far plane
\* (z_compress, z_decompress, depth_test, zbuffer_read, zbuffer_write).
NearestWins ==
  (\A f \in drawn : f.z_update => f.z_compare /\ f.z_mode # "decal") =>
    \A s \in surface, f \in drawn :
      f.z_update /\ Kept(f) => s.z - f.z <= (Far - s.z) \div Mantissas

\* A decal is drawn on the surface it lies in, however coarse the surface's stored
\* depth, and never where nothing was drawn (depth_test, combine_dz).
DecalSticks ==
  [][\A f \in drawn' \ drawn : f.z_mode = "decal" /\ f.z_compare =>
       /\ \A s \in surface : s.z = f.z /\ s.dz = f.dz /\ s.z < Far => depth_pass(f)
       /\ surface = {} => UNCHANGED <<pixel, zword, zhidden>>]_pixelVars

\* No layer makes the pixel darker than the darkest of the colors mixed into it or
\* brighter than the brightest: where the modes interpolate, the weights of the combiner
\* and of the blender are shares of one, through both cycles and whatever the number of
\* layers, and nine bits and their wrap are enough (combine, blend_cycle).
LayersMix ==
  setup.dither = "off" /\ Mixing =>
    Min(layers) \div 8 <= pixel.c /\ pixel.c <= Max(layers) \div 8

\* The dither keeps the mean: over the sixteen cells a color is raised as often as the
\* part that the truncation drops is of a level (apply_rgb_dither, the two matrices).
Level(c, k) == apply_dither(c, DitherCell(setup.dither, k % 4, k \div 4)) \div 8
LevelsOf(c, y) == Level(c, 4 * y) + Level(c, 4 * y + 1) + Level(c, 4 * y + 2) + Level(c, 4 * y + 3)
DitherKeepsMean ==
  setup.dither \in {"magic", "bayer", "noise"} =>
    \A c \in 0 .. 247 :
      LevelsOf(c, 0) + LevelsOf(c, 1) + LevelsOf(c, 2) + LevelsOf(c, 3) = 2 * c

\* Both.
ColorsMix == LayersMix /\ DitherKeepsMean
=============================================================================
