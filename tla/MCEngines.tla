----------------------------- MODULE MCEngines -----------------------------
(***************************************************************************)
(* What the machine's engines make of the programs software hands them:    *)
(* vector code, and lists that load, sample, cover and blend.  A behaviour *)
(* explores one engine, its part, and leaves the others empty: the run is  *)
(* their union and not their product.                                      *)
(***************************************************************************)
EXTENDS Texture, Pixel, Raster, VuMem

VARIABLES part,
  \* Vu
  vpr, acc, ctrl, div, idiom, pos, idle, row,
  \* Sampler
  walk, sampled, step

-----------------------------------------------------------------------------
\* Lanes of three bits: every pair of double-width numbers, eight pairs at a time, each in
\* every lane's neighbourhood.
Pairs(i) ==
  LET pair(l) == 8 * i + ((l + (i \div 8)) % 8) IN
    <<[l \in 0 .. 7 |-> (pair(l) \div 64) - 32], [l \in 0 .. 7 |-> (pair(l) % 64) - 32]>>
MCPairs == {Pairs(i) : i \in 0 .. 511}
Vector == INSTANCE Vu WITH W <- 3, K <- 3, Q <- 1, Rows <- MCPairs, at <- pos

\* Every alignment, and addresses whose sixteen bytes wrap around DMEM.
MCBases == (0 .. 16) \cup {115, 121, 126}
MCRegs == [r \in 0 .. 7 |-> [b \in ByteOf |-> (2 * (16 * r + b) + 46 * b) % 256]]
MCDmem == [a \in Addr |-> (2 * a + 1) % 256]

-----------------------------------------------------------------------------
\* A TMEM of eight words, images and tiles of every size, lines as long as a row and
\* longer; loads from inside an image, of one row, and of a block.
Image(addr, width, size) == [addr |-> addr, width |-> width, size |-> size]
MCImages == {Image(100, 5, 1), Image(201, 6, 2), Image(300, 4, 3)}
Tile(size, line, addr) ==
  [format |-> "rgba", size |-> size, line |-> line, tmem_addr |-> addr, palette |-> 0]
MCDescriptors == {Tile(1, 1, 0), Tile(2, 2, 0), Tile(3, 1, 0), Tile(2, 1, 4)}
Corners(sl, tl, sh, th) == [sl |-> sl, tl |-> tl, sh |-> sh, th |-> th]
MCRects == {Corners(1, 1, 3, 3), Corners(0, 0, 15, 0)}
\* Tiles with each pairing of mask, mirror, clamp and shift, left and right of the origin;
\* chains of none to four levels; divisors on both sides of each entry of the table.
MCAxes ==
  {x \in [shift : {0, 1, 15}, mask : {0, 1, 4}, mirror : BOOLEAN, clamp : BOOLEAN,
          lo : {0, 8}, hi : {12, 29}, isT : BOOLEAN] : x.isT => x.lo = 0}
MCChains ==
  [min : {0, 3}, max : {0, 1, 2, 4}, sharpen : BOOLEAN, detail : BOOLEAN, base : {0, 6},
   back : BOOLEAN, from : {500}]
MCWs == (-2 .. 24) \cup {w \in 25 .. 1023 : w % 41 \in {0, 1}}
Sampling == INSTANCE Sampler WITH
  ONE <- 8, COORD_BITS <- 10, MASK_CAP <- 3, T_BITS <- 2, MIP_BITS <- 4, P <- 9,
  TABLE_BITS <- 3, Axes <- MCAxes, Chains <- MCChains, Ws <- MCWs,
  Levels <- {0, 1, 128, 255}, setup <- sampled, at <- step

-----------------------------------------------------------------------------
\* An image of five by two pixels.  Four strips that share edges, a straight one, one with
\* a knee and one outside the image, drawn from either side; rectangles of each mode.
Rect(op, xh, yh, xl, yl) ==
  [op |-> op, xh |-> xh, yh |-> yh, xl |-> xl, yl |-> yl, alpha |-> 5]
Strip(op, name, flip, xh, dxh, xm, dxm, xl, dxl) ==
  [op |-> op, name |-> name, flip |-> flip, yh |-> 1, ym |-> 4, yl |-> 7, xh |-> xh,
   dxh |-> dxh, xm |-> xm, dxm |-> dxm, xl |-> xl, dxl |-> dxl]
MCCommands ==
  {Rect("rect", 2, 0, 13, 5), Rect("rect_1cycle", 5, 3, 9, 7), Rect("rect", 8, 1, 20, 4),
   [op |-> "copy", xh |-> 4, yh |-> 0, xl |-> 19, yl |-> 7, s |-> 96, t |-> 32,
    dsdx |-> 4096, dtdy |-> 1024],
   Strip("tri_fill", "d", TRUE, 3, 8, 45, -12, 36, 4),
   Strip("tri", "a", TRUE, 3, 8, 21, 12, 33, -20),
   Strip("tri", "b", FALSE, 52, -8, 21, 12, 33, -20),
   Strip("tri", "c", TRUE, 52, -8, 70, 4, 74, 4)}
Scissor(ulx, uly, lrx, lry) == [ulx |-> ulx, uly |-> uly, lrx |-> lrx, lry |-> lry]
MCScissors ==
  {Scissor(0, 0, 20, 8), Scissor(0, 0, 28, 12), Scissor(4, 4, 8, 8),
   Scissor(3, 1, 13, 6), Scissor(8, 0, 16, 4)}

-----------------------------------------------------------------------------
\* Modes of the pixel pipeline: one that tests depths, with decals, and four that mix:
\* an alpha test, a dither, two cycles with fog, two cycles that chain the combiner.
Signal(c, a) == [c |-> c, a |-> a]
Black == Signal(0, 0)
Zero == <<"zero", "c">>
Lerp(a, b, c) == [a |-> <<a, "c">>, b |-> <<b, "c">>, c |-> c, d |-> <<b, "c">>]
Only(sel) == [a |-> Zero, b |-> Zero, c |-> Zero, d |-> sel]
Cycle(rgb, alpha) == [rgb |-> rgb, alpha |-> Only(<<alpha, "a">>)]
Over == [p |-> "pixel", m |-> "memory", a |-> "pixel", b |-> "1-a"]
Fog == [p |-> "fog", m |-> "pixel", a |-> "shade", b |-> "1-a"]
Depths ==
  [kind |-> "depth", two |-> FALSE, cyc0 |-> Cycle(Only(<<"prim", "c">>), "prim"),
   cyc1 |-> Cycle(Only(<<"prim", "c">>), "prim"), blend |-> <<Over, Over>>,
   fog |-> Signal(90, 40), blend_color |-> Signal(0, 100), alpha_compare |-> FALSE,
   dither |-> "off", fill |-> Signal(21, 1)]
Mixes == [Depths EXCEPT !.kind = "mix"]
MCSetups ==
  {Depths,
   [Mixes EXCEPT !.alpha_compare = TRUE,
      !.cyc1 = Cycle(Lerp("texel0", "env", <<"shade", "c">>), "texel0")],
   [Mixes EXCEPT !.dither = "bayer",
      !.cyc1 = Cycle(Lerp("texel0", "zero", <<"shade", "c">>), "shade")],
   [Mixes EXCEPT !.two = TRUE, !.blend = <<Fog, Over>>,
      !.cyc0 = Cycle(Lerp("texel1", "texel0", <<"lod", "a">>), "prim"),
      !.cyc1 = Cycle(Lerp("combined", "env", <<"shade", "c">>), "prim")],
   [Mixes EXCEPT !.two = TRUE,
      !.cyc0 = Cycle(Only(<<"env", "c">>), "prim"),
      !.cyc1 = Cycle(Lerp("texel0", "combined", <<"shade", "c">>), "prim")]}

\* Depths around every change of the stored exponent, in and on a surface.
Zs == {0, 255, 256, 300, 383, 384, 390, 447, 460, 495, 496, 504, 505, 509, 510, 511}
Inputs(texel0, texel1, shade, env, lod, alpha) ==
  [combined |-> Black, texel0 |-> texel0, texel1 |-> texel1, prim |-> Signal(100, alpha),
   shade |-> shade, env |-> Signal(env, env), one |-> Signal(256, 256), zero |-> Black,
   lod |-> Signal(lod, lod)]
Fragment(z, dz, z_mode, z_update, force_blend, flat, inp) ==
  [z |-> z, dz |-> dz, z_compare |-> TRUE, z_mode |-> z_mode, z_update |-> z_update,
   force_blend |-> force_blend, inp |-> inp, flat |-> flat, x |-> 1, y |-> 2]
DepthFragments ==
  {Fragment(z, dz, "opaque", TRUE, FALSE, FALSE, Inputs(Black, Black, Black, 0, 0, 255)) :
     z \in Zs, dz \in {0, 5}} \cup
  {Fragment(z, dz, "decal", FALSE, FALSE, FALSE, Inputs(Black, Black, Black, 0, 0, 128)) :
     z \in Zs, dz \in {0, 5}}
MixFragments ==
  {Fragment(10, 0, "transparent", FALSE, forced, FALSE,
            Inputs(texel0, Signal(200, 0), Signal(shade, alpha), 66, lod, alpha)) :
     forced \in BOOLEAN, texel0 \in {Signal(255, 255), Signal(8, 90)},
     shade \in {0, 131, 255}, alpha \in {0, 77, 255}, lod \in {0, 255}} \cup
  {Fragment(20, 0, "transparent", FALSE, FALSE, TRUE,
            Inputs(Black, Black, Black, 66, 0, 77))}
MCFragments ==
  [m \in MCSetups |-> IF m.kind = "depth" THEN DepthFragments ELSE MixFragments]

ASSUME Vector!VuAssumption /\ Sampling!SamplerAssumption

-----------------------------------------------------------------------------
vuVars == <<vpr, acc, ctrl, div, idiom, pos, idle, row>>
samplerVars == <<walk, sampled, step>>

engines == <<part, textureVars, vuVars, vuMemVars, samplerVars, rasterVars, pixelVars>>

\* The parts that do not run keep their variables empty.
NoVector ==
  /\ vpr = 0 /\ acc = 0 /\ ctrl = 0 /\ div = 0 /\ idiom = "none" /\ pos = 0
  /\ idle = FALSE /\ row = 0
NoMoves ==
  /\ regs = 0 /\ dmem = 0 /\ control = 0 /\ gpr = 0 /\ done = 0
  /\ program = [name |-> "none", base |-> 0, e |-> 0]
NoTexture == image = 0 /\ tiles = 0 /\ extent = 0 /\ tmem = 0 /\ loads = <<>>
NoSampling == walk = "none" /\ sampled = 0 /\ step = 0
NoCovers ==
  /\ bpp = 0 /\ aa = FALSE /\ full = FALSE /\ scissor = 0 /\ screen = 0
  /\ primitives = {} /\ stored = 0 /\ hits = 0
NoPixels ==
  /\ setup = [dither |-> "none"] /\ zword = 0 /\ zhidden = 0 /\ pixel = 0 /\ drawn = {} /\ surface = {}
  /\ layers = {}

EnginesInit ==
  /\ part \in {"vu", "vumem", "texture", "sampler", "raster", "pixel"}
  /\ IF part = "vu" THEN Vector!Init ELSE NoVector
  /\ IF part = "vumem" THEN VuMemInit ELSE NoMoves
  /\ IF part = "texture" THEN TextureInit ELSE NoTexture
  /\ IF part = "sampler" THEN Sampling!Init ELSE NoSampling
  /\ IF part = "raster" THEN RasterInit ELSE NoCovers
  /\ IF part = "pixel" THEN PixelInit ELSE NoPixels

Others(own) ==
  /\ part' = part
  /\ IF own = "vu" THEN TRUE ELSE UNCHANGED vuVars
  /\ IF own = "vumem" THEN TRUE ELSE UNCHANGED vuMemVars
  /\ IF own = "texture" THEN TRUE ELSE UNCHANGED textureVars
  /\ IF own = "sampler" THEN TRUE ELSE UNCHANGED samplerVars
  /\ IF own = "raster" THEN TRUE ELSE UNCHANGED rasterVars
  /\ IF own = "pixel" THEN TRUE ELSE UNCHANGED pixelVars

VectorStep == part = "vu" /\ Others("vu") /\ Vector!Next
MoveStep == part = "vumem" /\ Others("vumem") /\ VuMemNext
TextureStep == part = "texture" /\ Others("texture") /\ TextureNext
SampleStep == part = "sampler" /\ Others("sampler") /\ Sampling!Next
CoverStep == part = "raster" /\ Others("raster") /\ RasterNext
PixelStep == part = "pixel" /\ Others("pixel") /\ PixelNext

\* A program ends.
Bounded == UNCHANGED engines

EnginesNext ==
  \/ VectorStep \/ MoveStep \/ TextureStep \/ SampleStep \/ CoverStep
  \/ PixelStep \/ Bounded

EnginesSpec == EnginesInit /\ [][EnginesNext]_engines

-----------------------------------------------------------------------------
\* Vu: code for double-width numbers computes what the numbers would give, and the
\* reciprocals are right to their table (vu.rs vu_compute, reciprocal_core).
VectorExact == part = "vu" => Vector!WideArithmetic /\ Vector!Reciprocals

\* Sampler: along a span neither the texel nor the level of detail jumps, and the division,
\* the filter and the copy agree with what they stand for (lib.rs sample_axis, lod_signals,
\* perspective_divide, bilinear_3point, wrap_coord).
SamplesAgree ==
  /\ [](part = "sampler" => Sampling!CopiedAsDrawn /\ Sampling!Divided /\ Sampling!Filtered)
  /\ Sampling!NeighbourIsNext /\ Sampling!LevelsJoin
=============================================================================
