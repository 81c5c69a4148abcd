------------------------------- MODULE Raster -------------------------------
(***************************************************************************)
(* Which pixels a primitive writes (rustyn64-rdp, fill_rectangle,          *)
(* texture_rectangle and triangle_fill): the four sub-scanlines of a row   *)
(* and their two samples each, the scissor, the width of the image, and    *)
(* the coverage kept in the alpha and in RDRAM's hidden bits for the VI.   *)
(*                                                                         *)
(* Rows count quarter pixels, edges 1/ONE of a pixel and spans eighths, as *)
(* in the code.  The color a pixel gets is the command that gave it, with  *)
(* the half of the fill register or the texel.                             *)
(***************************************************************************)
EXTENDS Integers, FiniteSets, FiniteSetsExt

CONSTANTS ONE,           \* a pixel in an edge's fixed point
          Width, Height, \* of the color image
          Commands,      \* the primitives: records with an "op"
          Scissors,      \* [ulx, uly, lrx, lry] in quarter pixels
          MaxPrimitives  \* bounds a list

\* A pixel is whole eighths; commands hold integers, and a scissor encloses something.
ASSUME RasterAssumption ==
  /\ ONE \in Nat \ {0} /\ ONE % 8 = 0
  /\ Width \in Nat \ {0} /\ Height \in Nat \ {0}
  /\ \A c \in Commands :
       /\ c.yh \in Int /\ c.yl \in Int /\ c.xh \in Int /\ c.xl \in Int
       /\ c.op \in {"tri", "tri_fill"} =>
            /\ c.ym \in Int /\ c.xm \in Int
            /\ c.dxh \in Int /\ c.dxm \in Int /\ c.dxl \in Int
            /\ c.flip \in BOOLEAN
  /\ \A s \in Scissors :
       /\ s.ulx \in Nat /\ s.uly \in Nat /\ s.lrx \in Nat /\ s.lry \in Nat
       /\ s.ulx < s.lrx /\ s.uly < s.lry

VARIABLES bpp,      \* Set Color Image: bytes of a pixel, 2 or 4
          aa,       \* Set Other Modes: aa_enable
          full,     \* Set Other Modes: cvg_dest is "full"
          scissor,  \* Set Scissor
          screen,   \* RDRAM: pixel -> its color, its alpha and its hidden bits
          primitives, \* those drawn, in order of no importance
          stored,   \* pixel -> the coverage last stored there, or none
          hits      \* sample -> how often a triangle covered it

rasterVars == <<bpp, aa, full, scissor, screen, primitives, stored, hits>>

Pixels == (0..Width - 1) \X (0..Height - 1)
None == -1
Whole == [ulx |-> 0, uly |-> 0, lrx |-> 4 * Width, lry |-> 4 * Height]

-----------------------------------------------------------------------------
\* FILL and 1-cycle rectangles: floored above, inclusive below; the scissor inclusive
\* in X unless the whole rectangle lies past it, exclusive in Y.
RectPixels(c, s) ==
  IF c.xh >= s.lrx THEN {}
  ELSE {p \in Pixels :
          /\ p[1] >= c.xh \div 4 /\ p[1] >= s.ulx \div 4
          /\ p[1] <= c.xl \div 4 /\ p[1] <= s.lrx \div 4
          /\ p[2] >= c.yh \div 4 /\ p[2] >= s.uly \div 4
          /\ p[2] <= c.yl \div 4 /\ p[2] < (s.lry + 3) \div 4}

\* COPY rectangles end with the last pixel the scissor holds any part of.
CopyPixels(c, s) ==
  {p \in Pixels :
     /\ p[1] >= c.xh \div 4 /\ p[1] >= s.ulx \div 4
     /\ p[1] <= c.xl \div 4 /\ p[1] < (s.lrx + 3) \div 4
     /\ p[2] >= c.yh \div 4 /\ p[2] >= s.uly \div 4
     /\ p[2] <= c.yl \div 4 /\ p[2] < (s.lry + 3) \div 4}

\* Four texels are copied in one cycle: the coordinate is taken at the first of them.
CopiedTexel(c, p) ==
  LET column == p[1] - (c.xh \div 4)
      within == column % 4
  IN <<"texel", ((c.s + ((c.dsdx * (column - within)) \div 128)) \div 32) + within,
       (c.t + ((c.dtdy * (p[2] - (c.yh \div 4))) \div 32)) \div 32>>

-----------------------------------------------------------------------------
\* The edges of a triangle at a sub-scanline: the major one and that of the two minor
\* ones that is active; a slope is given per row and taken per sub-scanline.
Major(t, y) == t.xh + (y - 4 * (t.yh \div 4)) * (t.dxh \div 4)
Minor(t, y) ==
  IF y < t.ym THEN t.xm + (y - 4 * (t.yh \div 4)) * (t.dxm \div 4)
  ELSE t.xl + (y - t.ym) * (t.dxl \div 4)

Left(t, y) == IF t.flip THEN Major(t, y) ELSE Minor(t, y)
Right(t, y) == IF t.flip THEN Minor(t, y) ELSE Major(t, y)

\* A mutant.
LinesBug(t, s) == {line \in 0..Height - 1 :
  /\ line >= t.yh \div 4 /\ line >= s.uly \div 4
  /\ line <= (t.yl - 1) \div 4 /\ line <= s.lry \div 4}

Lines(t, s) == {line \in 0..Height - 1 :
  /\ line >= t.yh \div 4 /\ line >= s.uly \div 4
  /\ line <= (t.yl - 1) \div 4 /\ line < s.lry \div 4}

\* The sub-scanlines of a row that the triangle crosses, and not inside out.
Active(t, line) == {sub \in 0..3 :
  LET y == 4 * line + sub IN
    /\ t.yh <= y /\ y < t.yl
    /\ Left(t, y) \div ONE <= Right(t, y) \div ONE}

\* FILL: the row's whole pixels, from the leftmost edge to the rightmost.
SpanPixels(t, s) == {p \in Pixels :
  LET subs == Active(t, p[2]) IN
    /\ p[2] \in Lines(t, s) /\ subs # {}
    /\ p[1] >= Min({Left(t, 4 * p[2] + sub) \div ONE : sub \in subs})
    /\ p[1] <= Max({Right(t, 4 * p[2] + sub) \div ONE : sub \in subs})
    /\ p[1] >= s.ulx \div 4 /\ p[1] <= s.lrx \div 4}

\* A mutant.
quantize_xBug(x) == x \div (ONE \div 8)

\* An edge in eighths of a pixel: what the truncation drops sets the last bit.
quantize_x(x) ==
  LET u == ONE \div 8 IN
    IF x % u # 0 /\ (x \div u) % 2 = 0 THEN (x \div u) + 1 ELSE x \div u

Clamped(x, s) == Max({2 * s.ulx, Min({x, 2 * s.lrx})})

\* The samples of a pixel, <<sub-scanline, first or second>>, and where they lie.
Samples == (0..3) \X (0..1)
SampleX(x, k) == (8 * x) + (4 * k[2]) + (2 * (k[1] % 2))

compute_coverage(t, s, p) ==
  {k \in Samples :
     LET y == 4 * p[2] + k[1]
         el == Clamped(quantize_x(Left(t, y)), s)
         er == Clamped(quantize_x(Right(t, y)), s)
     IN /\ p[2] \in Lines(t, s) /\ k[1] \in Active(t, p[2]) /\ el \div 2 <= er \div 2
        /\ el <= SampleX(p[1], k) /\ SampleX(p[1], k) < er}

\* The coverage to store, none where the pixel is not drawn: without anti-aliasing its
\* first sample decides.
pixel_coverage(mask) ==
  IF mask = {} \/ (~aa /\ <<0, 0>> \notin mask) THEN None
  ELSE IF full THEN 7 ELSE Cardinality(mask) - 1

-----------------------------------------------------------------------------
\* A pixel as written: a 16-bit one has one bit of alpha, and the two bits below go to
\* the hidden plane; a 32-bit one holds the three of them.  A color that is no
\* coverage leaves the hidden plane alone.
PixelWritten(old, rgb, alpha) ==
  [rgb |-> rgb, a |-> IF bpp = 2 THEN alpha \div 4 ELSE alpha, h |-> old.h]

\* A mutant.
CoverWrittenBug(old, rgb, cov) == PixelWritten(old, rgb, cov)

CoverWritten(old, rgb, cov) ==
  IF bpp = 2 THEN [rgb |-> rgb, a |-> cov \div 4, h |-> cov % 4]
  ELSE PixelWritten(old, rgb, cov)

\* The VI's reading of a pixel's coverage (vi_read_cov).
vi_read_cov(px) == IF bpp = 2 THEN (4 * px.a) + px.h ELSE px.a

\* The image a primitive leaves.
Drawn(c, s) ==
  [p \in Pixels |->
     IF c.op = "tri"
       THEN LET cov == pixel_coverage(compute_coverage(c, s, p)) IN
              IF cov = None THEN screen[p] ELSE CoverWritten(screen[p], <<c.name>>, cov)
     ELSE IF c.op = "copy"
       THEN IF bpp = 2 /\ p \in CopyPixels(c, s)
              THEN PixelWritten(screen[p], CopiedTexel(c, p), 7) ELSE screen[p]
     ELSE IF c.op = "rect_1cycle"
       THEN IF p \in RectPixels(c, s)
              THEN PixelWritten(screen[p], <<"prim">>, c.alpha) ELSE screen[p]
     ELSE IF p \in (IF c.op = "rect" THEN RectPixels(c, s) ELSE SpanPixels(c, s))
       THEN PixelWritten(screen[p], <<"fill", p[1] % (4 \div bpp)>>, 7) ELSE screen[p]]

RasterInit ==
  /\ bpp \in {2, 4} /\ aa \in BOOLEAN /\ full \in BOOLEAN
  /\ scissor \in Scissors
  /\ screen = [p \in Pixels |-> [rgb |-> <<"none">>, a |-> 0, h |-> 0]]
  /\ primitives = {}
  /\ stored = [p \in Pixels |-> None]
  /\ hits = [k \in Pixels \X Samples |-> 0]

\* Set Scissor.
SetScissor(s) ==
  /\ s # scissor /\ primitives # {}
  /\ scissor' = s
  /\ UNCHANGED <<bpp, aa, full, screen, primitives, stored, hits>>

\* One primitive.  Software copies only with a scissor inside the image.
DrawPrimitive(c) ==
  /\ c \notin primitives /\ Cardinality(primitives) < MaxPrimitives
  /\ c.op = "copy" => scissor.lrx <= 4 * Width
  /\ screen' = Drawn(c, scissor)
  /\ primitives' = primitives \cup {c}
  /\ stored' = [p \in Pixels |->
       IF c.op = "tri"
         THEN LET cov == pixel_coverage(compute_coverage(c, scissor, p)) IN
                IF cov = None THEN stored[p] ELSE cov
         ELSE IF screen'[p] = screen[p] THEN stored[p] ELSE None]
  /\ hits' = [k \in Pixels \X Samples |->
       hits[k] + (IF c.op = "tri" /\ k[2] \in compute_coverage(c, scissor, k[1])
                    THEN 1 ELSE 0)]
  /\ UNCHANGED <<bpp, aa, full, scissor>>

RasterNext == (\E s \in Scissors : SetScissor(s)) \/ (\E c \in Commands : DrawPrimitive(c))

RasterSpec == RasterInit /\ [][RasterNext]_rasterVars

-----------------------------------------------------------------------------
\* Triangles that meet in an edge share no sample and leave none out: the samples
\* covered are those between the exact edges, left one included and right one not, and
\* a mesh that does not overlap covers each at most once, whichever of its triangles
\* has the edge as its major and whichever as its minor one (quantize_x keeps the half
\* open test exact; compute_coverage, triangle_fill).
Between(t, p, k) ==
  LET y == 4 * p[2] + k[1]
      x == SampleX(p[1], k) * (ONE \div 8)
  IN t.yh <= y /\ y < t.yl /\ Left(t, y) <= x /\ x < Right(t, y)

SamplesExact ==
  \A t \in {c \in Commands : c.op = "tri"}, p \in Pixels :
    compute_coverage(t, Whole, p) = {k \in Samples : Between(t, p, k)}

\* A mesh: no two of its triangles have a sample in common.
Mesh(cs) ==
  \A c, d \in {t \in cs : t.op = "tri"} : c # d =>
    \A p \in Pixels, k \in Samples : ~(Between(c, p, k) /\ Between(d, p, k))

EachSampleOnce ==
  /\ SamplesExact
  /\ primitives # {} /\ Mesh(primitives) => \A k \in Pixels \X Samples : hits[k] <= 1

\* The VI reads the coverage that was stored: its bits in the pixel and its bits in the
\* hidden plane are those of the same primitive (write_pixel, write_coverage,
\* vi_read_cov).
CoverageSeen ==
  primitives # {} =>
    \A p \in Pixels : stored[p] # None => vi_read_cov(screen[p]) = stored[p]

\* The scissor removes pixels and does nothing else: those wholly inside are drawn as
\* without one, those outside are left alone.  (On the column that starts at its right
\* edge FILL draws and the others do not.)
Inside(p) ==
  /\ 4 * p[1] >= scissor.ulx /\ (4 * p[1]) + 4 <= scissor.lrx
  /\ 4 * p[2] >= scissor.uly /\ (4 * p[2]) + 4 <= scissor.lry
Outside(p) ==
  \/ (4 * p[1]) + 4 <= scissor.ulx \/ 4 * p[1] > scissor.lrx
  \/ (4 * p[2]) + 4 <= scissor.uly \/ 4 * p[2] >= scissor.lry

ScissorOnlyRemoves ==
  [][\A c \in primitives' \ primitives : \A p \in Pixels :
       /\ Inside(p) => screen'[p] = Drawn(c, Whole)[p]
       /\ Outside(p) => screen'[p] = screen[p]]_rasterVars

\* A mesh covers each sample once, the VI reads the coverage stored, and the scissor only
\* removes (lib.rs compute_coverage, write_coverage, triangle_fill, fill_rectangle).
CoverageExact == [](EachSampleOnce /\ CoverageSeen) /\ ScissorOnlyRemoves
=============================================================================
