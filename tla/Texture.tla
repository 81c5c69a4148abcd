------------------------------ MODULE Texture ------------------------------
(***************************************************************************)
(* The RDP's texture memory (rustyn64-rdp/src/lib.rs): the commands that   *)
(* describe tiles and load TMEM, and the fetch of a texel.                 *)
(*                                                                         *)
(* A load and a fetch each work out for themselves where in TMEM a texel   *)
(* is: odd rows swap the halves of their words, 32-bit texels are split    *)
(* between the halves of TMEM, and a block of texels has no rows but those *)
(* its dxt makes.  A byte is named by the address in RDRAM it comes from.  *)
(***************************************************************************)
EXTENDS Integers, Sequences, FiniteSetsExt

CONSTANTS
  TMEM_SIZE,   \* bytes of TMEM; 4096
  NIBBLE,      \* values of half a byte; 16
  DXT_ONE,     \* a line of one word, as dxt; 2048
  LOAD_BLOCK_MAX_TEXELS,
  Images,      \* the texture images programs set
  Descriptors, \* the tiles they set
  Rects,       \* the corners of the loads
  Tiles,       \* the tiles they use
  MaxCommands  \* a bound: the loads, after which nothing is set

TileType ==
  [format : {"rgba", "yuv", "ci", "ia", "i"}, size : 0 .. 3, line : Nat, tmem_addr : Nat,
   palette : Nat]
ImageType == [addr : Nat, width : Nat, size : 0 .. 3]
RectType == [sl : Nat, tl : Nat, sh : Nat, th : Nat]

ASSUME TextureAssumption ==
  /\ TMEM_SIZE \in Nat \ {0} /\ TMEM_SIZE % 16 = 0
  /\ NIBBLE \in Nat \ {0} /\ DXT_ONE \in Nat \ {0}
  /\ Images \subseteq ImageType /\ Descriptors \subseteq TileType /\ Rects \subseteq RectType
  /\ LOAD_BLOCK_MAX_TEXELS \in Nat /\ MaxCommands \in Nat

VARIABLES
  image,       \* the texture image
  tiles,       \* the tile descriptors but for
  extent,      \* their sizes
  tmem,        \* where the bytes of TMEM come from
  loads        \* the loads made, for the properties

textureVars == <<image, tiles, extent, tmem, loads>>

-----------------------------------------------------------------------------
Offset == 0 .. TMEM_SIZE - 1
Nowhere == -1
TMEM_HIGH == TMEM_SIZE \div 2

\* bytes_per_texel; a texel of four bits has no stride.
Bytes(size) == <<1, 2, 4>>[size]
Loadable(size) == size \in 1 .. 3

\* The data in RDRAM, where it is looked at: a byte of indices.
Data(a) == IF a = Nowhere THEN 0 ELSE a % (NIBBLE * NIBBLE)

\* Where a texel of the texture image is.
Texel(img, s, t) == img.addr + (t * img.width + s) * Bytes(img.size)

\* The swap of an odd row: ^ 4.
Swap(b, t) == IF t % 2 = 0 THEN b ELSE IF (b \div 4) % 2 = 0 THEN b + 4 ELSE b - 4

\* Writes, of byte[k] to to[k], in order.
Written(to, byte) ==
  [o \in Offset |->
    LET here == {k \in DOMAIN to : to[k] % TMEM_SIZE = o}
    IN IF here = {} THEN tmem[o] ELSE byte[Max(here)]]

Across(r) == r.sh - r.sl + 1
Down(r) == r.th - r.tl + 1

Record(kind, i, r, dxt) ==
  loads' = Append(loads, [kind |-> kind, tile |-> tiles[i], image |-> image, rect |-> r, dxt |-> dxt])

-----------------------------------------------------------------------------
SetTextureImage(img) ==
  /\ image' = img
  /\ UNCHANGED <<tiles, extent, tmem, loads>>

\* set_tile leaves the size of the tile alone.
SetTile(i, d) ==
  /\ tiles' = [tiles EXCEPT ![i] = d]
  /\ UNCHANGED <<image, extent, tmem, loads>>

SetTileSize(i, r) ==
  /\ extent' = [extent EXCEPT ![i] = r]
  /\ UNCHANGED <<image, tiles, tmem, loads>>

\* A mutant: the swap is that of the row in the image and not of the row in the tile.
RowBug(r, t) == r.tl + t
Row(r, t) == t

\* Where load_tile puts byte i of the texel at (s, t) of the rectangle.
TileByte(d, r, s, t, i) ==
  LET line == d.line * 8 * t
      split == (d.tmem_addr * 8 + line + s * 2) % TMEM_HIGH
  IN IF d.size = 3 THEN Swap(IF i < 2 THEN split + i ELSE split + TMEM_HIGH + i - 2, Row(r, t))
     ELSE Swap(d.tmem_addr * 8 + line + s * Bytes(d.size) + i, Row(r, t))

\* Byte k of the rectangle: of which texel, and where it comes from and goes.
Filled(d, r) == 0 .. Bytes(d.size) * Across(r) * Down(r) - 1
Column(d, r, k) == (k \div Bytes(d.size)) % Across(r)
Line(d, r, k) == (k \div Bytes(d.size)) \div Across(r)

TileFrom(img, d, r) ==
  [k \in Filled(d, r) |->
    Texel(img, r.sl + Column(d, r, k), r.tl + Line(d, r, k)) + (k % Bytes(d.size))]
TileTo(d, r) ==
  [k \in Filled(d, r) |-> TileByte(d, r, Column(d, r, k), Line(d, r, k), k % Bytes(d.size))]

LoadTile(i, r) ==
  /\ r.sl <= r.sh /\ r.tl <= r.th
  /\ Loadable(tiles[i].size) /\ Loadable(image.size)
  /\ tmem' = Written(TileTo(tiles[i], r), TileFrom(image, tiles[i], r))
  /\ extent' = [extent EXCEPT ![i] = r]
  /\ Record("tile", i, r, 0)
  /\ UNCHANGED <<image, tiles>>

\* A mutant: dxt counts texels and not words.
BlockLineBug(k, d, dxt) == (k * dxt) \div DXT_ONE
BlockLine(k, d, dxt) == (((k * Bytes(d.size)) \div 8) * dxt) \div DXT_ONE

\* load_block: a run of texels; the rectangle gives its first and last, and its row.
BlockFrom(img, d, r) ==
  [k \in 0 .. Bytes(d.size) * Across(r) - 1 |->
    Texel(img, r.sl, r.tl) + (k \div Bytes(d.size)) * Bytes(img.size) + (k % Bytes(d.size))]
BlockTo(d, r, dxt) ==
  [k \in 0 .. Bytes(d.size) * Across(r) - 1 |->
    Swap(d.tmem_addr * 8 + k, BlockLine(k \div Bytes(d.size), d, dxt))]

LoadBlock(i, r, dxt) ==
  /\ r.sl <= r.sh /\ Across(r) <= LOAD_BLOCK_MAX_TEXELS
  /\ tiles[i].size \in {1, 2} /\ Loadable(image.size)
  /\ tmem' = Written(BlockTo(tiles[i], r, dxt), BlockFrom(image, tiles[i], r))
  /\ Record("block", i, r, dxt)
  /\ UNCHANGED <<image, tiles, extent>>

\* load_tlut: every entry four times over.
TlutFrom(img, r) ==
  [k \in 0 .. 8 * Across(r) - 1 |-> img.addr + r.sl * 2 + (k \div 8) * 2 + (k % 2)]
TlutTo(d, r) == [k \in 0 .. 8 * Across(r) - 1 |-> d.tmem_addr * 8 + k]

LoadTlut(i, r) ==
  /\ r.sl <= r.sh
  /\ tmem' = Written(TlutTo(tiles[i], r), TlutFrom(image, r))
  /\ extent' = [extent EXCEPT ![i] = r]
  /\ Record("tlut", i, r, 0)
  /\ UNCHANGED <<image, tiles>>

-----------------------------------------------------------------------------
\* A load the RDP refuses writes nothing.
Refused(i, r) ==
  /\ r.sl > r.sh \/ r.tl > r.th \/ ~Loadable(tiles[i].size) \/ ~Loadable(image.size)
  /\ UNCHANGED textureVars

EmptyTile == [format |-> "rgba", size |-> 0, line |-> 0, tmem_addr |-> 0, palette |-> 0]
NoImage == [addr |-> 0, width |-> 0, size |-> 0]

TextureInit ==
  /\ image = NoImage
  /\ tiles = [i \in Tiles |-> EmptyTile]
  /\ extent = [i \in Tiles |-> [sl |-> 0, tl |-> 0, sh |-> 0, th |-> 0]]
  /\ tmem = [o \in Offset |-> Nowhere]
  /\ loads = << >>

TextureNext ==
  /\ Len(loads) < MaxCommands
  /\ \/ \E img \in Images : SetTextureImage(img)
     \/ \E i \in Tiles, d \in Descriptors : SetTile(i, d)
     \/ \E i \in Tiles, r \in Rects :
          \/ LoadTile(i, r) \/ LoadTlut(i, r) \/ Refused(i, r) \/ SetTileSize(i, r)
          \/ tiles[i].line > 0 /\ LoadBlock(i, r, DXT_ONE \div tiles[i].line)

TextureSpec == TextureInit /\ [][TextureNext]_textureVars

-----------------------------------------------------------------------------
\* fetch_texel: the bytes a texel is decoded from, and for four bits which half.
Byte(o) == tmem[o % TMEM_SIZE]

Base(d, t) == d.tmem_addr * 8 + d.line * 8 * t

Direct(d, s, t) ==
  LET word == Swap(Base(d, t) + s * 2, t)
      split == Swap((Base(d, t) + s * 2) % TMEM_HIGH, t)
      byte == Swap(Base(d, t) + s, t)
      half == Swap(Base(d, t) + s \div 2, t)
  IN IF d.size = 3 THEN <<Byte(split), Byte(split + 1),
                          Byte(split + TMEM_HIGH), Byte(split + TMEM_HIGH + 1)>>
     ELSE IF d.size = 2 THEN <<Byte(word), Byte(word + 1)>>
     ELSE IF d.size = 1 THEN <<Byte(byte)>>
     ELSE <<Byte(half), s % 2>>

\* tlut_lookup
Entry(ci) == <<Byte(TMEM_HIGH + ci * 8), Byte(TMEM_HIGH + ci * 8 + 1)>>

NibbleOf(a, half) == IF half = 0 THEN Data(a) \div NIBBLE ELSE Data(a) % NIBBLE

Indexed(d, s, t) ==
  LET byte == Swap((Base(d, t) + s) % TMEM_HIGH, t)
      half == Swap((Base(d, t) + s \div 2) % TMEM_HIGH, t)
  IN IF d.size = 1 THEN Entry(Data(Byte(byte)))
     ELSE Entry(NibbleOf(Byte(half), s % 2) + d.palette * NIBBLE)

Fetch(d, s, t) == IF d.format = "ci" THEN Indexed(d, s, t) ELSE Direct(d, s, t)

-----------------------------------------------------------------------------
\* The words of TMEM a load may touch.
Word(o) == (o % TMEM_SIZE) \div 8
Words(l) ==
  LET from == l.tile.tmem_addr * 8
      bytes == 0 .. Across(l.rect) * Bytes(l.tile.size) - 1
      rows == 0 .. Down(l.rect) - 1
  IN IF l.kind = "tlut" THEN {Word(from + 8 * k) : k \in 0 .. Across(l.rect) - 1}
     ELSE IF l.kind = "block" THEN {Word(from + b) : b \in bytes}
     ELSE IF l.tile.size # 3 THEN
       {Word(from + l.tile.line * 8 * t + b) : t \in rows, b \in bytes}
     ELSE
       {(((from + l.tile.line * 8 * t + 2 * s) % TMEM_HIGH) + h) \div 8 :
          t \in rows, s \in 0 .. Across(l.rect) - 1, h \in {0, TMEM_HIGH}}

\* The load fills a line of the tile to the full and no further, TMEM once, at one size.
RowBytes(l) == Across(l.rect) * Bytes(l.tile.size)
Sound(l) ==
  /\ l.image.size = l.tile.size
  /\ l.kind = "tile" =>
       /\ l.tile.line * 8 * (IF l.tile.size = 3 THEN 2 ELSE 1) >= RowBytes(l)
       /\ l.tile.tmem_addr * 8 + l.tile.line * 8 * Down(l.rect)
            <= (IF l.tile.size = 3 THEN TMEM_HIGH ELSE TMEM_SIZE)
  /\ l.kind = "block" =>
       /\ l.tile.line > 0 /\ DXT_ONE % l.tile.line = 0
       /\ l.tile.tmem_addr * 8 + RowBytes(l) <= TMEM_SIZE

\* Nothing loaded since has touched its words.
Intact(k) == \A j \in k + 1 .. Len(loads) : Words(loads[j]) \cap Words(loads[k]) = {}

\* The byte of RDRAM at byte b of row t of what was loaded.
Meant(l, b, t) ==
  IF l.kind = "tile" THEN Texel(l.image, l.rect.sl, l.rect.tl + t) + b
  ELSE Texel(l.image, l.rect.sl, l.rect.tl) + t * l.tile.line * 8 + b

RowsOf(l) == IF l.kind = "tile" THEN 0 .. l.rect.th - l.rect.tl
           ELSE 0 .. (RowBytes(l) \div (8 * l.tile.line)) - 1
Row0Bytes(l) == IF l.kind = "tile" THEN RowBytes(l) ELSE l.tile.line * 8

\* What was loaded is what is fetched: while no other load has touched its words, a tile
\* at the load's place and line reads, at every row and column, the bytes of the image that
\* are there, whether it was loaded as a rectangle or as a block, and at any texel size a
\* program reads it as (a four-bit texture is loaded as bytes).
LoadedIsFetched ==
  \A k \in DOMAIN loads :
    LET l == loads[k]
        as(size) == [l.tile EXCEPT !.size = size, !.format = "rgba"]
    IN l.kind # "tlut" /\ Sound(l) /\ Intact(k) =>
         \A t \in RowsOf(l) :
           IF l.tile.size = 3
             THEN \A s \in 0 .. (Row0Bytes(l) \div 4) - 1 :
                    Fetch(as(3), s, t) = [i \in 1 .. 4 |-> Meant(l, 4 * s + i - 1, t)]
             ELSE /\ \A s \in 0 .. (Row0Bytes(l) \div 2) - 1 :
                       Fetch(as(2), s, t) = [i \in 1 .. 2 |-> Meant(l, 2 * s + i - 1, t)]
                  /\ \A s \in 0 .. Row0Bytes(l) - 1 :
                       /\ Fetch(as(1), s, t) = <<Meant(l, s, t)>>
                       /\ \A h \in {0, 1} : Fetch(as(0), 2 * s + h, t) = <<Meant(l, s, t), h>>

\* A colour index finds its entry: with a palette in the upper half of TMEM and indices in
\* the lower, each loaded once and neither over the other, an index reads the entry of the
\* palette it names, whatever row and column it is in.
IndexFindsEntry ==
  \A p, k \in DOMAIN loads :
    LET pal == loads[p]
        l == loads[k]
        first == pal.tile.tmem_addr * 8 - TMEM_HIGH
        entry(ci) == pal.image.addr + pal.rect.sl * 2 + (ci - first \div 8) * 2
        ci(t, b) == Data(Meant(l, b, t))
    IN /\ pal.kind = "tlut" /\ first >= 0 /\ l.kind # "tlut" /\ l.tile.size = 1
       /\ Sound(l) /\ Intact(p) /\ Intact(k)
       /\ \A w \in Words(l) : w * 8 < TMEM_HIGH
       => \A t \in RowsOf(l), b \in 0 .. Row0Bytes(l) - 1 :
            (ci(t, b) - first \div 8) \in 0 .. pal.rect.sh - pal.rect.sl
              => Fetch([l.tile EXCEPT !.format = "ci"], b, t)
                   = <<entry(ci(t, b)), entry(ci(t, b)) + 1>>

\* Texels are where they were put, direct and through a palette (load_tile, load_block,
\* load_tlut, fetch_texel, tlut_lookup).
TexelsFound == LoadedIsFetched /\ IndexFindsEntry
=============================================================================
