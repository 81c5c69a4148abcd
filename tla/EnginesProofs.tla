--------------------------- MODULE EnginesProofs ---------------------------
(***************************************************************************)
(* Theorems of the RDP's engines and of the RSP's vector moves.            *)
(*                                                                         *)
(* Texture memory: that a texel is fetched from where it was loaded to, and *)
(* a colour index finds its entry, for a TMEM of any size, whatever images, *)
(* tiles and loads a program makes of it.                                  *)
(*                                                                         *)
(* The Z buffer: that the nearest surface remains and a decal sticks to the *)
(* surface it lies in, for stored depths of any number of mantissas.       *)
(*                                                                         *)
(* Colors: that what interpolates stays between its ends, through both     *)
(* cycles of combiner and blender and any number of layers.                *)
(*                                                                         *)
(* Coverage: that triangles which meet in an edge share no sample, for     *)
(* edges in any fixed point, and that the scissor only removes.            *)
(*                                                                         *)
(* Vector moves: that loads, stores and register moves compose, for a DMEM *)
(* of any size, at any address, whatever registers and memory hold.        *)
(***************************************************************************)
EXTENDS Texture, Pixel, Raster, VuMem, FiniteSetTheorems, TLAPS

-----------------------------------------------------------------------------
(* Words and offsets.                                                      *)

\* Division with remainder finds what was put together.
LEMMA DivMod ==
  ASSUME NEW n \in Nat \ {0}, NEW q \in Nat, NEW r \in 0 .. n - 1
  PROVE  (n * q + r) \div n = q /\ (n * q + r) % n = r
  OBVIOUS

\* And takes apart.
LEMMA Parts ==
  ASSUME NEW n \in Nat \ {0}, NEW k \in Nat
  PROVE  k \div n \in Nat /\ k % n \in 0 .. n - 1 /\ k = n * (k \div n) + (k % n)
  OBVIOUS

LEMMA WordShift ==
  ASSUME NEW x \in Nat, NEW b \in Nat
  PROVE  (8 * x + b) \div 8 = x + (b \div 8)
  OBVIOUS

\* TMEM is an even number of words.
LEMMA WholeWords ==
  \E h \in Nat \ {0} : TMEM_SIZE = 16 * h /\ TMEM_HIGH = 8 * h
  BY TextureAssumption, TMEM_SIZE \div 16 \in Nat \ {0} DEF TMEM_HIGH

\* The offset in a word is not touched by a wrap after so many words.
LEMMA WrapWord ==
  ASSUME NEW g \in Nat \ {0}, NEW q \in Nat, NEW b \in 0 .. 7
  PROVE  /\ q % g \in 0 .. g - 1
         /\ (8 * q + b) % (8 * g) = 8 * (q % g) + b
         /\ ((8 * q + b) % (8 * g)) \div 8 = q % g
<1> DEFINE a == q \div g
           c == q % g
<1>1. a \in Nat /\ c \in 0 .. g - 1 /\ q = g * a + c
  BY Parts
<1> HIDE DEF a, c
<1>2. 8 * q + b = (8 * g) * a + (8 * c + b) /\ 8 * c + b \in 0 .. (8 * g) - 1
  BY <1>1
<1>3. (8 * q + b) % (8 * g) = 8 * c + b
  <2> DEFINE n == 8 * g
             r == 8 * c + b
  <2>1. n \in Nat \ {0} /\ r \in 0 .. n - 1 /\ 8 * q + b = n * a + r
    BY <1>2
  <2> HIDE DEF n, r
  <2>2. (n * a + r) % n = r
    BY <1>1, <2>1, DivMod
  <2>3. (8 * q + b) % n = r
    BY <2>1, <2>2
  <2> QED  BY <2>3 DEF n, r
<1>4. (8 * c + b) \div 8 = c
  BY <1>1, DivMod
<1> QED  BY <1>1, <1>3, <1>4 DEF c

\* The swap of an odd row stays in the word, and is its own inverse there.
LEMMA SwapWord ==
  ASSUME NEW q \in Nat, NEW b \in 0 .. 7, NEW t \in Nat
  PROVE  /\ Swap(8 * q + b, t) = 8 * q + Swap(b, t)
         /\ Swap(b, t) \in 0 .. 7
         /\ \A c \in 0 .. 7 : Swap(c, t) = Swap(b, t) => c = b
         /\ b % 2 = 0 => Swap(b + 1, t) = Swap(b, t) + 1
  BY DEF Swap

\* The bytes of a word are in one word of TMEM, also where TMEM wraps.
LEMMA WordIs ==
  ASSUME NEW q \in Nat, NEW b \in 0 .. 7
  PROVE  Word(8 * q + b) = Word(8 * q)
<1>1. PICK h \in Nat \ {0} : TMEM_SIZE = 16 * h
  BY WholeWords
<1> DEFINE g == 2 * h
<1>2. g \in Nat \ {0} /\ TMEM_SIZE = 8 * g
  BY <1>1
<1> HIDE DEF g
<1>3. \A c \in 0 .. 7 : ((8 * q + c) % (8 * g)) \div 8 = q % g
  BY <1>2, WrapWord
<1>4. ((8 * q + 0) % (8 * g)) \div 8 = q % g
  BY <1>3, 0 \in 0 .. 7, Zenon
<1>5. 8 * q + 0 = 8 * q
  OBVIOUS
<1> QED  BY <1>2, <1>3, <1>4, <1>5 DEF Word

\* A byte of TMEM is in the word it was named in, swapped or not.
LEMMA SwapPlace ==
  ASSUME NEW x \in Nat, NEW t \in Nat
  PROVE  /\ Swap(x, t) \in Nat
         /\ Swap(x, t) \div 8 = x \div 8
         /\ Word(Swap(x, t)) = Word(x)
<1> DEFINE q == x \div 8
           b == x % 8
<1>1. q \in Nat /\ b \in 0 .. 7 /\ x = 8 * q + b
  BY Parts
<1> HIDE DEF q, b
<1>2. Swap(x, t) = 8 * q + Swap(b, t) /\ Swap(b, t) \in 0 .. 7
  BY <1>1, SwapWord
<1>3. Word(x) = Word(8 * q) /\ Word(Swap(x, t)) = Word(8 * q)
  BY <1>1, <1>2, WordIs
<1> QED  BY <1>1, <1>2, <1>3

-----------------------------------------------------------------------------
(***************************************************************************)
(* What a load writes, by kind, and that a byte of TMEM written once holds *)
(* what was written.                                                       *)
(***************************************************************************)

From(l) ==
  IF l.kind = "tile" THEN TileFrom(l.image, l.tile, l.rect)
  ELSE IF l.kind = "block" THEN BlockFrom(l.image, l.tile, l.rect)
  ELSE TlutFrom(l.image, l.rect)
To(l) ==
  IF l.kind = "tile" THEN TileTo(l.tile, l.rect)
  ELSE IF l.kind = "block" THEN BlockTo(l.tile, l.rect, l.dxt)
  ELSE TlutTo(l.tile, l.rect)

\* The loads there are.
LoadType ==
  [kind : {"tile", "block", "tlut"}, tile : TileType, image : ImageType, rect : RectType,
   dxt : Nat]
Made(l) ==
  /\ l \in LoadType /\ l.rect.sl <= l.rect.sh
  /\ l.kind = "tile" => l.rect.tl <= l.rect.th /\ l.tile.size \in 1 .. 3
  /\ l.kind = "block" =>
       l.tile.size \in {1, 2} /\ l.tile.line > 0 /\ l.dxt = DXT_ONE \div l.tile.line

\* No byte of TMEM is written twice by it.
Once(l) ==
  \A j, k \in DOMAIN To(l) : To(l)[j] % TMEM_SIZE = To(l)[k] % TMEM_SIZE => j = k

\* TMEM has what it wrote.
Held(m, l) == \A k \in DOMAIN To(l) : m[To(l)[k] % TMEM_SIZE] = From(l)[k]

LEMMA WrittenOnce ==
  ASSUME NEW l, Once(l), \A k \in DOMAIN To(l) : To(l)[k] \in Nat
  PROVE  Held(Written(To(l), From(l)), l)
<1> SUFFICES ASSUME NEW k \in DOMAIN To(l)
             PROVE  Written(To(l), From(l))[To(l)[k] % TMEM_SIZE] = From(l)[k]
  BY DEF Held
<1> DEFINE o == To(l)[k] % TMEM_SIZE
           here == {j \in DOMAIN To(l) : To(l)[j] % TMEM_SIZE = o}
<1>1. o \in Offset
  BY TextureAssumption DEF Offset
<1>2. here = {k}
  BY DEF Once
<1>3. k \in Int
  BY DEF To, TileTo, BlockTo, TlutTo, Filled
<1>4. Max({k}) = k
  BY <1>3 DEF Max
<1> QED  BY <1>1, <1>2, <1>4 DEF Written

\* A load leaves what is outside its words.
LEMMA WrittenKeeps ==
  ASSUME NEW l, NEW o \in Offset, Word(o) \notin Words(l),
         \A k \in DOMAIN To(l) : To(l)[k] \in Nat /\ Word(To(l)[k]) \in Words(l)
  PROVE  Written(To(l), From(l))[o] = tmem[o]
<1>1. \A k \in DOMAIN To(l) : To(l)[k] % TMEM_SIZE # o
  <2> SUFFICES ASSUME NEW k \in DOMAIN To(l), To(l)[k] % TMEM_SIZE = o
               PROVE  Word(o) = Word(To(l)[k])
    OBVIOUS
  <2>1. o % TMEM_SIZE = o
    BY TextureAssumption DEF Offset
  <2> QED  BY <2>1 DEF Word
<1> QED  BY <1>1 DEF Written

-----------------------------------------------------------------------------
(* The bytes of a rectangle.                                               *)

LEMMA SizeBytes ==
  /\ Bytes(1) = 1 /\ Bytes(2) = 2 /\ Bytes(3) = 4
  /\ \A size \in 1 .. 3 : Bytes(size) \in {1, 2, 4} /\ (Bytes(size) = 4 <=> size = 3)
  BY DEF Bytes

\* Byte k is one of a texel of the rectangle; and the bytes are counted row by row.
LEMMA FilledByte ==
  ASSUME NEW d \in TileType, NEW r \in RectType, d.size \in 1 .. 3,
         r.sl <= r.sh, r.tl <= r.th, NEW k \in Filled(d, r)
  PROVE  /\ Line(d, r, k) \in 0 .. Down(r) - 1
         /\ Column(d, r, k) \in 0 .. Across(r) - 1
         /\ k % Bytes(d.size) \in 0 .. Bytes(d.size) - 1
         /\ k = (Across(r) * Bytes(d.size)) * Line(d, r, k)
                + (Column(d, r, k) * Bytes(d.size) + (k % Bytes(d.size)))
<1> DEFINE n == Bytes(d.size)
           w == Across(r)
           h == Down(r)
           q == k \div n
           i == k % n
<1>1. n \in Nat \ {0}
  BY SizeBytes
<1>2. w \in Nat \ {0} /\ h \in Nat \ {0}
  BY DEF Across, Down, RectType
<1>3. k \in 0 .. n * w * h - 1
  BY DEF Filled
<1> HIDE DEF n, w, h
<1>4. q \in Nat /\ i \in 0 .. n - 1 /\ k = n * q + i
  <2>1. k \in Nat
    BY <1>3
  <2> QED  BY <1>1, <2>1, Parts
<1> DEFINE c == q % w
           t == q \div w
<1> HIDE DEF q, i
<1>5. t \in Nat /\ c \in 0 .. w - 1 /\ q = w * t + c
  BY <1>2, <1>4, Parts
<1> HIDE DEF c, t
<1>6. k = (w * n) * t + (c * n + i)
  <2>1. n * (w * t + c) = (w * n) * t + c * n
    BY <1>1, <1>2, <1>5
  <2> QED  BY <1>4, <1>5, <2>1, <1>1, <1>2
<1>7. t < h
  <2> SUFFICES ASSUME t >= h PROVE FALSE
    BY <1>2, <1>5
  <2>1. (w * n) * t >= (w * n) * h
    BY <1>1, <1>2, <1>5
  <2>2. (w * n) * h = n * w * h
    BY <1>1, <1>2
  <2>3. c * n \in Nat
    BY <1>1, <1>5
  <2>4. (w * n) * t \in Nat /\ (w * n) * h \in Nat
    BY <1>1, <1>2, <1>5
  <2> QED  BY <1>3, <1>4, <1>6, <2>1, <2>2, <2>3, <2>4
<1>8. Line(d, r, k) = t /\ Column(d, r, k) = c /\ k % Bytes(d.size) = i
  BY DEF Line, Column, t, c, q, i, n, w
<1>9. Across(r) = w /\ Down(r) = h /\ Bytes(d.size) = n
  BY DEF w, h, n
<1> QED
  BY <1>2, <1>4, <1>5, <1>6, <1>7, <1>8, <1>9

\* And every byte of every row is counted.
LEMMA ByteFilled ==
  ASSUME NEW d \in TileType, NEW r \in RectType, d.size \in 1 .. 3,
         r.sl <= r.sh, r.tl <= r.th,
         NEW t \in 0 .. Down(r) - 1, NEW c \in 0 .. Across(r) - 1,
         NEW i \in 0 .. Bytes(d.size) - 1
  PROVE  \E k \in Filled(d, r) :
           Line(d, r, k) = t /\ Column(d, r, k) = c /\ k % Bytes(d.size) = i
<1> DEFINE n == Bytes(d.size)
           w == Across(r)
           h == Down(r)
           q == w * t + c
           k == n * q + i
<1>1. n \in Nat \ {0} /\ i \in 0 .. n - 1
  BY SizeBytes
<1>2. w \in Nat \ {0} /\ h \in Nat \ {0} /\ t \in 0 .. h - 1 /\ c \in 0 .. w - 1
  BY DEF Across, Down, RectType
<1> HIDE DEF n, w, h
<1>3. q \in Nat /\ q \div w = t /\ q % w = c
  <2>1. t \in Nat /\ w * t \in Nat /\ c \in Nat
    BY <1>2
  <2>2. (w * t + c) \div w = t /\ (w * t + c) % w = c
    BY <1>2, <2>1, DivMod
  <2> QED  BY <2>1, <2>2
<1>4. q < w * h
  <2>1. w * t + w <= w * h
    <3>1. w * (t + 1) <= w * h
      BY <1>2
    <3> QED  BY <1>2, <3>1
  <2>2. w * t \in Nat /\ w * h \in Nat
    BY <1>2
  <2> QED  BY <1>2, <2>1, <2>2
<1> HIDE DEF q
<1>5. k \in Nat /\ k \div n = q /\ k % n = i
  <2>1. n * q \in Nat /\ i \in Nat
    BY <1>1, <1>3
  <2>2. (n * q + i) \div n = q /\ (n * q + i) % n = i
    BY <1>1, <1>3, DivMod
  <2> QED  BY <2>1, <2>2
<1>6. k < n * w * h
  <2>1. w * h \in Nat /\ q + 1 <= w * h
    BY <1>2, <1>3, <1>4
  <2> DEFINE a == w * h
  <2> HIDE DEF a
  <2>2. a \in Nat /\ q + 1 <= a
    BY <2>1 DEF a
  <2>3. n * (q + 1) <= n * a
    BY <1>1, <1>3, <2>2
  <2>4. n * (q + 1) = n * q + n /\ n * q \in Nat /\ n * a \in Nat
    BY <1>1, <1>3, <2>2
  <2>5. n * a = n * w * h
    BY <1>1, <1>2 DEF a
  <2> QED  BY <1>1, <2>3, <2>4, <2>5
<1> HIDE DEF k
<1>7. k \in Filled(d, r)
  <2>1. n * w * h \in Nat
    BY <1>1, <1>2
  <2> QED  BY <1>5, <1>6, <2>1 DEF Filled, n, w, h
<1>8. Line(d, r, k) = t /\ Column(d, r, k) = c /\ k % Bytes(d.size) = i
  BY <1>3, <1>5 DEF Line, Column, n, w
<1> QED
  BY <1>7, <1>8

-----------------------------------------------------------------------------
(* A load writes in its words.                                             *)

\* A row of a tile starts at a word.
Start(d, t) == d.tmem_addr * 8 + d.line * 8 * t

LEMMA StartIs ==
  ASSUME NEW d \in TileType, NEW t \in Nat
  PROVE  /\ d.line * t \in Nat /\ Start(d, t) = 8 * (d.tmem_addr + d.line * t)
         /\ Start(d, t) \in Nat /\ Base(d, t) = Start(d, t)
<1>1. d.line \in Nat /\ d.tmem_addr \in Nat
  BY DEF TileType
<1>2. d.line * t \in Nat
  BY <1>1
<1>3. d.line * 8 * t = 8 * (d.line * t)
  BY <1>1
<1> QED  BY <1>1, <1>2, <1>3 DEF Start, Base

\* The place of a texel of 32 bits in the two halves.
Split(d, s, t) == (Start(d, t) + s * 2) % TMEM_HIGH

LEMMA SplitIs ==
  ASSUME NEW d \in TileType, NEW t \in Nat, NEW s \in Nat
  PROVE  /\ Split(d, s, t) \in Nat /\ Split(d, s, t) % 2 = 0 /\ Split(d, s, t) < TMEM_HIGH
         /\ Start(d, t) + s * 2 < TMEM_HIGH => Split(d, s, t) = Start(d, t) + s * 2
<1>1. PICK h \in Nat \ {0} : TMEM_HIGH = 8 * h
  BY WholeWords
<1> DEFINE q == d.tmem_addr + d.line * t + (s \div 4)
           b == (s % 4) * 2
<1>2. q \in Nat /\ b \in 0 .. 7 /\ Start(d, t) + s * 2 = 8 * q + b /\ b % 2 = 0
  <2>1. d.tmem_addr \in Nat /\ d.line * t \in Nat /\ Start(d, t) = 8 * (d.tmem_addr + d.line * t)
    BY StartIs DEF TileType
  <2>2. s \div 4 \in Nat /\ s % 4 \in 0 .. 3 /\ s = 4 * (s \div 4) + (s % 4)
    OBVIOUS
  <2> QED  BY <2>1, <2>2
<1> HIDE DEF q, b
<1>3. q % h \in 0 .. h - 1 /\ (8 * q + b) % (8 * h) = 8 * (q % h) + b
  BY <1>1, <1>2, WrapWord
<1>4. Split(d, s, t) = 8 * (q % h) + b
  BY <1>1, <1>2, <1>3 DEF Split
<1>5. 8 * q + b < 8 * h => q % h = q
  BY <1>1, <1>2
<1> QED  BY <1>1, <1>2, <1>3, <1>4, <1>5

\* Where a byte of a rectangle goes, in the words of its row.
LEMMA TileByteIs ==
  ASSUME NEW d \in TileType, NEW r \in RectType, d.size \in 1 .. 3, NEW s \in Nat,
         NEW t \in Nat, NEW i \in 0 .. Bytes(d.size) - 1
  PROVE  /\ d.size # 3 => TileByte(d, r, s, t, i) = Swap(Start(d, t) + s * Bytes(d.size) + i, t)
         /\ d.size = 3 =>
              /\ i \in 0 .. 3
              /\ TileByte(d, r, s, t, i) =
                   Swap(Split(d, s, t) + (IF i < 2 THEN i ELSE TMEM_HIGH + i - 2), t)
         /\ TileByte(d, r, s, t, i) \in Nat
<1>0. Split(d, s, t) \in Nat /\ TMEM_HIGH \in Nat
  <2>1. Split(d, s, t) \in Nat
    BY SplitIs
  <2>2. TMEM_HIGH \in Nat
    BY WholeWords
  <2> QED  BY <2>1, <2>2
<1>1. d.size # 3 => TileByte(d, r, s, t, i) = Swap(Start(d, t) + s * Bytes(d.size) + i, t)
  BY DEF TileByte, Row, Start
<1>2. ASSUME d.size = 3
      PROVE  /\ i \in 0 .. 3
             /\ TileByte(d, r, s, t, i) =
                  Swap(Split(d, s, t) + (IF i < 2 THEN i ELSE TMEM_HIGH + i - 2), t)
  <2>1. i \in 0 .. 3
    BY <1>2, SizeBytes
  <2>2. TileByte(d, r, s, t, i) =
          Swap(IF i < 2 THEN Split(d, s, t) + i ELSE Split(d, s, t) + TMEM_HIGH + i - 2, t)
    BY <1>2 DEF TileByte, Row, Start, Split
  <2> QED  BY <1>0, <2>1, <2>2
<1>3. Bytes(d.size) \in {1, 2, 4}
  BY SizeBytes
<1>4. CASE d.size # 3
  <2>1. Start(d, t) + s * Bytes(d.size) + i \in Nat
    BY <1>3, StartIs
  <2> QED  BY <1>1, <1>4, <2>1, SwapPlace
<1>5. CASE d.size = 3
  <2>1. Split(d, s, t) + (IF i < 2 THEN i ELSE TMEM_HIGH + i - 2) \in Nat
    BY <1>0, <1>2, <1>5
  <2> QED  BY <1>2, <1>5, <2>1, SwapPlace
<1> QED  BY <1>1, <1>2, <1>4, <1>5

LEMMA TileInWords ==
  ASSUME NEW l, Made(l), l.kind = "tile", NEW k \in Filled(l.tile, l.rect)
  PROVE  To(l)[k] \in Nat /\ Word(To(l)[k]) \in Words(l)
<1> DEFINE d == l.tile
           r == l.rect
           n == Bytes(d.size)
           s == Column(d, r, k)
           t == Line(d, r, k)
           i == k % n
<1>1. d \in TileType /\ r \in RectType /\ d.size \in 1 .. 3 /\ r.sl <= r.sh /\ r.tl <= r.th
  BY DEF Made, LoadType
<1>2. n \in {1, 2, 4} /\ (n = 4 <=> d.size = 3)
  BY <1>1, SizeBytes
<1>3. /\ t \in 0 .. Down(r) - 1 /\ s \in 0 .. Across(r) - 1 /\ i \in 0 .. n - 1
  BY <1>1, FilledByte
<1>4. To(l)[k] = TileByte(d, r, s, t, i)
  BY DEF To, TileTo
<1>5. Across(r) \in Nat /\ Down(r) \in Nat
  BY <1>1 DEF Across, Down, RectType
<1> HIDE DEF s, t, i
<1>6. s \in Nat /\ t \in Nat
  BY <1>3
<1>7. To(l)[k] \in Nat
  BY <1>1, <1>3, <1>4, <1>6, TileByteIs
<1>8. CASE d.size # 3
  <2> DEFINE b == s * n + i
  <2>1. b \in 0 .. Across(r) * n - 1
    BY <1>2, <1>3, <1>5
  <2>2. Start(d, t) + s * n + i = Start(d, t) + b
    BY <1>1, <1>2, <1>3, <1>6, StartIs
  <2> HIDE DEF b
  <2>3. To(l)[k] = Swap(Start(d, t) + b, t)
    BY <1>1, <1>3, <1>4, <1>6, <1>8, <2>2, TileByteIs
  <2>4. Word(To(l)[k]) = Word(Start(d, t) + b)
    <3>1. Start(d, t) \in Nat
      BY <1>1, <1>6, StartIs
    <3> QED  BY <1>6, <2>1, <2>3, <3>1, SwapPlace
  <2> QED  BY <1>3, <1>7, <1>8, <2>1, <2>4 DEF Words, Start
<1>9. CASE d.size = 3
  <2> DEFINE e == IF i < 2 THEN i ELSE TMEM_HIGH + i - 2
             h == IF i < 2 THEN 0 ELSE TMEM_HIGH
             x == Split(d, s, t)
  <2>1. i \in 0 .. 3 /\ To(l)[k] = Swap(x + e, t)
    BY <1>1, <1>3, <1>4, <1>6, <1>9, TileByteIs
  <2>2. PICK g \in Nat \ {0} : TMEM_SIZE = 16 * g /\ TMEM_HIGH = 8 * g
    BY WholeWords
  <2>3. x \in Nat /\ x % 2 = 0 /\ x < TMEM_HIGH
    BY <1>1, <1>6, SplitIs
  <2> HIDE DEF x
  <2>4. x + e \in 0 .. TMEM_SIZE - 1 /\ (x + e) \div 8 = (x + h) \div 8
    BY <2>1, <2>2, <2>3
  <2>5. Word(To(l)[k]) = (x + h) \div 8
    <3>1. x + e \in Nat
      BY <2>2, <2>4
    <3> HIDE DEF e
    <3>2. Word(Swap(x + e, t)) = Word(x + e)
      BY <1>6, <3>1, SwapPlace
    <3> QED  BY <2>1, <2>2, <2>4, <3>2 DEF Word
  <2>6. x = (d.tmem_addr * 8 + d.line * 8 * t + 2 * s) % TMEM_HIGH
    BY <1>6 DEF x, Split, Start
  <2>7. h \in {0, TMEM_HIGH}
    OBVIOUS
  <2> HIDE DEF h
  <2> QED  BY <1>3, <1>7, <1>9, <2>5, <2>6, <2>7 DEF Words
<1> QED  BY <1>8, <1>9

LEMMA BlockInWords ==
  ASSUME NEW l, Made(l), l.kind = "block", NEW k \in DOMAIN To(l)
  PROVE  To(l)[k] \in Nat /\ Word(To(l)[k]) \in Words(l)
<1> DEFINE d == l.tile
           n == Bytes(d.size)
           line == BlockLine(k \div n, d, l.dxt)
           x == d.tmem_addr * 8 + k
<1>1. d \in TileType /\ l.rect \in RectType /\ n \in {1, 2} /\ l.dxt \in Nat
  BY SizeBytes DEF Made, LoadType
<1>2. k \in 0 .. n * Across(l.rect) - 1 /\ To(l)[k] = Swap(x, line)
  BY DEF To, BlockTo
<1>3. n * Across(l.rect) = Across(l.rect) * n /\ Across(l.rect) \in Nat
  BY <1>1 DEF Across, RectType, Made
<1>4. x \in Nat
  BY <1>1, <1>2 DEF TileType
<1>5. line \in Nat
  <2>1. ((k \div n) * n) \div 8 \in Nat
    BY <1>1, <1>2, <1>3
  <2>2. (((k \div n) * n) \div 8) * l.dxt \in Nat
    BY <1>1, <2>1
  <2>3. DXT_ONE \in Nat \ {0}
    BY TextureAssumption
  <2> QED  BY <2>2, <2>3, Parts DEF BlockLine
<1>6. Word(x) \in Words(l)
  BY <1>2, <1>3 DEF Words
<1> QED  BY <1>2, <1>4, <1>5, <1>6, SwapPlace

LEMMA TlutInWords ==
  ASSUME NEW l, Made(l), l.kind = "tlut", NEW k \in DOMAIN To(l)
  PROVE  To(l)[k] \in Nat /\ Word(To(l)[k]) \in Words(l)
<1> DEFINE a == l.tile.tmem_addr
           q == k \div 8
           b == k % 8
<1>1. a \in Nat /\ Across(l.rect) \in Nat
  BY DEF Made, LoadType, TileType, RectType, Across
<1>2. k \in 0 .. 8 * Across(l.rect) - 1 /\ To(l)[k] = a * 8 + k
  BY DEF To, TlutTo
<1>3. q \in 0 .. Across(l.rect) - 1 /\ b \in 0 .. 7 /\ To(l)[k] = 8 * (a + q) + b
  BY <1>1, <1>2
<1>4. Word(8 * (a + q) + b) = Word(8 * (a + q))
  <2>1. a + q \in Nat
    BY <1>1, <1>3
  <2> QED  BY <1>3, <2>1, WordIs
<1>5. 8 * (a + q) = a * 8 + 8 * q
  BY <1>1, <1>3
<1> HIDE DEF q, b
<1> QED  BY <1>1, <1>2, <1>3, <1>4, <1>5 DEF Words

LEMMA InWords ==
  ASSUME NEW l, Made(l), NEW k \in DOMAIN To(l)
  PROVE  To(l)[k] \in Nat /\ Word(To(l)[k]) \in Words(l)
<1>1. CASE l.kind = "tile"
  <2>1. k \in Filled(l.tile, l.rect)
    BY <1>1 DEF To, TileTo
  <2> QED  BY <1>1, <2>1, TileInWords
<1>2. l.kind \in {"tile", "block", "tlut"}
  BY DEF Made, LoadType
<1> QED  BY <1>1, <1>2, BlockInWords, TlutInWords

-----------------------------------------------------------------------------
(***************************************************************************)
(* The inductive invariant: whatever a load wrote, byte by byte, is still  *)
(* there while no other load has touched its words, if it wrote no byte    *)
(* twice.  What a load wrote stands in its words, as the loads were made.  *)
(***************************************************************************)

TextureInv ==
  /\ image \in ImageType /\ tiles \in [Tiles -> TileType]
  /\ loads \in Seq(LoadType) /\ \A k \in DOMAIN loads : Made(loads[k])
  /\ \A k \in DOMAIN loads : Once(loads[k]) /\ Intact(k) => Held(tmem, loads[k])

LEMMA LoadHolds ==
  ASSUME TextureInv, NEW l, Made(l), tmem' = Written(To(l), From(l)),
         loads' = Append(loads, l), UNCHANGED <<image, tiles>>
  PROVE  TextureInv'
<1>1. l \in LoadType
  BY DEF Made
<1>2. /\ loads' \in Seq(LoadType)
      /\ DOMAIN loads' = DOMAIN loads \cup {Len(loads) + 1}
      /\ Len(loads') = Len(loads) + 1 /\ loads'[Len(loads) + 1] = l
      /\ \A k \in DOMAIN loads : loads'[k] = loads[k] /\ k \in 1 .. Len(loads)
  BY <1>1 DEF TextureInv
<1>3. image' \in ImageType /\ tiles' \in [Tiles -> TileType]
  BY DEF TextureInv
<1>4. \A k \in DOMAIN loads' : Made(loads'[k])
  BY <1>2 DEF TextureInv
<1>5. ASSUME NEW k \in DOMAIN loads', Once(loads'[k]), Intact(k)'
      PROVE  Held(tmem', loads'[k])
  <2>1. CASE k = Len(loads) + 1
    <3>1. \A j \in DOMAIN To(l) : To(l)[j] \in Nat
      BY InWords
    <3>2. Once(l)
      BY <1>2, <1>5, <2>1
    <3>3. Held(Written(To(l), From(l)), l)
      BY <3>1, <3>2, WrittenOnce
    <3> QED  BY <1>2, <2>1, <3>3
  <2>2. CASE k \in DOMAIN loads
    <3> DEFINE old == loads[k]
    <3>1. loads'[k] = old /\ Made(old) /\ Len(loads) \in Nat /\ k \in 1 .. Len(loads)
      BY <1>2, <2>2 DEF TextureInv
    <3>2. Words(l) \cap Words(old) = {}
      BY <1>2, <1>5, <3>1 DEF Intact
    <3>3. Intact(k)
      <4> SUFFICES ASSUME NEW j \in k + 1 .. Len(loads)
                   PROVE  Words(loads[j]) \cap Words(loads[k]) = {}
        BY DEF Intact
      <4>1. j \in k + 1 .. Len(loads') /\ loads'[j] = loads[j]
        BY <1>2, <3>1
      <4> QED  BY <1>5, <3>1, <4>1 DEF Intact
    <3>4. Held(tmem, old)
      BY <1>5, <2>2, <3>1, <3>3 DEF TextureInv
    <3> HIDE DEF old
    <3> SUFFICES ASSUME NEW j \in DOMAIN To(old)
                 PROVE  tmem'[To(old)[j] % TMEM_SIZE] = From(old)[j]
      BY <3>1 DEF Held
    <3> DEFINE o == To(old)[j] % TMEM_SIZE
    <3>5. To(old)[j] \in Nat /\ Word(To(old)[j]) \in Words(old)
      BY <3>1, InWords
    <3>6. o \in Offset /\ o % TMEM_SIZE = o
      BY <3>5, TextureAssumption DEF Offset
    <3>7. Word(o) = Word(To(old)[j])
      BY <3>6 DEF Word
    <3> HIDE DEF o
    <3>8. Word(o) \notin Words(l)
      BY <3>2, <3>5, <3>7
    <3>9. \A i \in DOMAIN To(l) : To(l)[i] \in Nat /\ Word(To(l)[i]) \in Words(l)
      BY InWords
    <3>10. Written(To(l), From(l))[o] = tmem[o]
      BY <3>6, <3>8, <3>9, WrittenKeeps
    <3> QED  BY <3>4, <3>10 DEF Held, o
  <2> QED  BY <1>2, <1>5, <2>1, <2>2
<1> QED  BY <1>2, <1>3, <1>4, <1>5 DEF TextureInv

\* A step that loads nothing.
LEMMA SetHolds ==
  ASSUME TextureInv, UNCHANGED <<tmem, loads>>, image' \in ImageType,
         tiles' \in [Tiles -> TileType]
  PROVE  TextureInv'
  BY DEF TextureInv, Intact

LEMMA TextureInitHolds == TextureInit => TextureInv
<1> SUFFICES ASSUME TextureInit PROVE TextureInv
  OBVIOUS
<1>1. image \in ImageType /\ tiles \in [Tiles -> TileType]
  <2>1. NoImage \in ImageType
    BY DEF NoImage, ImageType
  <2>2. EmptyTile \in TileType
    BY DEF EmptyTile, TileType
  <2> QED  BY <2>1, <2>2 DEF TextureInit
<1>2. loads = << >>
  BY DEF TextureInit
<1> QED  BY <1>1, <1>2 DEF TextureInv

LEMMA TextureStepHolds == TextureInv /\ [TextureNext]_textureVars => TextureInv'
<1> SUFFICES ASSUME TextureInv, [TextureNext]_textureVars PROVE TextureInv'
  OBVIOUS
<1>0. image \in ImageType /\ tiles \in [Tiles -> TileType]
  BY DEF TextureInv
<1>1. ASSUME NEW img \in Images, SetTextureImage(img) PROVE TextureInv'
  BY <1>0, <1>1, SetHolds, TextureAssumption DEF SetTextureImage
<1>2. ASSUME NEW i \in Tiles, NEW d \in Descriptors, SetTile(i, d) PROVE TextureInv'
  BY <1>0, <1>2, SetHolds, TextureAssumption DEF SetTile
<1>3. ASSUME NEW i \in Tiles, NEW r \in Rects, LoadTile(i, r) PROVE TextureInv'
  <2> DEFINE l == [kind |-> "tile", tile |-> tiles[i], image |-> image, rect |-> r, dxt |-> 0]
  <2>1. Made(l)
    <3>1. l \in LoadType
      BY <1>0, TextureAssumption DEF LoadType
    <3> QED  BY <1>3, <3>1 DEF Made, LoadTile, Loadable
  <2>2. tmem' = Written(To(l), From(l)) /\ loads' = Append(loads, l)
    BY <1>3 DEF LoadTile, Record, To, From
  <2>3. UNCHANGED <<image, tiles>>
    BY <1>3 DEF LoadTile
  <2> HIDE DEF l
  <2> QED  BY <2>1, <2>2, <2>3, LoadHolds
<1>4. ASSUME NEW i \in Tiles, NEW r \in Rects, LoadTlut(i, r) PROVE TextureInv'
  <2> DEFINE l == [kind |-> "tlut", tile |-> tiles[i], image |-> image, rect |-> r, dxt |-> 0]
  <2>1. Made(l)
    <3>1. l \in LoadType
      BY <1>0, TextureAssumption DEF LoadType
    <3> QED  BY <1>4, <3>1 DEF Made, LoadTlut
  <2>2. tmem' = Written(To(l), From(l)) /\ loads' = Append(loads, l)
    BY <1>4 DEF LoadTlut, Record, To, From
  <2>3. UNCHANGED <<image, tiles>>
    BY <1>4 DEF LoadTlut
  <2> HIDE DEF l
  <2> QED  BY <2>1, <2>2, <2>3, LoadHolds
<1>5. ASSUME NEW i \in Tiles, NEW r \in Rects, tiles[i].line > 0,
             LoadBlock(i, r, DXT_ONE \div tiles[i].line)
      PROVE  TextureInv'
  <2> DEFINE l == [kind |-> "block", tile |-> tiles[i], image |-> image, rect |-> r,
                   dxt |-> DXT_ONE \div tiles[i].line]
  <2>1. Made(l)
    <3>1. tiles[i].line \in Nat \ {0} /\ DXT_ONE \in Nat
      BY <1>0, <1>5, TextureAssumption DEF TileType
    <3>2. l \in LoadType
      BY <1>0, <3>1, TextureAssumption DEF LoadType
    <3> QED  BY <1>5, <3>2 DEF Made, LoadBlock
  <2>2. tmem' = Written(To(l), From(l)) /\ loads' = Append(loads, l)
    BY <1>5 DEF LoadBlock, Record, To, From
  <2>3. UNCHANGED <<image, tiles>>
    BY <1>5 DEF LoadBlock
  <2> HIDE DEF l
  <2> QED  BY <2>1, <2>2, <2>3, LoadHolds
<1>6. ASSUME NEW i \in Tiles, NEW r \in Rects, Refused(i, r) \/ SetTileSize(i, r)
      PROVE  TextureInv'
  BY <1>0, <1>6, SetHolds DEF Refused, SetTileSize, textureVars
<1>7. CASE UNCHANGED textureVars
  BY <1>0, <1>7, SetHolds DEF textureVars
<1> QED  BY <1>1, <1>2, <1>3, <1>4, <1>5, <1>6, <1>7 DEF TextureNext

LEMMA TextureInvariant == TextureSpec => []TextureInv
  BY TextureInitHolds, TextureStepHolds, PTL DEF TextureSpec

-----------------------------------------------------------------------------
(***************************************************************************)
(* A sound load writes no byte twice: its rows are in words of their own,  *)
(* and a word is swapped one way.                                          *)
(***************************************************************************)

\* Two bytes of one word, swapped alike, are one if they are put in one place.
LEMMA SwapOnce ==
  ASSUME NEW x \in Nat, NEW y \in Nat, NEW t \in Nat, NEW u \in Nat,
         Swap(x, t) = Swap(y, u), x \div 8 = y \div 8 => t % 2 = u % 2
  PROVE  x = y
<1>1. x \div 8 = y \div 8
  BY SwapPlace
<1>2. Swap(y, u) = Swap(y, t)
  BY <1>1 DEF Swap
<1> DEFINE q == x \div 8
           b == x % 8
           c == y % 8
<1>3. q \in Nat /\ b \in 0 .. 7 /\ c \in 0 .. 7 /\ x = 8 * q + b /\ y = 8 * q + c
  BY <1>1, Parts
<1> HIDE DEF q, b, c
<1>4. Swap(x, t) = 8 * q + Swap(b, t) /\ Swap(y, t) = 8 * q + Swap(c, t)
  BY <1>3, SwapWord
<1>5. Swap(b, t) \in 0 .. 7 /\ Swap(c, t) \in 0 .. 7
  BY <1>3, SwapWord
<1>6. Swap(b, t) = Swap(c, t)
  BY <1>2, <1>3, <1>4, <1>5
<1>7. b = c
  BY <1>3, <1>6, SwapWord
<1> QED  BY <1>3, <1>7

\* The rows of a tile are in words of their own.
LEMMA RowWord ==
  ASSUME NEW d \in TileType, NEW t \in Nat, NEW u \in Nat,
         NEW b \in 0 .. d.line * 8 - 1, NEW c \in 0 .. d.line * 8 - 1,
         (Start(d, t) + b) \div 8 = (Start(d, u) + c) \div 8
  PROVE  t = u
<1> DEFINE n == d.line
           a == d.tmem_addr
           p == b \div 8
           q == c \div 8
<1>1. a \in Nat /\ n \in Nat \ {0}
  BY DEF TileType
<1>2. p \in 0 .. n - 1 /\ q \in 0 .. n - 1
  BY <1>1
<1>3. /\ n * t \in Nat /\ n * u \in Nat
      /\ Start(d, t) = 8 * (a + n * t) /\ Start(d, u) = 8 * (a + n * u)
  BY StartIs
<1> DEFINE v == n * t
           w == n * u
<1>4. v \in Nat /\ w \in Nat /\ Start(d, t) = 8 * (a + v) /\ Start(d, u) = 8 * (a + w)
  BY <1>3
<1> HIDE DEF v, w
<1>5. v + p = w + q
  <2>1. (8 * (a + v) + b) \div 8 = a + v + p /\ (8 * (a + w) + c) \div 8 = a + w + q
    <3>1. a + v \in Nat /\ a + w \in Nat /\ b \in Nat /\ c \in Nat
      BY <1>1, <1>4
    <3> QED  BY <3>1, WordShift
  <2>2. a + v + p = a + w + q
    BY <1>4, <2>1
  <2> HIDE DEF a, p, q
  <2> QED  BY <1>1, <1>2, <1>4, <2>2
<1> HIDE DEF n, p, q
<1>6. (n * t + p) \div n = t /\ (n * u + q) \div n = u
  BY <1>1, <1>2, DivMod
<1> QED  BY <1>5, <1>6 DEF v, w

\* And end where the tile does.
LEMMA RowFits ==
  ASSUME NEW d \in TileType, NEW h \in Nat, NEW limit \in Nat, NEW t \in 0 .. h - 1,
         NEW b \in 0 .. d.line * 8 - 1, d.tmem_addr * 8 + d.line * 8 * h <= limit
  PROVE  Start(d, t) + b \in 0 .. limit - 1
<1>1. d.line \in Nat /\ d.tmem_addr \in Nat
  BY DEF TileType
<1>2. t \in Nat /\ t + 1 <= h
  OBVIOUS
<1>3. d.line * 8 * (t + 1) <= d.line * 8 * h
  BY <1>1, <1>2
<1>4. d.line * 8 * (t + 1) = d.line * 8 * t + d.line * 8 /\ d.line * 8 * t \in Nat
  BY <1>1, <1>2
<1>5. d.line * 8 * h \in Nat
  BY <1>1
<1> QED  BY <1>1, <1>3, <1>4, <1>5 DEF Start

\* In which half of TMEM a byte of a texel is, and where in its row.
HalfOf(l, k) ==
  IF l.tile.size = 3 /\ k % Bytes(l.tile.size) >= 2 THEN TMEM_HIGH ELSE 0
PlaceOf(l, k) ==
  IF l.tile.size = 3
    THEN 2 * Column(l.tile, l.rect, k) + (k % 2)
    ELSE Column(l.tile, l.rect, k) * Bytes(l.tile.size) + (k % Bytes(l.tile.size))
TileLimit(l) == IF l.tile.size = 3 THEN TMEM_HIGH ELSE TMEM_SIZE

LEMMA TilePlace ==
  ASSUME NEW l, Made(l), l.kind = "tile", Sound(l), NEW k \in Filled(l.tile, l.rect)
  PROVE  /\ PlaceOf(l, k) \in 0 .. l.tile.line * 8 - 1
         /\ Start(l.tile, Line(l.tile, l.rect, k)) + PlaceOf(l, k) \in 0 .. TileLimit(l) - 1
         /\ To(l)[k] = Swap(Start(l.tile, Line(l.tile, l.rect, k)) + PlaceOf(l, k) + HalfOf(l, k),
                            Line(l.tile, l.rect, k))
<1> DEFINE d == l.tile
           r == l.rect
           n == Bytes(d.size)
           w == Across(r)
           s == Column(d, r, k)
           t == Line(d, r, k)
           i == k % n
           b == PlaceOf(l, k)
<1>1. d \in TileType /\ r \in RectType /\ d.size \in 1 .. 3 /\ r.sl <= r.sh /\ r.tl <= r.th
  BY DEF Made, LoadType
<1>2. n \in {1, 2, 4} /\ (n = 4 <=> d.size = 3)
  BY <1>1, SizeBytes
<1>3. /\ t \in 0 .. Down(r) - 1 /\ s \in 0 .. w - 1 /\ i \in 0 .. n - 1
  BY <1>1, FilledByte
<1>4. k \in Nat
  BY DEF Filled
<1>5. To(l)[k] = TileByte(d, r, s, t, i)
  BY DEF To, TileTo
<1>6. w \in Nat \ {0} /\ Down(r) \in Nat
  BY <1>1 DEF Across, Down, RectType
<1>7. /\ d.line * 8 * (IF d.size = 3 THEN 2 ELSE 1) >= w * n
      /\ d.tmem_addr * 8 + d.line * 8 * Down(r) <= TileLimit(l)
  BY DEF Sound, RowBytes, TileLimit
<1>8. d.line \in Nat /\ d.tmem_addr \in Nat
  BY <1>1 DEF TileType
<1>9. TMEM_HIGH \in Nat /\ TMEM_SIZE \in Nat
  BY WholeWords, TextureAssumption
<1>10. b = IF d.size = 3 THEN 2 * s + (k % 2) ELSE s * n + i
  BY DEF PlaceOf
<1> HIDE DEF s, w, b
<1>11. b \in 0 .. d.line * 8 - 1
  <2>1. CASE d.size = 3
    <3>1. 2 * w <= d.line * 8
      BY <1>2, <1>6, <1>7, <1>8, <2>1
    <3> QED  BY <1>3, <1>4, <1>6, <1>8, <1>10, <2>1, <3>1
  <2>2. CASE d.size # 3
    <3>1. w * n <= d.line * 8
      BY <1>2, <1>6, <1>7, <1>8, <2>2
    <3>2. s * n + i < w * n /\ s * n + i \in Nat
      BY <1>2, <1>3, <1>6
    <3>3. w * n \in Nat
      BY <1>2, <1>6
    <3> QED  BY <1>8, <1>10, <2>2, <3>1, <3>2, <3>3
  <2> QED  BY <2>1, <2>2
<1>12. Start(d, t) + b \in 0 .. TileLimit(l) - 1
  <2>1. TileLimit(l) \in Nat
    BY <1>9 DEF TileLimit
  <2> HIDE DEF t
  <2> QED  BY <1>1, <1>3, <1>6, <1>7, <1>11, <2>1, RowFits
<1> HIDE DEF t
<1>13. t \in Nat /\ s \in Nat
  BY <1>3, <1>6
<1>14. Start(d, t) \in Nat
  BY <1>1, <1>13, StartIs
<1>15. To(l)[k] = Swap(Start(d, t) + b + HalfOf(l, k), t)
  <2>1. CASE d.size # 3
    <3>1. To(l)[k] = Swap(Start(d, t) + s * n + i, t)
      BY <1>1, <1>3, <1>5, <1>13, <2>1, TileByteIs
    <3>2. Start(d, t) + s * n + i = Start(d, t) + b + 0
      BY <1>2, <1>3, <1>10, <1>13, <1>14, <2>1
    <3> QED  BY <2>1, <3>1, <3>2 DEF HalfOf
  <2>2. CASE d.size = 3
    <3>1. /\ i \in 0 .. 3
          /\ To(l)[k] = Swap(Split(d, s, t) + (IF i < 2 THEN i ELSE TMEM_HIGH + i - 2), t)
      BY <1>1, <1>3, <1>5, <1>13, <2>2, TileByteIs
    <3>2. i = k % 4 /\ i % 2 = k % 2
      BY <1>2, <1>4, <2>2
    <3>3. Start(d, t) + s * 2 < TMEM_HIGH
      BY <1>4, <1>10, <1>12, <1>13, <1>14, <1>9, <2>2 DEF TileLimit
    <3>4. Split(d, s, t) = Start(d, t) + s * 2
      BY <1>1, <1>13, <3>3, SplitIs
    <3>5. Split(d, s, t) + (IF i < 2 THEN i ELSE TMEM_HIGH + i - 2)
            = Start(d, t) + b + HalfOf(l, k)
      <4>1. HalfOf(l, k) = IF i >= 2 THEN TMEM_HIGH ELSE 0
        BY <2>2 DEF HalfOf
      <4>2. b = 2 * s + (i % 2)
        BY <1>10, <2>2, <3>2
      <4> HIDE DEF i
      <4> QED  BY <1>9, <1>13, <1>14, <3>1, <3>4, <4>1, <4>2
    <3> QED  BY <3>1, <3>5
  <2> QED  BY <2>1, <2>2
<1> QED  BY <1>11, <1>12, <1>15 DEF b, t

LEMMA SwapFits ==
  ASSUME NEW x \in 0 .. TMEM_SIZE - 1, NEW t \in Nat
  PROVE  Swap(x, t) \in 0 .. TMEM_SIZE - 1 /\ Swap(x, t) % TMEM_SIZE = Swap(x, t)
<1>1. PICK h \in Nat \ {0} : TMEM_SIZE = 16 * h
  BY WholeWords
<1>2. Swap(x, t) \in Nat /\ Swap(x, t) \div 8 = x \div 8
  <2>1. x \in Nat
    BY <1>1
  <2> QED  BY <2>1, SwapPlace
<1>3. Swap(x, t) < 16 * h
  BY <1>1, <1>2
<1> QED  BY <1>1, <1>2, <1>3

\* The halves of TMEM have no word in common.
LEMMA HalvesApart ==
  ASSUME NEW y \in 0 .. TMEM_HIGH - 1, NEW z \in 0 .. TMEM_HIGH - 1,
         NEW g \in {0, TMEM_HIGH}, NEW h \in {0, TMEM_HIGH},
         (y + g) \div 8 = (z + h) \div 8
  PROVE  g = h /\ y \div 8 = z \div 8 /\ y + g \in 0 .. TMEM_SIZE - 1
<1>1. PICK e \in Nat \ {0} : TMEM_HIGH = 8 * e /\ TMEM_SIZE = 16 * e
  BY WholeWords
<1> QED  BY <1>1

LEMMA TileOnce ==
  ASSUME NEW l, Made(l), l.kind = "tile", Sound(l)
  PROVE  Once(l)
<1> DEFINE d == l.tile
           n == Bytes(d.size)
           t(k) == Line(d, l.rect, k)
           y(k) == Start(d, t(k)) + PlaceOf(l, k)
           x(k) == y(k) + HalfOf(l, k)
<1>1. /\ d \in TileType /\ l.rect \in RectType /\ d.size \in 1 .. 3
      /\ l.rect.sl <= l.rect.sh /\ l.rect.tl <= l.rect.th
  BY DEF Made, LoadType
<1>2. DOMAIN To(l) = Filled(d, l.rect)
  BY DEF To, TileTo
<1> SUFFICES ASSUME NEW j \in Filled(d, l.rect), NEW k \in Filled(d, l.rect),
                    To(l)[j] % TMEM_SIZE = To(l)[k] % TMEM_SIZE
             PROVE  j = k
  BY <1>2 DEF Once
<1>3. t(j) \in Nat /\ t(k) \in Nat
  <2>1. Down(l.rect) \in Nat
    BY <1>1 DEF Down, RectType
  <2> QED  BY <1>1, <2>1, FilledByte
<1>4. To(l)[j] = Swap(x(j), t(j)) /\ To(l)[k] = Swap(x(k), t(k))
  BY TilePlace
<1>5. /\ PlaceOf(l, j) \in 0 .. d.line * 8 - 1 /\ PlaceOf(l, k) \in 0 .. d.line * 8 - 1
      /\ y(j) \in 0 .. TileLimit(l) - 1 /\ y(k) \in 0 .. TileLimit(l) - 1
  BY TilePlace
<1> HIDE DEF y
<1>6. /\ x(j) \in 0 .. TMEM_SIZE - 1 /\ x(k) \in 0 .. TMEM_SIZE - 1
      /\ x(j) \div 8 = x(k) \div 8 =>
           HalfOf(l, j) = HalfOf(l, k) /\ y(j) \div 8 = y(k) \div 8
  <2>1. CASE d.size = 3
    <3>1. HalfOf(l, j) \in {0, TMEM_HIGH} /\ HalfOf(l, k) \in {0, TMEM_HIGH}
      BY DEF HalfOf
    <3>2. y(j) \in 0 .. TMEM_HIGH - 1 /\ y(k) \in 0 .. TMEM_HIGH - 1
      BY <1>5, <2>1 DEF TileLimit
    <3>3. x(j) \in 0 .. TMEM_SIZE - 1 /\ x(k) \in 0 .. TMEM_SIZE - 1
      BY <3>1, <3>2, HalvesApart
    <3> QED  BY <3>1, <3>2, <3>3, HalvesApart
  <2>2. CASE d.size # 3
    <3>1. HalfOf(l, j) = 0 /\ HalfOf(l, k) = 0 /\ TileLimit(l) = TMEM_SIZE
      BY <2>2 DEF HalfOf, TileLimit
    <3>2. x(j) = y(j) /\ x(k) = y(k)
      BY <1>5, <3>1, TextureAssumption
    <3> QED  BY <1>5, <3>1, <3>2
  <2> QED  BY <2>1, <2>2
<1> HIDE DEF x, t
<1>7. Swap(x(j), t(j)) = Swap(x(k), t(k))
  BY <1>3, <1>4, <1>6, SwapFits
<1>8. x(j) \in Nat /\ x(k) \in Nat
  BY <1>6
<1>9. x(j) \div 8 = x(k) \div 8
  BY <1>3, <1>7, <1>8, SwapPlace
<1>10. t(j) = t(k)
  BY <1>1, <1>3, <1>5, <1>6, <1>9, RowWord DEF y
<1>11. x(j) = x(k)
  BY <1>3, <1>7, <1>8, <1>10, SwapOnce
<1>12. PlaceOf(l, j) = PlaceOf(l, k)
  <2>1. y(j) = y(k)
    <3>1. TileLimit(l) \in Nat
      BY WholeWords, TextureAssumption DEF TileLimit
    <3>2. HalfOf(l, k) \in Nat
      BY WholeWords DEF HalfOf
    <3> QED  BY <1>5, <1>6, <1>9, <1>11, <3>1, <3>2 DEF x
  <2>2. Start(d, t(j)) \in Nat
    BY <1>1, <1>3, StartIs
  <2>3. d.line \in Nat
    BY <1>1 DEF TileType
  <2> QED  BY <1>5, <1>10, <2>1, <2>2, <2>3 DEF y
<1>13. Column(d, l.rect, j) * n + (j % n) = Column(d, l.rect, k) * n + (k % n)
  <2>1. CASE d.size # 3
    BY <1>12, <2>1 DEF PlaceOf
  <2>2. CASE d.size = 3
    <3>1. n = 4 /\ j \in Nat /\ k \in Nat
      BY <2>2, SizeBytes DEF Filled
    <3>2. Column(d, l.rect, j) \in Nat /\ Column(d, l.rect, k) \in Nat
      <4>1. Across(l.rect) \in Nat
        BY <1>1 DEF Across, RectType
      <4> QED  BY <1>1, <4>1, FilledByte
    <3>3. 2 * Column(d, l.rect, j) + (j % 2) = 2 * Column(d, l.rect, k) + (k % 2)
      BY <1>12, <2>2 DEF PlaceOf
    <3>4. Column(d, l.rect, j) = Column(d, l.rect, k) /\ j % 2 = k % 2
      BY <3>1, <3>2, <3>3
    <3>5. j % 4 >= 2 <=> k % 4 >= 2
      <4>1. TMEM_HIGH # 0
        BY WholeWords
      <4> QED  BY <1>6, <1>9, <2>2, <3>1, <4>1 DEF HalfOf
    <3>6. j % 4 = k % 4
      BY <3>1, <3>4, <3>5
    <3> QED  BY <3>1, <3>4, <3>6
  <2> QED  BY <2>1, <2>2
<1>14. /\ j = (Across(l.rect) * n) * t(j) + (Column(d, l.rect, j) * n + (j % n))
       /\ k = (Across(l.rect) * n) * t(k) + (Column(d, l.rect, k) * n + (k % n))
  BY <1>1, FilledByte DEF t
<1> QED  BY <1>10, <1>13, <1>14

\* A block's line is that of its word: the line of a tile it would be in.
LEMMA BlockLineIs ==
  ASSUME NEW l, Made(l), l.kind = "block", NEW k \in Nat
  PROVE  /\ (k \div Bytes(l.tile.size)) * Bytes(l.tile.size) \in Nat
         /\ BlockLine(k \div Bytes(l.tile.size), l.tile, l.dxt)
              = ((k \div 8) * l.dxt) \div DXT_ONE
         /\ BlockLine(k \div Bytes(l.tile.size), l.tile, l.dxt) \in Nat
<1> DEFINE n == Bytes(l.tile.size)
           m == (k \div 8) * l.dxt
<1>1. n \in {1, 2}
  BY SizeBytes DEF Made
<1>2. ((k \div n) * n) \div 8 = k \div 8 /\ (k \div n) * n \in Nat
  BY <1>1
<1>3. BlockLine(k \div n, l.tile, l.dxt) = m \div DXT_ONE
  BY <1>2 DEF BlockLine
<1>4. m \in Nat /\ DXT_ONE \in Nat \ {0}
  BY TextureAssumption DEF Made, LoadType
<1> HIDE DEF m
<1>5. m \div DXT_ONE \in Nat
  BY <1>4, Parts
<1> QED  BY <1>2, <1>3, <1>5 DEF m

LEMMA BlockOnce ==
  ASSUME NEW l, Made(l), l.kind = "block", Sound(l)
  PROVE  Once(l)
<1> DEFINE d == l.tile
           n == Bytes(d.size)
           t(k) == BlockLine(k \div n, d, l.dxt)
           x(k) == d.tmem_addr * 8 + k
<1>1. d \in TileType /\ l.rect \in RectType /\ n \in {1, 2}
  BY SizeBytes DEF Made, LoadType
<1>2. /\ DOMAIN To(l) = 0 .. n * Across(l.rect) - 1
      /\ \A k \in DOMAIN To(l) : To(l)[k] = Swap(x(k), t(k))
  BY DEF To, BlockTo
<1>3. n * Across(l.rect) = RowBytes(l) /\ d.tmem_addr * 8 + RowBytes(l) <= TMEM_SIZE
  BY <1>1 DEF Sound, RowBytes, Across, RectType
<1>4. RowBytes(l) \in Nat /\ d.tmem_addr \in Nat
  BY <1>1 DEF RowBytes, Across, RectType, TileType, Made
<1> SUFFICES ASSUME NEW j \in DOMAIN To(l), NEW k \in DOMAIN To(l),
                    To(l)[j] % TMEM_SIZE = To(l)[k] % TMEM_SIZE
             PROVE  j = k
  BY DEF Once
<1>5. j \in 0 .. RowBytes(l) - 1 /\ k \in 0 .. RowBytes(l) - 1
  BY <1>2, <1>3
<1>6. x(j) \in 0 .. TMEM_SIZE - 1 /\ x(k) \in 0 .. TMEM_SIZE - 1
  BY <1>3, <1>4, <1>5, TextureAssumption
<1>7. t(j) \in Nat /\ t(k) \in Nat
  BY <1>5, BlockLineIs
<1>8. x(j) \div 8 = x(k) \div 8 => t(j) = t(k)
  <2>1. ASSUME x(j) \div 8 = x(k) \div 8 PROVE j \div 8 = k \div 8
    BY <1>4, <1>5, <2>1
  <2>2. t(j) = ((j \div 8) * l.dxt) \div DXT_ONE /\ t(k) = ((k \div 8) * l.dxt) \div DXT_ONE
    BY <1>5, BlockLineIs
  <2> QED  BY <2>1, <2>2
<1>9. Swap(x(j), t(j)) = Swap(x(k), t(k))
  <2>1. To(l)[j] = Swap(x(j), t(j)) /\ To(l)[k] = Swap(x(k), t(k))
    BY <1>2
  <2> HIDE DEF x, t
  <2> QED  BY <1>6, <1>7, <2>1, SwapFits
<1>10. x(j) = x(k)
  <2>1. x(j) \in Nat /\ x(k) \in Nat
    BY <1>6
  <2> HIDE DEF x, t
  <2> QED  BY <1>7, <1>8, <1>9, <2>1, SwapOnce
<1> QED  BY <1>4, <1>5, <1>10

\* A palette no larger than TMEM overwrites nothing of itself.
LEMMA WrapsApart ==
  ASSUME NEW n \in Nat \ {0}, NEW x \in Nat, NEW y \in x .. x + n - 1, x % n = y % n
  PROVE  x = y
<1>1. /\ x = n * (x \div n) + (x % n) /\ x \div n \in Nat
      /\ y = n * (y \div n) + (x % n) /\ y \div n \in Nat
  <2>1. y \in Nat
    OBVIOUS
  <2>2. x = n * (x \div n) + (x % n) /\ x \div n \in Nat
    BY Parts
  <2>3. y = n * (y \div n) + (y % n) /\ y \div n \in Nat
    BY <2>1, Parts
  <2> QED  BY <2>2, <2>3
<1> DEFINE a == x \div n
           b == y \div n
           r == x % n
<1>2. a \in Nat /\ b \in Nat /\ x = n * a + r /\ y = n * b + r
  BY <1>1
<1>3. r \in Int
  OBVIOUS
<1> HIDE DEF a, b, r
<1>4. n * b - n * a = y - x /\ n * a \in Nat /\ n * b \in Nat
  BY <1>2, <1>3
<1>5. ~(b >= a + 1)
  <2> SUFFICES ASSUME b >= a + 1 PROVE FALSE
    OBVIOUS
  <2>1. n * b >= n * (a + 1) /\ n * (a + 1) = n * a + n
    BY <1>2
  <2> QED  BY <1>4, <2>1
<1>6. ~(a >= b + 1)
  <2> SUFFICES ASSUME a >= b + 1 PROVE FALSE
    OBVIOUS
  <2>1. n * a >= n * (b + 1) /\ n * (b + 1) = n * b + n
    BY <1>2
  <2> QED  BY <1>4, <2>1
<1> QED  BY <1>2, <1>5, <1>6

LEMMA TlutOnce ==
  ASSUME NEW l, Made(l), l.kind = "tlut", 8 * Across(l.rect) <= TMEM_SIZE
  PROVE  Once(l)
<1>1. l.tile.tmem_addr \in Nat /\ Across(l.rect) \in Nat /\ TMEM_SIZE \in Nat \ {0}
  BY TextureAssumption DEF Made, LoadType, TileType, RectType, Across
<1>2. /\ DOMAIN To(l) = 0 .. 8 * Across(l.rect) - 1
      /\ \A k \in DOMAIN To(l) : To(l)[k] = l.tile.tmem_addr * 8 + k
  BY DEF To, TlutTo
<1> SUFFICES ASSUME NEW j \in DOMAIN To(l), NEW k \in DOMAIN To(l),
                    To(l)[j] % TMEM_SIZE = To(l)[k] % TMEM_SIZE
             PROVE  j = k
  BY DEF Once
<1> DEFINE x == l.tile.tmem_addr * 8 + j
           y == l.tile.tmem_addr * 8 + k
<1>3. x \in Nat /\ y \in Nat /\ (y \in x .. x + TMEM_SIZE - 1 \/ x \in y .. y + TMEM_SIZE - 1)
  <2>1. j \in 0 .. TMEM_SIZE - 1 /\ k \in 0 .. TMEM_SIZE - 1
    BY <1>1, <1>2
  <2> DEFINE a == l.tile.tmem_addr
  <2>2. a \in Nat /\ x = a * 8 + j /\ y = a * 8 + k
    BY <1>1
  <2> HIDE DEF a, x, y
  <2> QED  BY <1>1, <2>1, <2>2
<1>4. x % TMEM_SIZE = y % TMEM_SIZE
  BY <1>2
<1>5. x = y => j = k
  BY <1>1, <1>2
<1> HIDE DEF x, y
<1>6. x = y
  BY <1>1, <1>3, <1>4, WrapsApart
<1> QED  BY <1>5, <1>6

-----------------------------------------------------------------------------
(***************************************************************************)
(* What a sound load put where a fetch looks for it: row t of a tile or of *)
(* a block is at Start, swapped as its row.                                *)
(***************************************************************************)

LEMMA TileIsAt ==
  ASSUME NEW l, Made(l), l.kind = "tile", Sound(l), NEW t \in RowsOf(l),
         NEW c \in 0 .. Across(l.rect) - 1, NEW i \in 0 .. Bytes(l.tile.size) - 1
  PROVE  \E k \in DOMAIN To(l) :
           /\ Line(l.tile, l.rect, k) = t /\ Column(l.tile, l.rect, k) = c
           /\ k % Bytes(l.tile.size) = i
           /\ From(l)[k] = Meant(l, c * Bytes(l.tile.size) + i, t)
<1> DEFINE d == l.tile
           r == l.rect
           n == Bytes(d.size)
<1>1. /\ d \in TileType /\ r \in RectType /\ d.size \in 1 .. 3 /\ r.sl <= r.sh /\ r.tl <= r.th
      /\ l.image \in ImageType
  BY DEF Made, LoadType
<1>2. t \in 0 .. Down(r) - 1
  BY <1>1 DEF RowsOf, Down, RectType
<1>3. PICK k \in Filled(d, r) : Line(d, r, k) = t /\ Column(d, r, k) = c /\ k % n = i
  BY <1>1, <1>2, ByteFilled
<1>4. From(l)[k] = Texel(l.image, r.sl + c, r.tl + t) + i
  BY <1>3 DEF From, TileFrom
<1>5. n \in {1, 2, 4} /\ Bytes(l.image.size) = n
  BY <1>1, SizeBytes DEF Sound
<1>6. Texel(l.image, r.sl + c, r.tl + t) + i = Meant(l, c * n + i, t)
  <2> DEFINE a == (r.tl + t) * l.image.width
  <2>1. a \in Nat /\ r.sl \in Nat /\ l.image.addr \in Nat /\ c \in Nat /\ i \in Nat
    BY <1>1, <1>2, <1>5 DEF RectType, ImageType, Down, Across
  <2>2. Texel(l.image, r.sl + c, r.tl + t) = l.image.addr + (a + (r.sl + c)) * n
    BY <1>5 DEF Texel
  <2>3. Meant(l, c * n + i, t) = l.image.addr + (a + r.sl) * n + (c * n + i)
    BY <1>5 DEF Meant, Texel
  <2> HIDE DEF a
  <2> QED  BY <1>5, <2>1, <2>2, <2>3
<1>7. k \in DOMAIN To(l)
  BY <1>3 DEF To, TileTo
<1> QED  BY <1>3, <1>4, <1>6, <1>7

LEMMA BlockIsAt ==
  ASSUME NEW l, Made(l), l.kind = "block", Sound(l), NEW t \in RowsOf(l),
         NEW b \in 0 .. Row0Bytes(l) - 1
  PROVE  \E k \in DOMAIN To(l) :
           /\ To(l)[k] = Swap(Start(l.tile, t) + b, t)
           /\ Start(l.tile, t) + b \in 0 .. TMEM_SIZE - 1
           /\ From(l)[k] = Meant(l, b, t)
<1> DEFINE d == l.tile
           n == Bytes(d.size)
           L == d.line
           k == L * 8 * t + b
           bytes == RowBytes(l)
<1>1. /\ d \in TileType /\ l.rect \in RectType /\ n \in {1, 2} /\ l.image \in ImageType
      /\ Bytes(l.image.size) = n /\ l.dxt = DXT_ONE \div L
  BY SizeBytes DEF Made, LoadType, Sound
<1>2. L \in Nat \ {0} /\ d.tmem_addr \in Nat /\ DXT_ONE \in Nat \ {0} /\ DXT_ONE % L = 0
  BY <1>1, TextureAssumption DEF Sound, TileType
<1>3. /\ bytes \in Nat /\ bytes = n * Across(l.rect) /\ d.tmem_addr * 8 + bytes <= TMEM_SIZE
  BY <1>1 DEF Sound, RowBytes, Across, RectType, Made
<1>4. t \in 0 .. (bytes \div (8 * L)) - 1 /\ b \in 0 .. L * 8 - 1
  BY DEF RowsOf, Row0Bytes
<1> HIDE DEF bytes
<1>5. t \in Nat /\ L * 8 * t \in Nat /\ L * 8 * t + L * 8 <= bytes
  <2> DEFINE m == 8 * L
             q == bytes \div m
  <2>1. m \in Nat \ {0}
    BY <1>2
  <2> HIDE DEF m
  <2>2. q \in Nat /\ bytes % m \in Nat /\ bytes = m * q + (bytes % m)
    <3>1. bytes \in Nat
      BY <1>3
    <3>2. q \in Nat /\ bytes % m \in 0 .. m - 1 /\ bytes = m * q + (bytes % m)
      BY <2>1, <3>1, Parts
    <3> QED  BY <2>1, <3>2
  <2>3. t \in 0 .. q - 1
    BY <1>4 DEF m
  <2> HIDE DEF q
  <2>4. t \in Nat /\ t + 1 <= q
    BY <2>2, <2>3
  <2>5. m * (t + 1) <= m * q /\ m * (t + 1) = m * t + m /\ m * t \in Nat
    BY <2>1, <2>2, <2>4
  <2>6. m * q \in Nat
    BY <2>1, <2>2
  <2>7. m * t + m <= bytes
    <3> DEFINE u == m * q
               v == m * t
               r == bytes % m
    <3>1. u \in Nat /\ v \in Nat /\ r \in Nat /\ bytes = u + r /\ v + m <= u
      BY <2>2, <2>5, <2>6
    <3> HIDE DEF u, v, r
    <3>2. v + m <= bytes
      BY <2>1, <3>1
    <3> QED  BY <3>2 DEF v
  <2>8. m * t = L * 8 * t /\ m = L * 8
    BY <1>2, <2>4 DEF m
  <2> QED  BY <2>4, <2>5, <2>7, <2>8
<1>6. k \in 0 .. bytes - 1
  BY <1>2, <1>3, <1>4, <1>5
<1>7. k \in DOMAIN To(l)
  BY <1>3, <1>6 DEF To, BlockTo
<1>8. d.tmem_addr * 8 + k = Start(d, t) + b /\ Start(d, t) + b \in 0 .. TMEM_SIZE - 1
  <2> DEFINE v == L * 8 * t
             a == d.tmem_addr
  <2>1. v \in Nat /\ a \in Nat /\ b \in Nat /\ k = v + b /\ Start(d, t) = a * 8 + v
    BY <1>2, <1>4, <1>5 DEF Start
  <2>2. a * 8 + bytes <= TMEM_SIZE /\ TMEM_SIZE \in Nat /\ bytes \in Nat /\ k \in 0 .. bytes - 1
    BY <1>3, <1>6, TextureAssumption
  <2> HIDE DEF v, a, k
  <2> QED  BY <2>1, <2>2 DEF a
<1>9. BlockLine(k \div n, d, l.dxt) = t
  <2> DEFINE p == b \div 8
             x == l.dxt
  <2>1. k \div 8 = L * t + p /\ p \in 0 .. L - 1
    <3>1. L * 8 * t = 8 * (L * t) /\ L * t \in Nat
      BY <1>2, <1>5
    <3>2. b \in Nat
      BY <1>2, <1>4
    <3>3. p \in 0 .. L - 1
      BY <1>2, <1>4
    <3> QED  BY <3>1, <3>2, <3>3, WordShift
  <2>2. x \in Nat \ {0} /\ DXT_ONE = L * x
    <3>1. DXT_ONE = L * (DXT_ONE \div L) + (DXT_ONE % L) /\ DXT_ONE \div L \in Nat
      BY <1>2, Parts
    <3>2. x \in Nat /\ DXT_ONE = L * x
      BY <1>1, <1>2, <3>1
    <3> QED  BY <1>2, <3>2
  <2> HIDE DEF p, x
  <2>3. (L * t + p) * x = DXT_ONE * t + p * x
    BY <1>2, <1>5, <2>1, <2>2
  <2>4. p * x \in 0 .. DXT_ONE - 1
    <3>1. p * x <= (L - 1) * x /\ (L - 1) * x = L * x - x /\ p * x \in Nat
      BY <1>2, <2>1, <2>2
    <3> QED  BY <1>2, <2>2, <3>1
  <2>5. (DXT_ONE * t + p * x) \div DXT_ONE = t
    <3> DEFINE y == p * x
    <3>1. y \in 0 .. DXT_ONE - 1
      BY <2>4
    <3> HIDE DEF y
    <3>2. (DXT_ONE * t + y) \div DXT_ONE = t
      BY <1>2, <1>5, <3>1, DivMod
    <3> QED  BY <3>2 DEF y
  <2>6. k \in Nat
    BY <1>3, <1>6
  <2>7. BlockLine(k \div n, d, l.dxt) = ((k \div 8) * l.dxt) \div DXT_ONE
    BY <2>6, BlockLineIs
  <2> QED  BY <2>1, <2>3, <2>5, <2>7 DEF x
<1>10. To(l)[k] = Swap(Start(d, t) + b, t)
  BY <1>7, <1>8, <1>9 DEF To, BlockTo
<1>11. From(l)[k] = Meant(l, b, t)
  <2>1. From(l)[k] = Texel(l.image, l.rect.sl, l.rect.tl) + (k \div n) * n + (k % n)
    BY <1>1, <1>7 DEF From, To, BlockFrom, BlockTo
  <2>2. (k \div n) * n + (k % n) = k
    BY <1>1, <1>3, <1>6
  <2>3. Meant(l, b, t) = Texel(l.image, l.rect.sl, l.rect.tl) + t * L * 8 + b
    BY DEF Meant
  <2>4. t * L * 8 = L * 8 * t
    BY <1>2, <1>5
  <2>5. Texel(l.image, l.rect.sl, l.rect.tl) \in Nat
    <3> DEFINE a == l.rect.tl * l.image.width
    <3>1. a \in Nat /\ l.rect.sl \in Nat /\ l.image.addr \in Nat
      BY <1>1 DEF RectType, ImageType
    <3>2. Texel(l.image, l.rect.sl, l.rect.tl) = l.image.addr + (a + l.rect.sl) * n
      BY <1>1 DEF Texel
    <3> HIDE DEF a
    <3> QED  BY <1>1, <3>1, <3>2
  <2>6. k \in Nat /\ (k \div n) * n \in Nat /\ k % n \in Nat
    BY <1>1, <1>3, <1>6
  <2> DEFINE u == Texel(l.image, l.rect.sl, l.rect.tl)
             v == (k \div n) * n
             w == k % n
             z == L * 8 * t
  <2>7. u \in Nat /\ v \in Nat /\ w \in Nat /\ v + w = z + b /\ From(l)[k] = u + v + w
    BY <2>1, <2>2, <2>5, <2>6
  <2>8. z \in Nat /\ Meant(l, b, t) = u + z + b /\ b \in Nat
    BY <1>2, <1>4, <1>5, <2>3, <2>4
  <2> HIDE DEF u, v, w, z, k
  <2> QED  BY <2>7, <2>8
<1> QED  BY <1>7, <1>8, <1>10, <1>11

\* Every byte of every row of what was loaded as bytes or halfwords.
LEMMA ByteHeld ==
  ASSUME NEW l, Made(l), l.kind # "tlut", l.tile.size # 3, Sound(l), Held(tmem, l),
         NEW t \in RowsOf(l), NEW b \in 0 .. Row0Bytes(l) - 1
  PROVE  /\ t \in Nat /\ b \in Nat /\ Start(l.tile, t) \in Nat
         /\ Start(l.tile, t) + b \in 0 .. TMEM_SIZE - 1
         /\ Word(Start(l.tile, t) + b) \in Words(l)
         /\ Byte(Swap(Start(l.tile, t) + b, t)) = Meant(l, b, t)
<1> DEFINE d == l.tile
           r == l.rect
           n == Bytes(d.size)
           x == Start(d, t) + b
<1>1. d \in TileType /\ r \in RectType /\ r.sl <= r.sh
  BY DEF Made, LoadType
<1>2. t \in Nat /\ b \in Nat
  BY DEF RowsOf, Row0Bytes
<1>3. Start(d, t) \in Nat
  BY <1>1, <1>2, StartIs
<1>4. x \in 0 .. TMEM_SIZE - 1 /\ \E k \in DOMAIN To(l) :
        To(l)[k] = Swap(x, t) /\ From(l)[k] = Meant(l, b, t)
  <2>1. CASE l.kind = "tile"
    <3>1. d.size \in {1, 2} /\ n \in {1, 2}
      BY <1>1, <2>1, SizeBytes DEF Made, TileType
    <3>2. Across(r) \in Nat /\ b \in 0 .. Across(r) * n - 1
      BY <1>1, <2>1 DEF Row0Bytes, RowBytes, Across, RectType
    <3> DEFINE c == b \div n
               i == b % n
    <3>3. c \in 0 .. Across(r) - 1 /\ i \in 0 .. n - 1 /\ c * n + i = b
      BY <3>1, <3>2
    <3> HIDE DEF c, i
    <3>4. PICK k \in DOMAIN To(l) :
            /\ Line(d, r, k) = t /\ Column(d, r, k) = c /\ k % n = i
            /\ From(l)[k] = Meant(l, c * n + i, t)
      BY <2>1, <3>3, TileIsAt
    <3>5. k \in Filled(d, r)
      BY <2>1 DEF To, TileTo
    <3>6. PlaceOf(l, k) = b /\ HalfOf(l, k) = 0 /\ TileLimit(l) = TMEM_SIZE
      BY <3>3, <3>4 DEF PlaceOf, HalfOf, TileLimit
    <3>7. x \in 0 .. TMEM_SIZE - 1 /\ To(l)[k] = Swap(x + 0, t)
      BY <2>1, <3>4, <3>5, <3>6, TilePlace
    <3>8. x + 0 = x
      BY <3>7, TextureAssumption
    <3> QED  BY <3>3, <3>4, <3>7, <3>8
  <2>2. CASE l.kind = "block"
    BY <2>2, BlockIsAt
  <2> QED  BY <2>1, <2>2 DEF Made, LoadType
<1> HIDE DEF x
<1>5. PICK k \in DOMAIN To(l) : To(l)[k] = Swap(x, t) /\ From(l)[k] = Meant(l, b, t)
  BY <1>4
<1>6. Byte(Swap(x, t)) = Meant(l, b, t)
  BY <1>5 DEF Held, Byte
<1>7. Word(x) \in Words(l)
  <2>1. x \in Nat
    BY <1>4, TextureAssumption
  <2> QED  BY <1>2, <1>5, <2>1, SwapPlace, InWords
<1> QED  BY <1>2, <1>3, <1>4, <1>6, <1>7 DEF x

\* And of what was loaded as texels of 32 bits, in the two halves.
LEMMA SplitHeld ==
  ASSUME NEW l, Made(l), l.kind = "tile", l.tile.size = 3, Sound(l), Held(tmem, l),
         NEW t \in RowsOf(l), NEW s \in 0 .. Across(l.rect) - 1, NEW j \in {0, 1}
  PROVE  /\ t \in Nat /\ s \in Nat /\ Split(l.tile, s, t) \in Nat
         /\ Split(l.tile, s, t) + 1 < TMEM_HIGH
         /\ Byte(Swap(Split(l.tile, s, t) + j, t)) = Meant(l, 4 * s + j, t)
         /\ Byte(Swap(Split(l.tile, s, t) + j + TMEM_HIGH, t)) = Meant(l, 4 * s + j + 2, t)
<1> DEFINE d == l.tile
           r == l.rect
           x == Split(d, s, t)
<1>1. d \in TileType /\ r \in RectType /\ r.sl <= r.sh /\ Bytes(d.size) = 4
  BY SizeBytes DEF Made, LoadType
<1>2. t \in Nat /\ s \in Nat
  BY <1>1 DEF RowsOf, Across, RectType
<1>3. x \in Nat /\ x + 1 < TMEM_HIGH /\ TMEM_HIGH \in Nat
  <2>1. x \in Nat /\ x % 2 = 0 /\ x < TMEM_HIGH
    BY <1>1, <1>2, SplitIs
  <2>2. PICK h \in Nat : TMEM_HIGH = 8 * h
    BY WholeWords
  <2> HIDE DEF x
  <2> QED  BY <2>1, <2>2
<1>4. ASSUME NEW i \in 0 .. 3
      PROVE  Byte(Swap(x + (IF i < 2 THEN i ELSE TMEM_HIGH + i - 2), t)) = Meant(l, s * 4 + i, t)
  <2>1. PICK k \in DOMAIN To(l) :
          /\ Line(d, r, k) = t /\ Column(d, r, k) = s /\ k % Bytes(d.size) = i
          /\ From(l)[k] = Meant(l, s * Bytes(d.size) + i, t)
    <3>1. i \in 0 .. Bytes(l.tile.size) - 1
      BY <1>1
    <3> QED  BY <1>1, <3>1, TileIsAt
  <2>2. To(l)[k] = TileByte(d, r, s, t, i)
    BY <2>1 DEF To, TileTo
  <2>3. TileByte(d, r, s, t, i) = Swap(x + (IF i < 2 THEN i ELSE TMEM_HIGH + i - 2), t)
    BY <1>1, <1>2, TileByteIs
  <2> QED  BY <1>1, <2>1, <2>2, <2>3 DEF Held, Byte
<1>5. Byte(Swap(x + j, t)) = Meant(l, s * 4 + j, t)
  <2>1. j \in 0 .. 3 /\ j < 2
    OBVIOUS
  <2> QED  BY <1>4, <2>1
<1>6. Byte(Swap(x + (TMEM_HIGH + (j + 2) - 2), t)) = Meant(l, s * 4 + (j + 2), t)
  <2>1. j + 2 \in 0 .. 3 /\ ~(j + 2 < 2)
    OBVIOUS
  <2> QED  BY <1>4, <2>1
<1>7. /\ x + (TMEM_HIGH + (j + 2) - 2) = x + j + TMEM_HIGH
      /\ s * 4 + (j + 2) = 4 * s + j + 2 /\ s * 4 + j = 4 * s + j
  BY <1>2, <1>3
<1> QED  BY <1>2, <1>3, <1>5, <1>6, <1>7

-----------------------------------------------------------------------------
(* The fetches.                                                            *)

\* The next byte of a halfword, and the other half of TMEM, are swapped with it.
LEMMA SwapNext ==
  ASSUME NEW x \in Nat, x % 2 = 0, NEW t \in Nat
  PROVE  Swap(x, t) + 1 = Swap(x + 1, t)
<1> DEFINE q == x \div 8
           b == x % 8
<1>1. q \in Nat /\ b \in 0 .. 7 /\ x = 8 * q + b
  BY Parts
<1>2. b % 2 = 0 /\ b + 1 \in 0 .. 7
  BY <1>1
<1> HIDE DEF q, b
<1>3. Swap(8 * q + b, t) = 8 * q + Swap(b, t) /\ Swap(b + 1, t) = Swap(b, t) + 1
  BY <1>1, <1>2, SwapWord
<1>4. Swap(8 * q + (b + 1), t) = 8 * q + Swap(b + 1, t)
  BY <1>1, <1>2, SwapWord
<1>5. Swap(b, t) \in Int
  BY <1>1, SwapWord
<1>6. 8 * q + (b + 1) = x + 1
  BY <1>1
<1> QED  BY <1>1, <1>3, <1>4, <1>5, <1>6

LEMMA SwapHigh ==
  ASSUME NEW x \in Nat, NEW t \in Nat
  PROVE  Swap(x, t) + TMEM_HIGH = Swap(x + TMEM_HIGH, t)
<1>1. PICK h \in Nat : TMEM_HIGH = 8 * h
  BY WholeWords
<1> DEFINE q == x \div 8
           b == x % 8
<1>2. q \in Nat /\ b \in 0 .. 7 /\ x = 8 * q + b
  BY Parts
<1> HIDE DEF q, b
<1>3. Swap(8 * q + b, t) = 8 * q + Swap(b, t) /\ Swap(b, t) \in Int
  BY <1>2, SwapWord
<1>4. Swap(8 * (q + h) + b, t) = 8 * (q + h) + Swap(b, t)
  <2> DEFINE r == q + h
  <2>1. r \in Nat
    BY <1>2
  <2> HIDE DEF r
  <2>2. Swap(8 * r + b, t) = 8 * r + Swap(b, t)
    BY <1>2, <2>1, SwapWord
  <2> QED  BY <2>2 DEF r
<1>5. 8 * (q + h) + b = x + TMEM_HIGH
  BY <1>1, <1>2
<1> QED  BY <1>1, <1>2, <1>3, <1>4, <1>5

LEMMA OneIs == \A f : f = [i \in 1 .. 1 |-> f[i]] => <<f[1]>> = f
  OBVIOUS
LEMMA TwoIs == \A f : f = [i \in 1 .. 2 |-> f[i]] => <<f[1], f[2]>> = f
  OBVIOUS
LEMMA FourIs == \A f : f = [i \in 1 .. 4 |-> f[i]] => <<f[1], f[2], f[3], f[4]>> = f
  OBVIOUS

\* A tile at the same place and line.
Like(d, e, size, format) ==
  /\ e.tmem_addr = d.tmem_addr /\ e.line = d.line /\ e.size = size /\ e.format = format

LEMMA HalfwordsFetched ==
  ASSUME NEW l, Made(l), l.kind # "tlut", l.tile.size # 3, Sound(l), Held(tmem, l),
         NEW t \in RowsOf(l), NEW s \in 0 .. (Row0Bytes(l) \div 2) - 1,
         NEW e, Like(l.tile, e, 2, "rgba"), Row0Bytes(l) \in Nat
  PROVE  Fetch(e, s, t) = [i \in 1 .. 2 |-> Meant(l, 2 * s + i - 1, t)]
<1> DEFINE x == Start(l.tile, t) + s * 2
           f == [i \in 1 .. 2 |-> Meant(l, 2 * s + i - 1, t)]
<1>1. s * 2 \in 0 .. Row0Bytes(l) - 1 /\ s * 2 + 1 \in 0 .. Row0Bytes(l) - 1 /\ s \in Nat
  OBVIOUS
<1>2. /\ t \in Nat /\ Start(l.tile, t) \in Nat
      /\ x \in 0 .. TMEM_SIZE - 1 /\ Byte(Swap(x, t)) = Meant(l, s * 2, t)
  BY <1>1, ByteHeld
<1>3. Byte(Swap(Start(l.tile, t) + (s * 2 + 1), t)) = Meant(l, s * 2 + 1, t)
  BY <1>1, ByteHeld
<1>4. x \in Nat /\ x % 2 = 0 /\ Start(l.tile, t) + (s * 2 + 1) = x + 1
  <2>1. Start(l.tile, t) = 8 * (l.tile.tmem_addr + l.tile.line * t) /\ l.tile.line * t \in Nat
        /\ l.tile.tmem_addr \in Nat
    BY <1>2, StartIs DEF Made, LoadType, TileType
  <2> QED  BY <1>1, <1>2, <2>1
<1>5. Base(e, t) = Start(l.tile, t)
  BY DEF Like, Base, Start
<1> HIDE DEF x
<1>6. Swap(x, t) + 1 = Swap(x + 1, t)
  BY <1>2, <1>4, SwapNext
<1>7. Fetch(e, s, t) = <<Byte(Swap(x, t)), Byte(Swap(x, t) + 1)>>
  BY <1>5 DEF Fetch, Direct, Like, x
<1>8. f[1] = Meant(l, s * 2, t) /\ f[2] = Meant(l, s * 2 + 1, t)
  <2>1. 2 * s + 1 - 1 = s * 2 /\ 2 * s + 2 - 1 = s * 2 + 1
    BY <1>1
  <2> QED  BY <2>1
<1>9. f = [i \in 1 .. 2 |-> f[i]]
  OBVIOUS
<1> HIDE DEF f
<1>10. <<f[1], f[2]>> = f
  BY <1>9, TwoIs
<1> QED  BY <1>2, <1>3, <1>4, <1>6, <1>7, <1>8, <1>10 DEF f

LEMMA BytesFetched ==
  ASSUME NEW l, Made(l), l.kind # "tlut", l.tile.size # 3, Sound(l), Held(tmem, l),
         NEW t \in RowsOf(l), NEW s \in 0 .. Row0Bytes(l) - 1,
         NEW e, Like(l.tile, e, 1, "rgba")
  PROVE  Fetch(e, s, t) = <<Meant(l, s, t)>>
<1>1. Byte(Swap(Start(l.tile, t) + s, t)) = Meant(l, s, t)
  BY ByteHeld
<1>2. Base(e, t) = Start(l.tile, t)
  BY DEF Like, Base, Start
<1> QED  BY <1>1, <1>2 DEF Fetch, Direct, Like

LEMMA NibblesFetched ==
  ASSUME NEW l, Made(l), l.kind # "tlut", l.tile.size # 3, Sound(l), Held(tmem, l),
         NEW t \in RowsOf(l), NEW s \in 0 .. Row0Bytes(l) - 1, NEW h \in {0, 1},
         NEW e, Like(l.tile, e, 0, "rgba")
  PROVE  Fetch(e, 2 * s + h, t) = <<Meant(l, s, t), h>>
<1>1. Byte(Swap(Start(l.tile, t) + s, t)) = Meant(l, s, t) /\ s \in Nat
  BY ByteHeld
<1>2. Base(e, t) = Start(l.tile, t)
  BY DEF Like, Base, Start
<1>3. (2 * s + h) \div 2 = s /\ (2 * s + h) % 2 = h
  BY <1>1
<1> QED  BY <1>1, <1>2, <1>3 DEF Fetch, Direct, Like

LEMMA WholeTexelsFetched ==
  ASSUME NEW l, Made(l), l.kind = "tile", l.tile.size = 3, Sound(l), Held(tmem, l),
         NEW t \in RowsOf(l), NEW s \in 0 .. Across(l.rect) - 1,
         NEW e, Like(l.tile, e, 3, "rgba")
  PROVE  Fetch(e, s, t) = [i \in 1 .. 4 |-> Meant(l, 4 * s + i - 1, t)]
<1> DEFINE x == Split(l.tile, s, t)
           f == [i \in 1 .. 4 |-> Meant(l, 4 * s + i - 1, t)]
<1>1. t \in Nat /\ s \in Nat /\ x \in Nat
  <2>1. 0 \in {0, 1}
    OBVIOUS
  <2> QED  BY <2>1, SplitHeld
<1>2. \A j \in {0, 1} :
        /\ Byte(Swap(x + j, t)) = Meant(l, 4 * s + j, t)
        /\ Byte(Swap(x + j + TMEM_HIGH, t)) = Meant(l, 4 * s + j + 2, t)
  BY SplitHeld
<1>3. x % 2 = 0
  <2>1. l.tile \in TileType
    BY DEF Made, LoadType
  <2> QED  BY <1>1, <2>1, SplitIs
<1>4. Base(e, t) = Start(l.tile, t)
  BY DEF Like, Base, Start
<1>5. Fetch(e, s, t) = <<Byte(Swap(x, t)), Byte(Swap(x, t) + 1),
                         Byte(Swap(x, t) + TMEM_HIGH), Byte(Swap(x, t) + TMEM_HIGH + 1)>>
  BY <1>4 DEF Fetch, Direct, Like, Split
<1> HIDE DEF x
<1>6. TMEM_HIGH \in Nat /\ TMEM_HIGH % 2 = 0
  BY WholeWords
<1>7. /\ Swap(x, t) + 1 = Swap(x + 1, t)
      /\ Swap(x, t) + TMEM_HIGH = Swap(x + TMEM_HIGH, t)
      /\ Swap(x + 1, t) + TMEM_HIGH = Swap(x + 1 + TMEM_HIGH, t)
      /\ Swap(x, t) \in Nat
  <2>1. x + 1 \in Nat
    BY <1>1
  <2> QED  BY <1>1, <1>3, <2>1, SwapNext, SwapHigh, SwapPlace
<1>8. Swap(x, t) + TMEM_HIGH + 1 = Swap(x + 1 + TMEM_HIGH, t)
  BY <1>6, <1>7
<1>9. /\ Byte(Swap(x, t)) = Meant(l, 4 * s, t)
      /\ Byte(Swap(x + 1, t)) = Meant(l, 4 * s + 1, t)
      /\ Byte(Swap(x + TMEM_HIGH, t)) = Meant(l, 4 * s + 2, t)
      /\ Byte(Swap(x + 1 + TMEM_HIGH, t)) = Meant(l, 4 * s + 3, t)
  <2>1. x + 0 = x /\ x + 0 + TMEM_HIGH = x + TMEM_HIGH /\ 4 * s + 0 = 4 * s
        /\ 4 * s + 0 + 2 = 4 * s + 2 /\ 4 * s + 1 + 2 = 4 * s + 3
    BY <1>1, <1>6
  <2>2. 0 \in {0, 1} /\ 1 \in {0, 1}
    OBVIOUS
  <2>3. /\ Byte(Swap(x + 0, t)) = Meant(l, 4 * s + 0, t)
        /\ Byte(Swap(x + 0 + TMEM_HIGH, t)) = Meant(l, 4 * s + 0 + 2, t)
        /\ Byte(Swap(x + 1, t)) = Meant(l, 4 * s + 1, t)
        /\ Byte(Swap(x + 1 + TMEM_HIGH, t)) = Meant(l, 4 * s + 1 + 2, t)
    BY <1>2, <2>2, Zenon
  <2> QED  BY <2>1, <2>3
<1>10. /\ f[1] = Meant(l, 4 * s, t) /\ f[2] = Meant(l, 4 * s + 1, t)
       /\ f[3] = Meant(l, 4 * s + 2, t) /\ f[4] = Meant(l, 4 * s + 3, t)
  <2>1. /\ 4 * s + 1 - 1 = 4 * s /\ 4 * s + 2 - 1 = 4 * s + 1
        /\ 4 * s + 3 - 1 = 4 * s + 2 /\ 4 * s + 4 - 1 = 4 * s + 3
    BY <1>1
  <2> QED  BY <2>1
<1>11. f = [i \in 1 .. 4 |-> f[i]]
  OBVIOUS
<1> HIDE DEF f
<1>12. <<f[1], f[2], f[3], f[4]>> = f
  BY <1>11, FourIs
<1> QED  BY <1>5, <1>7, <1>8, <1>9, <1>10, <1>12 DEF f

\* A load that is sound and intact stands in TMEM.
LEMMA Stands ==
  ASSUME TextureInv, NEW k \in DOMAIN loads, Sound(loads[k]), Intact(k),
         loads[k].kind # "tlut"
  PROVE  Made(loads[k]) /\ Held(tmem, loads[k])
<1>1. Made(loads[k])
  BY DEF TextureInv
<1>2. loads[k].kind \in {"tile", "block"}
  BY <1>1 DEF Made, LoadType
<1>3. Once(loads[k])
  BY <1>1, <1>2, TileOnce, BlockOnce
<1> QED  BY <1>1, <1>3 DEF TextureInv

LEMMA LoadedHolds == TextureInv => LoadedIsFetched
<1> SUFFICES ASSUME TextureInv, NEW k \in DOMAIN loads, loads[k].kind # "tlut",
                    Sound(loads[k]), Intact(k), NEW t \in RowsOf(loads[k])
             PROVE  LET l == loads[k]
                        as(size) == [l.tile EXCEPT !.size = size, !.format = "rgba"]
                    IN IF l.tile.size = 3
                       THEN \A s \in 0 .. (Row0Bytes(l) \div 4) - 1 :
                              Fetch(as(3), s, t) = [i \in 1 .. 4 |-> Meant(l, 4 * s + i - 1, t)]
                       ELSE /\ \A s \in 0 .. (Row0Bytes(l) \div 2) - 1 :
                                 Fetch(as(2), s, t) = [i \in 1 .. 2 |-> Meant(l, 2 * s + i - 1, t)]
                            /\ \A s \in 0 .. Row0Bytes(l) - 1 :
                                 /\ Fetch(as(1), s, t) = <<Meant(l, s, t)>>
                                 /\ \A h \in {0, 1} :
                                      Fetch(as(0), 2 * s + h, t) = <<Meant(l, s, t), h>>
  BY DEF LoadedIsFetched
<1> DEFINE l == loads[k]
           as(size) == [l.tile EXCEPT !.size = size, !.format = "rgba"]
<1>1. Made(l) /\ Held(tmem, l)
  BY Stands
<1>2. l.tile \in TileType /\ l.rect \in RectType /\ l.rect.sl <= l.rect.sh
  BY <1>1 DEF Made, LoadType
<1>3. \A size : Like(l.tile, as(size), size, "rgba")
  BY <1>2 DEF Like, TileType
<1>4. Across(l.rect) \in Nat
  BY <1>2 DEF Across, RectType
<1>7. l.kind # "tlut" /\ Sound(l) /\ t \in RowsOf(l)
  OBVIOUS
<1> HIDE DEF as, l
<1>5. CASE l.tile.size = 3
  <2>1. l.kind = "tile"
    BY <1>1, <1>5 DEF Made, LoadType, l
  <2>2. Row0Bytes(l) = Across(l.rect) * 4
    BY <1>5, <2>1, SizeBytes DEF Row0Bytes, RowBytes
  <2>3. Row0Bytes(l) \div 4 = Across(l.rect)
    BY <1>4, <2>2
  <2>4. ASSUME NEW s \in 0 .. Across(l.rect) - 1
        PROVE  Fetch(as(3), s, t) = [i \in 1 .. 4 |-> Meant(l, 4 * s + i - 1, t)]
    <3> DEFINE e == as(3)
    <3>1. Like(l.tile, e, 3, "rgba")
      BY <1>3
    <3> HIDE DEF e
    <3>2. Fetch(e, s, t) = [i \in 1 .. 4 |-> Meant(l, 4 * s + i - 1, t)]
      BY <1>1, <1>5, <1>7, <2>1, <3>1, WholeTexelsFetched
    <3> QED  BY <3>2 DEF e
  <2> QED  BY <1>5, <2>3, <2>4 DEF l, as
<1>6. CASE l.tile.size # 3
  <2>1. Row0Bytes(l) \in Nat
    <3>1. l.kind = "tile" => Bytes(l.tile.size) \in Nat
      BY <1>1, SizeBytes DEF Made
    <3> QED  BY <1>2, <1>4, <3>1 DEF Row0Bytes, RowBytes, TileType
  <2>2. ASSUME NEW s \in 0 .. (Row0Bytes(l) \div 2) - 1
        PROVE  Fetch(as(2), s, t) = [i \in 1 .. 2 |-> Meant(l, 2 * s + i - 1, t)]
    <3> DEFINE e == as(2)
    <3>1. Like(l.tile, e, 2, "rgba")
      BY <1>3
    <3> HIDE DEF e
    <3>2. Fetch(e, s, t) = [i \in 1 .. 2 |-> Meant(l, 2 * s + i - 1, t)]
      BY <1>1, <1>6, <1>7, <2>1, <3>1, HalfwordsFetched
    <3> QED  BY <3>2 DEF e
  <2>3. ASSUME NEW s \in 0 .. Row0Bytes(l) - 1
        PROVE  Fetch(as(1), s, t) = <<Meant(l, s, t)>>
    BY <1>1, <1>3, <1>6, BytesFetched DEF l
  <2>4. ASSUME NEW s \in 0 .. Row0Bytes(l) - 1, NEW h \in {0, 1}
        PROVE  Fetch(as(0), 2 * s + h, t) = <<Meant(l, s, t), h>>
    BY <1>1, <1>3, <1>6, NibblesFetched DEF l
  <2> QED  BY <1>6, <2>2, <2>3, <2>4 DEF l, as
<1> QED  BY <1>5, <1>6

\* A palette larger than TMEM leaves no word for anything else.
LEMMA LargePalette ==
  ASSUME NEW l, Made(l), l.kind = "tlut", 8 * Across(l.rect) > TMEM_SIZE,
         NEW x \in 0 .. TMEM_SIZE - 1
  PROVE  Word(x) \in Words(l)
<1> DEFINE a == l.tile.tmem_addr
           w == x \div 8
<1>1. a \in Nat /\ Across(l.rect) \in Nat
  BY DEF Made, LoadType, TileType, RectType, Across
<1>2. PICK h \in Nat \ {0} : TMEM_SIZE = 16 * h
  BY WholeWords
<1> DEFINE g == 2 * h
           q == a \div g
           c == a % g
<1>3. g \in Nat \ {0} /\ TMEM_SIZE = 8 * g
  BY <1>2
<1>4. Word(x) = w /\ w \in 0 .. g - 1
  BY <1>3 DEF Word
<1> HIDE DEF w, g
<1>5. q \in Nat /\ c \in 0 .. g - 1 /\ a = g * q + c
  BY <1>1, <1>3, Parts
<1> HIDE DEF q, c
<1>6. PICK k \in 0 .. g - 1, p \in Nat : a + k = g * p + w
  <2>1. CASE w >= c
    <3>1. w - c \in 0 .. g - 1 /\ a + (w - c) = g * q + w
      BY <1>3, <1>4, <1>5, <2>1
    <3> QED  BY <1>5, <3>1
  <2>2. CASE w < c
    <3>1. w - c + g \in 0 .. g - 1 /\ q + 1 \in Nat
      BY <1>3, <1>4, <1>5, <2>2
    <3>2. g * (q + 1) = g * q + g /\ g * q \in Nat
      BY <1>3, <1>5
    <3>3. a + (w - c + g) = g * (q + 1) + w
      BY <1>3, <1>4, <1>5, <3>1, <3>2
    <3> QED  BY <3>1, <3>3
  <2> QED  BY <1>4, <1>5, <2>1, <2>2
<1>7. (a + k) % g = w /\ a + k \in Nat
  <2>1. (g * p + w) % g = w
    BY <1>3, <1>4, DivMod
  <2> QED  BY <1>1, <1>6, <2>1
<1>8. Word(8 * (a + k)) = w
  <2>1. \A b \in 0 .. 7 : ((8 * (a + k) + b) % (8 * g)) \div 8 = (a + k) % g
    BY <1>3, <1>7, WrapWord
  <2>2. ((8 * (a + k) + 0) % (8 * g)) \div 8 = (a + k) % g
    BY <2>1, 0 \in 0 .. 7, Zenon
  <2>3. 8 * (a + k) + 0 = 8 * (a + k)
    BY <1>7
  <2> QED  BY <1>3, <1>7, <2>2, <2>3 DEF Word
<1>9. k \in 0 .. Across(l.rect) - 1 /\ 8 * (a + k) = a * 8 + 8 * k
  BY <1>1, <1>3
<1> QED  BY <1>4, <1>8, <1>9 DEF Words

LEMMA DataIs ==
  ASSUME NEW a \in Int
  PROVE  Data(a) \in Nat
<1> DEFINE m == NIBBLE * NIBBLE
<1>1. m \in Nat \ {0}
  BY TextureAssumption
<1> HIDE DEF m
<1>2. a % m \in Nat
  BY <1>1
<1> QED  BY <1>2 DEF Data, m

LEMMA MeantIs ==
  ASSUME NEW l, Made(l), l.image.size \in 1 .. 3, NEW t \in Nat, NEW b \in Nat
  PROVE  Meant(l, b, t) \in Nat
<1>1. l.tile \in TileType /\ l.rect \in RectType /\ l.image \in ImageType
  BY DEF Made, LoadType
<1>2. Bytes(l.image.size) \in {1, 2, 4}
  BY SizeBytes
<1>3. ASSUME NEW s \in Nat, NEW u \in Nat PROVE Texel(l.image, s, u) \in Nat
  <2> DEFINE a == u * l.image.width
  <2>1. a \in Nat /\ l.image.addr \in Nat
    BY <1>1 DEF ImageType
  <2>2. Texel(l.image, s, u) = l.image.addr + (a + s) * Bytes(l.image.size)
    BY DEF Texel
  <2> HIDE DEF a
  <2> QED  BY <1>2, <2>1, <2>2
<1>4. t * l.tile.line \in Nat
  BY <1>1 DEF TileType
<1>5. l.rect.tl \in Nat /\ l.rect.sl \in Nat /\ l.rect.tl + t \in Nat
  BY <1>1 DEF RectType
<1>6. /\ Texel(l.image, l.rect.sl, l.rect.tl) \in Nat
      /\ Texel(l.image, l.rect.sl, l.rect.tl + t) \in Nat
  BY <1>3, <1>5
<1> QED  BY <1>4, <1>6 DEF Meant

\* What a palette leaves at an entry.
LEMMA EntryHeld ==
  ASSUME NEW l, Made(l), l.kind = "tlut", Held(tmem, l), NEW k \in 0 .. Across(l.rect) - 1,
         NEW j \in {0, 1}
  PROVE  Byte(l.tile.tmem_addr * 8 + (8 * k + j)) = l.image.addr + l.rect.sl * 2 + k * 2 + j
<1>1. Across(l.rect) \in Nat
  BY DEF Made, LoadType, RectType, Across
<1> DEFINE b == 8 * k + j
<1>2. b \in 0 .. 8 * Across(l.rect) - 1 /\ b \div 8 = k /\ b % 2 = j
  BY <1>1
<1> HIDE DEF b
<1>3. b \in DOMAIN To(l) /\ To(l)[b] = l.tile.tmem_addr * 8 + b
  BY <1>2 DEF To, TlutTo
<1>4. From(l)[b] = l.image.addr + l.rect.sl * 2 + k * 2 + j
  BY <1>2 DEF From, TlutFrom
<1> QED  BY <1>3, <1>4 DEF Held, Byte, b

LEMMA IndexHolds == TextureInv => IndexFindsEntry
<1> SUFFICES ASSUME TextureInv, NEW p \in DOMAIN loads, NEW k \in DOMAIN loads,
                    loads[p].kind = "tlut",
                    loads[p].tile.tmem_addr * 8 - TMEM_HIGH >= 0, loads[k].kind # "tlut",
                    loads[k].tile.size = 1, Sound(loads[k]), Intact(p), Intact(k),
                    \A w \in Words(loads[k]) : w * 8 < TMEM_HIGH,
                    NEW t \in RowsOf(loads[k]), NEW b \in 0 .. Row0Bytes(loads[k]) - 1,
                    Data(Meant(loads[k], b, t))
                      - (loads[p].tile.tmem_addr * 8 - TMEM_HIGH) \div 8
                      \in 0 .. loads[p].rect.sh - loads[p].rect.sl
             PROVE  LET pal == loads[p]
                        l == loads[k]
                        first == pal.tile.tmem_addr * 8 - TMEM_HIGH
                        entry(ci) == pal.image.addr + pal.rect.sl * 2 + (ci - first \div 8) * 2
                        ci == Data(Meant(l, b, t))
                    IN Fetch([l.tile EXCEPT !.format = "ci"], b, t)
                         = <<entry(ci), entry(ci) + 1>>
  BY DEF IndexFindsEntry
<1> DEFINE pal == loads[p]
           l == loads[k]
           a == pal.tile.tmem_addr
           c == (a * 8 - TMEM_HIGH) \div 8
           ci == Data(Meant(l, b, t))
           n == ci - c
           x == Start(l.tile, t) + b
           e == [l.tile EXCEPT !.format = "ci"]
<1>1. /\ Made(l) /\ Held(tmem, l) /\ Made(pal)
      /\ l.tile \in TileType /\ pal.rect \in RectType /\ a \in Nat
      /\ pal.image.addr \in Nat /\ pal.rect.sl \in Nat
  BY Stands DEF TextureInv, Made, LoadType, TileType, RectType, ImageType
<1>2. /\ t \in Nat /\ b \in Nat /\ Start(l.tile, t) \in Nat
      /\ x \in 0 .. TMEM_SIZE - 1 /\ Word(x) \in Words(l)
      /\ Byte(Swap(x, t)) = Meant(l, b, t)
  BY <1>1, ByteHeld
<1>3. Words(l) \cap Words(pal) = {}
  <2>1. p # k /\ p \in 1 .. Len(loads) /\ k \in 1 .. Len(loads) /\ Len(loads) \in Nat
    BY DEF TextureInv
  <2>2. CASE p < k
    <3>1. k \in p + 1 .. Len(loads)
      BY <2>1, <2>2
    <3> QED  BY <3>1 DEF Intact
  <2>3. CASE k < p
    <3>1. p \in k + 1 .. Len(loads)
      BY <2>1, <2>3
    <3>2. Words(pal) \cap Words(l) = {}
      BY <3>1 DEF Intact
    <3> QED  BY <3>2
  <2> QED  BY <2>1, <2>2, <2>3
<1>4. Held(tmem, pal)
  <2>1. ~(8 * Across(pal.rect) > TMEM_SIZE)
    BY <1>1, <1>2, <1>3, LargePalette
  <2>2. 8 * Across(pal.rect) <= TMEM_SIZE
    <3>1. Across(pal.rect) \in Int /\ TMEM_SIZE \in Int
      BY <1>1, TextureAssumption DEF RectType, Across
    <3> QED  BY <2>1, <3>1
  <2>3. Once(pal)
    BY <1>1, <2>2, TlutOnce
  <2> QED  BY <2>3 DEF TextureInv
<1>5. PICK h \in Nat \ {0} : TMEM_SIZE = 16 * h /\ TMEM_HIGH = 8 * h
  BY WholeWords
<1>6. x % TMEM_HIGH = x
  <2>1. x \in 0 .. TMEM_SIZE - 1
    BY <1>2
  <2>2. Word(x) * 8 < TMEM_HIGH
    BY <1>2
  <2> HIDE DEF x
  <2>4. x % TMEM_SIZE = x /\ x \in Nat
    BY <1>5, <2>1
  <2>5. Word(x) = x \div 8
    BY <2>4 DEF Word
  <2>3. x < 8 * h
    BY <1>5, <2>2, <2>4, <2>5
  <2> QED  BY <1>5, <2>3, <2>4
<1>7. ci \in Nat
  <2>1. l.image.size \in 1 .. 3
    BY DEF Sound
  <2>2. Meant(l, b, t) \in Int
    BY <1>1, <1>2, <2>1, MeantIs
  <2> QED  BY <2>2, DataIs
<1>8. n \in 0 .. Across(pal.rect) - 1
  BY <1>1 DEF Across, RectType
<1>9. Fetch(e, b, t) = Entry(ci)
  <2>1. e.size = 1 /\ e.format = "ci" /\ Base(e, t) = Start(l.tile, t)
    BY <1>1 DEF TileType, Base, Start
  <2>2. Fetch(e, b, t) = Indexed(e, b, t)
    BY <2>1 DEF Fetch
  <2> HIDE DEF e
  <2>3. Indexed(e, b, t) = Entry(Data(Byte(Swap(x % TMEM_HIGH, t))))
    BY <2>1 DEF Indexed
  <2> QED  BY <1>2, <1>6, <2>2, <2>3
<1>10. ASSUME NEW j \in {0, 1}
       PROVE  Byte(TMEM_HIGH + ci * 8 + j) = pal.image.addr + pal.rect.sl * 2 + n * 2 + j
  <2>1. Byte(a * 8 + (8 * n + j)) = pal.image.addr + pal.rect.sl * 2 + n * 2 + j
    BY <1>1, <1>4, <1>8, EntryHeld
  <2>2. a * 8 + (8 * n + j) = TMEM_HIGH + ci * 8 + j
    <3>1. c = a - h
      BY <1>1, <1>5
    <3> HIDE DEF a, c, ci
    <3> QED  BY <1>1, <1>5, <1>7, <3>1
  <2> QED  BY <2>1, <2>2
<1>11. Byte(TMEM_HIGH + ci * 8) = pal.image.addr + pal.rect.sl * 2 + n * 2
  <2>1. Byte(TMEM_HIGH + ci * 8 + 0) = pal.image.addr + pal.rect.sl * 2 + n * 2 + 0
    BY <1>10, 0 \in {0, 1}, Zenon
  <2>2. n \in Int
    BY <1>8
  <2> HIDE DEF ci, n, pal
  <2>3. TMEM_HIGH + ci * 8 + 0 = TMEM_HIGH + ci * 8
    BY <1>5, <1>7
  <2>4. pal.image.addr + pal.rect.sl * 2 + n * 2 + 0 = pal.image.addr + pal.rect.sl * 2 + n * 2
    BY <1>1, <2>2
  <2> QED  BY <2>1, <2>3, <2>4
<1>12. Byte(TMEM_HIGH + ci * 8 + 1) = pal.image.addr + pal.rect.sl * 2 + n * 2 + 1
  BY <1>10
<1>13. Entry(ci) = <<pal.image.addr + pal.rect.sl * 2 + n * 2,
                     pal.image.addr + pal.rect.sl * 2 + n * 2 + 1>>
  BY <1>11, <1>12 DEF Entry
<1> QED  BY <1>9, <1>13

\* A texel is fetched from where it was loaded to, at any size and through a palette,
\* whatever a program sets and loads, in a TMEM of any even number of words (load_tile,
\* load_block, load_tlut, fetch_texel, tlut_lookup).
THEOREM TexelsCorrect == TextureSpec => []TexelsFound
<1>1. TextureInv => TexelsFound
  BY LoadedHolds, IndexHolds DEF TexelsFound
<1> QED  BY <1>1, TextureInvariant, PTL

-----------------------------------------------------------------------------
(***************************************************************************)
(* The stored depth.  Depths of one exponent lie in a range of their own,  *)
(* Step times Mantissas of them but for the last, and a stored depth is    *)
(* the least of the Step depths stored alike.                              *)
(***************************************************************************)

\* How many times Step times Mantissas below an exponent's depths.
Below(e) == <<0, 2, 6, 14, 30, 62, 126, 127>>[e + 1]

\* How many mantissas there are, and the farthest depth.
LEMMA MantissasIs ==
  /\ Mantissas \in Nat /\ 2 <= Mantissas /\ Mantissas <= 2048 /\ Mantissas \in Nat \ {0}
  /\ Far = 128 * Mantissas - 1 /\ Far \in Nat /\ Far \in 0 .. Far
<1>1. Mantissas \in 2 .. 2048
  BY PixelAssumption
<1> QED  BY <1>1 DEF Far

LEMMA Sizes ==
  ASSUME NEW e \in 0 .. 7
  PROVE  /\ Mantissas \in Nat \ {0}
         /\ Step(e) \in Nat \ {0} /\ Below(e) \in Nat /\ Step(e) * Mantissas \in Nat
         /\ Span(e) \in Nat
         /\ 128 * Mantissas - Span(e) = (Step(e) * Mantissas) * Below(e)
         /\ e < 7 => Span(e + 1) = Step(e) * Mantissas /\ Span(e) = Span(e + 1) + Step(e) * Mantissas
         /\ e = 7 => Span(e) = Step(e) * Mantissas /\ Step(e) = 1
<1>1. e \in {0, 1, 2, 3, 4, 5, 6, 7}
  OBVIOUS
<1> QED  BY <1>1, MantissasIs DEF Step, Span, Below

\* Every distance from the far plane has an exponent.
LEMMA ExponentIs ==
  ASSUME NEW x \in 0 .. Far
  PROVE  /\ Exponent(x) \in 0 .. 7
         /\ x < Span(Exponent(x))
         /\ Exponent(x) < 7 => Span(Exponent(x) + 1) <= x
<1>1. /\ Span(0) = 128 * Mantissas /\ Span(1) = 64 * Mantissas /\ Span(2) = 32 * Mantissas
      /\ Span(3) = 16 * Mantissas /\ Span(4) = 8 * Mantissas /\ Span(5) = 4 * Mantissas
      /\ Span(6) = 2 * Mantissas /\ Span(7) = Mantissas
  BY MantissasIs DEF Span
<1> DEFINE Fits(e) == x < Span(e) /\ (e < 7 => Span(e + 1) <= x)
<1>2. \E e \in 0 .. 7 : Fits(e)
  <2>1. CASE x < Mantissas
    BY <2>1, <1>1, Fits(7)
  <2>2. CASE Mantissas <= x /\ x < 2 * Mantissas
    BY <2>2, <1>1, Fits(6)
  <2>3. CASE 2 * Mantissas <= x /\ x < 4 * Mantissas
    BY <2>3, <1>1, Fits(5)
  <2>4. CASE 4 * Mantissas <= x /\ x < 8 * Mantissas
    BY <2>4, <1>1, Fits(4)
  <2>5. CASE 8 * Mantissas <= x /\ x < 16 * Mantissas
    BY <2>5, <1>1, Fits(3)
  <2>6. CASE 16 * Mantissas <= x /\ x < 32 * Mantissas
    BY <2>6, <1>1, Fits(2)
  <2>7. CASE 32 * Mantissas <= x /\ x < 64 * Mantissas
    BY <2>7, <1>1, Fits(1)
  <2>8. CASE 64 * Mantissas <= x
    BY <2>8, <1>1, MantissasIs, Fits(0) DEF Far
  <2> QED  BY <2>1, <2>2, <2>3, <2>4, <2>5, <2>6, <2>7, <2>8, MantissasIs DEF Far
<1>3. Exponent(x) = CHOOSE e \in 0 .. 7 : Fits(e)
  BY DEF Exponent
<1> HIDE DEF Fits
<1>4. Exponent(x) \in 0 .. 7 /\ Fits(Exponent(x))
  BY <1>2, <1>3
<1> QED  BY <1>4 DEF Fits

\* Where a depth lies.
LEMMA PlaceIs ==
  ASSUME NEW z \in 0 .. Far
  PROVE  \E e \in 0 .. 7, y \in Nat :
           /\ e = Exponent(FromFar(z))
           /\ z = (Step(e) * Mantissas) * Below(e) + y /\ y < Step(e) * Mantissas
<1> DEFINE x == FromFar(z)
           e == Exponent(x)
           y == z - (128 * Mantissas - Span(e))
<1>1. x \in 0 .. Far /\ (z < Far => x = Far - z) /\ (z = Far => x = 1)
  BY MantissasIs DEF FromFar, Far
<1>2. e \in 0 .. 7 /\ x < Span(e) /\ (e < 7 => Span(e + 1) <= x)
  BY <1>1, ExponentIs
<1> DEFINE P == Step(e) * Mantissas
           S == Span(e)
<1> HIDE DEF x, e
<1>5. /\ S \in Nat /\ P \in Nat
      /\ e < 7 => Span(e + 1) = P /\ S = Span(e + 1) + P
      /\ e = 7 => S = P
  BY <1>2, Sizes
<1>6. Far = 128 * Mantissas - 1 /\ 128 * Mantissas \in Nat /\ Mantissas \in Nat /\ Mantissas > 1
  BY MantissasIs DEF Far
<1>7. x < S /\ (e < 7 => Span(e + 1) <= x)
  BY <1>2
<1> HIDE DEF P, S
<1>3. y \in Nat /\ y < P
  <2>0. y = z - (128 * Mantissas - S)
    BY DEF S
  <2> HIDE DEF y
  <2>1. CASE z < Far
    <3>1. CASE e < 7
      <4>1. P + Span(e + 1) = S /\ Span(e + 1) = P /\ P <= x
        BY <3>1, <1>5, <1>7
      <4> QED  BY <4>1, <2>0, <2>1, <1>1, <1>5, <1>6, <1>7
    <3>2. CASE e = 7
      BY <3>2, <2>0, <2>1, <1>1, <1>5, <1>6, <1>7
    <3> QED  BY <3>1, <3>2, <1>2
  <2>2. CASE z = Far
    <3>1. e = 7
      <4>1. SUFFICES ASSUME e < 7 PROVE FALSE
        BY <1>2
      <4>2. Span(e + 1) >= Mantissas
        <5>1. e \in {0, 1, 2, 3, 4, 5, 6}
          BY <1>2, <4>1
        <5> QED  BY <5>1, MantissasIs DEF Span
      <4>3. Span(e + 1) <= 1 /\ Span(e + 1) = P
        BY <4>1, <1>1, <1>5, <1>7, <2>2
      <4> QED  BY <4>2, <4>3, <1>5, <1>6
    <3>2. S = P
      BY <3>1, <1>5
    <3>3. S > 1
      BY <1>1, <1>7, <1>5, <2>2
    <3> QED  BY <3>2, <3>3, <2>0, <2>2, <1>5, <1>6
  <2> QED  BY <2>1, <2>2, <1>6
<1>4. z = (Step(e) * Mantissas) * Below(e) + y
  <2>1. 128 * Mantissas - Span(e) = (Step(e) * Mantissas) * Below(e) /\ Span(e) \in Nat
    BY <1>2, Sizes
  <2>2. z = (128 * Mantissas - Span(e)) + y
    BY <2>1, MantissasIs
  <2> QED  BY <2>1, <2>2
<1> HIDE DEF y
<1> QED  BY <1>2, <1>3, <1>4 DEF x, e, P

\* What is stored, and what is read back: at most the depth, by less than a step, and by
\* nothing of what is nearer the far plane than that.
LEMMA StoredIs ==
  ASSUME NEW z \in 0 .. Far
  PROVE  \E e \in 0 .. 7 :
           /\ z_compress(z) \in Nat
           /\ z_compress(z) \div Mantissas = e
           /\ z_decompress(z_compress(z)) \in Nat
           /\ z_decompress(z_compress(z)) <= z
           /\ z - z_decompress(z_compress(z)) < Step(e)
           /\ z - z_decompress(z_compress(z)) <= (Far - z) \div Mantissas
<1>1. PICK e \in 0 .. 7, y \in Nat :
        /\ e = Exponent(FromFar(z))
        /\ z = (Step(e) * Mantissas) * Below(e) + y /\ y < Step(e) * Mantissas
  BY PlaceIs
<1> DEFINE M == Mantissas
           D == Step(e)
           C == Below(e)
           t == y \div D
           r == y % D
           w == z_compress(z)
           R == M * C
           P == D * M
<1>2. /\ M \in Nat \ {0} /\ D \in Nat \ {0} /\ C \in Nat /\ P \in Nat /\ Span(e) \in Nat
      /\ 128 * M - Span(e) = P * C
      /\ e < 7 => Span(e + 1) = P /\ Span(e) = Span(e + 1) + P
      /\ e = 7 => Span(e) = P /\ D = 1
  BY Sizes
<1>3. z = P * C + y /\ y < P
  BY <1>1
<1>4. w = e * M + ((z \div D) % M)
  <2>1. Clamp(z, 0, Far) = z
    BY MantissasIs DEF Clamp, Far
  <2> QED  BY <1>1, <2>1 DEF z_compress, Packed
<1> HIDE DEF M, D, C, w
<1>5. t \in Nat /\ r \in 0 .. D - 1 /\ y = D * t + r
  BY <1>2, Parts
<1>6. t < M
  <2>1. SUFFICES ASSUME t >= M PROVE FALSE
    BY <1>2, <1>5
  <2>2. D * t >= D * M
    BY <2>1, <1>2, <1>5
  <2> QED  BY <2>2, <1>2, <1>3, <1>5
<1> HIDE DEF t, r
<1>7. z \div D = R + t /\ (R + t) % M = t
  <2>1. P * C = D * R /\ R \in Nat
    BY <1>2
  <2>2. z = D * (R + t) + r
    <3>1. D * (R + t) = D * R + D * t
      BY <1>2, <1>5, <2>1
    <3> QED  BY <3>1, <2>1, <1>3, <1>5, <1>2
  <2>3. (D * (R + t) + r) \div D = R + t
    <3> DEFINE a == R + t
    <3>1. a \in Nat
      BY <1>5, <2>1
    <3> HIDE DEF a
    <3>2. (D * a + r) \div D = a
      BY <1>2, <1>5, <3>1, DivMod
    <3> QED  BY <3>2 DEF a
  <2>4. (M * C + t) % M = t
    <3>1. t \in 0 .. M - 1
      BY <1>2, <1>5, <1>6
    <3> QED  BY <3>1, <1>2, DivMod
  <2> QED  BY <2>2, <2>3, <2>4
<1>8. w = M * e + t
  BY <1>4, <1>7, <1>2
<1>9. w \in Nat /\ w \div M = e /\ w % M = t
  <2>1. e \in Nat /\ t \in 0 .. M - 1
    BY <1>2, <1>5, <1>6
  <2>2. (M * e + t) \div M = e /\ (M * e + t) % M = t
    BY <2>1, <1>2, DivMod
  <2> QED  BY <2>1, <2>2, <1>8, <1>2
<1> DEFINE q == z_decompress(w)
<1>10. q = (t * D) + (128 * M) - Span(e)
  BY <1>9 , MantissasIs DEF z_decompress, M, D, Far
<1> HIDE DEF q
<1>11. q = P * C + D * t /\ z - q = r /\ q \in Nat
  <2>1. t * D = D * t /\ D * t \in Nat /\ P * C \in Nat
    BY <1>2, <1>5
  <2> QED  BY <2>1, <1>10, <1>2, <1>3, <1>5
<1>12. r <= (Far - z) \div M
  <2> DEFINE k == Far - z
             a == k \div M
             b == k % M
  <2>1. k \in Nat
    BY MantissasIs DEF Far
  <2>2. /\ Far = 128 * M - 1 /\ P * C \in Nat /\ 128 * M \in Nat
    BY <1>2 DEF Far, M
  <2>3. e < 7 => k >= P
    <3>1. SUFFICES ASSUME e < 7 PROVE k >= P
      OBVIOUS
    <3>2. Span(e) = P + P
      BY <3>1, <1>2
    <3> DEFINE S == Span(e)
               Q == P * C
    <3>3. S = P + P /\ 128 * M - S = Q /\ z = Q + y /\ S \in Nat /\ Q \in Nat
      BY <3>2, <2>2, <1>2, <1>3
    <3>4. P \in Nat /\ y < P /\ Far = 128 * M - 1 /\ 128 * M \in Nat
      BY <1>2, <1>3, <2>2
    <3> HIDE DEF S, Q, P
    <3> QED  BY <3>3, <3>4
  <2> HIDE DEF k
  <2>4. a \in Nat /\ b \in 0 .. M - 1 /\ k = M * a + b
    BY <2>1, <1>2, Parts
  <2> HIDE DEF a, b
  <2>5. CASE e = 7
    <3>1. r = 0
      BY <2>5, <1>2, <1>5
    <3> QED  BY <3>1, <2>4 DEF a, k
  <2>6. CASE e < 7
    <3>1. a >= D
      <4>1. SUFFICES ASSUME a + 1 <= D PROVE FALSE
        BY <2>4, <1>2
      <4>2. M * (a + 1) <= M * D
        BY <2>4, <4>1, <1>2
      <4>3. M * (a + 1) = M * a + M /\ M * D = P /\ M * a \in Nat
        BY <2>4, <1>2
      <4>4. k >= P
        BY <2>3, <2>6
      <4> HIDE DEF P
      <4> QED  BY <2>1, <2>4, <4>2, <4>3, <4>4, <1>2
    <3>2. r <= a
      BY <3>1, <2>4, <1>5, <1>2
    <3> QED  BY <3>2 DEF a, k
  <2> QED  BY <2>5, <2>6
<1>13. q <= z /\ z - q < D
  BY <1>11, <1>5, <1>2
<1> QED  BY <1>9, <1>11, <1>12, <1>13 DEF q, w, M, D

\* The far plane is stored as itself.
LEMMA FarIs == z_decompress(z_compress(Far)) = Far
<1>1. Far \in 0 .. Far
  BY MantissasIs DEF Far
<1> DEFINE q == z_decompress(z_compress(Far))
<1>2. q \in Nat /\ q <= Far /\ Far - q <= (Far - Far) \div Mantissas
  BY <1>1, StoredIs
<1> HIDE DEF q
<1>3. Far - Far = 0
  BY <1>1
<1>4. 0 \div Mantissas = 0
  BY MantissasIs, DivMod, 0 = Mantissas * 0 + 0
<1> QED  BY <1>1, <1>2, <1>3, <1>4 DEF q

\* The powers of two there are: each is twice the one before.
LEMMA PowersIs ==
  /\ \A n \in 1 .. 18 : Powers[n] \in Nat \ {0}
  /\ Powers[1] = 1 /\ Powers[2] = 2 /\ Powers[3] = 4 /\ Powers[4] = 8 /\ Powers[5] = 16
  /\ \A n \in 5 .. 18 : Powers[n] >= 16
  /\ Far < 2 * Powers[18]
<1>1. ASSUME NEW n \in 1 .. 18 PROVE Powers[n] \in Nat \ {0} /\ (n >= 5 => Powers[n] >= 16)
  <2>1. \/ n \in {1, 2, 3, 4, 5, 6, 7, 8, 9}
        \/ n \in {10, 11, 12, 13, 14, 15, 16, 17, 18}
    BY SMT
  <2> QED  BY <2>1, SMT DEF Powers
<1>2. /\ Powers[1] = 1 /\ Powers[2] = 2 /\ Powers[3] = 4 /\ Powers[4] = 8 /\ Powers[5] = 16
  BY SMT DEF Powers
<1>3. Far < 2 * Powers[18]
  BY MantissasIs, SMT DEF Powers, Far
<1> QED  BY <1>1, <1>2, <1>3

LEMMA PowersDouble ==
  /\ Powers[6] = 2 * Powers[5] /\ Powers[7] = 2 * Powers[6] /\ Powers[8] = 2 * Powers[7]
  /\ Powers[9] = 2 * Powers[8] /\ Powers[10] = 2 * Powers[9] /\ Powers[11] = 2 * Powers[10]
  /\ Powers[12] = 2 * Powers[11] /\ Powers[13] = 2 * Powers[12] /\ Powers[14] = 2 * Powers[13]
  /\ Powers[15] = 2 * Powers[14] /\ Powers[16] = 2 * Powers[15] /\ Powers[17] = 2 * Powers[16]
  /\ Powers[18] = 2 * Powers[17]
  BY SMT DEF Powers

\* A power of two no more than the number, and more than half of it.
LEMMA PowerIs ==
  ASSUME NEW x \in Nat \ {0}, x < 2 * Powers[18]
  PROVE  /\ find_msb(x) \in 0 .. 17
         /\ combine_dz(x) \in Nat /\ combine_dz(x) <= x /\ x < 2 * combine_dz(x)
         /\ \A p \in {1, 4, 8, 16} : p <= x => p <= combine_dz(x)
<1> DEFINE In(n) == Powers[n + 1] <= x /\ x < 2 * Powers[n + 1]
<1>1. /\ \A n \in 1 .. 18 : Powers[n] \in Nat \ {0}
      /\ Powers[1] = 1 /\ Powers[2] = 2 /\ Powers[3] = 4 /\ Powers[4] = 8 /\ Powers[5] = 16
  BY PowersIs
<1>2. \E n \in 0 .. 17 : In(n)
  <2>1. CASE x < Powers[5]
    <3>1. In(0) \/ In(1) \/ In(2) \/ In(3)
      BY <1>1, <2>1
    <3> HIDE DEF In
    <3> QED  BY <3>1
  <2>2. CASE Powers[5] <= x /\ x < Powers[10]
    <3>1. /\ Powers[5] \in Nat /\ Powers[6] \in Nat /\ Powers[7] \in Nat /\ Powers[8] \in Nat
          /\ Powers[9] \in Nat /\ Powers[10] \in Nat
      BY <1>1
    <3>2. In(4) \/ In(5) \/ In(6) \/ In(7) \/ In(8)
      BY <3>1, <2>2, PowersDouble
    <3> HIDE DEF In
    <3> QED  BY <3>2
  <2>3. CASE Powers[10] <= x /\ x < Powers[15]
    <3>1. /\ Powers[10] \in Nat /\ Powers[11] \in Nat /\ Powers[12] \in Nat /\ Powers[13] \in Nat
          /\ Powers[14] \in Nat /\ Powers[15] \in Nat
      BY <1>1
    <3>2. In(9) \/ In(10) \/ In(11) \/ In(12) \/ In(13)
      BY <3>1, <2>3, PowersDouble
    <3> HIDE DEF In
    <3> QED  BY <3>2
  <2>4. CASE Powers[15] <= x
    <3>1. /\ Powers[15] \in Nat /\ Powers[16] \in Nat /\ Powers[17] \in Nat /\ Powers[18] \in Nat
      BY <1>1
    <3>2. In(14) \/ In(15) \/ In(16) \/ In(17)
      BY <3>1, <2>4, PowersDouble
    <3> HIDE DEF In
    <3> QED  BY <3>2
  <2>5. Powers[5] \in Nat /\ Powers[10] \in Nat /\ Powers[15] \in Nat
    BY <1>1
  <2> QED  BY <2>1, <2>2, <2>3, <2>4, <2>5
<1> DEFINE m == find_msb(x)
<1>3. m = CHOOSE n \in 0 .. 17 : In(n)
  BY DEF find_msb
<1>4. m \in 0 .. 17 /\ In(m)
  <2> HIDE DEF In, m
  <2> QED  BY <1>2, <1>3
<1>5. combine_dz(x) = Powers[m + 1]
  BY DEF combine_dz
<1> HIDE DEF m
<1> DEFINE c == Powers[m + 1]
<1>6. c \in Nat /\ c <= x /\ x < 2 * c
  BY <1>1, <1>4
<1>7. \A p \in {1, 4, 8, 16} : p <= x => p <= c
  <2>1. CASE m + 1 < 5
    <3>1. m + 1 \in {1, 2, 3, 4}
      BY <1>4, <2>1
    <3>2. c \in {1, 2, 4, 8}
      BY <3>1, <1>1
    <3> HIDE DEF c
    <3> QED  BY <3>2, <1>6
  <2>2. CASE m + 1 >= 5
    <3>1. m + 1 \in 5 .. 18
      BY <1>4, <2>2
    <3>2. c >= 16
      BY <3>1, PowersIs
    <3> HIDE DEF c
    <3> QED  BY <3>2, <1>6
  <2> QED  BY <2>1, <2>2, <1>4
<1> QED  BY <1>4, <1>5, <1>6, <1>7 DEF m, c

LEMMA MaxOfTwo ==
  ASSUME NEW a \in Int, NEW b \in Int
  PROVE  Max({a, b}) \in Int /\ Max({a, b}) >= a /\ Max({a, b}) >= b
         /\ Max({a, b}) \in {a, b}
<1>1. \E x \in {a, b} : \A y \in {a, b} : x >= y
  BY a >= b \/ b >= a
<1> QED  BY <1>1 DEF Max

\* The depth's slope that the test allows for is as wide as the steps of the stored depth.
LEMMA MemoryDzIs ==
  ASSUME NEW coarse \in 0 .. 7, zword \in Nat, zhidden \in 0 .. 3
  PROVE  /\ MemoryDz(coarse) \in Nat \ {0} /\ MemoryDz(coarse) < 2 * Powers[18]
         /\ coarse < 3 => MemoryDz(coarse) >= <<16, 8, 4>>[coarse + 1]
<1>1. StoredDz \in 0 .. 15
  BY DEF StoredDz
<1> DEFINE d == dz_decompress(StoredDz)
           top == 2 * Powers[18]
<1>2. d \in Nat \ {0} /\ 2 * d < top /\ top > 16 /\ top \in Nat
  <2>1. StoredDz + 1 \in {1, 2, 3, 4, 5, 6, 7, 8, 9, 10, 11, 12, 13, 14, 15, 16}
    BY <1>1
  <2> QED  BY <2>1, SMT DEF dz_decompress, Powers
<1> HIDE DEF d
<1>3. CASE coarse >= 3
  <2>1. MemoryDz(coarse) = d
    BY <1>3, SMT DEF MemoryDz, d
  <2> QED  BY <1>2, <1>3, <2>1
<1>4. CASE coarse < 3
  <2> DEFINE w == <<16, 8, 4>>[coarse + 1]
  <2>1. w \in {16, 8, 4}
    <3>1. coarse \in {0, 1, 2}
      BY <1>4
    <3> QED  BY <3>1
  <2> HIDE DEF w
  <2>2. CASE StoredDz = 15
    <3>1. MemoryDz(coarse) = 65535
      BY <1>4, <2>2, SMT DEF MemoryDz
    <3>2. MemoryDz(coarse) < top
      BY <3>1, SMT DEF Powers
    <3>3. MemoryDz(coarse) \in Nat \ {0} /\ MemoryDz(coarse) >= w
      BY <3>1, <2>1, SMT
    <3> QED  BY <3>2, <3>3 DEF w
  <2>3. CASE StoredDz # 15
    <3>1. MemoryDz(coarse) = Max({2 * d, w})
      BY <1>4, <2>3, SMT DEF MemoryDz, d, w
    <3> DEFINE a == 2 * d
               x == Max({a, w})
    <3>2. a \in Nat \ {0} /\ a \in Int /\ w \in Int /\ a < top
      BY <1>2, <2>1
    <3> HIDE DEF a, top
    <3>3. x >= w /\ x \in {a, w}
      BY <3>2, MaxOfTwo
    <3> HIDE DEF x
    <3>4. x \in Nat \ {0} /\ x < top /\ x >= w
      BY <3>2, <3>3, <2>1, <1>2
    <3> QED  BY <3>1, <3>4 DEF w, x, a, top
  <2> QED  BY <2>2, <2>3
<1> QED  BY <1>3, <1>4

Combined(f, coarse) == 8 * Max({combine_dz(f.dz), combine_dz(MemoryDz(coarse))})

LEMMA CombinedWide ==
  ASSUME NEW coarse \in 0 .. 7, zword \in Nat, zhidden \in 0 .. 3,
         NEW f, f.dz \in 0 .. Far
  PROVE  Combined(f, coarse) \in Nat /\ Step(coarse) <= Combined(f, coarse)
<1> DEFINE a == combine_dz(f.dz)
           x == MemoryDz(coarse)
           b == combine_dz(x)
<1>1. a \in Nat
  <2>1. CASE f.dz = 0
    BY <2>1 DEF combine_dz
  <2>2. CASE f.dz # 0
    <3>1. f.dz \in Nat \ {0} /\ f.dz < 2 * Powers[18]
      <4>1. Far \in Nat /\ Far < 2 * Powers[18] /\ Powers[18] \in Nat
        BY PowersIs, MantissasIs, 18 \in 1 .. 18
      <4> QED  BY <4>1, <2>2
    <3> QED  BY <3>1, PowerIs
  <2> QED  BY <2>1, <2>2
<1>2. /\ x \in Nat \ {0} /\ x < 2 * Powers[18]
      /\ coarse < 3 => x >= <<16, 8, 4>>[coarse + 1]
  BY MemoryDzIs
<1> HIDE DEF a, x
<1>3. b \in Nat /\ \A p \in {1, 4, 8, 16} : p <= x => p <= b
  BY <1>2, PowerIs
<1> HIDE DEF b
<1>4. 8 * b >= Step(coarse)
  <2>1. coarse \in {0, 1, 2, 3, 4, 5, 6, 7}
    OBVIOUS
  <2>2. (coarse = 0 => b >= 16) /\ (coarse = 1 => b >= 8) /\ (coarse = 2 => b >= 4) /\ b >= 1
    <3>1. (coarse = 0 => x >= 16) /\ (coarse = 1 => x >= 8) /\ (coarse = 2 => x >= 4)
      BY <1>2
    <3> QED  BY <3>1, <1>2, <1>3
  <2>3. b \in Nat
    BY <1>3
  <2> QED  BY <2>1, <2>2, <2>3 DEF Step
<1>5. Max({a, b}) \in Int /\ Max({a, b}) >= b
  <2>1. a \in Int /\ b \in Int
    BY <1>1, <1>3
  <2> QED  BY <2>1, MaxOfTwo
<1>6. Combined(f, coarse) = 8 * Max({a, b})
  BY DEF Combined, a, b, x
<1>7. Step(coarse) \in Nat
  BY Sizes
<1> HIDE DEF Combined
<1> QED  BY <1>3, <1>4, <1>5, <1>6, <1>7

-----------------------------------------------------------------------------
(***************************************************************************)
(* The depth test: what is stored is what was last let through.            *)
(***************************************************************************)

\* The surface's depth is the one stored, if there is one, and the far plane is where there
\* is none; and nothing drawn that was compared and kept is nearer than what is stored.
PixelInv ==
  /\ setup \in Setups /\ drawn \subseteq Fragments[setup]
  /\ zword \in Nat /\ zhidden \in 0 .. 3
  /\ \/ surface = {} /\ StoredZ = z_compress(Far)
     \/ \E s \in drawn : surface = {s} /\ StoredZ = z_compress(s.z)
  /\ (\A f \in drawn : f.z_update => f.z_compare /\ f.z_mode # "decal") =>
       \A f \in drawn : f.z_update /\ Kept(f) => z_decompress(StoredZ) <= f.z

LEMMA DzIs ==
  ASSUME NEW x \in 0 .. Far
  PROVE  dz_compress(x) \in 0 .. 15
<1>1. CASE x = 0
  BY <1>1 DEF dz_compress, find_msb, Clamp
<1>2. CASE x # 0
  <2>1. x \in Nat \ {0} /\ x < 2 * Powers[18]
    <3>1. Far \in Nat /\ Far < 2 * Powers[18] /\ Powers[18] \in Nat
      BY PowersIs, MantissasIs, 18 \in 1 .. 18
    <3> QED  BY <3>1, <1>2
  <2>2. find_msb(x) \in 0 .. 17
    BY <2>1, PowerIs
  <2> QED  BY <2>2 DEF dz_compress, Clamp
<1> QED  BY <1>1, <1>2

\* A fragment that is no decal passes where nothing is, and in front of what is there.
LEMMA ComparePasses ==
  ASSUME NEW f, f.z_compare, f.z_mode \in {"opaque", "interpenetrating", "transparent"}
  PROVE  depth_pass(f) <=> z_decompress(StoredZ) = Far \/ f.z < z_decompress(StoredZ)
  BY DEF depth_pass

\* A decal passes where its depth differs from what is there by no more than the two slopes.
LEMMA DecalPasses ==
  ASSUME NEW f, f.z_compare, f.z_mode = "decal"
  PROVE  LET q == z_decompress(StoredZ)
             c == Combined(f, StoredZ \div Mantissas)
         IN /\ depth_pass(f) => q # Far
            /\ q # Far /\ f.z + c >= q /\ f.z - c <= q => depth_pass(f)
  BY DEF depth_pass, Combined

LEMMA KeptStays ==
  ASSUME setup' = setup, NEW f
  PROVE  Kept(f)' <=> Kept(f)
  BY DEF Kept, alpha_compare_passes, combine

LEMMA FragmentIs ==
  ASSUME PixelInv, NEW f \in Fragments[setup]
  PROVE  /\ f.z \in 0 .. Far /\ f.dz \in 0 .. Far
         /\ f.z_mode \in {"opaque", "interpenetrating", "transparent", "decal"}
  BY PixelAssumption DEF PixelInv

LEMMA PixelInitHolds == PixelInit => PixelInv
<1> SUFFICES ASSUME PixelInit PROVE PixelInv
  OBVIOUS
<1> DEFINE w == z_compress(Far)
<1>1. w \in Nat
  <2>1. Far \in 0 .. Far
    BY MantissasIs DEF Far
  <2> QED  BY <2>1, StoredIs
<1>2. setup \in Setups /\ zword = 4 * w /\ zhidden = 0 /\ drawn = {} /\ surface = {}
  BY DEF PixelInit
<1> HIDE DEF w
<1>3. zword \in Nat /\ StoredZ = w
  BY <1>1, <1>2 DEF StoredZ
<1> QED  BY <1>2, <1>3 DEF PixelInv, w

\* What is read where nothing was stored.
LEMMA EmptyIs ==
  ASSUME PixelInv, surface = {}
  PROVE  z_decompress(StoredZ) = Far
<1>1. StoredZ = z_compress(Far)
  BY DEF PixelInv
<1> QED  BY <1>1, FarIs

\* What is read where a surface is.
LEMMA SurfaceIs ==
  ASSUME PixelInv, NEW s \in surface
  PROVE  s \in drawn /\ surface = {s} /\ StoredZ = z_compress(s.z) /\ s.z \in 0 .. Far
<1>1. s \in drawn /\ surface = {s} /\ StoredZ = z_compress(s.z)
  BY DEF PixelInv
<1>2. s \in Fragments[setup]
  BY <1>1 DEF PixelInv
<1> QED  BY <1>1, <1>2, FragmentIs

\* What is read is a depth.
LEMMA ReadIs ==
  ASSUME PixelInv
  PROVE  z_decompress(StoredZ) \in 0 .. Far
<1>1. CASE surface = {}
  BY <1>1, EmptyIs, MantissasIs DEF Far
<1>2. CASE surface # {}
  <2>1. PICK s \in surface : TRUE
    BY <1>2
  <2>2. StoredZ = z_compress(s.z) /\ s.z \in 0 .. Far
    BY SurfaceIs
  <2> DEFINE q == z_decompress(z_compress(s.z))
  <2>3. q \in Nat /\ q <= s.z
    BY <2>2, StoredIs
  <2> HIDE DEF q
  <2>4. q \in 0 .. Far
    BY <2>2, <2>3, MantissasIs DEF Far
  <2> QED  BY <2>2, <2>4 DEF q
<1> QED  BY <1>1, <1>2

Honest(F) == \A f \in F : f.z_update => f.z_compare /\ f.z_mode # "decal"

LEMMA DrawHolds ==
  ASSUME PixelInv, NEW f \in Fragments[setup], DrawFragment(f)
  PROVE  PixelInv'
<1> DEFINE q == z_decompress(StoredZ)
<1>1. setup' = setup /\ drawn' = drawn \cup {f}
  BY DEF DrawFragment
<1>2. f.z \in 0 .. Far /\ f.dz \in 0 .. Far
      /\ f.z_mode \in {"opaque", "interpenetrating", "transparent", "decal"}
  BY FragmentIs
<1>3. setup' \in Setups /\ drawn' \subseteq Fragments[setup']
  BY <1>1 DEF PixelInv
<1>4. \A g : Kept(g)' <=> Kept(g)
  BY <1>1, KeptStays
<1>5. q \in 0 .. Far /\ Far \in Nat
  BY ReadIs, MantissasIs DEF Far
<1>6. CASE depth_pass(f) /\ Kept(f) /\ f.z_update
  <2> DEFINE w == z_compress(f.z)
             d == dz_compress(f.dz)
  <2>1. zword' = (4 * w) + (d \div 4) /\ zhidden' = d % 4 /\ surface' = {f}
    BY <1>6 DEF DrawFragment
  <2>2. w \in Nat /\ z_decompress(w) \in Nat /\ z_decompress(w) <= f.z
    BY <1>2, StoredIs
  <2>3. d \in 0 .. 15
    BY <1>2, DzIs
  <2> HIDE DEF w, d
  <2>4. zword' \in Nat /\ zhidden' \in 0 .. 3 /\ StoredZ' = w
    BY <2>1, <2>2, <2>3 DEF StoredZ
  <2>5. ASSUME Honest(drawn'), NEW g \in drawn', g.z_update, Kept(g)'
        PROVE  z_decompress(w) <= g.z
    <3>1. CASE g = f
      BY <3>1, <2>2
    <3>2. CASE g \in drawn
      <4>1. f.z_compare /\ f.z_mode # "decal"
        BY <2>5, <1>1, <1>6 DEF Honest
      <4>2. q = Far \/ f.z < q
        BY <4>1, <1>2, <1>6, ComparePasses
      <4>3. f.z <= q
        BY <4>2, <1>2, <1>5
      <4>4. q <= g.z
        <5>1. Honest(drawn) /\ Kept(g)
          BY <2>5, <1>1, <1>4 DEF Honest
        <5> QED  BY <5>1, <3>2, <2>5 DEF PixelInv, Honest
      <4>5. g.z \in 0 .. Far
        BY <3>2, FragmentIs DEF PixelInv
      <4> HIDE DEF q
      <4>6. z_decompress(w) \in Nat /\ f.z \in Nat /\ g.z \in Nat /\ q \in Nat
        BY <2>2, <1>2, <1>5, <4>5
      <4> QED  BY <2>2, <4>3, <4>4, <4>6
    <3> QED  BY <3>1, <3>2, <1>1
  <2>6. \E s \in drawn' : surface' = {s} /\ StoredZ' = z_compress(s.z)
    BY <2>1, <2>4, <1>1 DEF w
  <2> QED  BY <1>3, <2>4, <2>5, <2>6 DEF PixelInv, Honest
<1>7. CASE ~(depth_pass(f) /\ Kept(f) /\ f.z_update)
  <2>1. UNCHANGED <<zword, zhidden, surface>>
    BY <1>7 DEF DrawFragment
  <2>2. StoredZ' = StoredZ
    BY <2>1 DEF StoredZ
  <2>3. ASSUME Honest(drawn'), NEW g \in drawn', g.z_update, Kept(g)'
        PROVE  q <= g.z
    <3>1. CASE g \in drawn
      <4>1. Honest(drawn) /\ Kept(g)
        BY <2>3, <1>1, <1>4 DEF Honest
      <4> QED  BY <4>1, <3>1, <2>3 DEF PixelInv, Honest
    <3>2. CASE g = f
      <4>1. f.z_compare /\ f.z_mode # "decal" /\ Kept(f) /\ ~depth_pass(f)
        BY <3>2, <2>3, <1>1, <1>4, <1>7 DEF Honest
      <4>2. ~(f.z < q)
        BY <4>1, <1>2, ComparePasses
      <4> HIDE DEF q
      <4> QED  BY <4>2, <3>2, <1>2, <1>5
    <3> QED  BY <3>1, <3>2, <1>1
  <2>4. \/ surface' = {} /\ StoredZ' = z_compress(Far)
        \/ \E s \in drawn' : surface' = {s} /\ StoredZ' = z_compress(s.z)
    BY <2>1, <2>2, <1>1 DEF PixelInv
  <2>5. zword' \in Nat /\ zhidden' \in 0 .. 3
    BY <2>1 DEF PixelInv
  <2> QED  BY <1>3, <2>2, <2>3, <2>4, <2>5 DEF PixelInv, Honest
<1> QED  BY <1>6, <1>7

LEMMA PixelStepHolds == PixelInv /\ [PixelNext]_pixelVars => PixelInv'
<1>1. ASSUME PixelInv, UNCHANGED pixelVars PROVE PixelInv'
  <2>1. /\ setup' = setup /\ drawn' = drawn /\ surface' = surface
        /\ zword' = zword /\ zhidden' = zhidden
    BY <1>1 DEF pixelVars
  <2>2. StoredZ' = StoredZ /\ (\A g : Kept(g)' <=> Kept(g))
    BY <2>1, KeptStays DEF StoredZ
  <2> QED  BY <1>1, <2>1, <2>2 DEF PixelInv
<1> QED  BY <1>1, DrawHolds DEF PixelNext

\* NearestWins in every state: what is stored is at most as far as any that was compared,
\* and within a step of the surface it was stored for.
LEMMA NearestHolds == PixelInv => NearestWins
<1> SUFFICES ASSUME PixelInv, Honest(drawn),
                    NEW s \in surface, NEW f \in drawn, f.z_update, Kept(f)
             PROVE  s.z - f.z <= (Far - s.z) \div Mantissas
  BY DEF NearestWins, Honest
<1> DEFINE q == z_decompress(StoredZ)
           a == (Far - s.z) \div Mantissas
<1>1. StoredZ = z_compress(s.z) /\ s.z \in 0 .. Far
  BY SurfaceIs
<1>2. q \in Nat /\ s.z - q <= a
  BY <1>1, StoredIs
<1>3. q <= f.z
  BY DEF PixelInv, Honest
<1>4. f.z \in 0 .. Far
  BY FragmentIs DEF PixelInv
<1>5. a \in Nat
  <2> DEFINE k == Far - s.z
  <2>1. k \in Nat /\ Mantissas \in Nat \ {0}
    BY <1>1, MantissasIs DEF Far
  <2> HIDE DEF k
  <2>2. k \div Mantissas \in Nat
    BY <2>1, Parts
  <2> QED  BY <2>2 DEF k
<1> HIDE DEF q, a
<1>6. s.z \in Nat /\ f.z \in Nat
  BY <1>1, <1>4
<1>7. s.z - f.z <= a
  BY <1>2, <1>3, <1>5, <1>6
<1> QED  BY <1>7 DEF a

\* Of the surfaces drawn in one place the nearest remains, to the precision of a stored
\* depth, for a stored depth of any precision up to the code's, whatever is drawn and in
\* whatever order (depth_test, zbuffer_write).
THEOREM NearestCorrect == PixelSpec => []NearestWins
<1>1. PixelSpec => []PixelInv
  BY PixelInitHolds, PixelStepHolds, PTL DEF PixelSpec
<1> QED  BY <1>1, NearestHolds, PTL

\* A step of DecalSticks.
LEMMA DecalStep ==
  ASSUME PixelInv, [PixelNext]_pixelVars, NEW f \in drawn' \ drawn,
         f.z_mode = "decal", f.z_compare
  PROVE  /\ \A s \in surface : s.z = f.z /\ s.dz = f.dz /\ s.z < Far => depth_pass(f)
         /\ surface = {} => UNCHANGED <<pixel, zword, zhidden>>
<1> DEFINE q == z_decompress(StoredZ)
           coarse == StoredZ \div Mantissas
           c == Combined(f, coarse)
<1>1. f \in Fragments[setup] /\ DrawFragment(f)
  BY DEF PixelNext, DrawFragment, pixelVars
<1>2. depth_pass(f) => q # Far
  BY DecalPasses
<1>3. q # Far /\ f.z + c >= q /\ f.z - c <= q => depth_pass(f)
  BY DecalPasses
<1>4. ASSUME NEW s \in surface, s.z = f.z, s.z < Far PROVE depth_pass(f)
  <2>1. StoredZ = z_compress(s.z) /\ s.z \in 0 .. Far
    BY SurfaceIs
  <2>2. coarse \in 0 .. 7 /\ q \in Nat /\ q <= s.z /\ s.z - q < Step(coarse)
    BY <2>1, StoredIs
  <2>3. f.dz \in 0 .. Far
    BY <1>1, FragmentIs
  <2>4. zword \in Nat /\ zhidden \in 0 .. 3
    BY DEF PixelInv
  <2> HIDE DEF q, coarse
  <2>5. c \in Nat /\ Step(coarse) <= c /\ Step(coarse) \in Nat
    BY <2>2, <2>3, <2>4, CombinedWide, Sizes
  <2> HIDE DEF c
  <2>6. Far \in Nat
    BY MantissasIs DEF Far
  <2>7. q # Far /\ f.z + c >= q /\ f.z - c <= q
    BY <1>4, <2>1, <2>2, <2>5, <2>6
  <2> QED  BY <2>7, <1>3
<1>5. ASSUME surface = {} PROVE UNCHANGED <<pixel, zword, zhidden>>
  <2>1. ~depth_pass(f)
    BY <1>5, <1>2, EmptyIs
  <2> QED  BY <2>1, <1>1 DEF DrawFragment
<1> QED  BY <1>4, <1>5

\* A decal is drawn on the surface it lies in, however coarse that one's stored depth, and
\* never where nothing is (depth_test, combine_dz).
THEOREM DecalsCorrect == PixelSpec => DecalSticks
<1> DEFINE Sticks ==
      \A f \in drawn' \ drawn : f.z_mode = "decal" /\ f.z_compare =>
         /\ \A s \in surface : s.z = f.z /\ s.dz = f.dz /\ s.z < Far => depth_pass(f)
         /\ surface = {} => UNCHANGED <<pixel, zword, zhidden>>
<1>1. PixelSpec => []PixelInv
  BY PixelInitHolds, PixelStepHolds, PTL DEF PixelSpec
<1>2. PixelInv /\ [PixelNext]_pixelVars => [Sticks]_pixelVars
  BY DecalStep
<1> QED  BY <1>1, <1>2, PTL DEF PixelSpec, DecalSticks

-----------------------------------------------------------------------------
(***************************************************************************)
(* The mix: a color between two of those it was mixed from.                *)
(***************************************************************************)

Within(x, S) == \E lo, hi \in S : lo <= x /\ x <= hi

\* Colors of which one is the darkest and one the brightest.
Spanned(S) == S \subseteq 0 .. 255 /\ \E lo, hi \in S : \A y \in S : lo <= y /\ y <= hi

\* The pixel is no darker and no brighter than what is in it.
MixInv ==
  /\ setup \in Setups /\ drawn \subseteq Fragments[setup]
  /\ setup.dither = "off" /\ Mixing =>
       /\ Spanned(layers) /\ pixel.c \in 0 .. 31
       /\ \E lo, hi \in layers : lo \div 8 <= pixel.c /\ pixel.c <= hi \div 8

LEMMA ShareOf ==
  ASSUME NEW n \in Nat, NEW c \in Nat, NEW m \in Nat, c <= m
  PROVE  n * c \in Nat /\ n * c <= n * m
<1>1. PICK r \in Nat : m = c + r
  <2>1. m - c \in Nat /\ m = c + (m - c)
    OBVIOUS
  <2> QED BY <2>1
<1>2. n * m = n * c + n * r /\ n * r \in Nat /\ n * c \in Nat
  BY <1>1
<1>3. PICK p \in Nat, q \in Nat, s \in Nat : p = n * c /\ q = n * r /\ s = n * m /\ s = p + q
  BY <1>1, <1>2
<1> QED BY <1>3

LEMMA ExpandIs ==
  ASSUME NEW x \in -128 .. 383
  PROVE  special_expand(x) = x
BY DEF special_expand, sext9

LEMMA FactorIs ==
  ASSUME NEW x \in 0 .. 255
  PROVE  sext9(x) = x
BY DEF sext9

\* A difference times a share of one, rounded, is between nothing and the difference.
PartOf(a, b, c) == ((a - b) * c + 128) \div 256
LEMMA PartIs ==
  ASSUME NEW a \in 0 .. 256, NEW b \in 0 .. 256, NEW c \in 0 .. 255
  PROVE  /\ PartOf(a, b, c) \in Int
         /\ a >= b => 0 <= PartOf(a, b, c) /\ PartOf(a, b, c) <= a - b
         /\ a <= b => a - b <= PartOf(a, b, c) /\ PartOf(a, b, c) <= 0
<1>1. CASE a >= b
  <2>1. PICK n \in Nat : n = a - b
    BY <1>1
  <2>2. PICK p \in Nat : p = n * c /\ p <= 255 * n
    BY ShareOf
  <2>3. PartOf(a, b, c) = (p + 128) \div 256
    BY <2>1, <2>2 DEF PartOf
  <2> QED BY <2>1, <2>2, <2>3
<1>2. CASE a < b
  <2>1. PICK n \in Nat : n = b - a /\ n > 0
    BY <1>2
  <2>2. PICK p \in Nat : p = n * c /\ p <= 255 * n
    BY ShareOf
  <2>3. (a - b) * c = -p
    <3>1. a - b = -n
      BY <2>1
    <3> QED BY <3>1, <2>2
  <2>4. PartOf(a, b, c) = (128 - p) \div 256
    <3>1. (a - b) * c + 128 = 128 - p
      BY <2>2, <2>3
    <3> QED BY <3>1 DEF PartOf
  <2> QED BY <2>1, <2>2, <2>4, <1>2
<1> QED BY <1>1, <1>2

\* An interpolation ends between its ends, and nine bits hold it.
Mixed(a, b, c, d) == clamp_9bit(combine_channel(a, b, c, d))
LEMMA ChannelIs ==
  ASSUME NEW a \in 0 .. 256, NEW b \in 0 .. 256, NEW c \in 0 .. 255, NEW d \in 0 .. 256,
         b = d \/ a = b
  PROVE  /\ Mixed(a, b, c, d) \in 0 .. 255
         /\ \/ Clamp(a, 0, 255) <= Mixed(a, b, c, d) /\ Mixed(a, b, c, d) <= Clamp(d, 0, 255)
            \/ Clamp(d, 0, 255) <= Mixed(a, b, c, d) /\ Mixed(a, b, c, d) <= Clamp(a, 0, 255)
<1> DEFINE t == PartOf(a, b, c)
<1>1. combine_channel(a, b, c, d) = t + d
  <2>1. special_expand(a) = a /\ special_expand(b) = b /\ special_expand(d) = d
    BY ExpandIs
  <2>2. sext9(c) = c
    BY FactorIs
  <2> QED BY <2>1, <2>2 DEF combine_channel, PartOf
<1>2. /\ t \in Int
      /\ a >= b => 0 <= t /\ t <= a - b
      /\ a <= b => a - b <= t /\ t <= 0
  BY PartIs
<1> HIDE DEF t
<1>3. CASE b = d
  <2>1. t + d \in 0 .. 256 /\ ((a <= t + d /\ t + d <= d) \/ (d <= t + d /\ t + d <= a))
    BY <1>2, <1>3
  <2>2. special_expand(t + d) = t + d
    BY <2>1, ExpandIs
  <2> QED BY <1>1, <2>1, <2>2 DEF Mixed, clamp_9bit, Clamp
<1>4. CASE a = b
  <2>1. t + d = d
    BY <1>2, <1>4
  <2>2. special_expand(d) = d
    BY ExpandIs
  <2> QED BY <1>1, <2>1, <2>2 DEF Mixed, clamp_9bit, Clamp
<1> QED BY <1>3, <1>4

-----------------------------------------------------------------------------
\* InputValues as a combiner has them.
Wired(inp) ==
  /\ inp \in InputValues
  /\ \A s \in Signals \cup {"lod"} : inp[s] \in Colored
  /\ inp["one"] = [c |-> 256, a |-> 256]

LEMMA ColorIs ==
  ASSUME NEW inp, Wired(inp), NEW sel \in ColorSelects
  PROVE  Input(inp, sel) \in 0 .. 256 /\ Color(inp, sel) \in 0 .. 255
<1>1. PICK s \in Signals \cup {"one"} : sel = <<s, "c">>
  BY DEF ColorSelects
<1>2. Input(inp, sel) = inp[s].c
  BY <1>1 DEF Input
<1>3. inp[s].c \in 0 .. 256
  <2>1. CASE s \in Signals
    <3>1. inp[s] \in Colored
      BY <2>1 DEF Wired
    <3> QED BY <3>1 DEF Colored
  <2>2. CASE s = "one"
    BY <2>2 DEF Wired
  <2> QED BY <2>1, <2>2
<1> QED BY <1>2, <1>3 DEF Color, Clamp

LEMMA FactorIn ==
  ASSUME NEW inp, Wired(inp), NEW sel \in Factors
  PROVE  Input(inp, sel) \in 0 .. 255
<1>1. PICK s \in Signals \cup {"lod"}, p \in {"c", "a"} : sel = <<s, p>>
  BY DEF Factors
<1>2. Input(inp, sel) = inp[s][p]
  BY <1>1 DEF Input
<1>3. inp[s] \in Colored
  BY DEF Wired
<1>4. inp[s][p] \in 0 .. 255
  <2>1. CASE p = "c"
    BY <1>3, <2>1 DEF Colored
  <2>2. CASE p = "a"
    BY <1>3, <2>2 DEF Colored
  <2> QED BY <2>1, <2>2
<1> QED BY <1>2, <1>4

LEMMA MixIs ==
  ASSUME NEW inp, Wired(inp), NEW sels \in Selects, Interpolates(sels)
  PROVE  /\ Channel(inp, sels) \in 0 .. 255
         /\ Within(Channel(inp, sels), Ends(sels, inp))
<1>1. /\ sels.a \in ColorSelects /\ sels.b \in ColorSelects /\ sels.d \in ColorSelects
      /\ sels.c \in Factors
  BY DEF Selects
<1>2. PICK p \in 0 .. 256, q \in 0 .. 256, r \in 0 .. 255, s \in 0 .. 256 :
        /\ p = Input(inp, sels.a) /\ q = Input(inp, sels.b)
        /\ r = Input(inp, sels.c) /\ s = Input(inp, sels.d)
  <2>1. /\ Input(inp, sels.a) \in 0 .. 256 /\ Input(inp, sels.b) \in 0 .. 256
        /\ Input(inp, sels.c) \in 0 .. 255 /\ Input(inp, sels.d) \in 0 .. 256
    BY <1>1, ColorIs, FactorIn
  <2> QED BY <2>1
<1>3. q = s \/ p = q
  BY <1>2 DEF Interpolates
<1>4. Channel(inp, sels) = Mixed(p, q, r, s)
  BY <1>2 DEF Channel, Mixed
<1>5. Ends(sels, inp) = {Clamp(p, 0, 255), Clamp(s, 0, 255)}
  BY <1>2 DEF Ends, Color
<1>6. /\ Mixed(p, q, r, s) \in 0 .. 255
      /\ \/ Clamp(p, 0, 255) <= Mixed(p, q, r, s) /\ Mixed(p, q, r, s) <= Clamp(s, 0, 255)
         \/ Clamp(s, 0, 255) <= Mixed(p, q, r, s) /\ Mixed(p, q, r, s) <= Clamp(p, 0, 255)
  BY <1>3, ChannelIs
<1>7. Within(Mixed(p, q, r, s), {Clamp(p, 0, 255), Clamp(s, 0, 255)})
  BY <1>6 DEF Within
<1> QED BY <1>4, <1>5, <1>6, <1>7

\* Any channel is eight bits.
LEMMA NineBits == ASSUME NEW x \in Int PROVE clamp_9bit(x) \in 0 .. 255
BY DEF clamp_9bit, special_expand, sext9, Clamp

LEMMA EightBits ==
  ASSUME NEW inp, Wired(inp), NEW sels \in [a : AlphaSelects, b : AlphaSelects,
                                            c : AlphaSelects, d : AlphaSelects]
  PROVE  Channel(inp, sels) \in 0 .. 255
<1>1. ASSUME NEW sel \in AlphaSelects PROVE Input(inp, sel) \in Int
  <2>1. PICK s \in Signals \cup {"one", "lod"}, p \in {"c", "a"} : sel = <<s, p>>
    BY DEF AlphaSelects
  <2>2. Input(inp, sel) = inp[s][p]
    BY <2>1 DEF Input
  <2>3. CASE s = "one"
    BY <2>2, <2>3 DEF Wired
  <2>4. CASE s # "one"
    <3>1. inp[s] \in Colored
      BY <2>4 DEF Wired
    <3>2. inp[s].c \in Int /\ inp[s].a \in Int
      BY <3>1 DEF Colored
    <3> QED BY <2>2, <3>2
  <2> QED BY <2>3, <2>4
<1> DEFINE a == special_expand(Input(inp, sels.a)) - special_expand(Input(inp, sels.b))
           c == sext9(Input(inp, sels.c))
           d == special_expand(Input(inp, sels.d))
<1>2. a \in Int /\ c \in Int /\ d \in Int
  BY <1>1 DEF special_expand, sext9
<1>3. Channel(inp, sels) = clamp_9bit(((a * c + 128) \div 256) + d)
  BY DEF Channel, combine_channel
<1> HIDE DEF a, c, d
<1>4. ((a * c + 128) \div 256) + d \in Int
  <2>1. PICK p \in Int : p = a * c
    BY <1>2
  <2> QED BY <1>2, <2>1
<1> QED BY <1>3, <1>4, NineBits

-----------------------------------------------------------------------------
\* Sets of colors.
LEMMA PairSpanned ==
  ASSUME NEW x \in 0 .. 255, NEW y \in 0 .. 255
  PROVE  Spanned({x, y})
<1>1. \E lo, hi \in {x, y} : \A z \in {x, y} : lo <= z /\ z <= hi
  <2>1. CASE x <= y
    <3>1. \A z \in {x, y} : x <= z /\ z <= y
      BY <2>1
    <3> QED BY <3>1
  <2>2. CASE y <= x
    <3>1. \A z \in {x, y} : y <= z /\ z <= x
      BY <2>2
    <3> QED BY <3>1
  <2> QED BY <2>1, <2>2
<1> QED BY <1>1 DEF Spanned

LEMMA UnionSpanned ==
  ASSUME NEW S, NEW T, Spanned(S), Spanned(T)
  PROVE  Spanned(S \cup T)
<1>1. S \subseteq 0 .. 255 /\ T \subseteq 0 .. 255 /\ S \cup T \subseteq 0 .. 255
  BY DEF Spanned
<1>2. PICK l \in S, h \in S : \A y \in S : l <= y /\ y <= h
  BY DEF Spanned
<1>3. PICK m \in T, g \in T : \A y \in T : m <= y /\ y <= g
  BY DEF Spanned
<1>4. l \in 0 .. 255 /\ h \in 0 .. 255 /\ m \in 0 .. 255 /\ g \in 0 .. 255
  BY <1>1
<1>5. PICK lo \in S \cup T : lo <= l /\ lo <= m /\ lo \in 0 .. 255
  <2>1. CASE l <= m
    BY <1>4, <2>1
  <2>2. CASE m <= l
    BY <1>4, <2>2
  <2> QED BY <1>4, <2>1, <2>2
<1>6. PICK hi \in S \cup T : h <= hi /\ g <= hi /\ hi \in 0 .. 255
  <2>1. CASE h <= g
    BY <1>4, <2>1
  <2>2. CASE g <= h
    BY <1>4, <2>2
  <2> QED BY <1>4, <2>1, <2>2
<1>7. \A y \in S \cup T : lo <= y /\ y <= hi
  <2> SUFFICES ASSUME NEW y \in S \cup T PROVE lo <= y /\ y <= hi
    OBVIOUS
  <2>1. y \in 0 .. 255
    BY <1>1
  <2>2. CASE y \in S
    <3>1. l <= y /\ y <= h
      BY <1>2, <2>2
    <3> QED BY <3>1, <2>1, <1>4, <1>5, <1>6
  <2>3. CASE y \in T
    <3>1. m <= y /\ y <= g
      BY <1>3, <2>3
    <3> QED BY <3>1, <2>1, <1>4, <1>5, <1>6
  <2> QED BY <2>2, <2>3
<1> QED BY <1>1, <1>7 DEF Spanned

LEMMA WithinUp ==
  ASSUME NEW x, NEW S, NEW T, Within(x, S), S \subseteq T
  PROVE  Within(x, T)
BY DEF Within

\* Between two colors that are between others.
LEMMA WithinWithin ==
  ASSUME NEW x \in 0 .. 255, NEW y \in 0 .. 255, NEW z \in 0 .. 255, NEW T,
         T \subseteq 0 .. 255, Within(x, {y, z}), Within(y, T), Within(z, T)
  PROVE  Within(x, T)
<1>1. PICK lo \in {y, z}, hi \in {y, z} : lo <= x /\ x <= hi
  BY DEF Within
<1>2. PICK l \in T : l <= lo /\ l \in 0 .. 255
  <2>1. Within(lo, T)
    OBVIOUS
  <2>2. PICK m \in T : m <= lo
    BY <2>1 DEF Within
  <2> QED BY <2>2
<1>3. PICK h \in T : hi <= h /\ h \in 0 .. 255
  <2>1. Within(hi, T)
    OBVIOUS
  <2>2. PICK m \in T : hi <= m
    BY <2>1 DEF Within
  <2> QED BY <2>2
<1>4. l <= x /\ x <= h
  BY <1>1, <1>2, <1>3
<1> QED BY <1>4 DEF Within

-----------------------------------------------------------------------------
\* The modes, as the assumption has them.
LEMMA ModesAre ==
  ASSUME setup \in Setups
  PROVE  /\ setup.cyc0.rgb \in Selects /\ setup.cyc1.rgb \in Selects
         /\ setup.cyc0.alpha \in [a : AlphaSelects, b : AlphaSelects,
                                  c : AlphaSelects, d : AlphaSelects]
         /\ setup.cyc1.alpha \in [a : AlphaSelects, b : AlphaSelects,
                                  c : AlphaSelects, d : AlphaSelects]
         /\ setup.blend[1] \in Blends /\ setup.blend[2] \in Blends
         /\ setup.fog \in Colored /\ setup.blend_color \in Colored
         /\ setup.fill \in [c : 0 .. 31, a : 0 .. 1] /\ setup.two \in BOOLEAN
BY PixelAssumption

\* Cycle 1 with what cycle 0 made of the inputs.
LEMMA SecondIs ==
  ASSUME NEW inp, Wired(inp), NEW z \in Colored
  PROVE  /\ Wired(Second(inp, z))
         /\ \A sel \in ColorSelects :
              Color(Second(inp, z), sel) =
                IF sel[1] = "combined" THEN z.c
                ELSE Color([inp EXCEPT !.texel0 = inp.texel1, !.texel1 = inp.texel0], sel)
<1> DEFINE n == Second(inp, z)
           w == [inp EXCEPT !.texel0 = inp.texel1, !.texel1 = inp.texel0]
           D == Signals \cup {"one", "lod"}
<1>1. /\ inp \in InputValues /\ inp["one"] = [c |-> 256, a |-> 256]
      /\ \A s \in Signals \cup {"lod"} : inp[s] \in Colored
  BY DEF Wired
<1>2. /\ inp["texel0"] \in Colored /\ inp["texel1"] \in Colored
      /\ Colored \subseteq [c : 0 .. 511, a : 0 .. 511]
  BY <1>1 DEF Colored, Signals
<1>3. \A s \in D : /\ n[s] = IF s = "combined" THEN z ELSE w[s]
                   /\ w[s] = IF s = "texel0" THEN inp["texel1"]
                             ELSE IF s = "texel1" THEN inp["texel0"] ELSE inp[s]
  BY <1>1 DEF Second, Signals, InputValues
<1>6. n \in InputValues
  <2> DEFINE R == [c : 0 .. 511, a : 0 .. 511]
  <2>1. inp \in [D -> R] /\ z \in R /\ inp["texel0"] \in R /\ inp["texel1"] \in R
    BY <1>1, <1>2 DEF InputValues
  <2>2. InputValues = [D -> R] /\ n = [[[inp EXCEPT !["combined"] = z] EXCEPT !["texel0"] = inp["texel1"]]
                                   EXCEPT !["texel1"] = inp["texel0"]]
    BY DEF InputValues, Second
  <2> HIDE DEF R, D, n
  <2>3. \A g \in [D -> R] : \A i, r : r \in R => [g EXCEPT ![i] = r] \in [D -> R]
    OBVIOUS
  <2> QED BY <2>1, <2>2, <2>3
<1> HIDE DEF n, w
<1>4. Wired(n)
  <2>1. \A s \in Signals \cup {"lod"} : n[s] \in Colored
    BY <1>1, <1>3 DEF Signals
  <2>2. n["one"] = [c |-> 256, a |-> 256]
    BY <1>1, <1>3
  <2> QED BY <1>6, <2>1, <2>2 DEF Wired
<1>5. ASSUME NEW sel \in ColorSelects
      PROVE  Color(n, sel) = IF sel[1] = "combined" THEN z.c ELSE Color(w, sel)
  <2>1. PICK s \in Signals \cup {"one"} : sel = <<s, "c">>
    BY DEF ColorSelects
  <2>2. CASE s = "combined"
    <3>1. Input(n, sel) = z.c
      BY <1>3, <2>1, <2>2 DEF Input, Signals
    <3>2. z.c \in 0 .. 255
      BY DEF Colored
    <3> QED BY <2>1, <2>2, <3>1, <3>2 DEF Color, Clamp
  <2>3. CASE s # "combined"
    <3>1. n[s] = w[s]
      BY <1>3, <2>3
    <3> QED BY <2>1, <2>3, <3>1 DEF Color, Input
  <2> QED BY <2>2, <2>3
<1> QED BY <1>4, <1>5 DEF n, w

\* A pixel that is combined is between the colors it was combined from.
LEMMA CombineIs ==
  ASSUME setup \in Setups, NEW inp, Wired(inp), Interpolates(setup.cyc1.rgb),
         setup.two => Interpolates(setup.cyc0.rgb)
  PROVE  /\ combine(inp).c \in 0 .. 255 /\ combine(inp).a \in 0 .. 255
         /\ Within(combine(inp).c, Colors(inp)) /\ Spanned(Colors(inp))
<1> DEFINE r0 == setup.cyc0.rgb
           r1 == setup.cyc1.rgb
<1>1. /\ r0 \in Selects /\ r1 \in Selects
      /\ r0.a \in ColorSelects /\ r0.d \in ColorSelects
      /\ r1.a \in ColorSelects /\ r1.d \in ColorSelects
  BY ModesAre DEF Selects
<1>2. CASE ~setup.two
  <2>1. /\ combine(inp).c = Channel(inp, r1) /\ combine(inp).a = Channel(inp, setup.cyc1.alpha)
        /\ Colors(inp) = Ends(r1, inp)
    BY <1>2 DEF combine, combine_cycle, Colors
  <2>2. Channel(inp, r1) \in 0 .. 255 /\ Within(Channel(inp, r1), Ends(r1, inp))
    BY <1>1, MixIs
  <2>3. Channel(inp, setup.cyc1.alpha) \in 0 .. 255
    BY ModesAre, EightBits
  <2>4. Spanned(Ends(r1, inp))
    <3>1. Color(inp, r1.a) \in 0 .. 255 /\ Color(inp, r1.d) \in 0 .. 255
      BY <1>1, ColorIs
    <3> QED BY <3>1, PairSpanned DEF Ends
  <2> QED BY <2>1, <2>2, <2>3, <2>4
<1>3. CASE setup.two
  <2> DEFINE z == combine_cycle(setup.cyc0, inp)
             n == Second(inp, z)
             w == [inp EXCEPT !.texel0 = inp.texel1, !.texel1 = inp.texel0]
  <2>1. z = [c |-> Channel(inp, r0), a |-> Channel(inp, setup.cyc0.alpha)]
    BY DEF combine_cycle
  <2>2. Channel(inp, r0) \in 0 .. 255 /\ Within(Channel(inp, r0), Ends(r0, inp))
    BY <1>1, <1>3, MixIs
  <2>3. Channel(inp, setup.cyc0.alpha) \in 0 .. 255
    BY ModesAre, EightBits
  <2>4. z \in Colored /\ z.c = Channel(inp, r0)
    BY <2>1, <2>2, <2>3 DEF Colored
  <2>5. /\ combine(inp).c = Channel(n, r1) /\ combine(inp).a = Channel(n, setup.cyc1.alpha)
        /\ Colors(inp) = Ends1(r1.a, inp) \cup Ends1(r1.d, inp)
    BY <1>3 DEF combine, combine_cycle, Colors
  <2> HIDE DEF z
  <2>6. /\ Wired(n)
        /\ \A sel \in ColorSelects :
             Color(n, sel) = IF sel[1] = "combined" THEN z.c ELSE Color(w, sel)
    BY <2>4, SecondIs
  <2> HIDE DEF n, r0, r1
  <2>7. /\ Channel(n, r1) \in 0 .. 255
        /\ Within(Channel(n, r1), {Color(n, r1.a), Color(n, r1.d)})
    BY <1>1, <2>6, MixIs DEF Ends, r1
  <2>8. Channel(n, setup.cyc1.alpha) \in 0 .. 255
    BY <2>6, ModesAre, EightBits
  <2>9. ASSUME NEW sel \in ColorSelects
        PROVE  /\ Color(n, sel) \in 0 .. 255 /\ Spanned(Ends1(sel, inp))
               /\ Within(Color(n, sel), Ends1(sel, inp))
    <3>1. Color(n, sel) \in 0 .. 255
      BY <2>6, ColorIs
    <3>2. CASE sel[1] = "combined"
      <4>1. Ends1(sel, inp) = Ends(r0, inp) /\ Color(n, sel) = Channel(inp, r0)
        BY <2>4, <2>6, <3>2 DEF Ends1, r0
      <4>2. Color(inp, r0.a) \in 0 .. 255 /\ Color(inp, r0.d) \in 0 .. 255
        BY <1>1, ColorIs
      <4>3. Spanned(Ends(r0, inp))
        BY <4>2, PairSpanned DEF Ends
      <4> QED BY <2>2, <3>1, <4>1, <4>3
    <3>3. CASE sel[1] # "combined"
      <4>1. Ends1(sel, inp) = {Color(n, sel)}
        BY <2>6, <3>3 DEF Ends1
      <4>2. Spanned({Color(n, sel), Color(n, sel)}) /\ {Color(n, sel), Color(n, sel)} = {Color(n, sel)}
        BY <3>1, PairSpanned
      <4>3. Within(Color(n, sel), {Color(n, sel)})
        BY <3>1 DEF Within
      <4> QED BY <3>1, <4>1, <4>2, <4>3
    <3> QED BY <3>2, <3>3
  <2>10. Spanned(Colors(inp)) /\ Colors(inp) \subseteq 0 .. 255
    <3>1. Spanned(Colors(inp))
      BY <1>1, <2>5, <2>9, UnionSpanned DEF r1
    <3> QED BY <3>1 DEF Spanned
  <2>11. Within(Color(n, r1.a), Colors(inp)) /\ Within(Color(n, r1.d), Colors(inp))
    BY <1>1, <2>5, <2>9, WithinUp DEF r1
  <2>12. Within(Channel(n, r1), Colors(inp))
    BY <1>1, <2>7, <2>9, <2>10, <2>11, WithinWithin
  <2> QED BY <2>5, <2>7, <2>8, <2>10, <2>12 DEF r1
<1> QED BY <1>2, <1>3

-----------------------------------------------------------------------------
\* Two colors in shares of thirty-two.
Shared(p, m, k, j) == ((p * k + m * j) \div 32) % 256

LEMMA SharedIs ==
  ASSUME NEW p \in 0 .. 255, NEW m \in 0 .. 255, NEW k \in 0 .. 31, NEW j \in 1 .. 32, j = 32 - k
  PROVE  Shared(p, m, k, j) \in 0 .. 255 /\ Within(Shared(p, m, k, j), {p, m})
<1>1. CASE p <= m
  <2>1. PICK n \in Nat : n = m - p
    BY <1>1
  <2>2. PICK q \in Nat : q = n * j /\ q <= 32 * n
    BY ShareOf
  <2>3. p * k + m * j = 32 * p + q
    <3>1. p * k = 32 * p - p * j
      OBVIOUS
    <3>2. m * j = p * j + q
      <4>1. m = p + n
        BY <2>1
      <4> QED BY <4>1, <2>2
    <3>3. PICK u \in Int, v \in Int, w \in Int : u = p * k /\ v = m * j /\ w = p * j
      OBVIOUS
    <3> QED BY <3>1, <3>2, <3>3
  <2>4. (32 * p + q) \div 32 \in p .. m
    BY <2>1, <2>2
  <2>5. ((32 * p + q) \div 32) % 256 \in p .. m
    BY <2>4
  <2>6. Shared(p, m, k, j) \in p .. m
    BY <2>3, <2>5 DEF Shared
  <2> QED BY <2>6 DEF Within
<1>2. CASE m <= p
  <2>1. PICK n \in Nat : n = p - m
    BY <1>2
  <2>2. PICK q \in Nat : q = n * k /\ q <= 32 * n
    <3>1. n * k <= n * 32 /\ n * k \in Nat
      BY ShareOf
    <3> QED BY <3>1
  <2>3. p * k + m * j = 32 * m + q
    <3>1. m * j = 32 * m - m * k
      OBVIOUS
    <3>2. p * k = m * k + q
      <4>1. p = m + n
        BY <2>1
      <4> QED BY <4>1, <2>2
    <3>3. PICK u \in Int, v \in Int, w \in Int : u = p * k /\ v = m * j /\ w = m * k
      OBVIOUS
    <3> QED BY <3>1, <3>2, <3>3
  <2>4. (32 * m + q) \div 32 \in m .. p
    BY <2>1, <2>2
  <2>5. ((32 * m + q) \div 32) % 256 \in m .. p
    BY <2>4
  <2>6. Shared(p, m, k, j) \in m .. p
    BY <2>3, <2>5 DEF Shared
  <2> QED BY <2>6 DEF Within
<1> QED BY <1>1, <1>2

\* The colors a blender chooses from.
Sources(px, memory) == {px.c, memory.c} \cup (IF setup.two THEN {setup.fog.c} ELSE {})

LEMMA BlendIs ==
  ASSUME setup \in Setups, NEW b \in Blends, Shares(b), NEW px, NEW memory, NEW shade,
         px.c \in 0 .. 255, px.a \in 0 .. 255, memory.c \in 0 .. 255, shade.a \in 0 .. 255
  PROVE  /\ blend_cycle(b, px, memory, shade) \in 0 .. 255
         /\ Within(blend_cycle(b, px, memory, shade), Sources(px, memory))
<1>1. setup.fog.c \in 0 .. 255 /\ setup.fog.a \in 0 .. 255
  BY ModesAre DEF Colored
<1>2. PICK p \in 0 .. 255 : p = BlendColor(b.p, px, memory) /\ p \in Sources(px, memory)
  <2>1. b.p = "pixel" \/ b.p = "memory" \/ (b.p = "fog" /\ setup.two)
    BY DEF Shares
  <2> QED BY <2>1, <1>1 DEF BlendColor, Sources
<1>3. PICK m \in 0 .. 255 : m = BlendColor(b.m, px, memory) /\ m \in Sources(px, memory)
  <2>1. b.m = "pixel" \/ b.m = "memory" \/ (b.m = "fog" /\ setup.two)
    BY DEF Shares
  <2> QED BY <2>1, <1>1 DEF BlendColor, Sources
<1>4. PICK alpha \in 0 .. 255 : alpha = BlendAlpha(b.a, px, shade)
  <2>1. b.a = "pixel" \/ b.a = "fog" \/ b.a = "shade" \/ b.a = "zero"
    BY DEF Blends
  <2> QED BY <2>1, <1>1 DEF BlendAlpha
<1>5. SecondAlpha(b.b, memory, alpha) = 255 - alpha
  BY DEF Shares, SecondAlpha
<1>6. PICK k \in 0 .. 31, j \in 1 .. 32 :
        k = Weight(alpha) /\ j = Weight(255 - alpha) + 1 /\ j = 32 - k
  <2>1. /\ Weight(alpha) \in 0 .. 31 /\ Weight(255 - alpha) + 1 \in 1 .. 32
        /\ Weight(255 - alpha) + 1 = 32 - Weight(alpha)
    BY DEF Weight
  <2> QED BY <2>1
<1>7. blend_cycle(b, px, memory, shade) = Shared(p, m, k, j)
  <2>1. blend_cycle(b, px, memory, shade) =
          ((p * Weight(alpha) + m * (Weight(255 - alpha) + 1)) \div 32) % 256
    BY <1>2, <1>3, <1>4, <1>5, Zenon DEF blend_cycle
  <2> QED BY <1>6, <2>1 DEF Shared
<1>8. Shared(p, m, k, j) \in 0 .. 255 /\ Within(Shared(p, m, k, j), {p, m})
  BY <1>6, SharedIs
<1>9. Within(blend_cycle(b, px, memory, shade), Sources(px, memory))
  BY <1>2, <1>3, <1>7, <1>8, WithinUp
<1> QED BY <1>7, <1>8, <1>9

LEMMA BlendsAre ==
  ASSUME setup \in Setups, Mixing, NEW px, NEW memory, NEW shade,
         px = [c |-> px.c, a |-> px.a], px.c \in 0 .. 255, px.a \in 0 .. 255,
         memory.c \in 0 .. 255, shade.a \in 0 .. 255
  PROVE  /\ blend(px, memory, shade) \in 0 .. 255
         /\ Within(blend(px, memory, shade), Sources(px, memory))
<1> DEFINE first == blend_cycle(setup.blend[1], px, memory, shade)
           again == [px EXCEPT !.c = first]
<1>1. first \in 0 .. 255 /\ Within(first, Sources(px, memory))
  BY ModesAre, BlendIs DEF Mixing
<1>2. CASE ~setup.two
  BY <1>1, <1>2 DEF blend
<1>3. CASE setup.two
  <2>1. blend(px, memory, shade) = blend_cycle(setup.blend[2], again, memory, shade)
    BY <1>3 DEF blend
  <2>2. again.c = first /\ again.a = px.a
    OBVIOUS
  <2> HIDE DEF first, again
  <2> DEFINE x == blend_cycle(setup.blend[2], again, memory, shade)
  <2>3. x \in 0 .. 255 /\ Within(x, Sources(again, memory))
    BY <1>1, <1>3, <2>2, ModesAre, BlendIs DEF Mixing
  <2> HIDE DEF x
  <2>4. /\ Sources(again, memory) = {first, memory.c, setup.fog.c}
        /\ Sources(px, memory) = {px.c, memory.c, setup.fog.c}
    BY <1>3, <2>2 DEF Sources
  <2>5. setup.fog.c \in 0 .. 255
    BY ModesAre DEF Colored
  <2>6. PICK lo \in {first, memory.c, setup.fog.c}, hi \in {first, memory.c, setup.fog.c} :
          lo <= x /\ x <= hi
    BY <2>3, <2>4 DEF Within
  <2>7. Within(lo, Sources(px, memory)) /\ Within(hi, Sources(px, memory))
    <3>1. /\ Within(memory.c, Sources(px, memory))
          /\ Within(setup.fog.c, Sources(px, memory))
      BY <2>4, <2>5 DEF Within
    <3> QED BY <1>1, <3>1
  <2>8. Within(x, {lo, hi}) /\ lo \in 0 .. 255 /\ hi \in 0 .. 255
    BY <1>1, <2>5, <2>6 DEF Within
  <2>9. Within(x, Sources(px, memory))
    <3>1. Sources(px, memory) \subseteq 0 .. 255
      BY <2>4, <2>5
    <3> QED BY <2>3, <2>7, <2>8, <3>1, WithinWithin
  <2> QED BY <2>1, <2>3, <2>9 DEF x
<1> QED BY <1>2, <1>3

-----------------------------------------------------------------------------
LEMMA InputsAre ==
  ASSUME MixInv, NEW f \in Fragments[setup], f.inp["lod"] \in Colored
  PROVE  Wired(f.inp)
<1>1. setup \in Setups
  BY DEF MixInv
<1>2. /\ f.inp \in InputValues
      /\ \A s \in Signals : f.inp[s] \in Colored
      /\ f.inp["one"] = [c |-> 256, a |-> 256]
  <2>1. /\ f.inp \in InputValues
        /\ \A s \in Signals : f.inp[s] \in Colored
        /\ f.inp.one = [c |-> 256, a |-> 256]
    BY <1>1, PixelAssumption
  <2> QED BY <2>1
<1>3. \A s \in Signals \cup {"lod"} : f.inp[s] \in Colored
  BY <1>2
<1> QED BY <1>2, <1>3 DEF Wired

\* The pixel as the next layer reads it is the same one of 32 levels.
LEMMA PixelReads ==
  ASSUME NEW c \in 0 .. 31
  PROVE  8 * c + (c \div 4) \in 0 .. 255 /\ (8 * c + (c \div 4)) \div 8 = c
OBVIOUS

LEMMA LevelUp ==
  ASSUME NEW x \in 0 .. 255, NEW y \in 0 .. 255, x <= y
  PROVE  x \div 8 <= y \div 8 /\ x \div 8 \in 0 .. 31
OBVIOUS

\* What a layer shows is a mix of its colors and, if it is blended, of the pixel.
LEMMA ShownIs ==
  ASSUME MixInv, NEW f \in Fragments[setup], Wired(f.inp), Mixing, setup.dither = "off",
         pixel.c \in 0 .. 31
  PROVE  LET under == unpack(pixel).c
             S == Colors(f.inp) \cup (IF setup.two THEN {setup.fog.c} ELSE {})
                    \cup (IF f.force_blend THEN {under} ELSE {})
         IN \E x \in 0 .. 255 : Shown(f).c = x \div 8 /\ Within(x, S)
<1> DEFINE color == combine(f.inp)
           under == unpack(pixel).c
           S == Colors(f.inp) \cup (IF setup.two THEN {setup.fog.c} ELSE {})
                  \cup (IF f.force_blend THEN {under} ELSE {})
           final == IF f.force_blend THEN blend(color, unpack(pixel), f.inp.shade) ELSE color.c
<1>1. setup \in Setups
  BY DEF MixInv
<1>2. /\ color.c \in 0 .. 255 /\ color.a \in 0 .. 255
      /\ Within(color.c, Colors(f.inp)) /\ Spanned(Colors(f.inp))
  BY <1>1, CombineIs DEF Mixing
<1>3. under \in 0 .. 255
  BY PixelReads DEF unpack
<1>4. f.inp["shade"].a \in 0 .. 255
  <2>1. f.inp["shade"] \in Colored
    BY DEF Wired, Signals
  <2> QED BY <2>1 DEF Colored
<1>5. color = [c |-> color.c, a |-> color.a]
  BY DEF combine, combine_cycle
<1>6. setup.fog.c \in 0 .. 255
  BY <1>1, ModesAre DEF Colored
<1> HIDE DEF color
<1>7. S \subseteq 0 .. 255
  BY <1>2, <1>3, <1>6 DEF Spanned
<1>8. final \in 0 .. 255 /\ Within(final, S)
  <2>1. CASE f.force_blend
    <3>1. /\ final = blend(color, unpack(pixel), f.inp.shade) /\ final \in 0 .. 255
          /\ Within(final, Sources(color, unpack(pixel)))
      BY <1>1, <1>2, <1>3, <1>4, <1>5, <2>1, BlendsAre
    <3> HIDE DEF final, under
    <3>2. /\ Sources(color, unpack(pixel)) =
               {color.c, under} \cup (IF setup.two THEN {setup.fog.c} ELSE {})
          /\ S = Colors(f.inp) \cup (IF setup.two THEN {setup.fog.c} ELSE {}) \cup {under}
      BY <2>1 DEF Sources, under
    <3>3. PICK lo \in Sources(color, unpack(pixel)), hi \in Sources(color, unpack(pixel)) :
            lo <= final /\ final <= hi
      BY <3>1 DEF Within
    <3> HIDE DEF S
    <3>4. \A y \in Sources(color, unpack(pixel)) : Within(y, S) /\ y \in 0 .. 255
      <4>1. Within(color.c, S)
        BY <1>2, <3>2, WithinUp
      <4>2. Within(under, S)
        BY <1>3, <3>2 DEF Within
      <4>3. setup.two => Within(setup.fog.c, S)
        <5> SUFFICES ASSUME setup.two PROVE Within(setup.fog.c, S)
          OBVIOUS
        <5>1. S = Colors(f.inp) \cup {setup.fog.c} \cup {under}
          BY <3>2
        <5> QED BY <1>6, <5>1 DEF Within
      <4> QED BY <1>2, <1>3, <1>6, <3>2, <4>1, <4>2, <4>3
    <3>5. Within(final, {lo, hi})
      BY <3>3 DEF Within
    <3>6. lo \in 0 .. 255 /\ hi \in 0 .. 255 /\ Within(lo, S) /\ Within(hi, S)
      BY <3>3, <3>4
    <3>7. Within(final, S)
      BY <1>7, <3>1, <3>5, <3>6, WithinWithin
    <3> QED BY <3>1, <3>7
  <2>2. CASE ~f.force_blend
    <3>1. final = color.c /\ Colors(f.inp) \subseteq S
      BY <2>2
    <3> QED BY <1>2, <3>1, WithinUp
  <2> QED BY <2>1, <2>2
<1>9. Shown(f).c = final \div 8
  <2>1. DitherCell(setup.dither, f.x, f.y) = 7
    BY DEF DitherCell
  <2>2. apply_dither(final, 7) = final
    <3> HIDE DEF final
    <3> QED BY <1>8 DEF apply_dither
  <2> QED BY <2>1, <2>2 DEF Shown, pack, color
<1> HIDE DEF final, S
<1>10. \E x \in 0 .. 255 : Shown(f).c = x \div 8 /\ Within(x, S)
  BY <1>8, <1>9
<1> QED BY <1>10 DEF S, under

LEMMA MixInit == PixelInit => MixInv
<1> SUFFICES ASSUME PixelInit PROVE MixInv
  OBVIOUS
<1>1. setup \in Setups /\ drawn = {} /\ layers = {0} /\ pixel.c = 0
  BY DEF PixelInit
<1>2. Spanned({0})
  BY DEF Spanned
<1> QED BY <1>1, <1>2 DEF MixInv

\* A layer that is written leaves a mix, of its own colors or of those and the layers'.
LEMMA LayerKept ==
  ASSUME MixInv, NEW f \in Fragments[setup], DrawFragment(f), setup.dither = "off",
         Mixing, Mixing', depth_pass(f) /\ Kept(f)
  PROVE  /\ Spanned(layers') /\ pixel'.c \in 0 .. 31
         /\ \E lo, hi \in layers' : lo \div 8 <= pixel'.c /\ pixel'.c <= hi \div 8
<1>1. setup \in Setups /\ setup' = setup /\ drawn' = drawn \cup {f}
  BY DEF MixInv, DrawFragment
<1>2. /\ Spanned(layers) /\ pixel.c \in 0 .. 31
      /\ \E lo, hi \in layers : lo \div 8 <= pixel.c /\ pixel.c <= hi \div 8
  BY DEF MixInv
<1>3. CASE f.flat
  <2>1. pixel' = setup.fill /\ layers' = {unpack(setup.fill).c}
    BY <1>3 DEF DrawFragment
  <2>2. PICK c \in 0 .. 31 : c = setup.fill.c
    BY <1>1, ModesAre
  <2>3. PICK x \in 0 .. 255 : x = 8 * c + (c \div 4) /\ x \div 8 = c
    BY PixelReads
  <2>4. layers' = {x} /\ pixel'.c = c
    BY <2>1, <2>2, <2>3 DEF unpack
  <2>5. Spanned({x, x}) /\ {x, x} = {x}
    BY PairSpanned
  <2>6. x \in layers' /\ x \div 8 <= pixel'.c /\ pixel'.c <= x \div 8
    BY <2>3, <2>4
  <2>7. Spanned(layers') /\ pixel'.c \in 0 .. 31
    BY <2>2, <2>4, <2>5
  <2> QED BY <2>6, <2>7
<1>4. CASE ~f.flat
  <2> DEFINE under == unpack(pixel).c
             T == Colors(f.inp) \cup (IF setup.two THEN {setup.fog.c} ELSE {})
             S == T \cup (IF f.force_blend THEN {under} ELSE {})
  <2>1. pixel' = Shown(f) /\ layers' = T \cup (IF f.force_blend THEN layers ELSE {})
    BY <1>4 DEF DrawFragment
  <2>2. f.inp["lod"] \in Colored
    BY <1>1 DEF Mixing
  <2>3. Wired(f.inp)
    BY <2>2, InputsAre
  <2>4. PICK x \in 0 .. 255 : Shown(f).c = x \div 8 /\ Within(x, S)
    BY <1>2, <2>3, ShownIs
  <2>5. Spanned(T)
    <3>1. Spanned(Colors(f.inp))
      BY <1>1, <2>3, CombineIs DEF Mixing
    <3>2. CASE setup.two
      <4>1. setup.fog.c \in 0 .. 255
        BY <1>1, ModesAre DEF Colored
      <4>2. Spanned({setup.fog.c, setup.fog.c}) /\ {setup.fog.c, setup.fog.c} = {setup.fog.c}
        BY <4>1, PairSpanned
      <4> QED BY <3>1, <3>2, <4>2, UnionSpanned
    <3>3. CASE ~setup.two
      BY <3>1, <3>3
    <3> QED BY <3>2, <3>3
  <2>6. under = 8 * pixel.c + (pixel.c \div 4)
    BY DEF unpack
  <2>7. under \in 0 .. 255 /\ under \div 8 = pixel.c
    BY <1>2, <2>6, PixelReads
  <2>8. S = T \cup (IF f.force_blend THEN {under} ELSE {})
    OBVIOUS
  <2> HIDE DEF under, S, T
  <2>9. Spanned(layers')
    BY <1>2, <2>1, <2>5, UnionSpanned
  <2>10. T \subseteq 0 .. 255 /\ layers \subseteq 0 .. 255 /\ layers' \subseteq 0 .. 255
    BY <1>2, <2>5, <2>9 DEF Spanned
  <2>11. PICK l \in S, h \in S : l <= x /\ x <= h
    BY <2>4 DEF Within
  <2>12. \E lo \in layers' : lo \div 8 <= x \div 8
    <3>1. CASE l \in T
      BY <2>1, <2>10, <2>11, <3>1, LevelUp
    <3>2. CASE l \notin T
      <4>1. f.force_blend /\ l = under
        BY <2>8, <3>2
      <4>2. under \div 8 <= x \div 8
        BY <2>7, <2>11, <4>1, LevelUp
      <4>3. PICK lo \in layers : lo \div 8 <= pixel.c
        BY <1>2
      <4>4. lo \div 8 \in Int /\ x \div 8 \in Int
        BY <2>10
      <4> QED BY <1>2, <2>1, <2>7, <4>1, <4>2, <4>3, <4>4
    <3> QED BY <3>1, <3>2
  <2>13. \E hi \in layers' : x \div 8 <= hi \div 8
    <3>1. CASE h \in T
      BY <2>1, <2>10, <2>11, <3>1, LevelUp
    <3>2. CASE h \notin T
      <4>1. f.force_blend /\ h = under
        BY <2>8, <3>2
      <4>2. x \div 8 <= under \div 8
        BY <2>7, <2>11, <4>1, LevelUp
      <4>3. PICK hi \in layers : pixel.c <= hi \div 8
        BY <1>2
      <4>4. hi \div 8 \in Int /\ x \div 8 \in Int
        BY <2>10
      <4> QED BY <1>2, <2>1, <2>7, <4>1, <4>2, <4>3, <4>4
    <3> QED BY <3>1, <3>2
  <2>14. pixel'.c = x \div 8 /\ x \div 8 \in 0 .. 31
    BY <2>1, <2>4
  <2> QED BY <2>9, <2>12, <2>13, <2>14
<1> QED BY <1>3, <1>4

LEMMA MixStep == MixInv /\ [PixelNext]_pixelVars => MixInv'
<1> SUFFICES ASSUME MixInv, [PixelNext]_pixelVars PROVE MixInv'
  OBVIOUS
<1>1. CASE UNCHANGED pixelVars
  BY <1>1 DEF pixelVars, MixInv, Mixing, Shares, Interpolates
<1>2. ASSUME NEW f \in Fragments[setup], DrawFragment(f)
      PROVE  MixInv'
  <2>1. setup' = setup /\ drawn' = drawn \cup {f}
    BY <1>2 DEF DrawFragment
  <2>2. setup' \in Setups /\ drawn' \subseteq Fragments[setup']
    BY <2>1 DEF MixInv
  <2>3. ASSUME setup'.dither = "off", Mixing'
        PROVE  /\ Spanned(layers') /\ pixel'.c \in 0 .. 31
               /\ \E lo, hi \in layers' : lo \div 8 <= pixel'.c /\ pixel'.c <= hi \div 8
    <3>1. setup.dither = "off" /\ Mixing
      BY <2>1, <2>3 DEF Mixing, Shares, Interpolates
    <3>2. CASE depth_pass(f) /\ Kept(f)
      BY <1>2, <2>3, <3>1, <3>2, LayerKept
    <3>3. CASE ~(depth_pass(f) /\ Kept(f))
      <4>1. layers' = layers /\ pixel' = pixel
        BY <1>2, <3>3 DEF DrawFragment
      <4> QED BY <3>1, <4>1 DEF MixInv
    <3> QED BY <3>2, <3>3
  <2>4. Spanned(layers)' <=> Spanned(layers')
    BY DEF Spanned
  <2> QED BY <2>2, <2>3, <2>4 DEF MixInv
<1> QED BY <1>1, <1>2 DEF PixelNext

LEMMA MixHolds == MixInv => LayersMix
<1> SUFFICES ASSUME MixInv, setup.dither = "off", Mixing
             PROVE  Min(layers) \div 8 <= pixel.c /\ pixel.c <= Max(layers) \div 8
  BY DEF LayersMix
<1>1. /\ Spanned(layers) /\ pixel.c \in 0 .. 31
      /\ \E lo, hi \in layers : lo \div 8 <= pixel.c /\ pixel.c <= hi \div 8
  BY DEF MixInv
<1>2. PICK l \in layers, h \in layers : l \div 8 <= pixel.c /\ pixel.c <= h \div 8
  BY <1>1
<1>3. layers \subseteq 0 .. 255
  BY <1>1 DEF Spanned
<1>4. Min(layers) \in layers /\ \A y \in layers : Min(layers) <= y
  <2>1. \E lo \in layers : \A y \in layers : lo <= y
    BY <1>1 DEF Spanned
  <2> QED BY <2>1 DEF Min
<1>5. Max(layers) \in layers /\ \A y \in layers : Max(layers) >= y
  <2>1. \E hi \in layers : \A y \in layers : hi >= y
    <3>1. PICK hi \in layers : \A y \in layers : y <= hi
      BY <1>1 DEF Spanned
    <3>2. \A y \in layers : hi >= y
      BY <1>3, <3>1
    <3> QED BY <3>2
  <2> QED BY <2>1 DEF Max
<1>6. /\ l \in 0 .. 255 /\ h \in 0 .. 255
      /\ Min(layers) \in 0 .. 255 /\ Max(layers) \in 0 .. 255
      /\ Min(layers) <= l /\ h <= Max(layers)
  <2>1. Max(layers) >= h
    BY <1>5
  <2> QED BY <1>3, <1>4, <1>5, <2>1
<1>7. Min(layers) \div 8 <= l \div 8 /\ h \div 8 <= Max(layers) \div 8
  BY <1>6, LevelUp
<1>8. /\ Min(layers) \div 8 \in Int /\ l \div 8 \in Int /\ h \div 8 \in Int
      /\ Max(layers) \div 8 \in Int
  BY <1>6
<1> QED BY <1>1, <1>2, <1>7, <1>8

-----------------------------------------------------------------------------
\* The cells of the two matrices: each of the eight levels twice.
LEMMA MagicCells ==
  ASSUME NEW m \in {"magic", "noise"}
  PROVE  /\ DitherCell(m, 0, 0) = 0 /\ DitherCell(m, 1, 0) = 6 /\ DitherCell(m, 2, 0) = 1 /\ DitherCell(m, 3, 0) = 7
         /\ DitherCell(m, 0, 1) = 4 /\ DitherCell(m, 1, 1) = 2 /\ DitherCell(m, 2, 1) = 5 /\ DitherCell(m, 3, 1) = 3
         /\ DitherCell(m, 0, 2) = 3 /\ DitherCell(m, 1, 2) = 5 /\ DitherCell(m, 2, 2) = 2 /\ DitherCell(m, 3, 2) = 4
         /\ DitherCell(m, 0, 3) = 7 /\ DitherCell(m, 1, 3) = 1 /\ DitherCell(m, 2, 3) = 6 /\ DitherCell(m, 3, 3) = 0
<1>1. DitherCell(m, 0, 0) = 0 /\ DitherCell(m, 1, 0) = 6 /\ DitherCell(m, 2, 0) = 1 /\ DitherCell(m, 3, 0) = 7
  BY DEF DitherCell, DITHER_MAGIC
<1>2. DitherCell(m, 0, 1) = 4 /\ DitherCell(m, 1, 1) = 2 /\ DitherCell(m, 2, 1) = 5 /\ DitherCell(m, 3, 1) = 3
  BY DEF DitherCell, DITHER_MAGIC
<1>3. DitherCell(m, 0, 2) = 3 /\ DitherCell(m, 1, 2) = 5 /\ DitherCell(m, 2, 2) = 2 /\ DitherCell(m, 3, 2) = 4
  BY DEF DitherCell, DITHER_MAGIC
<1>4. DitherCell(m, 0, 3) = 7 /\ DitherCell(m, 1, 3) = 1 /\ DitherCell(m, 2, 3) = 6 /\ DitherCell(m, 3, 3) = 0
  BY DEF DitherCell, DITHER_MAGIC
<1> QED BY <1>1, <1>2, <1>3, <1>4

LEMMA BayerCells ==
  ASSUME NEW m \in {"bayer"}
  PROVE  /\ DitherCell(m, 0, 0) = 0 /\ DitherCell(m, 1, 0) = 4 /\ DitherCell(m, 2, 0) = 1 /\ DitherCell(m, 3, 0) = 5
         /\ DitherCell(m, 0, 1) = 4 /\ DitherCell(m, 1, 1) = 0 /\ DitherCell(m, 2, 1) = 5 /\ DitherCell(m, 3, 1) = 1
         /\ DitherCell(m, 0, 2) = 3 /\ DitherCell(m, 1, 2) = 7 /\ DitherCell(m, 2, 2) = 2 /\ DitherCell(m, 3, 2) = 6
         /\ DitherCell(m, 0, 3) = 7 /\ DitherCell(m, 1, 3) = 3 /\ DitherCell(m, 2, 3) = 6 /\ DitherCell(m, 3, 3) = 2
<1>1. DitherCell(m, 0, 0) = 0 /\ DitherCell(m, 1, 0) = 4 /\ DitherCell(m, 2, 0) = 1 /\ DitherCell(m, 3, 0) = 5
  BY DEF DitherCell, DITHER_BAYER
<1>2. DitherCell(m, 0, 1) = 4 /\ DitherCell(m, 1, 1) = 0 /\ DitherCell(m, 2, 1) = 5 /\ DitherCell(m, 3, 1) = 1
  BY DEF DitherCell, DITHER_BAYER
<1>3. DitherCell(m, 0, 2) = 3 /\ DitherCell(m, 1, 2) = 7 /\ DitherCell(m, 2, 2) = 2 /\ DitherCell(m, 3, 2) = 6
  BY DEF DitherCell, DITHER_BAYER
<1>4. DitherCell(m, 0, 3) = 7 /\ DitherCell(m, 1, 3) = 3 /\ DitherCell(m, 2, 3) = 6 /\ DitherCell(m, 3, 3) = 2
  BY DEF DitherCell, DITHER_BAYER
<1> QED BY <1>1, <1>2, <1>3, <1>4

\* A level is raised where its cell is below what the truncation drops.
Raised(c, cell) == c \div 8 + (IF cell < c % 8 THEN 1 ELSE 0)

LEMMA RaisedIs ==
  ASSUME NEW c \in 0 .. 247, NEW cell \in 0 .. 7
  PROVE  apply_dither(c, cell) \div 8 = Raised(c, cell)
BY DEF apply_dither, Raised

\* Two of each.
LEMMA RaisedSum ==
  ASSUME NEW c \in 0 .. 247
  PROVE  /\ \A j \in 0 .. 7 : Raised(c, j) \in Int
         /\ 2 * (Raised(c, 0) + Raised(c, 1) + Raised(c, 2) + Raised(c, 3)
                + Raised(c, 4) + Raised(c, 5) + Raised(c, 6) + Raised(c, 7)) = 2 * c
<1>1. PICK q \in 0 .. 30, r \in 0 .. 7 : q = c \div 8 /\ r = c % 8 /\ c = 8 * q + r
  OBVIOUS
<1>2. \A j \in 0 .. 7 : Raised(c, j) = q + (IF j < r THEN 1 ELSE 0)
  BY <1>1 DEF Raised
<1>3. /\ Raised(c, 0) = q + (IF 0 < r THEN 1 ELSE 0) /\ Raised(c, 1) = q + (IF 1 < r THEN 1 ELSE 0)
      /\ Raised(c, 2) = q + (IF 2 < r THEN 1 ELSE 0) /\ Raised(c, 3) = q + (IF 3 < r THEN 1 ELSE 0)
      /\ Raised(c, 4) = q + (IF 4 < r THEN 1 ELSE 0) /\ Raised(c, 5) = q + (IF 5 < r THEN 1 ELSE 0)
      /\ Raised(c, 6) = q + (IF 6 < r THEN 1 ELSE 0) /\ Raised(c, 7) = q + (IF 7 < r THEN 1 ELSE 0)
  BY <1>2
<1>4. Raised(c, 0) + Raised(c, 1) + Raised(c, 2) + Raised(c, 3)
        + Raised(c, 4) + Raised(c, 5) + Raised(c, 6) + Raised(c, 7) = 8 * q + r
  BY <1>3
<1>5. \A j \in 0 .. 7 : Raised(c, j) \in Int
  BY <1>2
<1>6. 2 * (8 * q + r) = 2 * c
  BY <1>1
<1> QED BY <1>4, <1>5, <1>6

LEMMA DitherHolds == DitherKeepsMean
<1> SUFFICES ASSUME setup.dither \in {"magic", "bayer", "noise"}, NEW c \in 0 .. 247
             PROVE  LevelsOf(c, 0) + LevelsOf(c, 1) + LevelsOf(c, 2) + LevelsOf(c, 3) = 2 * c
  BY DEF DitherKeepsMean
<1>1. ASSUME NEW k \in 0 .. 15, NEW j \in 0 .. 7,
             DitherCell(setup.dither, k % 4, k \div 4) = j
      PROVE  Level(c, k) = Raised(c, j)
  BY <1>1, RaisedIs DEF Level
<1>2. /\ \A j \in 0 .. 7 : Raised(c, j) \in Int
      /\ 2 * (Raised(c, 0) + Raised(c, 1) + Raised(c, 2) + Raised(c, 3)
             + Raised(c, 4) + Raised(c, 5) + Raised(c, 6) + Raised(c, 7)) = 2 * c
  BY RaisedSum
<1>3. CASE setup.dither \in {"magic", "noise"}
  <2>1. Level(c, 0) = Raised(c, 0) /\ Level(c, 1) = Raised(c, 6) /\ Level(c, 2) = Raised(c, 1) /\ Level(c, 3) = Raised(c, 7)
    <3>1. /\ DitherCell(setup.dither, 0 % 4, 0 \div 4) = 0
          /\ DitherCell(setup.dither, 1 % 4, 1 \div 4) = 6
          /\ DitherCell(setup.dither, 2 % 4, 2 \div 4) = 1
          /\ DitherCell(setup.dither, 3 % 4, 3 \div 4) = 7
      BY <1>3, MagicCells
    <3> QED BY <1>1, <3>1
  <2>2. Level(c, 4) = Raised(c, 4) /\ Level(c, 5) = Raised(c, 2) /\ Level(c, 6) = Raised(c, 5) /\ Level(c, 7) = Raised(c, 3)
    <3>1. /\ DitherCell(setup.dither, 4 % 4, 4 \div 4) = 4
          /\ DitherCell(setup.dither, 5 % 4, 5 \div 4) = 2
          /\ DitherCell(setup.dither, 6 % 4, 6 \div 4) = 5
          /\ DitherCell(setup.dither, 7 % 4, 7 \div 4) = 3
      BY <1>3, MagicCells
    <3> QED BY <1>1, <3>1
  <2>3. Level(c, 8) = Raised(c, 3) /\ Level(c, 9) = Raised(c, 5) /\ Level(c, 10) = Raised(c, 2) /\ Level(c, 11) = Raised(c, 4)
    <3>1. /\ DitherCell(setup.dither, 8 % 4, 8 \div 4) = 3
          /\ DitherCell(setup.dither, 9 % 4, 9 \div 4) = 5
          /\ DitherCell(setup.dither, 10 % 4, 10 \div 4) = 2
          /\ DitherCell(setup.dither, 11 % 4, 11 \div 4) = 4
      BY <1>3, MagicCells
    <3> QED BY <1>1, <3>1
  <2>4. Level(c, 12) = Raised(c, 7) /\ Level(c, 13) = Raised(c, 1) /\ Level(c, 14) = Raised(c, 6) /\ Level(c, 15) = Raised(c, 0)
    <3>1. /\ DitherCell(setup.dither, 12 % 4, 12 \div 4) = 7
          /\ DitherCell(setup.dither, 13 % 4, 13 \div 4) = 1
          /\ DitherCell(setup.dither, 14 % 4, 14 \div 4) = 6
          /\ DitherCell(setup.dither, 15 % 4, 15 \div 4) = 0
      BY <1>3, MagicCells
    <3> QED BY <1>1, <3>1
  <2>5. LevelsOf(c, 0) = Raised(c, 0) + Raised(c, 6) + Raised(c, 1) + Raised(c, 7)
    BY <2>1 DEF LevelsOf
  <2>6. LevelsOf(c, 1) = Raised(c, 4) + Raised(c, 2) + Raised(c, 5) + Raised(c, 3)
    BY <2>2 DEF LevelsOf
  <2>7. LevelsOf(c, 2) = Raised(c, 3) + Raised(c, 5) + Raised(c, 2) + Raised(c, 4)
    BY <2>3 DEF LevelsOf
  <2>8. LevelsOf(c, 3) = Raised(c, 7) + Raised(c, 1) + Raised(c, 6) + Raised(c, 0)
    BY <2>4 DEF LevelsOf
  <2> QED BY <1>2, <2>5, <2>6, <2>7, <2>8
<1>4. CASE setup.dither = "bayer"
  <2>1. Level(c, 0) = Raised(c, 0) /\ Level(c, 1) = Raised(c, 4) /\ Level(c, 2) = Raised(c, 1) /\ Level(c, 3) = Raised(c, 5)
    <3>1. /\ DitherCell(setup.dither, 0 % 4, 0 \div 4) = 0
          /\ DitherCell(setup.dither, 1 % 4, 1 \div 4) = 4
          /\ DitherCell(setup.dither, 2 % 4, 2 \div 4) = 1
          /\ DitherCell(setup.dither, 3 % 4, 3 \div 4) = 5
      BY <1>4, BayerCells
    <3> QED BY <1>1, <3>1
  <2>2. Level(c, 4) = Raised(c, 4) /\ Level(c, 5) = Raised(c, 0) /\ Level(c, 6) = Raised(c, 5) /\ Level(c, 7) = Raised(c, 1)
    <3>1. /\ DitherCell(setup.dither, 4 % 4, 4 \div 4) = 4
          /\ DitherCell(setup.dither, 5 % 4, 5 \div 4) = 0
          /\ DitherCell(setup.dither, 6 % 4, 6 \div 4) = 5
          /\ DitherCell(setup.dither, 7 % 4, 7 \div 4) = 1
      BY <1>4, BayerCells
    <3> QED BY <1>1, <3>1
  <2>3. Level(c, 8) = Raised(c, 3) /\ Level(c, 9) = Raised(c, 7) /\ Level(c, 10) = Raised(c, 2) /\ Level(c, 11) = Raised(c, 6)
    <3>1. /\ DitherCell(setup.dither, 8 % 4, 8 \div 4) = 3
          /\ DitherCell(setup.dither, 9 % 4, 9 \div 4) = 7
          /\ DitherCell(setup.dither, 10 % 4, 10 \div 4) = 2
          /\ DitherCell(setup.dither, 11 % 4, 11 \div 4) = 6
      BY <1>4, BayerCells
    <3> QED BY <1>1, <3>1
  <2>4. Level(c, 12) = Raised(c, 7) /\ Level(c, 13) = Raised(c, 3) /\ Level(c, 14) = Raised(c, 6) /\ Level(c, 15) = Raised(c, 2)
    <3>1. /\ DitherCell(setup.dither, 12 % 4, 12 \div 4) = 7
          /\ DitherCell(setup.dither, 13 % 4, 13 \div 4) = 3
          /\ DitherCell(setup.dither, 14 % 4, 14 \div 4) = 6
          /\ DitherCell(setup.dither, 15 % 4, 15 \div 4) = 2
      BY <1>4, BayerCells
    <3> QED BY <1>1, <3>1
  <2>5. LevelsOf(c, 0) = Raised(c, 0) + Raised(c, 4) + Raised(c, 1) + Raised(c, 5)
    BY <2>1 DEF LevelsOf
  <2>6. LevelsOf(c, 1) = Raised(c, 4) + Raised(c, 0) + Raised(c, 5) + Raised(c, 1)
    BY <2>2 DEF LevelsOf
  <2>7. LevelsOf(c, 2) = Raised(c, 3) + Raised(c, 7) + Raised(c, 2) + Raised(c, 6)
    BY <2>3 DEF LevelsOf
  <2>8. LevelsOf(c, 3) = Raised(c, 7) + Raised(c, 3) + Raised(c, 6) + Raised(c, 2)
    BY <2>4 DEF LevelsOf
  <2> QED BY <1>2, <2>5, <2>6, <2>7, <2>8
<1> QED BY <1>3, <1>4

\* A pixel is no darker than the darkest of the colors mixed into it and no brighter than
\* the brightest, for modes that interpolate of any selections, any colors and any number
\* of layers, and each ordered dither keeps the mean (combine, blend_cycle, dither_pixel).
THEOREM ColorsCorrect == PixelSpec => []ColorsMix
<1>1. PixelSpec => []MixInv
  BY MixInit, MixStep, PTL DEF PixelSpec
<1>2. MixInv => ColorsMix
  BY MixHolds, DitherHolds DEF ColorsMix
<1> QED BY <1>1, <1>2, PTL

-----------------------------------------------------------------------------
(* Coverage.                                                               *)

LEMMA MinOfTwo ==
  ASSUME NEW a \in Int, NEW b \in Int
  PROVE  Min({a, b}) = IF a <= b THEN a ELSE b
<1>1. \E x \in {a, b} : \A y \in {a, b} : x <= y
  OBVIOUS
<1>2. Min({a, b}) \in {a, b} /\ \A y \in {a, b} : Min({a, b}) <= y
  BY <1>1 DEF Min
<1>. QED
  BY <1>2

LEMMA EighthIs == ONE \div 8 \in Nat \ {0} /\ ONE = 8 * (ONE \div 8)
  BY RasterAssumption

\* The last bit that the truncation sets makes an edge pass every even eighth it passes.
LEMMA QuantizeIs ==
  ASSUME NEW x \in Int, NEW n \in Int
  PROVE  /\ quantize_x(x) \in Int
         /\ quantize_x(x) <= 2 * n <=> x <= (2 * n) * (ONE \div 8)
<1> DEFINE u == ONE \div 8
           q == x \div u
           r == x % u
<1>1. u \in Nat \ {0}
  BY EighthIs
<1>2. q \in Int /\ r \in 0 .. u - 1 /\ x = u * q + r
  <2> HIDE DEF u
  <2> QED BY <1>1
<1>3. quantize_x(x) = IF r # 0 /\ q % 2 = 0 THEN q + 1 ELSE q
  BY DEF quantize_x
<1>4. x <= (2 * n) * u <=> q <= 2 * n /\ (r # 0 => q < 2 * n)
  <2> HIDE DEF u, q, r
  <2> DEFINE m == 2 * n
  <2>1. m \in Int
    OBVIOUS
  <2> HIDE DEF m
  <2>2. CASE q < m
    <3>1. PICK d \in Nat : m = q + 1 + d
      BY <2>2, <2>1, <1>2, m - q - 1 \in Nat
    <3>2. m * u = (q * u + u) + d * u /\ d * u \in Nat
      BY <3>1, <1>1, <1>2
    <3>3. q * u \in Int /\ u * q = q * u /\ m * u \in Int
      BY <1>1, <1>2, <2>1
    <3> QED BY <3>2, <3>3, <1>1, <1>2, <2>1, <2>2
  <2>3. CASE q = m
    <3>1. m * u = u * q /\ u * q \in Int
      BY <2>3, <1>1, <1>2, <2>1
    <3> QED BY <3>1, <1>1, <1>2, <2>3
  <2>4. CASE q > m
    <3>1. PICK d \in Nat : q = m + 1 + d
      BY <2>4, <2>1, <1>2, q - m - 1 \in Nat
    <3>2. u * q = (m * u + u) + d * u /\ d * u \in Nat
      BY <3>1, <1>1, <1>2, <2>1
    <3>3. u * q \in Int /\ m * u \in Int
      BY <1>1, <1>2, <2>1
    <3> QED BY <3>2, <3>3, <1>1, <1>2, <2>1, <2>4
  <2> QED BY <2>1, <2>2, <2>3, <2>4, <1>2 DEF m
<1> HIDE DEF u, q, r
<1>5. q % 2 = 0 => (q + 1 <= 2 * n <=> q < 2 * n)
  BY <1>2
<1>6. q % 2 # 0 => (q <= 2 * n <=> q < 2 * n)
  BY <1>2
<1> QED BY <1>2, <1>3, <1>4, <1>5, <1>6 DEF u

LEMMA ClampIs ==
  ASSUME NEW x \in Int, NEW s, s.ulx \in Nat, s.lrx \in Nat, s.ulx < s.lrx
  PROVE  Clamped(x, s) =
           IF x < 2 * s.ulx THEN 2 * s.ulx ELSE IF x > 2 * s.lrx THEN 2 * s.lrx ELSE x
<1> DEFINE a == 2 * s.ulx
           b == 2 * s.lrx
<1>1. a \in Int /\ b \in Int /\ a < b
  OBVIOUS
<1>2. Clamped(x, s) = Max({a, Min({x, b})})
  BY DEF Clamped
<1> HIDE DEF a, b
<1>3. Min({x, b}) = IF x <= b THEN x ELSE b
  BY <1>1, MinOfTwo
<1>4. Max({a, Min({x, b})}) = IF a >= Min({x, b}) THEN a ELSE Min({x, b})
  <2> DEFINE m == Min({x, b})
  <2>1. m \in Int
    BY <1>1, <1>3
  <2> HIDE DEF m
  <2> DEFINE v == Max({a, m})
  <2>2. v \in Int /\ v >= a /\ v >= m /\ (v = a \/ v = m)
    <3>1. v \in Int /\ v >= a /\ v >= m /\ v \in {a, m}
      BY <1>1, <2>1, MaxOfTwo
    <3> QED BY <3>1
  <2> HIDE DEF v
  <2>3. v = IF a >= m THEN a ELSE m
    BY <1>1, <2>1, <2>2
  <2> QED BY <2>3 DEF m, v
<1>5. Clamped(x, s) = IF x < a THEN a ELSE IF x > b THEN b ELSE x
  BY <1>1, <1>2, <1>3, <1>4
<1> QED BY <1>5 DEF a, b

\* The edges of a triangle.
Triangles == {c \in Commands : c.op = "tri"}

LEMMA EdgesAre ==
  ASSUME NEW t \in Commands, t.op \in {"tri", "tri_fill"}, NEW y \in Int
  PROVE  Left(t, y) \in Int /\ Right(t, y) \in Int
<1>1. /\ t.yh \in Int /\ t.xh \in Int /\ t.xl \in Int /\ t.ym \in Int /\ t.xm \in Int
      /\ t.dxh \in Int /\ t.dxm \in Int /\ t.dxl \in Int
  BY RasterAssumption
<1>2. t.dxh \div 4 \in Int /\ t.dxm \div 4 \in Int /\ t.dxl \div 4 \in Int /\ t.yh \div 4 \in Int
  BY <1>1
<1>3. \A a, b, c \in Int : a + b * c \in Int
  OBVIOUS
<1>4. Major(t, y) \in Int
  BY <1>1, <1>2, <1>3 DEF Major
<1>5. Minor(t, y) \in Int
  BY <1>1, <1>2, <1>3 DEF Minor
<1> QED BY <1>4, <1>5 DEF Left, Right

LEMMA PixelIs ==
  ASSUME NEW p \in Pixels
  PROVE  p[1] \in 0 .. Width - 1 /\ p[2] \in 0 .. Height - 1 /\ Width \in Nat /\ Height \in Nat
  BY RasterAssumption DEF Pixels

LEMMA SampleIs ==
  ASSUME NEW p \in Pixels, NEW k \in Samples
  PROVE  \E n \in Nat : /\ SampleX(p[1], k) = 2 * n
                        /\ 4 * p[1] <= n /\ n <= 4 * p[1] + 3
<1>1. k[1] \in 0 .. 3 /\ k[2] \in 0 .. 1 /\ p[1] \in Nat
  BY PixelIs DEF Samples
<1>2. k[1] % 2 \in {0, 1}
  BY <1>1
<1>3. SampleX(p[1], k) = 2 * (4 * p[1] + 2 * k[2] + (k[1] % 2))
  BY <1>1, <1>2 DEF SampleX
<1> QED BY <1>1, <1>2, <1>3

\* Dividing by a pixel keeps the order.
LEMMA FloorOrder ==
  ASSUME NEW a \in Int, NEW b \in Int, a <= b, NEW n \in Nat \ {0}
  PROVE  a \div n <= b \div n
<1> DEFINE q == a \div n
           r == a % n
           v == b \div n
           w == b % n
<1>1. q \in Int /\ r \in 0 .. n - 1 /\ a = n * q + r
  OBVIOUS
<1>2. v \in Int /\ w \in 0 .. n - 1 /\ b = n * v + w
  OBVIOUS
<1> HIDE DEF q, r, v, w
<1>3. SUFFICES ASSUME v < q PROVE FALSE
  BY <1>1, <1>2 DEF q, v
<1>4. PICK d \in Nat : q = v + 1 + d
  BY <1>1, <1>2, <1>3, q - v - 1 \in Nat
<1>5. n * q = (n * v + n) + n * d /\ n * d \in Nat /\ n * v \in Int
  BY <1>2, <1>4
<1> QED BY <1>1, <1>2, <1>5

LEMMA ScissorIs ==
  ASSUME NEW s, s \in Scissors \/ s = Whole
  PROVE  /\ s.ulx \in Nat /\ s.uly \in Nat /\ s.lrx \in Nat /\ s.lry \in Nat
         /\ s.ulx < s.lrx
<1>1. CASE s \in Scissors
  BY <1>1, RasterAssumption
<1>2. CASE s = Whole
  <2>1. Width \in Nat \ {0} /\ Height \in Nat \ {0}
    BY RasterAssumption
  <2> QED BY <1>2, <2>1 DEF Whole
<1> QED BY <1>1, <1>2

\* A row that lies between a triangle's ends is one of its rows, unless the scissor
\* removes it.
LEMMA LinesAre ==
  ASSUME NEW t \in Commands, NEW s, s \in Scissors \/ s = Whole,
         NEW p \in Pixels, NEW i \in 0 .. 3,
         t.yh <= 4 * p[2] + i, 4 * p[2] + i < t.yl
  PROVE  p[2] \in Lines(t, s) <=> p[2] >= s.uly \div 4 /\ p[2] < s.lry \div 4
<1>1. t.yh \in Int /\ t.yl \in Int
  BY RasterAssumption
<1>2. p[2] \in 0 .. Height - 1
  BY PixelIs
<1>3. t.yh \div 4 <= p[2] /\ p[2] <= (t.yl - 1) \div 4
  BY <1>1, <1>2
<1> QED BY <1>2, <1>3 DEF Lines

\* A sample that is covered lies between the edges, whatever the scissor, and one that
\* does is covered unless the scissor removes it.
LEMMA CoverIs ==
  ASSUME NEW t \in Triangles, NEW s, s \in Scissors \/ s = Whole,
         NEW p \in Pixels, NEW k \in Samples
  PROVE  k \in compute_coverage(t, s, p) <=>
           /\ Between(t, p, k)
           /\ 2 * s.ulx <= SampleX(p[1], k) /\ SampleX(p[1], k) < 2 * s.lrx
           /\ p[2] >= s.uly \div 4 /\ p[2] < s.lry \div 4
<1> DEFINE y == 4 * p[2] + k[1]
           l == Left(t, y)
           r == Right(t, y)
           el == Clamped(quantize_x(l), s)
           er == Clamped(quantize_x(r), s)
           x == SampleX(p[1], k)
<1>1. k[1] \in 0 .. 3 /\ p[2] \in 0 .. Height - 1 /\ y \in Int
  BY PixelIs DEF Samples
<1>2. t \in Commands /\ t.op \in {"tri", "tri_fill"}
  BY DEF Triangles
<1>3. t.yh \in Int /\ t.yl \in Int
  BY <1>2, RasterAssumption
<1>4. l \in Int /\ r \in Int
  <2> HIDE DEF y
  <2> QED BY <1>1, <1>2, EdgesAre
<1>5. PICK n \in Nat : x = 2 * n
  BY SampleIs
<1>6. k \in compute_coverage(t, s, p) <=>
        /\ p[2] \in Lines(t, s) /\ k[1] \in Active(t, p[2]) /\ el \div 2 <= er \div 2
        /\ el <= x /\ x < er
  BY DEF compute_coverage
<1>7. k[1] \in Active(t, p[2]) <=> t.yh <= y /\ y < t.yl /\ l \div ONE <= r \div ONE
  BY <1>1 DEF Active
<1>8. Between(t, p, k) <=>
        /\ t.yh <= y /\ y < t.yl
        /\ l <= x * (ONE \div 8) /\ x * (ONE \div 8) < r
  BY DEF Between
<1>9. s.ulx \in Nat /\ s.lrx \in Nat /\ s.ulx < s.lrx
  BY ScissorIs
<1>10. /\ quantize_x(l) \in Int /\ quantize_x(r) \in Int
       /\ quantize_x(l) <= x <=> l <= x * (ONE \div 8)
       /\ quantize_x(r) <= x <=> r <= x * (ONE \div 8)
  <2> HIDE DEF l, r, x
  <2> QED BY <1>4, <1>5, QuantizeIs
<1>11. /\ el = IF quantize_x(l) < 2 * s.ulx THEN 2 * s.ulx
               ELSE IF quantize_x(l) > 2 * s.lrx THEN 2 * s.lrx ELSE quantize_x(l)
       /\ er = IF quantize_x(r) < 2 * s.ulx THEN 2 * s.ulx
               ELSE IF quantize_x(r) > 2 * s.lrx THEN 2 * s.lrx ELSE quantize_x(r)
  <2> HIDE DEF l, r
  <2> QED BY <1>9, <1>10, ClampIs
<1>12. el \in Int /\ er \in Int /\ x \in Int
  <2> HIDE DEF el, er, x, l, r
  <2> QED BY <1>5, <1>9, <1>10, <1>11
<1>13. el <= x /\ x < er <=>
         /\ quantize_x(l) <= x /\ ~(quantize_x(r) <= x)
         /\ 2 * s.ulx <= x /\ x < 2 * s.lrx
  <2> HIDE DEF el, er, x, l, r
  <2> QED BY <1>9, <1>10, <1>11, <1>12
<1>14. el <= x /\ x < er => el \div 2 <= er \div 2
  <2> HIDE DEF el, er, x
  <2> QED BY <1>12
<1>15. x * (ONE \div 8) \in Int
  <2> HIDE DEF x
  <2> QED BY <1>12, EighthIs
<1>16. l <= x * (ONE \div 8) /\ x * (ONE \div 8) < r => l \div ONE <= r \div ONE
  <2>1. ONE \in Nat \ {0}
    BY RasterAssumption
  <2> DEFINE m == x * (ONE \div 8)
  <2> HIDE DEF l, r, m
  <2> QED BY <1>4, <1>15, <2>1, FloorOrder DEF m
<1>17. t.yh <= y /\ y < t.yl =>
         (p[2] \in Lines(t, s) <=> p[2] >= s.uly \div 4 /\ p[2] < s.lry \div 4)
  BY <1>1, <1>2, LinesAre
<1>18. x * (ONE \div 8) < r <=> ~(r <= x * (ONE \div 8))
  <2> DEFINE m == x * (ONE \div 8)
  <2> HIDE DEF r, m
  <2> QED BY <1>4, <1>15 DEF m
<1> DEFINE m == x * (ONE \div 8)
<1> HIDE DEF y, l, r, el, er, x, m
<1> QED
  BY <1>6, <1>7, <1>8, <1>10, <1>13, <1>14, <1>16, <1>17, <1>18 DEF x

LEMMA SamplesHold == SamplesExact
<1> SUFFICES ASSUME NEW t \in Triangles, NEW p \in Pixels
             PROVE  compute_coverage(t, Whole, p) = {k \in Samples : Between(t, p, k)}
  BY DEF SamplesExact, Triangles
<1>1. compute_coverage(t, Whole, p) \subseteq Samples
  BY DEF compute_coverage
<1>2. ASSUME NEW k \in Samples
      PROVE  k \in compute_coverage(t, Whole, p) <=> Between(t, p, k)
  <2>1. PICK n \in Nat : /\ SampleX(p[1], k) = 2 * n
                         /\ 4 * p[1] <= n /\ n <= 4 * p[1] + 3
    BY SampleIs
  <2>2. p[1] \in 0 .. Width - 1 /\ p[2] \in 0 .. Height - 1 /\ Width \in Nat /\ Height \in Nat
    BY PixelIs
  <2>3. /\ 2 * Whole.ulx <= SampleX(p[1], k) /\ SampleX(p[1], k) < 2 * Whole.lrx
        /\ p[2] >= Whole.uly \div 4 /\ p[2] < Whole.lry \div 4
    BY <2>1, <2>2 DEF Whole
  <2> QED BY <2>3, CoverIs
<1> QED BY <1>1, <1>2

\* What is stored is what the VI reads, and a sample of a mesh that was covered lies in a
\* triangle that was drawn.
RasterInv ==
  /\ bpp \in {2, 4} /\ scissor \in Scissors /\ primitives \subseteq Commands
  /\ \A p \in Pixels : stored[p] # None => vi_read_cov(screen[p]) = stored[p]
  /\ Mesh(primitives) =>
       \A k \in Pixels \X Samples :
         \/ hits[k] = 0
         \/ hits[k] = 1 /\ \E t \in primitives \cap Triangles : Between(t, k[1], k[2])

LEMMA RasterInitHolds == RasterInit => RasterInv
<1> SUFFICES ASSUME RasterInit PROVE RasterInv
  OBVIOUS
<1>1. bpp \in {2, 4} /\ scissor \in Scissors /\ primitives \subseteq Commands
  BY DEF RasterInit
<1>2. \A p \in Pixels : stored[p] = None
  BY DEF RasterInit
<1>3. \A k \in Pixels \X Samples : hits[k] = 0
  BY DEF RasterInit
<1> QED BY <1>1, <1>2, <1>3 DEF RasterInv

LEMMA CoverageIs ==
  ASSUME NEW mask \in SUBSET Samples
  PROVE  pixel_coverage(mask) = None \/ pixel_coverage(mask) \in Int
<1>1. IsFiniteSet(Samples)
  <2>1. IsFiniteSet(0 .. 3) /\ IsFiniteSet(0 .. 1)
    BY ONLY 0 \in Int, 3 \in Int, 1 \in Int, FS_Interval
  <2>2. IsFiniteSet((0 .. 3) \X (0 .. 1))
    BY ONLY <2>1, FS_Product
  <2> QED BY <2>2 DEF Samples
<1>2. Cardinality(mask) \in Nat
  BY <1>1, FS_Subset, FS_CardinalityType
<1> QED BY <1>2 DEF pixel_coverage

\* The bits in the pixel and in the hidden plane hold the coverage.
LEMMA ReadIsWritten ==
  ASSUME bpp \in {2, 4}, NEW old, NEW rgb, NEW cov \in Int
  PROVE  vi_read_cov(CoverWritten(old, rgb, cov)) = cov
<1>1. 4 * (cov \div 4) + (cov % 4) = cov
  OBVIOUS
<1>2. CASE bpp = 2
  BY <1>1, <1>2 DEF vi_read_cov, CoverWritten
<1>3. CASE bpp = 4
  BY <1>3 DEF vi_read_cov, CoverWritten, PixelWritten
<1> QED BY <1>2, <1>3

LEMMA DrawnIs ==
  ASSUME NEW c, NEW s, NEW p \in Pixels
  PROVE  /\ c.op = "tri" =>
              Drawn(c, s)[p] =
                LET cov == pixel_coverage(compute_coverage(c, s, p)) IN
                  IF cov = None THEN screen[p] ELSE CoverWritten(screen[p], <<c.name>>, cov)
         /\ c.op = "copy" =>
              Drawn(c, s)[p] = IF bpp = 2 /\ p \in CopyPixels(c, s)
                THEN PixelWritten(screen[p], CopiedTexel(c, p), 7) ELSE screen[p]
         /\ c.op = "rect_1cycle" =>
              Drawn(c, s)[p] = IF p \in RectPixels(c, s)
                THEN PixelWritten(screen[p], <<"prim">>, c.alpha) ELSE screen[p]
         /\ c.op \notin {"tri", "copy", "rect_1cycle"} =>
              Drawn(c, s)[p] =
                IF p \in (IF c.op = "rect" THEN RectPixels(c, s) ELSE SpanPixels(c, s))
                THEN PixelWritten(screen[p], <<"fill", p[1] % (4 \div bpp)>>, 7)
                ELSE screen[p]
  BY DEF Drawn

LEMMA StoredHolds ==
  ASSUME RasterInv, NEW c \in Commands, DrawPrimitive(c), NEW p \in Pixels, stored'[p] # None
  PROVE  vi_read_cov(screen[p])' = stored'[p]
<1>1. bpp \in {2, 4} /\ bpp' = bpp
  BY DEF RasterInv, DrawPrimitive
<1>2. stored[p] # None => vi_read_cov(screen[p]) = stored[p]
  BY DEF RasterInv
<1>3. screen'[p] = screen[p] => vi_read_cov(screen[p])' = vi_read_cov(screen[p])
  BY <1>1 DEF vi_read_cov
<1>4. CASE c.op = "tri"
  <2> DEFINE mask == compute_coverage(c, scissor, p)
             cov == pixel_coverage(mask)
  <2>1. stored'[p] = IF cov = None THEN stored[p] ELSE cov
    BY <1>4 DEF DrawPrimitive
  <2>2. screen'[p] =
          IF cov = None THEN screen[p] ELSE CoverWritten(screen[p], <<c.name>>, cov)
    <3>1. screen' = Drawn(c, scissor)
      BY DEF DrawPrimitive
    <3> QED BY <3>1, <1>4, DrawnIs
  <2>3. cov = None \/ cov \in Int
    BY CoverageIs DEF compute_coverage
  <2> HIDE DEF cov, mask
  <2>4. CASE cov = None
    BY <1>2, <1>3, <2>1, <2>2, <2>4
  <2>5. CASE cov # None
    <3> DEFINE new == CoverWritten(screen[p], <<c.name>>, cov)
    <3>1. vi_read_cov(new) = cov
      BY <1>1, <2>3, <2>5, ReadIsWritten
    <3> HIDE DEF new
    <3>2. vi_read_cov(screen[p])' = vi_read_cov(new)
      BY <1>1, <2>2, <2>5 DEF new, vi_read_cov
    <3> QED BY <3>1, <3>2, <2>1, <2>5
  <2> QED BY <2>4, <2>5
<1>5. CASE c.op # "tri"
  <2>1. stored'[p] = IF screen'[p] = screen[p] THEN stored[p] ELSE None
    BY <1>5 DEF DrawPrimitive
  <2> QED BY <1>2, <1>3, <2>1
<1> QED BY <1>4, <1>5

LEMMA HitsHold ==
  ASSUME RasterInv, NEW c \in Commands, DrawPrimitive(c), Mesh(primitives'),
         NEW k \in Pixels \X Samples
  PROVE  \/ hits'[k] = 0
         \/ hits'[k] = 1 /\ \E t \in primitives' \cap Triangles : Between(t, k[1], k[2])
<1>1. k[1] \in Pixels /\ k[2] \in Samples
  OBVIOUS
<1>2. primitives' = primitives \cup {c} /\ c \notin primitives /\ primitives \subseteq Commands
  BY DEF DrawPrimitive, RasterInv
<1>3. Mesh(primitives)
  BY <1>2 DEF Mesh
<1>4. hits'[k] = hits[k] +
        (IF c.op = "tri" /\ k[2] \in compute_coverage(c, scissor, k[1]) THEN 1 ELSE 0)
  BY DEF DrawPrimitive
<1>5. \/ hits[k] = 0
      \/ hits[k] = 1 /\ \E t \in primitives \cap Triangles : Between(t, k[1], k[2])
  BY <1>3 DEF RasterInv
<1>6. CASE c.op = "tri" /\ k[2] \in compute_coverage(c, scissor, k[1])
  <2>1. c \in Triangles
    BY <1>6 DEF Triangles
  <2>2. Between(c, k[1], k[2])
    BY <1>1, <1>6, <2>1, CoverIs DEF RasterInv
  <2>3. ASSUME NEW t \in primitives \cap Triangles
        PROVE  ~Between(t, k[1], k[2])
    <3>1. t # c /\ t \in primitives' /\ c \in primitives' /\ t.op = "tri" /\ c.op = "tri"
      BY <1>2, <1>6 DEF Triangles
    <3> QED BY <1>1, <2>2, <3>1 DEF Mesh
  <2>4. hits[k] = 0
    BY <1>5, <2>3
  <2> QED BY <1>2, <1>4, <1>6, <2>1, <2>2, <2>4
<1>7. CASE ~(c.op = "tri" /\ k[2] \in compute_coverage(c, scissor, k[1]))
  BY <1>2, <1>4, <1>5, <1>7
<1> QED BY <1>6, <1>7

LEMMA RasterStepHolds == RasterInv /\ [RasterNext]_rasterVars => RasterInv'
<1> SUFFICES ASSUME RasterInv, [RasterNext]_rasterVars PROVE RasterInv'
  OBVIOUS
<1>1. ASSUME NEW s \in Scissors, SetScissor(s) PROVE RasterInv'
  BY <1>1 DEF SetScissor, RasterInv, vi_read_cov
<1>2. ASSUME NEW c \in Commands, DrawPrimitive(c) PROVE RasterInv'
  <2>1. (bpp \in {2, 4} /\ scissor \in Scissors /\ primitives \subseteq Commands)'
    BY <1>2 DEF DrawPrimitive, RasterInv
  <2>2. ASSUME NEW p \in Pixels, stored'[p] # None
        PROVE  vi_read_cov(screen[p])' = stored'[p]
    BY <1>2, <2>2, StoredHolds
  <2>3. ASSUME Mesh(primitives'), NEW k \in Pixels \X Samples
        PROVE  \/ hits'[k] = 0
               \/ hits'[k] = 1 /\ \E t \in primitives' \cap Triangles : Between(t, k[1], k[2])
    BY <1>2, <2>3, HitsHold
  <2> QED BY <2>1, <2>2, <2>3 DEF RasterInv
<1>3. CASE UNCHANGED rasterVars
  BY <1>3 DEF rasterVars, RasterInv, vi_read_cov
<1> QED BY <1>1, <1>2, <1>3 DEF RasterNext

LEMMA CoverHolds == RasterInv => EachSampleOnce /\ CoverageSeen
<1> SUFFICES ASSUME RasterInv PROVE EachSampleOnce /\ CoverageSeen
  OBVIOUS
<1>1. CoverageSeen
  BY DEF RasterInv, CoverageSeen
<1>2. ASSUME Mesh(primitives), NEW k \in Pixels \X Samples PROVE hits[k] <= 1
  BY <1>2 DEF RasterInv
<1> QED BY <1>1, <1>2, SamplesHold DEF EachSampleOnce

\* A rectangle, a copy, a span and a triangle inside the scissor are as without one, and
\* outside there is none of them.
LEMMA ScissorKeepsInside ==
  ASSUME RasterInv, NEW c \in Commands, NEW p \in Pixels, Inside(p)
  PROVE  /\ p \in RectPixels(c, scissor) <=> p \in RectPixels(c, Whole)
         /\ p \in CopyPixels(c, scissor) <=> p \in CopyPixels(c, Whole)
         /\ p \in SpanPixels(c, scissor) <=> p \in SpanPixels(c, Whole)
<1> DEFINE s == scissor
<1>1. /\ s.ulx \in Nat /\ s.uly \in Nat /\ s.lrx \in Nat /\ s.lry \in Nat
      /\ s.ulx < s.lrx
  BY ScissorIs DEF RasterInv
<1>2. p[1] \in 0 .. Width - 1 /\ p[2] \in 0 .. Height - 1 /\ Width \in Nat /\ Height \in Nat
  BY PixelIs
<1>3. /\ 4 * p[1] >= s.ulx /\ (4 * p[1]) + 4 <= s.lrx
      /\ 4 * p[2] >= s.uly /\ (4 * p[2]) + 4 <= s.lry
  BY DEF Inside
<1>4. c.xh \in Int /\ c.xl \in Int /\ c.yh \in Int /\ c.yl \in Int
  BY RasterAssumption
<1>5. Whole.ulx = 0 /\ Whole.uly = 0 /\ Whole.lrx = 4 * Width /\ Whole.lry = 4 * Height
  BY DEF Whole
<1> HIDE DEF s
<1>6. /\ p[1] >= s.ulx \div 4 /\ p[1] <= s.lrx \div 4 /\ p[1] < (s.lrx + 3) \div 4
      /\ p[2] >= s.uly \div 4 /\ p[2] < s.lry \div 4 /\ p[2] < (s.lry + 3) \div 4
  BY <1>1, <1>2, <1>3
<1>7. LET w == Whole IN
        /\ p[1] >= w.ulx \div 4 /\ p[1] <= w.lrx \div 4 /\ p[1] < (w.lrx + 3) \div 4
        /\ p[2] >= w.uly \div 4 /\ p[2] < w.lry \div 4 /\ p[2] < (w.lry + 3) \div 4
  BY <1>2, <1>5
<1>8. p[1] >= c.xh \div 4 => c.xh < s.lrx /\ c.xh < Whole.lrx
  BY <1>1, <1>2, <1>3, <1>4, <1>5
<1>9. p \in RectPixels(c, s) <=> p \in RectPixels(c, Whole)
  <2>1. CASE p[1] >= c.xh \div 4
    <3>1. ~(c.xh >= s.lrx) /\ ~(c.xh >= Whole.lrx)
      BY <1>1, <1>2, <1>4, <1>5, <1>8, <2>1
    <3> QED BY <1>6, <1>7, <3>1 DEF RectPixels
  <2>2. CASE ~(p[1] >= c.xh \div 4)
    BY <2>2 DEF RectPixels
  <2> QED BY <2>1, <2>2
<1>10. p \in CopyPixels(c, s) <=> p \in CopyPixels(c, Whole)
  BY <1>6, <1>7 DEF CopyPixels
<1>11. p[2] \in Lines(c, s) <=> p[2] \in Lines(c, Whole)
  BY <1>6, <1>7 DEF Lines
<1>12. p \in SpanPixels(c, s) <=> p \in SpanPixels(c, Whole)
  BY <1>6, <1>7, <1>11 DEF SpanPixels
<1> QED BY <1>9, <1>10, <1>12 DEF s

LEMMA ScissorRemovesOutside ==
  ASSUME RasterInv, NEW c \in Commands, NEW p \in Pixels, Outside(p)
  PROVE  /\ p \notin RectPixels(c, scissor)
         /\ p \notin CopyPixels(c, scissor)
         /\ p \notin SpanPixels(c, scissor)
<1> DEFINE s == scissor
<1>1. s.ulx \in Nat /\ s.uly \in Nat /\ s.lrx \in Nat /\ s.lry \in Nat
  BY ScissorIs DEF RasterInv
<1>2. p[1] \in Nat /\ p[2] \in Nat
  BY PixelIs
<1>3. \/ (4 * p[1]) + 4 <= s.ulx \/ 4 * p[1] > s.lrx
      \/ (4 * p[2]) + 4 <= s.uly \/ 4 * p[2] >= s.lry
  BY DEF Outside
<1> HIDE DEF s
<1>4. \/ ~(p[1] >= s.ulx \div 4)
      \/ ~(p[1] <= s.lrx \div 4) /\ ~(p[1] < (s.lrx + 3) \div 4)
      \/ ~(p[2] >= s.uly \div 4)
      \/ ~(p[2] < s.lry \div 4) /\ ~(p[2] < (s.lry + 3) \div 4)
  BY <1>1, <1>2, <1>3
<1>5. p \notin RectPixels(c, s)
  BY <1>4 DEF RectPixels
<1>6. p \notin CopyPixels(c, s)
  BY <1>4 DEF CopyPixels
<1>7. p \notin SpanPixels(c, s)
  BY <1>4 DEF SpanPixels, Lines
<1> QED BY <1>5, <1>6, <1>7 DEF s

LEMMA ScissorKeepsCovered ==
  ASSUME RasterInv, NEW c \in Triangles, NEW p \in Pixels
  PROVE  /\ Inside(p) => compute_coverage(c, scissor, p) = compute_coverage(c, Whole, p)
         /\ Outside(p) => compute_coverage(c, scissor, p) = {}
<1> DEFINE s == scissor
<1>1. /\ s.ulx \in Nat /\ s.uly \in Nat /\ s.lrx \in Nat /\ s.lry \in Nat
      /\ s \in Scissors
  BY ScissorIs DEF RasterInv
<1>2. p[1] \in 0 .. Width - 1 /\ p[2] \in 0 .. Height - 1 /\ Width \in Nat /\ Height \in Nat
  BY PixelIs
<1>3. \A z : compute_coverage(c, z, p) \subseteq Samples
  BY DEF compute_coverage
<1>4. Inside(p) <=>
        /\ 4 * p[1] >= s.ulx /\ (4 * p[1]) + 4 <= s.lrx
        /\ 4 * p[2] >= s.uly /\ (4 * p[2]) + 4 <= s.lry
  BY DEF Inside
<1>5. Outside(p) <=>
        \/ (4 * p[1]) + 4 <= s.ulx \/ 4 * p[1] > s.lrx
        \/ (4 * p[2]) + 4 <= s.uly \/ 4 * p[2] >= s.lry
  BY DEF Outside
<1> HIDE DEF s
<1>6. ASSUME NEW k \in Samples
      PROVE  /\ Inside(p) => (k \in compute_coverage(c, s, p) <=> Between(c, p, k))
             /\ Outside(p) => k \notin compute_coverage(c, s, p)
  <2>1. PICK n \in Nat : /\ SampleX(p[1], k) = 2 * n
                         /\ 4 * p[1] <= n /\ n <= 4 * p[1] + 3
    BY SampleIs
  <2>2. k \in compute_coverage(c, s, p) <=>
           /\ Between(c, p, k)
           /\ 2 * s.ulx <= 2 * n /\ 2 * n < 2 * s.lrx
           /\ p[2] >= s.uly \div 4 /\ p[2] < s.lry \div 4
    BY <1>1, <2>1, CoverIs
  <2>3. Inside(p) => /\ 2 * s.ulx <= 2 * n /\ 2 * n < 2 * s.lrx
                     /\ p[2] >= s.uly \div 4 /\ p[2] < s.lry \div 4
    BY <1>1, <1>2, <1>4, <2>1
  <2>4. Outside(p) => ~( /\ 2 * s.ulx <= 2 * n /\ 2 * n < 2 * s.lrx
                         /\ p[2] >= s.uly \div 4 /\ p[2] < s.lry \div 4)
    BY <1>1, <1>2, <1>5, <2>1
  <2> QED BY <2>2, <2>3, <2>4
<1>7. compute_coverage(c, Whole, p) = {k \in Samples : Between(c, p, k)}
  BY SamplesHold DEF SamplesExact, Triangles
<1>8. Inside(p) => compute_coverage(c, s, p) = compute_coverage(c, Whole, p)
  BY <1>3, <1>6, <1>7
<1>9. Outside(p) => compute_coverage(c, s, p) = {}
  BY <1>3, <1>6
<1> QED BY <1>8, <1>9 DEF s

LEMMA ScissorStep ==
  ASSUME RasterInv, [RasterNext]_rasterVars,
         NEW c \in primitives' \ primitives, NEW p \in Pixels
  PROVE  /\ Inside(p) => screen'[p] = Drawn(c, Whole)[p]
         /\ Outside(p) => screen'[p] = screen[p]
<1>1. c \in Commands /\ screen' = Drawn(c, scissor)
  BY DEF RasterNext, SetScissor, DrawPrimitive, rasterVars
<1>2. CASE c.op = "tri"
  <2>1. c \in Triangles
    BY <1>1, <1>2 DEF Triangles
  <2>2. pixel_coverage({}) = None
    BY DEF pixel_coverage
  <2>3. ASSUME Inside(p)
        PROVE  compute_coverage(c, scissor, p) = compute_coverage(c, Whole, p)
    BY <2>1, <2>3, ScissorKeepsCovered
  <2>4. ASSUME Outside(p) PROVE compute_coverage(c, scissor, p) = {}
    BY <2>1, <2>4, ScissorKeepsCovered
  <2>5. \A s : Drawn(c, s)[p] =
          LET cov == pixel_coverage(compute_coverage(c, s, p)) IN
            IF cov = None THEN screen[p] ELSE CoverWritten(screen[p], <<c.name>>, cov)
    BY <1>2, DrawnIs
  <2> QED BY <1>1, <2>2, <2>3, <2>4, <2>5
<1>3. CASE c.op # "tri"
  <2>1. Inside(p) =>
          /\ p \in RectPixels(c, scissor) <=> p \in RectPixels(c, Whole)
          /\ p \in CopyPixels(c, scissor) <=> p \in CopyPixels(c, Whole)
          /\ p \in SpanPixels(c, scissor) <=> p \in SpanPixels(c, Whole)
    BY <1>1, ScissorKeepsInside
  <2>2. Outside(p) =>
          /\ p \notin RectPixels(c, scissor)
          /\ p \notin CopyPixels(c, scissor)
          /\ p \notin SpanPixels(c, scissor)
    BY <1>1, ScissorRemovesOutside
  <2>3. CASE c.op = "copy"
    <3>1. \A s : Drawn(c, s)[p] = IF bpp = 2 /\ p \in CopyPixels(c, s)
                THEN PixelWritten(screen[p], CopiedTexel(c, p), 7) ELSE screen[p]
      BY <2>3, DrawnIs
    <3> QED BY <1>1, <2>1, <2>2, <3>1
  <2>4. CASE c.op = "rect_1cycle"
    <3>1. \A s : Drawn(c, s)[p] = IF p \in RectPixels(c, s)
                THEN PixelWritten(screen[p], <<"prim">>, c.alpha) ELSE screen[p]
      BY <2>4, DrawnIs
    <3> QED BY <1>1, <2>1, <2>2, <3>1
  <2>5. CASE c.op \notin {"tri", "copy", "rect_1cycle"}
    <3>1. \A s : Drawn(c, s)[p] =
            IF p \in (IF c.op = "rect" THEN RectPixels(c, s) ELSE SpanPixels(c, s))
              THEN PixelWritten(screen[p], <<"fill", p[1] % (4 \div bpp)>>, 7)
              ELSE screen[p]
      <4> SUFFICES ASSUME NEW s
                   PROVE  Drawn(c, s)[p] =
                     IF p \in (IF c.op = "rect" THEN RectPixels(c, s) ELSE SpanPixels(c, s))
                       THEN PixelWritten(screen[p], <<"fill", p[1] % (4 \div bpp)>>, 7)
                       ELSE screen[p]
        OBVIOUS
      <4> QED BY <2>5 DEF Drawn
    <3> QED BY <1>1, <2>1, <2>2, <3>1
  <2> QED BY <1>3, <2>3, <2>4, <2>5
<1> QED BY <1>2, <1>3

\* Triangles that meet in an edge share no sample and leave none out, the VI reads the
\* coverage that was stored, and the scissor removes what lies outside of it and nothing
\* else: for edges and slopes of any value, and images and scissors of any size (lib.rs
\* quantize_x, compute_coverage, write_coverage).
THEOREM CoverageCorrect == RasterSpec => CoverageExact
<1>1. RasterInit => RasterInv
  BY RasterInitHolds
<1>2. RasterInv /\ [RasterNext]_rasterVars => RasterInv'
  BY RasterStepHolds
<1>3. RasterInv => EachSampleOnce /\ CoverageSeen
  BY CoverHolds
<1>4. RasterInv /\ [RasterNext]_rasterVars =>
        [\A c \in primitives' \ primitives : \A p \in Pixels :
           /\ Inside(p) => screen'[p] = Drawn(c, Whole)[p]
           /\ Outside(p) => screen'[p] = screen[p]]_rasterVars
  BY ScissorStep
<1> QED
  BY <1>1, <1>2, <1>3, <1>4, PTL DEF RasterSpec, CoverageExact, ScissorOnlyRemoves

-----------------------------------------------------------------------------
(* Vector loads and stores.                                                *)

\* DMEM is whole lines of sixteen bytes.
LEMMA WholeLines == \E h \in Nat : DMEM_LEN = 16 * h /\ h >= 8
<1>1. DMEM_LEN \in Nat /\ DMEM_LEN % 16 = 0 /\ DMEM_LEN >= 128
  BY VuMemAssumption
<1>2. DMEM_LEN = 16 * (DMEM_LEN \div 16) /\ DMEM_LEN \div 16 \in Nat /\ DMEM_LEN \div 16 >= 8
  BY <1>1
<1> QED BY <1>2

LEMMA LenIs == DMEM_LEN \in Nat /\ DMEM_LEN >= 128
  BY VuMemAssumption

LEMMA AddrIs == ASSUME NEW x \in Nat PROVE x % DMEM_LEN \in Addr
<1>1. DMEM_LEN \in Nat \ {0}
  BY LenIs
<1>2. x % DMEM_LEN \in 0 .. DMEM_LEN - 1
  BY <1>1, Parts
<1> QED BY <1>2 DEF Addr

\* An address is taken once around DMEM.
LEMMA Around == ASSUME NEW x \in Nat PROVE (x + DMEM_LEN) % DMEM_LEN = x % DMEM_LEN
<1> DEFINE n == DMEM_LEN
           q == x \div n
           r == x % n
<1>1. n \in Nat \ {0}
  BY LenIs
<1> HIDE DEF n
<1>2. q \in Nat /\ r \in 0 .. n - 1 /\ x = n * q + r
  BY <1>1, Parts
<1> HIDE DEF q, r
<1>3. x + n = n * (q + 1) + r
  BY <1>1, <1>2
<1>4. (n * (q + 1) + r) % n = r
  <2>1. q + 1 \in Nat
    BY <1>2
  <2> QED BY <1>1, <1>2, <2>1, DivMod
<1>5. (x + n) % n = r
  BY <1>3, <1>4
<1> QED BY <1>5 DEF n, r

\* Addresses less than DMEM apart are different bytes of it.
LEMMA Distinct ==
  ASSUME NEW x \in Nat, NEW y \in Nat, x - y < DMEM_LEN, y - x < DMEM_LEN,
         x % DMEM_LEN = y % DMEM_LEN
  PROVE  x = y
<1> DEFINE n == DMEM_LEN
           q == x \div n
           r == x % n
           v == y \div n
           w == y % n
<1>1. n \in Nat \ {0}
  BY LenIs
<1>2. r = w /\ x - y < n /\ y - x < n
  OBVIOUS
<1> HIDE DEF n
<1>3. q \in Nat /\ r \in 0 .. n - 1 /\ x = n * q + r
  BY <1>1, Parts
<1>4. v \in Nat /\ w \in 0 .. n - 1 /\ y = n * v + w
  BY <1>1, Parts
<1> HIDE DEF q, r, v, w
<1>5. ASSUME NEW i \in Nat, NEW j \in Nat, n * i - n * j < n PROVE i <= j
  <2>1. SUFFICES ASSUME i > j PROVE FALSE
    OBVIOUS
  <2>2. PICK d \in Nat : i = j + 1 + d
    BY <2>1, i - j - 1 \in Nat
  <2>3. n * i = (n * j + n) + n * d /\ n * d \in Nat /\ n * j \in Nat
    BY <1>1, <2>2
  <2> QED BY <1>1, <1>5, <2>3
<1>6. n * q - n * v < n /\ n * v - n * q < n
  <2>1. n * q \in Nat /\ n * v \in Nat
    BY <1>1, <1>3, <1>4
  <2> QED BY <1>2, <1>3, <1>4, <2>1
<1>7. q <= v /\ v <= q
  BY <1>3, <1>4, <1>5, <1>6
<1> QED BY <1>2, <1>3, <1>4, <1>7

\* What a store writes, where no two of its bytes have one address.
LEMMA StoreLeaves ==
  ASSUME NEW n \in Nat, NEW to, NEW byte, NEW memory, NEW w \in Int,
         \A i \in 0 .. n - 1 : to[i] \in Nat /\ w <= to[i] /\ to[i] <= w + 15,
         \A i, j \in 0 .. n - 1 : to[i] = to[j] => i = j
  PROVE  LET new == Stored(memory, n, to, byte) IN
         /\ \A i \in 0 .. n - 1 : new[to[i] % DMEM_LEN] = byte[i]
         /\ \A x \in Addr : (\A i \in 0 .. n - 1 : x # to[i] % DMEM_LEN) => new[x] = memory[x]
<1> DEFINE new == Stored(memory, n, to, byte)
<1>1. ASSUME NEW i \in 0 .. n - 1, NEW j \in 0 .. n - 1, to[i] % DMEM_LEN = to[j] % DMEM_LEN
      PROVE  i = j
  <2>1. to[i] \in Nat /\ to[j] \in Nat /\ to[i] - to[j] < DMEM_LEN /\ to[j] - to[i] < DMEM_LEN
    BY LenIs
  <2>2. to[i] = to[j]
    BY <1>1, <2>1, Distinct
  <2> QED BY <2>2
<1>2. new = [a \in Addr |->
         IF \E i \in 0 .. n - 1 : to[i] % DMEM_LEN = a
           THEN byte[CHOOSE i \in 0 .. n - 1 : to[i] % DMEM_LEN = a] ELSE memory[a]]
  BY DEF Stored
<1> HIDE DEF new
<1>3. ASSUME NEW i \in 0 .. n - 1
      PROVE  new[to[i] % DMEM_LEN] = byte[i]
  <2> DEFINE a == to[i] % DMEM_LEN
             c == CHOOSE j \in 0 .. n - 1 : to[j] % DMEM_LEN = a
  <2>1. a \in Addr
    BY AddrIs
  <2>2. c \in 0 .. n - 1 /\ to[c] % DMEM_LEN = a
    OBVIOUS
  <2>3. c = i
    BY <1>1, <2>2
  <2>4. new[a] = byte[c]
    BY <1>2, <2>1
  <2> QED BY <2>3, <2>4
<1>4. ASSUME NEW x \in Addr, \A i \in 0 .. n - 1 : x # to[i] % DMEM_LEN
      PROVE  new[x] = memory[x]
  BY <1>2, <1>4
<1> QED BY <1>3, <1>4 DEF new

\* The offset in a line does not change around DMEM.
LEMMA OffsetIs ==
  ASSUME NEW x \in Nat
  PROVE  (x + DMEM_LEN) % 16 = x % 16 /\ (x + DMEM_LEN) % 8 = x % 8
<1>1. PICK h \in Nat : DMEM_LEN = 16 * h
  BY WholeLines
<1> QED BY <1>1

LEMMA ScaleIs ==
  /\ Scale("b") = 1 /\ Scale("s") = 2 /\ Scale("l") = 4
  /\ Scale("d") = 8 /\ Scale("p") = 8 /\ Scale("u") = 8
  /\ Scale("q") = 16 /\ Scale("r") = 16 /\ Scale("h") = 16
  /\ Scale("f") = 16 /\ Scale("w") = 16 /\ Scale("t") = 16
<1>1. Scale("b") = 1
  BY Zenon DEF Scale
<1>2. Scale("s") = 2
  BY Zenon DEF Scale
<1>3. Scale("l") = 4
  BY Zenon DEF Scale
<1>4. Scale("d") = 8
  BY Zenon DEF Scale
<1>5. Scale("p") = 8
  BY Zenon DEF Scale
<1>6. Scale("u") = 8
  BY Zenon DEF Scale
<1>7. Scale("q") = 16
  BY Zenon DEF Scale
<1>8. Scale("r") = 16
  BY Zenon DEF Scale
<1>9. Scale("h") = 16
  BY Zenon DEF Scale
<1>10. Scale("f") = 16
  BY Zenon DEF Scale
<1>11. Scale("w") = 16
  BY Zenon DEF Scale
<1>12. Scale("t") = 16
  BY Zenon DEF Scale
<1> QED
  BY <1>1, <1>2, <1>3, <1>4, <1>5, <1>6, <1>7, <1>8, <1>9, <1>10, <1>11, <1>12

LEMMA LoadCode ==
  ASSUME program.name = "load"
  PROVE  Code = <<I(FALSE, "q", 1, 0, 0), I(FALSE, "r", 1, 0, 1)>>
  BY Zenon DEF Code, ScalarSizes

LEMMA StoreCode ==
  ASSUME program.name = "store"
  PROVE  Code = <<I(TRUE, "q", 1, 0, 127), I(TRUE, "r", 1, 0, 0)>>
  BY Zenon DEF Code, ScalarSizes

LEMMA ScalarCode ==
  ASSUME program.name \in ScalarSizes
  PROVE  Code = <<I(FALSE, program.name, 1, program.e, 0), I(TRUE, program.name, 1, program.e, 2)>>
<1>1. program.name # "load" /\ program.name # "store"
  BY DEF ScalarSizes
<1>2. /\ program.name \notin {"p", "u", "h"}
      /\ program.name \notin {"f", "w", "transpose", "move"}
  BY DEF ScalarSizes
<1> QED BY <1>1, <1>2, Zenon DEF Code

LEMMA LaneCode ==
  ASSUME program.name \in {"p", "u", "h"}
  PROVE  Code = <<I(TRUE, program.name, 1, 0, 0), I(FALSE, program.name, 2, 0, 0)>>
<1>1. /\ program.name # "load" /\ program.name # "store"
      /\ program.name \notin ScalarSizes
      /\ program.name \notin {"f", "w", "transpose", "move"}
  BY DEF ScalarSizes
<1> QED BY <1>1, Zenon DEF Code

LEMMA FourthCode ==
  ASSUME program.name = "f"
  PROVE  Code = <<I(TRUE, "f", 1, 0, 0), I(TRUE, "f", 2, 8, 1),
                  I(FALSE, "f", 3, 0, 0), I(FALSE, "f", 3, 8, 1)>>
  BY Zenon DEF Code, ScalarSizes

LEMMA WrapCode ==
  ASSUME program.name = "w"
  PROVE  Code = <<I(TRUE, "w", 1, program.e, 0), I(FALSE, "w", 1, 0, 0)>>
  BY Zenon DEF Code, ScalarSizes

LEMMA TransposeCode ==
  ASSUME program.name = "transpose"
  PROVE  Code = [k \in 1 .. 16 |-> IF k <= 8 THEN I(TRUE, "t", 0, 2 * (k - 1), k - 1)
                                   ELSE I(FALSE, "t", 0, (16 - 2 * (k - 9)) % 16, k - 9)]
  BY Zenon DEF Code, ScalarSizes

LEMMA MoveCode ==
  ASSUME program.name = "move"
  PROVE  Code = <<I(FALSE, "mfc2", 1, program.e, 0), I(FALSE, "mtc2", 2, program.e, 0),
                  I(FALSE, "ctc2", program.e, 0, 0), I(FALSE, "cfc2", program.e, 0, 0)>>
  BY Zenon DEF Code, ScalarSizes

LEMMA ExecuteIs ==
  ASSUME NEW i, Execute(i)
  PROVE  /\ i.op = "mtc2" => Mtc2(i.vt, i.e)
         /\ i.op = "mfc2" => Mfc2(i.vt, i.e)
         /\ i.op = "ctc2" => Ctc2(i.vt)
         /\ i.op = "cfc2" => Cfc2(i.vt)
         /\ i.op \notin {"mtc2", "mfc2", "ctc2", "cfc2"} => Memory(i)
  BY Zenon DEF Execute

LEMMA MemoryIs ==
  ASSUME NEW i, Execute(i), NEW a, a = Address(i) + DMEM_LEN
  PROVE  /\ i.store =>
              /\ i.op \in {"b", "s", "l", "d"} => ScalarStore(i, a)
              /\ i.op = "q" => QuadStore(i, a)
              /\ i.op = "r" => RestStore(i, a)
              /\ i.op \in {"p", "u"} => PackedStore(i, a)
              /\ i.op = "h" => HalfStore(i, a)
              /\ i.op = "f" => FourthStore(i, a)
              /\ i.op = "w" => WrapStore(i, a)
              /\ i.op = "t" => TransposeStore(i, a)
         /\ ~i.store =>
              /\ i.op \in {"b", "s", "l", "d"} => ScalarLoad(i, a)
              /\ i.op = "q" => QuadLoad(i, a)
              /\ i.op = "r" => RestLoad(i, a)
              /\ i.op \in {"p", "u"} => PackedLoad(i, a)
              /\ i.op = "h" => HalfLoad(i, a)
              /\ i.op = "f" => FourthLoad(i, a)
              /\ i.op = "w" => UNCHANGED <<regs, dmem>>
              /\ i.op = "t" => TransposeLoad(i, a)
<1>1. i.op \notin {"mtc2", "mfc2", "ctc2", "cfc2"} => Memory(i)
  BY ExecuteIs
<1> QED BY <1>1 DEF Memory

\* A program, and how much of it has been run; what it found.
MovesTypes ==
  /\ program.name \in Names /\ program.base \in Nat /\ program.e \in ByteOf
  /\ program.name \notin ScalarSizes \cup {"w", "move"} => program.e = 0
  /\ program.name = "transpose" => program.base % 16 = 0
  /\ done \in 0 .. Len(Code)
  /\ DOMAIN regs = 0 .. 7 /\ DOMAIN control = 0 .. 2
  /\ done = 0 => regs = Regs0 /\ dmem = Dmem0

\* Sixteen bytes from any address: those in its line, then the rest.
LoadInv ==
  program.name = "load" =>
    /\ dmem = Dmem0
    /\ done >= 1 =>
         \A k \in ByteOf :
           k < 16 - (program.base % 16) => regs[1][k] = Mem0(program.base + k)
    /\ done = 2 => \A k \in ByteOf : regs[1][k] = Mem0(program.base + k)

LEMMA StepIs ==
  ASSUME VuMemNext, MovesTypes
  PROVE  /\ done' = done + 1 /\ done < Len(Code) /\ done \in Nat
         /\ program' = program
         /\ \E i : i = Code[done + 1] /\ Execute(i)
  BY DEF VuMemNext, MovesTypes

LEMMA SlotIs == \A x \in Nat : Mem0(x + DMEM_LEN) = Mem0(x)
  BY Around DEF Mem0

LEMMA LoadStep ==
  ASSUME MovesTypes, LoadInv, program.name = "load", VuMemNext
  PROVE  LoadInv'
<1> DEFINE b == program.base
           m == b % 16
           d == DMEM_LEN
<1>1. Code = <<I(FALSE, "q", 1, 0, 0), I(FALSE, "r", 1, 0, 1)>>
  BY LoadCode
<1>2. b \in Nat /\ m \in 0 .. 15 /\ d \in Nat /\ DOMAIN regs = 0 .. 7
  BY LenIs DEF MovesTypes
<1>3. PICK i : i = Code[done + 1] /\ Execute(i)
  BY StepIs
<1>4. done' = done + 1 /\ program' = program /\ done \in {0, 1}
  BY <1>1, StepIs
<1>5. PICK a : a = Address(i) + d
  OBVIOUS
<1> HIDE DEF b, m, d
<1>6. CASE done = 0
  <2>1. i = I(FALSE, "q", 1, 0, 0)
    BY <1>1, <1>3, <1>6
  <2>2. ~i.store /\ i.op = "q" /\ i.vt = 1 /\ i.e = 0 /\ a = b + d
    BY <1>2, <1>5, <2>1, ScaleIs DEF Signed7, Address, I, b
  <2>3. QuadLoad(i, a)
    BY <1>3, <1>5, <2>2, MemoryIs DEF d
  <2>4. a % 16 = m
    BY <1>2, <2>2, OffsetIs DEF m, d
  <2>5. Least(16 - (a % 16), 16 - i.e) = 16 - m
    BY <1>2, <2>2, <2>4 DEF Least
  <2>6. regs'[1] = Loaded(regs[1], 0, 16 - m, [k \in ByteOf |-> Mem(a + k)]) /\ dmem' = dmem
    BY <1>2, <2>2, <2>3, <2>5 DEF QuadLoad, Load
  <2>7. ASSUME NEW k \in ByteOf, k < 16 - m PROVE regs'[1][k] = Mem0(b + k)
    <3>1. regs'[1][k] = Mem(a + k)
      BY <1>2, <2>6, <2>7 DEF ByteOf, Loaded
    <3>2. Mem(a + k) = Mem0(b + k)
      <4>1. a + k = (b + k) + d /\ b + k \in Nat
        BY <1>2, <2>2 DEF ByteOf
      <4>2. Mem(a + k) = Mem0(a + k)
        BY DEF Mem, Mem0, LoadInv
      <4> QED BY <4>1, <4>2, SlotIs DEF d
    <3> QED BY <3>1, <3>2
  <2>8. dmem' = Dmem0
    BY <2>6 DEF LoadInv
  <2> QED BY <1>4, <1>6, <2>7, <2>8 DEF LoadInv, Mem0, b, m
<1>7. CASE done = 1
  <2>1. i = I(FALSE, "r", 1, 0, 1)
    BY <1>1, <1>3, <1>7
  <2>2. ~i.store /\ i.op = "r" /\ i.vt = 1 /\ i.e = 0 /\ a = (b + 16) + d
    BY <1>2, <1>5, <2>1, ScaleIs DEF Signed7, Address, I, b
  <2>3. RestLoad(i, a)
    BY <1>3, <1>5, <2>2, MemoryIs DEF d
  <2>4. a % 16 = m
    <3>1. a % 16 = (b + 16) % 16
      BY <1>2, <2>2, OffsetIs DEF d
    <3> QED BY <1>2, <3>1 DEF m
  <2>5. RestFirst(m, i.e) = 16 - m /\ (IF i.e < m THEN m - i.e ELSE 0) = m
    BY <1>2, <2>2 DEF RestFirst
  <2>6. /\ regs'[1] = Loaded(regs[1], 16 - m, m, [k \in ByteOf |-> Mem(a - m + k)])
        /\ dmem' = dmem
    BY <1>2, <2>2, <2>3, <2>4, <2>5 DEF RestLoad, Load
  <2>7. ASSUME NEW k \in ByteOf PROVE regs'[1][k] = Mem0(b + k)
    <3>1. CASE k < 16 - m
      <4>1. regs'[1][k] = regs[1][k]
        BY <1>2, <2>6, <3>1 DEF ByteOf, Loaded
      <4> QED BY <1>7, <3>1, <4>1 DEF LoadInv, b, m
    <3>2. CASE k >= 16 - m
      <4>1. k - (16 - m) \in ByteOf /\ k \in 16 - m .. (16 - m) + m - 1
        BY <1>2, <3>2 DEF ByteOf
      <4>2. regs'[1][k] = Mem(a - m + (k - (16 - m)))
        BY <2>6, <4>1 DEF Loaded
      <4>3. a - m + (k - (16 - m)) = (b + k) + d /\ b + k \in Nat
        BY <1>2, <2>2 DEF ByteOf
      <4>4. Mem((b + k) + d) = Mem0((b + k) + d)
        BY DEF Mem, Mem0, LoadInv
      <4> QED BY <4>2, <4>3, <4>4, SlotIs DEF d
    <3> QED BY <1>2, <3>1, <3>2 DEF ByteOf
  <2>8. dmem' = Dmem0
    BY <2>6 DEF LoadInv
  <2> QED BY <1>4, <1>7, <2>7, <2>8 DEF LoadInv, Mem0, b, m
<1> QED BY <1>4, <1>6, <1>7

\* Sixteen bytes to any address.
StoreInv ==
  LET b == program.base - 16 + DMEM_LEN IN
  program.name = "store" =>
    /\ regs = Regs0
    /\ done >= 1 => Untouched(b, 16)
    /\ done = 1 =>
         \A k \in ByteOf :
           k < 16 - (program.base % 16) => dmem[(b + k) % DMEM_LEN] = Regs0[1][k]
    /\ done = 2 => \A k \in ByteOf : dmem[(b + k) % DMEM_LEN] = Regs0[1][k]

LEMMA UntouchedIs ==
  ASSUME NEW a \in Nat, NEW n \in Nat
  PROVE  /\ Untouched(a, n) <=>
              \A x \in Addr : (\A k \in 0 .. n - 1 : x # (a + k) % DMEM_LEN) => dmem[x] = Dmem0[x]
         /\ Untouched(a, n)' <=>
              \A x \in Addr : (\A k \in 0 .. n - 1 : x # (a + k) % DMEM_LEN) => dmem'[x] = Dmem0[x]
  BY DEF Untouched

LEMMA StoreStep ==
  ASSUME MovesTypes, StoreInv, program.name = "store", VuMemNext
  PROVE  StoreInv'
<1> DEFINE b == program.base - 16 + DMEM_LEN
           m == program.base % 16
           d == DMEM_LEN
<1>1. Code = <<I(TRUE, "q", 1, 0, 127), I(TRUE, "r", 1, 0, 0)>>
  BY StoreCode
<1>2. /\ b \in Nat /\ m \in 0 .. 15 /\ d \in Nat /\ d >= 128 /\ regs = Regs0
      /\ b % 16 = m /\ (b + 16) % 16 = m /\ program.base \in Nat
  <2>1. program.base \in Nat
    BY DEF MovesTypes
  <2>2. PICK h \in Nat : d = 16 * h
    BY WholeLines
  <2>3. b \in Nat /\ m \in 0 .. 15 /\ d \in Nat /\ d >= 128
    BY LenIs, <2>1
  <2>4. b % 16 = m /\ (b + 16) % 16 = m
    <3> DEFINE c == program.base
    <3>1. c \in Nat /\ h \in Nat /\ h >= 8 /\ b = c + 16 * (h - 1) /\ m = c % 16
      BY LenIs, <2>1, <2>2
    <3> HIDE DEF b, m, d, c
    <3> QED BY <3>1
  <2>5. regs = Regs0
    BY DEF StoreInv
  <2> QED BY <2>1, <2>3, <2>4, <2>5
<1>3. PICK i : i = Code[done + 1] /\ Execute(i)
  BY StepIs
<1>4. done' = done + 1 /\ program' = program /\ done \in {0, 1}
  BY <1>1, StepIs
<1>5. PICK a : a = Address(i) + d
  OBVIOUS
<1>b. b' = b
  BY <1>4
<1> HIDE DEF b, m, d
<1>6. CASE done = 0
  <2>1. i = I(TRUE, "q", 1, 0, 127)
    BY <1>1, <1>3, <1>6
  <2>2. i.store /\ i.op = "q" /\ i.vt = 1 /\ i.e = 0 /\ a = b
    BY <1>2, <1>5, <2>1, ScaleIs DEF Signed7, Address, I, b, d
  <2>3. QuadStore(i, a)
    BY <1>3, <1>5, <2>2, MemoryIs DEF d
  <2> DEFINE to == [k \in ByteOf |-> b + k]
             byte == [k \in ByteOf |-> regs[1][(0 + k) % 16]]
  <2>4. dmem' = Stored(dmem, 16 - m, to, byte) /\ regs' = regs
    BY <1>2, <2>2, <2>3 DEF QuadStore, Store
  <2>5. /\ \A k \in 0 .. (16 - m) - 1 :
             /\ to[k] = b + k /\ k \in ByteOf
             /\ byte[k] = Regs0[1][k]
        /\ 16 - m \in Nat
    BY <1>2 DEF ByteOf
  <2> HIDE DEF to, byte
  <2>6. /\ \A k \in 0 .. (16 - m) - 1 : dmem'[to[k] % d] = byte[k]
        /\ \A x \in Addr : (\A k \in 0 .. (16 - m) - 1 : x # to[k] % d) => dmem'[x] = dmem[x]
    <3>1. \A k \in 0 .. (16 - m) - 1 : to[k] \in Nat /\ b <= to[k] /\ to[k] <= b + 15
      BY <1>2, <2>5
    <3>2. \A k, j \in 0 .. (16 - m) - 1 : to[k] = to[j] => k = j
      BY <1>2, <2>5
    <3>3. b \in Int
      BY <1>2
    <3> QED BY <2>4, <2>5, <3>1, <3>2, <3>3, StoreLeaves DEF d
  <2>7. \A k \in ByteOf : k < 16 - m => dmem'[(b + k) % d] = Regs0[1][k]
    <3>1. \A k \in ByteOf : k < 16 - m => k \in 0 .. (16 - m) - 1
      BY <1>2 DEF ByteOf
    <3> QED BY <2>5, <2>6, <3>1
  <2>8. Untouched(b, 16)'
    <3> SUFFICES ASSUME NEW x \in Addr, \A k \in 0 .. 16 - 1 : x # (b + k) % d
                 PROVE  dmem'[x] = Dmem0[x]
      BY <1>2, <1>b, UntouchedIs DEF d
    <3>1. \A k \in 0 .. (16 - m) - 1 : k \in 0 .. 16 - 1
      BY <1>2
    <3>2. dmem'[x] = dmem[x]
      BY <2>5, <2>6, <3>1
    <3> QED BY <1>6, <3>2 DEF MovesTypes
  <2> QED BY <1>2, <1>4, <1>6, <2>4, <2>7, <2>8 DEF StoreInv, b, m, d
<1>7. CASE done = 1
  <2>1. i = I(TRUE, "r", 1, 0, 0)
    BY <1>1, <1>3, <1>7
  <2>2. i.store /\ i.op = "r" /\ i.vt = 1 /\ i.e = 0 /\ a = b + 16
    BY <1>2, <1>5, <2>1, ScaleIs DEF Signed7, Address, I, b, d
  <2>3. RestStore(i, a)
    BY <1>3, <1>5, <2>2, MemoryIs DEF d
  <2> DEFINE to == [k \in ByteOf |-> a - m + k]
             byte == [k \in ByteOf |-> regs[1][(0 + 16 - m + k) % 16]]
  <2>4. dmem' = Stored(dmem, m, to, byte) /\ regs' = regs
    BY <1>2, <2>2, <2>3 DEF RestStore, Store
  <2>5. /\ \A k \in 0 .. m - 1 :
             /\ to[k] = b + (16 - m + k) /\ k \in ByteOf
             /\ byte[k] = Regs0[1][16 - m + k]
        /\ m \in Nat
    <3>1. \A k \in 0 .. m - 1 : k \in ByteOf /\ (0 + 16 - m + k) % 16 = 16 - m + k
      BY <1>2 DEF ByteOf
    <3>2. \A k \in 0 .. m - 1 : a - m + k = b + (16 - m + k)
      BY <1>2, <2>2
    <3> QED BY <1>2, <3>1, <3>2
  <2> HIDE DEF to, byte
  <2>6. /\ \A k \in 0 .. m - 1 : dmem'[to[k] % d] = byte[k]
        /\ \A x \in Addr : (\A k \in 0 .. m - 1 : x # to[k] % d) => dmem'[x] = dmem[x]
    <3>1. \A k \in 0 .. m - 1 : to[k] \in Nat /\ b <= to[k] /\ to[k] <= b + 15
      BY <1>2, <2>5
    <3>2. \A k, j \in 0 .. m - 1 : to[k] = to[j] => k = j
      BY <1>2, <2>5
    <3>3. b \in Int
      BY <1>2
    <3> QED BY <2>4, <2>5, <3>1, <3>2, <3>3, StoreLeaves DEF d
  <2>7. ASSUME NEW k \in ByteOf PROVE dmem'[(b + k) % d] = Regs0[1][k]
    <3>1. CASE k < 16 - m
      <4>1. dmem[(b + k) % d] = Regs0[1][k]
        BY <1>7, <3>1 DEF StoreInv, b, m, d
      <4>2. ASSUME NEW j \in 0 .. m - 1, (b + k) % d = to[j] % d PROVE FALSE
        <5>1. to[j] = b + (16 - m + j)
          BY <2>5
        <5>2. b + k \in Nat /\ to[j] \in Nat /\ (b + k) - to[j] < d /\ to[j] - (b + k) < d
          BY <1>2, <5>1 DEF ByteOf
        <5>3. b + k = to[j]
          BY <4>2, <5>2, Distinct DEF d
        <5> QED BY <1>2, <3>1, <5>1, <5>3 DEF ByteOf
      <4>3. (b + k) % d \in Addr
        BY <1>2, AddrIs DEF d, ByteOf
      <4> QED BY <2>6, <4>1, <4>2, <4>3
    <3>2. CASE k >= 16 - m
      <4> DEFINE j == k - (16 - m)
      <4>1. j \in 0 .. m - 1 /\ 16 - m + j = k
        BY <1>2, <3>2 DEF ByteOf
      <4> HIDE DEF j
      <4> QED BY <2>5, <2>6, <4>1
    <3> QED BY <1>2, <3>1, <3>2 DEF ByteOf
  <2>8. Untouched(b, 16)'
    <3> SUFFICES ASSUME NEW x \in Addr, \A k \in 0 .. 16 - 1 : x # (b + k) % d
                 PROVE  dmem'[x] = Dmem0[x]
      BY <1>2, <1>b, UntouchedIs DEF d
    <3>1. \A k \in 0 .. m - 1 : 16 - m + k \in 0 .. 16 - 1
      BY <1>2
    <3>2. dmem'[x] = dmem[x]
      BY <2>5, <2>6, <3>1
    <3>3. Untouched(b, 16)
      BY <1>7 DEF StoreInv, b
    <3>4. dmem[x] = Dmem0[x]
      BY <1>2, <3>3, UntouchedIs DEF d
    <3> QED BY <3>2, <3>4
  <2> QED BY <1>2, <1>4, <1>7, <2>4, <2>7, <2>8 DEF StoreInv, b, m, d
<1> QED BY <1>4, <1>6, <1>7

\* What a scalar load and a store with the same element copy.
ScalarInv ==
  LET b == program.base
      e == program.e
      n == Scale(program.name)
  IN program.name \in ScalarSizes =>
       /\ done <= 1 => dmem = Dmem0
       /\ done >= 1 =>
            \A k \in ByteOf :
              regs[1][k] = IF k \in e .. e + Least(n, 16 - e) - 1 THEN Mem0(b + (k - e))
                           ELSE Regs0[1][k]
       /\ done = 2 =>
            /\ \A k \in 0 .. Least(n, 16 - e) - 1 :
                 dmem[(b + 2 * n + k) % DMEM_LEN] = Mem0(b + k)
            /\ \A k \in 16 - e .. n - 1 :
                 dmem[(b + 2 * n + k) % DMEM_LEN] = Regs0[1][(e + k) % 16]
            /\ Untouched(b + 2 * n, n)

LEMMA ScalarStep ==
  ASSUME MovesTypes, ScalarInv, program.name \in ScalarSizes, VuMemNext
  PROVE  ScalarInv'
<1> DEFINE b == program.base
           e == program.e
           n == Scale(program.name)
           f == Least(n, 16 - e)
           d == DMEM_LEN
           op == program.name
<1>1. Code = <<I(FALSE, op, 1, e, 0), I(TRUE, op, 1, e, 2)>>
  BY ScalarCode
<1>2. /\ b \in Nat /\ e \in ByteOf /\ n \in {1, 2, 4, 8} /\ d \in Nat /\ d >= 128
      /\ DOMAIN regs = 0 .. 7 /\ op \in {"b", "s", "l", "d"}
  BY LenIs, ScaleIs DEF MovesTypes, ScalarSizes
<1>3. PICK i : i = Code[done + 1] /\ Execute(i)
  BY StepIs
<1>4. done' = done + 1 /\ program' = program /\ done \in {0, 1}
  BY <1>1, StepIs
<1>5. PICK a : a = Address(i) + d
  OBVIOUS
<1>b. b' = b /\ e' = e /\ n' = n /\ f' = f
  BY <1>4 DEF Least, Scale
<1>f. f \in Nat /\ f >= 1 /\ f <= n /\ f <= 16 - e
  BY <1>2 DEF Least, ByteOf
<1> HIDE DEF b, e, n, f, d, op
<1>6. CASE done = 0
  <2>1. i = I(FALSE, op, 1, e, 0)
    BY <1>1, <1>3, <1>6
  <2>2. ~i.store /\ i.op = op /\ i.vt = 1 /\ i.e = e /\ a = b + d
    BY <1>2, <1>5, <2>1 DEF Signed7, Address, I, b, n, op
  <2>3. ScalarLoad(i, a)
    BY <1>2, <1>3, <1>5, <2>2, MemoryIs DEF d
  <2>4. Least(Scale(i.op), 16 - i.e) = f
    BY <2>2 DEF f, n, op
  <2>5. regs'[1] = Loaded(regs[1], e, f, [k \in ByteOf |-> Mem(a + k)]) /\ dmem' = dmem
    BY <1>2, <2>2, <2>3, <2>4 DEF ScalarLoad, Load
  <2>6. regs = Regs0 /\ dmem = Dmem0
    BY <1>6 DEF MovesTypes
  <2>7. ASSUME NEW k \in ByteOf
        PROVE  regs'[1][k] = IF k \in e .. e + f - 1 THEN Mem0(b + (k - e)) ELSE Regs0[1][k]
    <3>1. CASE k \in e .. e + f - 1
      <4>1. k - e \in ByteOf
        BY <1>2, <1>f, <3>1 DEF ByteOf
      <4>2. regs'[1][k] = Mem(a + (k - e))
        BY <2>5, <3>1, <4>1 DEF Loaded
      <4>3. a + (k - e) = (b + (k - e)) + d /\ b + (k - e) \in Nat
        BY <1>2, <2>2, <4>1 DEF ByteOf
      <4>4. Mem((b + (k - e)) + d) = Mem0((b + (k - e)) + d)
        BY <2>6 DEF Mem, Mem0
      <4> QED BY <3>1, <4>2, <4>3, <4>4, SlotIs DEF d
    <3>2. CASE k \notin e .. e + f - 1
      BY <2>5, <2>6, <3>2 DEF Loaded
    <3> QED BY <3>1, <3>2
  <2> QED BY <1>4, <1>6, <1>b, <2>5, <2>6, <2>7 DEF ScalarInv, Mem0, b, e, n, f
<1>7. CASE done = 1
  <2>1. i = I(TRUE, op, 1, e, 2)
    BY <1>1, <1>3, <1>7
  <2>2. i.store /\ i.op = op /\ i.vt = 1 /\ i.e = e /\ a = (b + 2 * n) + d
    BY <1>2, <1>5, <2>1 DEF Signed7, Address, I, b, n, op
  <2>3. ScalarStore(i, a)
    BY <1>2, <1>3, <1>5, <2>2, MemoryIs DEF d
  <2> DEFINE to == [k \in ByteOf |-> a + k]
             byte == [k \in ByteOf |-> regs[1][(e + k) % 16]]
             c == b + 2 * n
  <2>4. dmem' = Stored(dmem, n, to, byte) /\ regs' = regs
    BY <1>2, <2>2, <2>3 DEF ScalarStore, Store, n, op
  <2>5. /\ \A k \in 0 .. n - 1 : to[k] = c + d + k /\ byte[k] = regs[1][(e + k) % 16]
        /\ c \in Nat /\ c + d \in Int /\ n \in Nat
    <3>1. \A k \in 0 .. n - 1 : k \in ByteOf
      BY <1>2 DEF ByteOf
    <3> QED BY <1>2, <2>2, <3>1
  <2> HIDE DEF to, byte, c
  <2>6. /\ \A k \in 0 .. n - 1 : dmem'[to[k] % d] = byte[k]
        /\ \A x \in Addr : (\A k \in 0 .. n - 1 : x # to[k] % d) => dmem'[x] = dmem[x]
    <3>1. \A k \in 0 .. n - 1 : to[k] \in Nat /\ c + d <= to[k] /\ to[k] <= (c + d) + 15
      BY <1>2, <2>5
    <3>2. \A k, j \in 0 .. n - 1 : to[k] = to[j] => k = j
      BY <1>2, <2>5
    <3> QED BY <2>4, <2>5, <3>1, <3>2, StoreLeaves DEF d
  <2>7. ASSUME NEW k \in 0 .. n - 1
        PROVE  to[k] % d = (c + k) % d /\ dmem'[(c + k) % d] = regs[1][(e + k) % 16]
    <3>1. to[k] = (c + k) + d /\ c + k \in Nat
      BY <1>2, <2>5
    <3>2. to[k] % d = (c + k) % d
      BY <3>1, Around DEF d
    <3> QED BY <2>5, <2>6, <3>2
  <2>r. \A k \in ByteOf :
          regs[1][k] = IF k \in e .. e + f - 1 THEN Mem0(b + (k - e)) ELSE Regs0[1][k]
    BY <1>7 DEF ScalarInv, b, e, n, f
  <2>8. ASSUME NEW k \in 0 .. f - 1 PROVE dmem'[(c + k) % d] = Mem0(b + k)
    <3>1. k \in 0 .. n - 1 /\ (e + k) % 16 = e + k /\ e + k \in ByteOf
      BY <1>2, <1>f DEF ByteOf
    <3>2. e + k \in e .. e + f - 1 /\ (e + k) - e = k
      BY <1>2, <1>f DEF ByteOf
    <3> QED BY <2>7, <2>r, <3>1, <3>2
  <2>9. ASSUME NEW k \in 16 - e .. n - 1
        PROVE  dmem'[(c + k) % d] = Regs0[1][(e + k) % 16]
    <3>1. k \in 0 .. n - 1 /\ (e + k) % 16 = e + k - 16 /\ e + k - 16 \in ByteOf
      BY <1>2 DEF ByteOf
    <3>2. e + k - 16 \notin e .. e + f - 1
      BY <1>2 DEF ByteOf
    <3> QED BY <2>7, <2>r, <3>1, <3>2
  <2>10. Untouched(c, n)'
    <3> SUFFICES ASSUME NEW x \in Addr, \A k \in 0 .. n - 1 : x # (c + k) % d
                 PROVE  dmem'[x] = Dmem0[x]
      <4>1. c' = c /\ n \in Nat
        BY <1>2, <1>b DEF c
      <4> QED BY <1>b, <2>5, <4>1, UntouchedIs DEF d
    <3>1. dmem'[x] = dmem[x]
      BY <2>6, <2>7
    <3> QED BY <1>7, <3>1 DEF ScalarInv
  <2> QED
    <3>1. c' = c
      BY <1>b DEF c
    <3> HIDE DEF c
    <3>2. (done = 2 =>
            /\ \A k \in 0 .. f - 1 : dmem[(c + k) % DMEM_LEN] = Mem0(b + k)
            /\ \A k \in 16 - e .. n - 1 : dmem[(c + k) % DMEM_LEN] = Regs0[1][(e + k) % 16]
            /\ Untouched(c, n))'
      BY <1>4, <1>b, <2>8, <2>9, <2>10, <3>1 DEF Mem0, d
    <3>3. (\A k \in ByteOf :
             regs[1][k] = IF k \in e .. e + f - 1 THEN Mem0(b + (k - e)) ELSE Regs0[1][k])'
      BY <1>b, <2>4, <2>r DEF Mem0
    <3>4. done' = 2
      BY <1>4, <1>7
    <3> QED BY <3>2, <3>3, <3>4 DEF ScalarInv, b, e, n, f, c
<1> QED BY <1>4, <1>6, <1>7

\* A lane from its two bytes, and the bytes of what fits in one.
LEMMA HalvesIs ==
  ASSUME NEW v, NEW l \in Lane, v[l] \in Nat, v[l] < 65536
  PROVE  /\ 2 * l \in ByteOf /\ 2 * l + 1 \in ByteOf
         /\ HalvesOf(v)[2 * l] \in 0 .. 255 /\ HalvesOf(v)[2 * l + 1] \in 0 .. 255
         /\ HalvesOf(v)[2 * l] * 256 + HalvesOf(v)[2 * l + 1] = v[l]
<1> DEFINE x == v[l]
           h == 2 * l
           g == 2 * l + 1
<1>0. l \in 0 .. 7
  BY DEF Lane
<1>1. h \in 0 .. 15 /\ h % 2 = 0 /\ h \div 2 = l
  BY <1>0
<1>2. g \in 0 .. 15 /\ g % 2 = 1 /\ g \div 2 = l
  BY <1>0
<1> HIDE DEF h, g
<1>3. HalvesOf(v)[h] = (x \div 256) % 256
  BY <1>1 DEF HalvesOf, ByteOf
<1>4. HalvesOf(v)[g] = x % 256
  BY <1>2 DEF HalvesOf, ByteOf
<1> HIDE DEF x
<1>5. x \in Nat /\ x < 65536
  BY DEF x
<1>6. x \div 256 \in 0 .. 255 /\ x % 256 \in 0 .. 255 /\ x = 256 * (x \div 256) + (x % 256)
  BY <1>5
<1>7. (x \div 256) % 256 = x \div 256
  BY <1>6
<1>8. /\ HalvesOf(v)[h] \in 0 .. 255 /\ HalvesOf(v)[g] \in 0 .. 255
      /\ HalvesOf(v)[h] * 256 + HalvesOf(v)[g] = x
  BY <1>3, <1>4, <1>6, <1>7
<1> QED BY <1>1, <1>2, <1>8 DEF h, g, x, ByteOf

\* The byte a fractional store keeps of a lane, from the lane's two bytes or from the lane.
LEMMA KeptIs ==
  ASSUME NEW x \in 0 .. 255, NEW y \in 0 .. 255
  PROVE  /\ (x * 2 + y \div 128) % 256 = ((x * 256 + y) \div 128) % 256
         /\ ((x * 256 + y) \div 128) % 256 \in 0 .. 255
  OBVIOUS

\* Where a packed store and a strided one leave lane k, and what they leave.
LanePlace(k) ==
  LET b == program.base IN
  IF program.name = "h" THEN b - (b % 8) + (((b % 8) + 2 * k) % 16) ELSE b + k

LaneKept(k) == IF program.name = "p" THEN Regs0[1][2 * k] ELSE (Lane0(1, k) \div 128) % 256

\* What the packed and the strided loads read back.
LaneInv ==
  program.name \in {"p", "u", "h"} =>
    /\ done >= 1 => \A k \in Lane : dmem[LanePlace(k) % DMEM_LEN] = LaneKept(k)
    /\ done = 2 =>
         \A l \in Lane : LaneOf(2, l) = LaneKept(l) * (IF program.name = "p" THEN 256 ELSE 128)

LEMMA KeptType == ASSUME NEW k \in Lane PROVE LaneKept(k) \in 0 .. 255
<1>1. Regs0[1][2 * k] \in 0 .. 255 /\ Regs0[1][2 * k + 1] \in 0 .. 255
  <2>1. 2 * k \in ByteOf /\ 2 * k + 1 \in ByteOf
    BY DEF Lane, ByteOf
  <2>2. \A c \in ByteOf : Regs0[1][c] \in 0 .. 255
    BY VuMemAssumption
  <2> QED BY <2>1, <2>2
<1> QED BY <1>1, KeptIs DEF LaneKept, Lane0

\* The places are different, and in one window.
LEMMA LanePlaceIs ==
  ASSUME NEW k \in Lane, program.base \in Nat
  PROVE  /\ LanePlace(k) \in Nat
         /\ LanePlace(k) >= program.base - (program.base % 8)
         /\ LanePlace(k) <= program.base - (program.base % 8) + 15
<1> DEFINE b == program.base
           m == b % 8
<1>1. b \in Nat /\ m \in 0 .. 7 /\ b - m \in Nat /\ k \in 0 .. 7
  BY DEF Lane
<1> HIDE DEF b, m
<1>2. (m + 2 * k) % 16 \in 0 .. 15
  BY <1>1
<1>3. LanePlace(k) = IF program.name = "h" THEN b - m + ((m + 2 * k) % 16) ELSE b + k
  BY DEF LanePlace, b, m
<1>4. LanePlace(k) \in Nat /\ LanePlace(k) >= b - m /\ LanePlace(k) <= b - m + 15
  <2>1. CASE program.name = "h"
    BY <1>1, <1>2, <1>3, <2>1
  <2>2. CASE program.name # "h"
    BY <1>1, <1>3, <2>2
  <2> QED BY <2>1, <2>2
<1> QED BY <1>4 DEF b, m

LEMMA LanePlacesDiffer ==
  ASSUME NEW k \in Lane, NEW j \in Lane, program.base \in Nat, LanePlace(k) = LanePlace(j)
  PROVE  k = j
<1> DEFINE b == program.base
           m == b % 8
<1>1. b \in Nat /\ m \in 0 .. 7 /\ k \in 0 .. 7 /\ j \in 0 .. 7
  BY DEF Lane
<1>2. /\ LanePlace(k) = IF program.name = "h" THEN b - m + ((m + 2 * k) % 16) ELSE b + k
      /\ LanePlace(j) = IF program.name = "h" THEN b - m + ((m + 2 * j) % 16) ELSE b + j
  BY DEF LanePlace
<1> HIDE DEF b, m
<1> DEFINE u == (m + 2 * k) % 16
           w == (m + 2 * j) % 16
<1>3. u = w => k = j
  BY <1>1
<1>4. u \in 0 .. 15 /\ w \in 0 .. 15
  BY <1>1
<1> HIDE DEF u, w
<1> QED
  <2>1. CASE program.name = "h"
    <3>1. b - m + u = b - m + w
      BY <1>2, <2>1 DEF u, w
    <3> QED BY <1>1, <1>3, <1>4, <3>1
  <2>2. CASE program.name # "h"
    <3>1. b + k = b + j
      BY <1>2, <2>2
    <3> QED BY <1>1, <3>1
  <2> QED BY <2>1, <2>2

\* The stores write the places, and the loads read them.
LEMMA LaneStoreIs ==
  ASSUME MovesTypes, program.name \in {"p", "u", "h"}, regs = Regs0,
         NEW i, i = I(TRUE, program.name, 1, 0, 0), Execute(i)
  PROVE  \A k \in Lane : dmem'[LanePlace(k) % DMEM_LEN] = LaneKept(k)
<1> DEFINE b == program.base
           m == b % 8
           d == DMEM_LEN
           op == program.name
<1>1. b \in Nat /\ m \in 0 .. 7 /\ d \in Nat /\ op \in {"p", "u", "h"}
  BY LenIs DEF MovesTypes
<1>2. PICK a : a = Address(i) + d
  OBVIOUS
<1>p. \A k : LanePlace(k) = IF op = "h" THEN b - m + ((m + 2 * k) % 16) ELSE b + k
  BY DEF LanePlace
<1> HIDE DEF b, m, d
<1>3. i.store /\ i.op = op /\ i.vt = 1 /\ i.e = 0 /\ a = b + d
  BY <1>1, <1>2, ScaleIs DEF Signed7, Address, I, b
<1>4. a % 8 = m
  BY <1>1, <1>3, OffsetIs DEF m, d
<1>5. \A k \in Lane : /\ Regs0[1][2 * k] \in 0 .. 255 /\ Regs0[1][2 * k + 1] \in 0 .. 255
                      /\ LaneOf(1, k) = Lane0(1, k)
  <2>1. \A k \in Lane : 2 * k \in ByteOf /\ 2 * k + 1 \in ByteOf
    BY DEF Lane, ByteOf
  <2>2. \A c \in ByteOf : Regs0[1][c] \in 0 .. 255
    BY VuMemAssumption
  <2>3. \A k \in Lane : LaneOf(1, k) = Lane0(1, k)
    BY DEF Lane0, LaneOf
  <2> QED BY <2>1, <2>2, <2>3
<1>6. \E to, byte : /\ dmem' = Stored(dmem, 8, to, byte)
                    /\ \A k \in Lane : to[k] = LanePlace(k) + d /\ byte[k] = LaneKept(k)
  <2>1. CASE op = "h"
    <3>1. HalfStore(i, a)
      BY <1>2, <1>3, <2>1, MemoryIs DEF d
    <3> DEFINE to == [k \in Lane |-> a - m + ((m + 2 * k) % 16)]
               byte == [k \in Lane |->
                 (regs[1][(0 + 2 * k) % 16] * 2 + regs[1][(0 + 2 * k + 1) % 16] \div 128) % 256]
    <3>2. dmem' = Stored(dmem, 8, to, byte)
      BY <1>3, <1>4, <3>1 DEF HalfStore, Store
    <3>3. ASSUME NEW k \in Lane PROVE to[k] = LanePlace(k) + d
      <4>1. to[k] = a - m + ((m + 2 * k) % 16) /\ (m + 2 * k) % 16 \in Nat
        BY <1>1 DEF Lane
      <4>2. LanePlace(k) = b - m + ((m + 2 * k) % 16)
        BY <1>p, <2>1
      <4> HIDE DEF to
      <4> QED BY <1>1, <1>3, <4>1, <4>2
    <3>4. ASSUME NEW k \in Lane PROVE byte[k] = LaneKept(k)
      <4>1. (0 + 2 * k) % 16 = 2 * k /\ (0 + 2 * k + 1) % 16 = 2 * k + 1
        BY DEF Lane
      <4>2. byte[k] = (Regs0[1][2 * k] * 2 + Regs0[1][2 * k + 1] \div 128) % 256
        BY <4>1
      <4>3. LaneKept(k) = ((Regs0[1][2 * k] * 256 + Regs0[1][2 * k + 1]) \div 128) % 256
        BY <2>1 DEF LaneKept, Lane0
      <4> HIDE DEF byte
      <4>4. PICK x, y : x = Regs0[1][2 * k] /\ y = Regs0[1][2 * k + 1]
        OBVIOUS
      <4>5. x \in 0 .. 255 /\ y \in 0 .. 255
        BY <1>5, <4>4
      <4>6. (x * 2 + y \div 128) % 256 = ((x * 256 + y) \div 128) % 256
        BY <4>5
      <4> QED BY <4>2, <4>3, <4>4, <4>6
    <3> HIDE DEF to, byte
    <3> QED BY <3>2, <3>3, <3>4
  <2>2. CASE op # "h"
    <3>1. PackedStore(i, a)
      BY <1>1, <1>2, <1>3, <2>2, MemoryIs DEF d
    <3> DEFINE to == [k \in Lane |-> a + k]
               byte == [k \in Lane |->
                 LET l == (0 + k) % 8 IN
                 IF ((0 + k) % 16 < 8) # (op = "u") THEN regs[1][2 * l]
                 ELSE (LaneOf(1, l) \div 128) % 256]
    <3>2. dmem' = Stored(dmem, 8, to, byte)
      BY <1>3, <3>1 DEF PackedStore, Store
    <3>3. ASSUME NEW k \in Lane PROVE to[k] = LanePlace(k) + d
      <4>1. to[k] = a + k
        OBVIOUS
      <4>2. LanePlace(k) = b + k
        BY <1>p, <2>2
      <4> HIDE DEF to
      <4> QED BY <1>1, <1>3, <4>1, <4>2 DEF Lane
    <3>4. ASSUME NEW k \in Lane PROVE byte[k] = LaneKept(k)
      <4>1. (0 + k) % 8 = k /\ (0 + k) % 16 < 8
        BY DEF Lane
      <4>2. CASE op = "u"
        <5>1. ~(((0 + k) % 16 < 8) # (op = "u"))
          BY <4>1, <4>2, Zenon
        <5>2. byte[k] = (LaneOf(1, k) \div 128) % 256
          BY <4>1, <5>1
        <5> QED BY <1>5, <4>2, <5>2 DEF LaneKept
      <4>3. CASE op # "u"
        <5>1. ((0 + k) % 16 < 8) # (op = "u")
          BY <4>1, <4>3, Zenon
        <5>2. byte[k] = regs[1][2 * k]
          BY <4>1, <5>1
        <5> QED BY <1>1, <2>2, <4>3, <5>2 DEF LaneKept
      <4> QED BY <4>2, <4>3
    <3> HIDE DEF to, byte
    <3> QED BY <3>2, <3>3, <3>4
  <2> QED BY <2>1, <2>2
<1>7. PICK to, byte : /\ dmem' = Stored(dmem, 8, to, byte)
                      /\ \A k \in Lane : to[k] = LanePlace(k) + d /\ byte[k] = LaneKept(k)
  BY <1>6
<1>8. \A k \in 0 .. 8 - 1 : k \in Lane
  BY DEF Lane
<1>9. \A k \in 0 .. 8 - 1 : /\ to[k] \in Nat /\ b - m + d <= to[k]
                            /\ to[k] <= (b - m + d) + 15
  <2>1. \A k \in Lane : LanePlace(k) \in Nat /\ LanePlace(k) >= b - m /\ LanePlace(k) <= b - m + 15
    BY <1>1, LanePlaceIs DEF b, m
  <2> QED BY <1>1, <1>7, <1>8, <2>1
<1>10. \A k, j \in 0 .. 8 - 1 : to[k] = to[j] => k = j
  <2>1. \A k, j \in Lane : /\ LanePlace(k) \in Nat /\ LanePlace(j) \in Nat
                           /\ LanePlace(k) = LanePlace(j) => k = j
    BY <1>1, LanePlaceIs, LanePlacesDiffer DEF b
  <2> QED BY <1>1, <1>7, <1>8, <2>1
<1>11. \A k \in 0 .. 8 - 1 : dmem'[to[k] % d] = byte[k]
  <2> DEFINE w == b - m + d
             n == 8
  <2>1. \A k \in 0 .. n - 1 : to[k] \in Nat /\ w <= to[k] /\ to[k] <= w + 15
    BY <1>9
  <2>2. w \in Int /\ n \in Nat
    BY <1>1
  <2>3. \A k, j \in 0 .. n - 1 : to[k] = to[j] => k = j
    BY <1>10
  <2>4. dmem' = Stored(dmem, n, to, byte)
    BY <1>7
  <2> HIDE DEF w, n
  <2>5. \A k \in 0 .. n - 1 : dmem'[to[k] % d] = byte[k]
    BY <2>1, <2>2, <2>3, <2>4, StoreLeaves DEF d
  <2> QED BY <2>5 DEF n
<1>12. ASSUME NEW k \in Lane PROVE dmem'[LanePlace(k) % d] = LaneKept(k)
  <2>1. k \in 0 .. 8 - 1 /\ LanePlace(k) \in Nat
    BY <1>1, LanePlaceIs DEF b, Lane
  <2>2. to[k] % d = LanePlace(k) % d
    BY <1>7, <2>1, Around DEF d
  <2> QED BY <1>7, <1>11, <2>1, <2>2
<1> QED BY <1>12 DEF d

LEMMA LaneLoadIs ==
  ASSUME MovesTypes, program.name \in {"p", "u", "h"}, NEW f, f = IF program.name = "p" THEN 256 ELSE 128,
         NEW i, i = I(FALSE, program.name, 2, 0, 0), Execute(i)
  PROVE  /\ dmem' = dmem
         /\ \E v : /\ regs'[2] = Loaded(regs[2], 0, 16, HalvesOf(v))
                   /\ \A l \in Lane : v[l] = dmem[LanePlace(l) % DMEM_LEN] * f
<1> DEFINE b == program.base
           m == b % 8
           d == DMEM_LEN
           op == program.name
<1>1. b \in Nat /\ m \in 0 .. 7 /\ d \in Nat /\ op \in {"p", "u", "h"} /\ DOMAIN regs = 0 .. 7
  BY LenIs DEF MovesTypes
<1>2. PICK a : a = Address(i) + d
  OBVIOUS
<1>p. \A k : LanePlace(k) = IF op = "h" THEN b - m + ((m + 2 * k) % 16) ELSE b + k
  BY DEF LanePlace
<1> HIDE DEF b, m, d
<1>3. ~i.store /\ i.op = op /\ i.vt = 2 /\ i.e = 0 /\ a = b + d
  BY <1>1, <1>2, ScaleIs DEF Signed7, Address, I, b
<1>4. a % 8 = m
  BY <1>1, <1>3, OffsetIs DEF m, d
<1>5. \A l \in Lane : LanePlace(l) \in Nat /\ Mem(LanePlace(l) + d) = dmem[LanePlace(l) % d]
  BY <1>1, LanePlaceIs, Around DEF b, d, Mem
<1>6. CASE op = "h"
  <2>1. HalfLoad(i, a)
    BY <1>2, <1>3, <1>6, MemoryIs DEF d
  <2> DEFINE v == [l \in Lane |-> Mem(a - m + ((m - 0 + 2 * l) % 16)) * 128]
  <2>2. regs'[2] = Loaded(regs[2], 0, 16, HalvesOf(v)) /\ dmem' = dmem
    BY <1>1, <1>3, <1>4, <2>1 DEF HalfLoad, Load
  <2>3. ASSUME NEW l \in Lane PROVE v[l] = dmem[LanePlace(l) % DMEM_LEN] * f
    <3>1. v[l] = Mem(a - m + ((m - 0 + 2 * l) % 16)) * 128
      OBVIOUS
    <3>2. m - 0 + 2 * l = m + 2 * l /\ (m + 2 * l) % 16 \in Nat
      BY <1>1 DEF Lane
    <3>3. a - m + ((m - 0 + 2 * l) % 16) = LanePlace(l) + d
      BY <1>1, <1>3, <1>p, <1>6, <3>2
    <3> HIDE DEF v
    <3> QED BY <1>5, <1>6, <3>1, <3>3 DEF d
  <2> HIDE DEF v
  <2> QED BY <2>2, <2>3
<1>7. CASE op # "h"
  <2>1. PackedLoad(i, a)
    BY <1>1, <1>2, <1>3, <1>7, MemoryIs DEF d
  <2> DEFINE v == [l \in Lane |->
                Mem(a - m + ((m - 0 + l) % 16)) * (IF op = "u" THEN 128 ELSE 256)]
  <2>2. regs'[2] = Loaded(regs[2], 0, 16, HalvesOf(v)) /\ dmem' = dmem
    BY <1>1, <1>3, <1>4, <2>1 DEF PackedLoad, Load
  <2>3. ASSUME NEW l \in Lane PROVE v[l] = dmem[LanePlace(l) % DMEM_LEN] * f
    <3>1. v[l] = Mem(a - m + ((m - 0 + l) % 16)) * f
      BY <1>1, <1>7
    <3>2. (m - 0 + l) % 16 = m + l
      BY <1>1 DEF Lane
    <3>3. a - m + ((m - 0 + l) % 16) = LanePlace(l) + d
      BY <1>1, <1>3, <1>p, <1>7, <3>2 DEF Lane
    <3> HIDE DEF v
    <3> QED BY <1>5, <3>1, <3>3 DEF d
  <2> HIDE DEF v
  <2> QED BY <2>2, <2>3
<1> QED BY <1>6, <1>7

LEMMA LaneStep ==
  ASSUME MovesTypes, LaneInv, program.name \in {"p", "u", "h"}, VuMemNext
  PROVE  LaneInv'
<1> DEFINE op == program.name
<1>1. Code = <<I(TRUE, op, 1, 0, 0), I(FALSE, op, 2, 0, 0)>>
  BY LaneCode
<1>2. PICK i : i = Code[done + 1] /\ Execute(i)
  BY StepIs
<1>3. done' = done + 1 /\ program' = program /\ done \in {0, 1}
  BY <1>1, StepIs
<1>4. \A k : LanePlace(k)' = LanePlace(k) /\ LaneKept(k)' = LaneKept(k)
  BY <1>3 DEF LanePlace, LaneKept, Lane0
<1>5. CASE done = 0
  <2>1. i = I(TRUE, op, 1, 0, 0)
    BY <1>1, <1>2, <1>5
  <2>2. \A k \in Lane : dmem'[LanePlace(k) % DMEM_LEN] = LaneKept(k)
    BY <1>2, <1>5, <2>1, LaneStoreIs DEF MovesTypes
  <2> QED BY <1>3, <1>4, <1>5, <2>2 DEF LaneInv
<1>6. CASE done = 1
  <2>1. i = I(FALSE, op, 2, 0, 0)
    BY <1>1, <1>2, <1>6
  <2>2. PICK f : f = IF op = "p" THEN 256 ELSE 128
    OBVIOUS
  <2>3. PICK v : /\ regs'[2] = Loaded(regs[2], 0, 16, HalvesOf(v)) /\ dmem' = dmem
                 /\ \A l \in Lane : v[l] = dmem[LanePlace(l) % DMEM_LEN] * f
    BY <1>2, <2>1, <2>2, LaneLoadIs
  <2>4. \A l \in Lane : dmem[LanePlace(l) % DMEM_LEN] = LaneKept(l)
    BY <1>6 DEF LaneInv
  <2>5. ASSUME NEW l \in Lane
        PROVE  regs'[2][2 * l] * 256 + regs'[2][2 * l + 1] = LaneKept(l) * f
    <3>1. v[l] = LaneKept(l) * f /\ LaneKept(l) \in 0 .. 255
      BY <2>3, <2>4, KeptType
    <3>2. v[l] \in Nat /\ v[l] < 65536
      <4>1. PICK x \in 0 .. 255 : x = LaneKept(l)
        BY <3>1
      <4>2. f \in {128, 256}
        BY <2>2
      <4>3. x * f \in Nat /\ x * f < 65536
        BY <4>2
      <4> QED BY <3>1, <4>1, <4>3
    <3>3. /\ 2 * l \in ByteOf /\ 2 * l + 1 \in ByteOf
          /\ HalvesOf(v)[2 * l] * 256 + HalvesOf(v)[2 * l + 1] = v[l]
      BY <3>2, HalvesIs
    <3>4. /\ regs'[2][2 * l] = HalvesOf(v)[2 * l]
          /\ regs'[2][2 * l + 1] = HalvesOf(v)[2 * l + 1]
      BY <2>3, <3>3 DEF Loaded, ByteOf
    <3> QED BY <3>1, <3>3, <3>4
  <2>6. (\A l \in Lane : LaneOf(2, l) = LaneKept(l) * f)'
    BY <1>4, <2>5 DEF LaneOf
  <2> QED BY <1>3, <1>4, <1>6, <2>2, <2>3, <2>4, <2>6 DEF LaneInv
<1> QED BY <1>3, <1>5, <1>6

\* The lanes that are stored from elements 0 and 8, and the bytes their loads read.
LEMMA FourthLanesIs ==
  ASSUME NEW h \in 0 .. 1, NEW k \in 0 .. 3
  PROVE  FourthLanes(8 * h) # <<>> /\ FourthLanes(8 * h)[k + 1] = 4 * h + k
<1>1. /\ 0 # 1 /\ 0 # 4 /\ 0 # 5 /\ 0 # 8 /\ 0 # 11 /\ 0 # 12
      /\ 8 # 0 /\ 8 # 15 /\ 8 # 1 /\ 8 # 4 /\ 8 # 5 /\ 8 # 11 /\ 8 # 12
  OBVIOUS
<1>2. FourthLanes(0) = <<0, 1, 2, 3>>
  BY <1>1, Zenon DEF FourthLanes
<1>3. FourthLanes(8) = <<4, 5, 6, 7>>
  BY <1>1, Zenon DEF FourthLanes
<1>4. k + 1 \in 1 .. 4 /\ k \in {0, 1, 2, 3}
  OBVIOUS
<1>5. CASE h = 0
  <2>1. 8 * h = 0 /\ 4 * h + k = k
    BY <1>5
  <2>2. <<0, 1, 2, 3>>[k + 1] = k /\ <<0, 1, 2, 3>> # <<>>
    BY <1>4
  <2> QED BY <1>2, <2>1, <2>2
<1>6. CASE h = 1
  <2>1. 8 * h = 8 /\ 4 * h + k = 4 + k
    BY <1>6
  <2>2. <<4, 5, 6, 7>>[k + 1] = 4 + k /\ <<4, 5, 6, 7>> # <<>>
    BY <1>4
  <2> QED BY <1>3, <2>1, <2>2
<1> QED BY <1>5, <1>6

LEMMA FourthIs ==
  ASSUME NEW h \in 0 .. 1, NEW k \in 0 .. 3, NEW m \in 0 .. 7
  PROVE  (m + Fourth(8 * h)[(4 * h + k) + 1]) % 16 = (m + 4 * k) % 16
<1> DEFINE e == 8 * h
           l == (4 * h + k) + 1
           c == Fourth(e)[l]
<1>1. e \in Int /\ l \in 1 .. 8
  OBVIOUS
<1>2. Fourth(e) = <<e, 4 - e, 8 - e, 12 - e, 8 - e, 12 - e, -e, 4 - e>>
  BY DEF Fourth
<1>3. /\ Fourth(e)[1] = e /\ Fourth(e)[2] = 4 - e /\ Fourth(e)[3] = 8 - e
      /\ Fourth(e)[4] = 12 - e /\ Fourth(e)[5] = 8 - e /\ Fourth(e)[6] = 12 - e
      /\ Fourth(e)[7] = -e /\ Fourth(e)[8] = 4 - e
  BY <1>1, <1>2
<1>4. c = 4 * k \/ c = 4 * k - 16
  <2> HIDE DEF e
  <2>1. CASE h = 0
    <3>1. e = 0 /\ l = k + 1 /\ k \in {0, 1, 2, 3}
      BY <2>1 DEF e
    <3> HIDE DEF l
    <3> QED BY <1>3, <3>1
  <2>2. CASE h = 1
    <3>1. e = 8 /\ l = k + 5 /\ k \in {0, 1, 2, 3}
      BY <2>2 DEF e
    <3> HIDE DEF l
    <3> QED BY <1>3, <3>1
  <2> QED BY <2>1, <2>2
<1> HIDE DEF c
<1>5. (m + c) % 16 = (m + 4 * k) % 16
  BY <1>4
<1> QED BY <1>5 DEF c

\* Where lane l is left, in the first half's sixteen bytes or in the second's.
Quarter(l) ==
  LET b == program.base IN
  b - (b % 8) + (IF l < 4 THEN ((b % 8) + 4 * l) % 16 ELSE 16 + (((b % 8) + 4 * (l - 4)) % 16))

QuarterKept(l) == (Lane0(IF l < 4 THEN 1 ELSE 2, l) \div 128) % 256

\* The fourths of a line are written in halves, and read back in halves.
FourthInv ==
  program.name = "f" =>
    /\ done <= 2 => regs = Regs0
    /\ \A l \in Lane :
         /\ done >= 1 /\ l < 4 => dmem[Quarter(l) % DMEM_LEN] = QuarterKept(l)
         /\ done >= 2 => dmem[Quarter(l) % DMEM_LEN] = QuarterKept(l)
         /\ done >= 3 /\ l < 4 => LaneOf(3, l) = QuarterKept(l) * 128
         /\ done = 4 => LaneOf(3, l) = QuarterKept(l) * 128

LEMMA QuarterType == ASSUME NEW l \in Lane PROVE QuarterKept(l) \in 0 .. 255
<1>1. PICK r \in {1, 2} : r = IF l < 4 THEN 1 ELSE 2
  OBVIOUS
<1>2. Regs0[r][2 * l] \in 0 .. 255 /\ Regs0[r][2 * l + 1] \in 0 .. 255
  <2>1. 2 * l \in ByteOf /\ 2 * l + 1 \in ByteOf
    BY DEF Lane, ByteOf
  <2>2. r \in 0 .. 7
    OBVIOUS
  <2>3. \A c \in ByteOf : Regs0[r][c] \in 0 .. 255
    BY <2>2, VuMemAssumption
  <2> QED BY <2>1, <2>3
<1>3. PICK x \in 0 .. 255, y \in 0 .. 255 : x = Regs0[r][2 * l] /\ y = Regs0[r][2 * l + 1]
  BY <1>2
<1>4. ((x * 256 + y) \div 128) % 256 \in 0 .. 255
  OBVIOUS
<1> QED BY <1>1, <1>3, <1>4 DEF QuarterKept, Lane0

\* The places of a half, h being 0 or 1, and what is read there.
LEMMA QuarterIs ==
  ASSUME MovesTypes, NEW h \in 0 .. 1, NEW k \in 0 .. 3, NEW m, m = program.base % 8,
         NEW a, a = program.base + 16 * h + DMEM_LEN
  PROVE  /\ Quarter(4 * h + k) \in Nat
         /\ a - (a % 8) + ((m + 4 * k) % 16) = Quarter(4 * h + k) + DMEM_LEN
         /\ Quarter(4 * h + k) >= program.base - m + 16 * h
         /\ Quarter(4 * h + k) <= program.base - m + 16 * h + 15
         /\ a % 8 = m
<1> DEFINE b == program.base
           d == DMEM_LEN
           u == (m + 4 * k) % 16
           l == 4 * h + k
<1>1. b \in Nat /\ m \in 0 .. 7 /\ d \in Nat /\ b - m \in Nat
  <2>1. b \in Nat /\ m = b % 8 /\ d \in Nat
    BY LenIs DEF MovesTypes
  <2> HIDE DEF b, d
  <2> QED BY <2>1
<1>2. u \in 0 .. 15
  <2>1. m \in Int
    BY <1>1
  <2>2. (m + 4 * k) \in Int
    BY <2>1
  <2> DEFINE x == m + 4 * k
  <2> HIDE DEF x
  <2>3. x \in Int => x % 16 \in 0 .. 15
    OBVIOUS
  <2> QED BY <2>2, <2>3 DEF x
<1>3. a % 8 = m
  <2>1. (b + 16 * h) % 8 = m /\ b + 16 * h \in Nat
    <3>1. b \in Nat /\ m = b % 8
      BY <1>1
    <3> HIDE DEF b
    <3> QED BY <3>1
  <2> QED BY <2>1, OffsetIs
<1>4. Quarter(l) = b - m + 16 * h + u
  <2>1. l - 4 * h = k /\ (l < 4 <=> h = 0)
    OBVIOUS
  <2>2. Quarter(l) =
          b - m + (IF l < 4 THEN (m + 4 * l) % 16 ELSE 16 + ((m + 4 * (l - 4)) % 16))
    BY DEF Quarter
  <2> HIDE DEF l, u, b
  <2>3. CASE h = 0
    <3>1. l = k
      BY <2>3 DEF l
    <3>2. Quarter(l) = b - m + u
      BY <2>1, <2>2, <2>3, <3>1 DEF u
    <3> QED BY <1>1, <1>2, <2>3, <3>2
  <2>4. CASE h = 1
    <3>1. l - 4 = k
      BY <2>4 DEF l
    <3>2. Quarter(l) = b - m + (16 + u)
      BY <2>1, <2>2, <2>4, <3>1 DEF u
    <3> QED BY <1>1, <1>2, <2>4, <3>2
  <2> QED BY <2>3, <2>4
<1> HIDE DEF u, l
<1>5. /\ b - m + 16 * h + u \in Nat
      /\ a - m + u = (b - m + 16 * h + u) + d
      /\ b - m + 16 * h + u >= b - m + 16 * h
      /\ b - m + 16 * h + u <= b - m + 16 * h + 15
  <2>1. a = b + 16 * h + d
    OBVIOUS
  <2> HIDE DEF b, d
  <2> QED BY <1>1, <1>2, <2>1
<1> QED BY <1>3, <1>4, <1>5 DEF u, l

LEMMA QuartersDiffer ==
  ASSUME MovesTypes, NEW h \in 0 .. 1, NEW k \in 0 .. 3, NEW j \in 0 .. 3,
         Quarter(4 * h + k) = Quarter(4 * h + j)
  PROVE  k = j
<1> DEFINE m == program.base % 8
           u == (m + 4 * k) % 16
           w == (m + 4 * j) % 16
           a == program.base + 16 * h + DMEM_LEN
           c == a - (a % 8)
<1>1. m \in 0 .. 7 /\ c \in Int
  BY LenIs DEF MovesTypes
<1>2. c + u = c + w
  <2>1. c + u = Quarter(4 * h + k) + DMEM_LEN /\ c + w = Quarter(4 * h + j) + DMEM_LEN
    BY QuarterIs
  <2> QED BY <2>1
<1> HIDE DEF m, c
<1>3. u \in 0 .. 15 /\ w \in 0 .. 15 /\ (u = w => k = j)
  BY <1>1
<1> HIDE DEF u, w
<1> QED BY <1>1, <1>2, <1>3

\* One half stored.
LEMMA FourthStoreIs ==
  ASSUME MovesTypes, regs = Regs0, NEW h \in 0 .. 1,
         NEW i, i = I(TRUE, "f", 1 + h, 8 * h, h), Execute(i)
  PROVE  /\ regs' = regs
         /\ \A k \in 0 .. 3 : dmem'[Quarter(4 * h + k) % DMEM_LEN] = QuarterKept(4 * h + k)
         /\ \A x \in Addr :
              (\A k \in 0 .. 3 : x # Quarter(4 * h + k) % DMEM_LEN) => dmem'[x] = dmem[x]
<1> DEFINE b == program.base
           m == b % 8
           d == DMEM_LEN
           n == 4
<1>1. b \in Nat /\ m \in 0 .. 7 /\ d \in Nat
  BY LenIs DEF MovesTypes
<1>2. PICK a : a = Address(i) + d
  OBVIOUS
<1>3. i.store /\ i.op = "f" /\ i.vt = 1 + h /\ i.e = 8 * h /\ a = b + 16 * h + d
  BY <1>1, <1>2, ScaleIs DEF Signed7, Address, I
<1>4. \A k \in 0 .. 3 :
        /\ Quarter(4 * h + k) \in Nat
        /\ a - (a % 8) + ((m + 4 * k) % 16) = Quarter(4 * h + k) + d
        /\ Quarter(4 * h + k) >= b - m + 16 * h
        /\ Quarter(4 * h + k) <= b - m + 16 * h + 15
        /\ a % 8 = m
  BY <1>3, QuarterIs
<1>5. a % 8 = m
  BY <1>4
<1> DEFINE to == [k \in 0 .. 3 |-> a - (a % 8) + (((a % 8) + 4 * k) % 16)]
           byte == [k \in 0 .. 3 |->
             IF FourthLanes(i.e) = <<>> THEN 0
             ELSE (LaneOf(i.vt, FourthLanes(i.e)[k + 1]) \div 128) % 256]
<1> HIDE DEF b, m, d
<1>6. dmem' = Stored(dmem, n, to, byte) /\ regs' = regs
  <2>1. FourthStore(i, a)
    BY <1>2, <1>3, MemoryIs DEF d
  <2> QED BY <2>1 DEF FourthStore, Store
<1>7. ASSUME NEW k \in 0 .. 3
      PROVE  to[k] = Quarter(4 * h + k) + d /\ byte[k] = QuarterKept(4 * h + k)
  <2>1. to[k] = Quarter(4 * h + k) + d
    BY <1>4, <1>5
  <2>2. byte[k] = QuarterKept(4 * h + k)
    <3>1. FourthLanes(i.e) # <<>> /\ FourthLanes(i.e)[k + 1] = 4 * h + k
      BY <1>3, FourthLanesIs
    <3>2. byte[k] = (LaneOf(1 + h, 4 * h + k) \div 128) % 256
      BY <1>3, <3>1
    <3>3. 1 + h = IF 4 * h + k < 4 THEN 1 ELSE 2
      OBVIOUS
    <3>4. LaneOf(1 + h, 4 * h + k) = Lane0(1 + h, 4 * h + k)
      BY DEF LaneOf, Lane0
    <3> HIDE DEF byte
    <3> QED BY <3>2, <3>3, <3>4 DEF QuarterKept
  <2> QED BY <2>1, <2>2
<1> DEFINE w == b - m + 16 * h + d
<1> HIDE DEF to, byte
<1>8. \A k \in 0 .. n - 1 : to[k] \in Nat /\ w <= to[k] /\ to[k] <= w + 15
  BY <1>1, <1>4, <1>7
<1>9. \A k, j \in 0 .. n - 1 : to[k] = to[j] => k = j
  <2>1. ASSUME NEW k \in 0 .. 3, NEW j \in 0 .. 3, to[k] = to[j] PROVE k = j
    <3>1. PICK x \in Nat : x = Quarter(4 * h + k)
      BY <1>4
    <3>2. PICK y \in Nat : y = Quarter(4 * h + j)
      BY <1>4
    <3>3. x + d = y + d
      BY <1>7, <2>1, <3>1, <3>2
    <3>4. x = y
      BY <1>1, <3>3
    <3>5. Quarter(4 * h + k) = Quarter(4 * h + j)
      BY <3>1, <3>2, <3>4
    <3> QED BY <3>5, QuartersDiffer
  <2> QED BY <2>1
<1>10. w \in Int /\ n \in Nat
  BY <1>1
<1> HIDE DEF n, w
<1>11. /\ \A k \in 0 .. n - 1 : dmem'[to[k] % d] = byte[k]
       /\ \A x \in Addr : (\A k \in 0 .. n - 1 : x # to[k] % d) => dmem'[x] = dmem[x]
  BY <1>6, <1>8, <1>9, <1>10, StoreLeaves DEF d
<1>12. \A k \in 0 .. n - 1 : k \in 0 .. 3
  BY DEF n
<1>13. \A k \in 0 .. 3 : k \in 0 .. n - 1 /\ to[k] % d = Quarter(4 * h + k) % d
  <2>1. \A k \in 0 .. 3 : k \in 0 .. n - 1
    BY DEF n
  <2>2. ASSUME NEW k \in 0 .. 3 PROVE to[k] % d = Quarter(4 * h + k) % d
    BY <1>4, <1>7, Around DEF d
  <2> QED BY <2>1, <2>2
<1>14. \A k \in 0 .. 3 : dmem'[Quarter(4 * h + k) % d] = QuarterKept(4 * h + k)
  BY <1>7, <1>11, <1>13
<1>15. ASSUME NEW x \in Addr, \A k \in 0 .. 3 : x # Quarter(4 * h + k) % d
       PROVE  dmem'[x] = dmem[x]
  <2>1. \A k \in 0 .. n - 1 : x # to[k] % d
    BY <1>12, <1>13, <1>15
  <2> QED BY <1>11, <2>1
<1> QED BY <1>6, <1>14, <1>15 DEF d

LEMMA HalfIs == \A h \in 0 .. 1 : Least(8, 16 - 8 * h) = 8
  BY DEF Least

\* One half loaded.
LEMMA FourthLoadIs ==
  ASSUME MovesTypes, NEW h \in 0 .. 1,
         NEW i, i = I(FALSE, "f", 3, 8 * h, h), Execute(i)
  PROVE  /\ dmem' = dmem
         /\ \E v : /\ regs'[3] = Loaded(regs[3], 8 * h, 8, [k \in ByteOf |-> HalvesOf(v)[8 * h + k]])
                   /\ \A k \in 0 .. 3 :
                        v[4 * h + k] = dmem[Quarter(4 * h + k) % DMEM_LEN] * 128
<1> DEFINE b == program.base
           m == b % 8
           d == DMEM_LEN
<1>1. b \in Nat /\ m \in 0 .. 7 /\ d \in Nat /\ DOMAIN regs = 0 .. 7
  BY LenIs DEF MovesTypes
<1>2. PICK a : a = Address(i) + d
  OBVIOUS
<1>3. ~i.store /\ i.op = "f" /\ i.vt = 3 /\ i.e = 8 * h /\ a = b + 16 * h + d
  BY <1>1, <1>2, ScaleIs DEF Signed7, Address, I
<1>4. \A k \in 0 .. 3 :
        /\ Quarter(4 * h + k) \in Nat
        /\ a - (a % 8) + ((m + 4 * k) % 16) = Quarter(4 * h + k) + d
        /\ a % 8 = m
  <2>1. PICK l : l = m
    OBVIOUS
  <2>2. l = program.base % 8 /\ a = program.base + 16 * h + DMEM_LEN
    BY <1>3, <2>1
  <2> HIDE DEF b, m, d
  <2>3. \A k \in 0 .. 3 :
          /\ Quarter(4 * h + k) \in Nat
          /\ a - (a % 8) + ((l + 4 * k) % 16) = Quarter(4 * h + k) + DMEM_LEN
          /\ a % 8 = l
    BY <2>2, QuarterIs
  <2> QED BY <2>1, <2>3 DEF d
<1>5. a % 8 = m
  BY <1>4
<1> DEFINE v == [l \in Lane |-> Mem(a - (a % 8) + (((a % 8) + Fourth(i.e)[l + 1]) % 16)) * 128]
<1> HIDE DEF b, m, d
<1>6. FourthLoad(i, a)
  BY <1>2, <1>3, MemoryIs DEF d
<1>7. Least(8, 16 - i.e) = 8
  <2>1. i.e = 8 * h
    BY <1>3
  <2> QED BY <2>1, HalfIs
<1>8. /\ regs'[3] = Loaded(regs[3], 8 * h, 8, [k \in ByteOf |-> HalvesOf(v)[8 * h + k]])
      /\ dmem' = dmem
  <2>1. Load(3, 8 * h, 8, [k \in ByteOf |-> HalvesOf(v)[8 * h + k]])
    BY <1>3, <1>6, <1>7 DEF FourthLoad
  <2> HIDE DEF v
  <2> QED BY <1>1, <2>1 DEF Load
<1>9. ASSUME NEW k \in 0 .. 3
      PROVE  v[4 * h + k] = dmem[Quarter(4 * h + k) % DMEM_LEN] * 128
  <2>1. 4 * h + k \in Lane
    BY DEF Lane
  <2>2. ((a % 8) + Fourth(i.e)[(4 * h + k) + 1]) % 16 = (m + 4 * k) % 16
    <3> HIDE DEF v
    <3> QED BY <1>1, <1>3, <1>5, FourthIs
  <2>3. v[4 * h + k] = Mem(a - (a % 8) + (((a % 8) + Fourth(i.e)[(4 * h + k) + 1]) % 16)) * 128
    BY <2>1
  <2>4. a - (a % 8) + (((a % 8) + Fourth(i.e)[(4 * h + k) + 1]) % 16) = Quarter(4 * h + k) + d
    BY <1>4, <2>2
  <2>5. Mem(Quarter(4 * h + k) + d) = dmem[Quarter(4 * h + k) % d]
    BY <1>4, Around DEF d, Mem
  <2> HIDE DEF v
  <2> QED BY <2>3, <2>4, <2>5 DEF d
<1> HIDE DEF v
<1> QED BY <1>8, <1>9

\* The halves are in windows of their own.
LEMMA QuarterRange ==
  ASSUME MovesTypes
  PROVE  \E c \in Int : \A l \in Lane :
           /\ Quarter(l) \in Nat
           /\ l < 4 => Quarter(l) >= c /\ Quarter(l) <= c + 15
           /\ ~(l < 4) => Quarter(l) >= c + 16 /\ Quarter(l) <= c + 31
<1>1. PICK m : m = program.base % 8
  OBVIOUS
<1>2. PICK c \in Int : c = program.base - m
  BY <1>1 DEF MovesTypes
<1>3. ASSUME NEW h \in 0 .. 1, NEW k \in 0 .. 3
      PROVE  /\ Quarter(4 * h + k) \in Nat
             /\ Quarter(4 * h + k) >= c + 16 * h
             /\ Quarter(4 * h + k) <= c + 16 * h + 15
  <2>1. PICK a : a = program.base + 16 * h + DMEM_LEN
    OBVIOUS
  <2> QED BY <1>1, <1>2, <2>1, QuarterIs
<1>4. ASSUME NEW l \in Lane
      PROVE  /\ Quarter(l) \in Nat
             /\ l < 4 => Quarter(l) >= c /\ Quarter(l) <= c + 15
             /\ ~(l < 4) => Quarter(l) >= c + 16 /\ Quarter(l) <= c + 31
  <2>1. PICK h \in 0 .. 1 : h = IF l < 4 THEN 0 ELSE 1
    OBVIOUS
  <2>2. PICK k \in 0 .. 3 : 4 * h + k = l
    BY <2>1, l - 4 * h \in 0 .. 3 DEF Lane
  <2>3. /\ Quarter(l) \in Nat
        /\ Quarter(l) >= c + 16 * h
        /\ Quarter(l) <= c + 16 * h + 15
    BY <1>3, <2>2
  <2>4. PICK x \in Nat : x = Quarter(l)
    BY <2>3
  <2> QED BY <2>1, <2>3, <2>4
<1> QED BY <1>4

LEMMA FourthStep ==
  ASSUME MovesTypes, FourthInv, program.name = "f", VuMemNext
  PROVE  FourthInv'
<1>1. Code = <<I(TRUE, "f", 1, 0, 0), I(TRUE, "f", 2, 8, 1),
               I(FALSE, "f", 3, 0, 0), I(FALSE, "f", 3, 8, 1)>>
  BY FourthCode
<1>2. PICK i : i = Code[done + 1] /\ Execute(i)
  BY StepIs
<1>3. done' = done + 1 /\ program' = program /\ done \in {0, 1, 2, 3}
  BY <1>1, StepIs
<1>4. \A l : Quarter(l)' = Quarter(l) /\ QuarterKept(l)' = QuarterKept(l)
  BY <1>3 DEF Quarter, QuarterKept, Lane0
<1>l. /\ \A l \in Lane : l < 4 => l \in 0 .. 3 /\ l = 4 * 0 + l
      /\ \A l \in Lane : ~(l < 4) => l - 4 \in 0 .. 3 /\ l = 4 * 1 + (l - 4)
      /\ \A k \in 0 .. 3 : 4 * 0 + k \in Lane /\ 4 * 1 + k \in Lane /\ k \in Lane /\ k < 4
  BY DEF Lane
<1>s. ASSUME NEW h \in 0 .. 1, done = h
      PROVE  /\ regs' = regs
             /\ \A l \in Lane : (l < 4 <=> h = 0) =>
                  dmem'[Quarter(l) % DMEM_LEN] = QuarterKept(l)
             /\ h = 1 => \A x \in Addr :
                  (\A l \in Lane : ~(l < 4) => x # Quarter(l) % DMEM_LEN) => dmem'[x] = dmem[x]
  <2>1. i = I(TRUE, "f", 1 + h, 8 * h, h)
    <3>1. CASE h = 0
      <4>1. 1 + h = 1 /\ 8 * h = 0
        BY <3>1
      <4>2. i = I(TRUE, "f", 1, 0, 0)
        BY <1>1, <1>2, <1>s, <3>1
      <4> QED BY <3>1, <4>1, <4>2, Zenon
    <3>2. CASE h = 1
      <4>1. 1 + h = 2 /\ 8 * h = 8
        BY <3>2
      <4>2. i = I(TRUE, "f", 2, 8, 1)
        BY <1>1, <1>2, <1>s, <3>2
      <4> QED BY <3>2, <4>1, <4>2, Zenon
    <3>3. h = 0 \/ h = 1
      OBVIOUS
    <3> QED BY <3>1, <3>2, <3>3, Zenon
  <2>2. regs = Regs0
    BY <1>s DEF FourthInv
  <2>3. /\ regs' = regs
        /\ \A k \in 0 .. 3 : dmem'[Quarter(4 * h + k) % DMEM_LEN] = QuarterKept(4 * h + k)
        /\ \A x \in Addr :
             (\A k \in 0 .. 3 : x # Quarter(4 * h + k) % DMEM_LEN) => dmem'[x] = dmem[x]
    BY <1>2, <2>1, <2>2, FourthStoreIs
  <2>4. ASSUME NEW l \in Lane, l < 4 <=> h = 0
        PROVE  dmem'[Quarter(l) % DMEM_LEN] = QuarterKept(l)
    <3>1. l - 4 * h \in 0 .. 3 /\ 4 * h + (l - 4 * h) = l
      BY <2>4 DEF Lane
    <3>2. PICK k \in 0 .. 3 : 4 * h + k = l
      BY <3>1
    <3> QED BY <2>3, <3>2
  <2>5. ASSUME h = 1, NEW x \in Addr, \A l \in Lane : ~(l < 4) => x # Quarter(l) % DMEM_LEN
        PROVE  dmem'[x] = dmem[x]
    <3>1. \A k \in 0 .. 3 : 4 * h + k \in Lane /\ ~(4 * h + k < 4)
      BY <2>5 DEF Lane
    <3>2. \A k \in 0 .. 3 : x # Quarter(4 * h + k) % DMEM_LEN
      BY <2>5, <3>1
    <3> QED BY <2>3, <3>2
  <2> QED BY <2>3, <2>4, <2>5
<1>5. CASE done = 0
  <2>1. /\ regs' = regs
        /\ \A l \in Lane : l < 4 => dmem'[Quarter(l) % DMEM_LEN] = QuarterKept(l)
    BY <1>5, <1>s
  <2> QED BY <1>3, <1>4, <1>5, <2>1 DEF FourthInv
<1>6. CASE done = 1
  <2>2. /\ regs' = regs
        /\ \A l \in Lane : ~(l < 4) => dmem'[Quarter(l) % DMEM_LEN] = QuarterKept(l)
        /\ \A x \in Addr :
             (\A l \in Lane : ~(l < 4) => x # Quarter(l) % DMEM_LEN) => dmem'[x] = dmem[x]
    BY <1>6, <1>s
  <2>3. ASSUME NEW l \in Lane PROVE dmem'[Quarter(l) % DMEM_LEN] = QuarterKept(l)
    <3>1. CASE l < 4
      <4>1. dmem[Quarter(l) % DMEM_LEN] = QuarterKept(l)
        BY <1>6, <3>1 DEF FourthInv
      <4>2. ASSUME NEW k \in Lane, ~(k < 4), Quarter(l) % DMEM_LEN = Quarter(k) % DMEM_LEN
            PROVE  FALSE
        <5>2. PICK c \in Int : \A n \in Lane :
                /\ Quarter(n) \in Nat
                /\ n < 4 => Quarter(n) >= c /\ Quarter(n) <= c + 15
                /\ ~(n < 4) => Quarter(n) >= c + 16 /\ Quarter(n) <= c + 31
          BY QuarterRange
        <5>3. PICK x \in Nat : x = Quarter(l) /\ x >= c /\ x <= c + 15
          BY <3>1, <5>2
        <5>4. PICK y \in Nat : y = Quarter(k) /\ y >= c + 16 /\ y <= c + 31
          BY <4>2, <5>2
        <5>5. x - y < DMEM_LEN /\ y - x < DMEM_LEN
          BY <5>3, <5>4, LenIs
        <5>6. x = y
          BY <4>2, <5>3, <5>4, <5>5, Distinct
        <5> QED BY <5>3, <5>4, <5>6
      <4>3. Quarter(l) % DMEM_LEN \in Addr
        BY QuarterRange, AddrIs
      <4> QED BY <2>2, <4>1, <4>2, <4>3
    <3>2. CASE ~(l < 4)
      BY <2>2, <3>2
    <3> QED BY <3>1, <3>2
  <2> QED BY <1>3, <1>4, <1>6, <2>2, <2>3 DEF FourthInv
<1>7. ASSUME NEW h \in 0 .. 1, done = 2 + h
      PROVE  /\ dmem' = dmem
             /\ \A k \in 0 .. 3 :
                  regs'[3][2 * (4 * h + k)] * 256 + regs'[3][2 * (4 * h + k) + 1] =
                    QuarterKept(4 * h + k) * 128
             /\ h = 1 => \A k \in 0 .. 3 :
                  regs'[3][2 * k] = regs[3][2 * k] /\ regs'[3][2 * k + 1] = regs[3][2 * k + 1]
  <2>1. i = I(FALSE, "f", 3, 8 * h, h)
    <3>1. CASE h = 0
      <4>1. 8 * h = 0
        BY <3>1
      <4>2. i = I(FALSE, "f", 3, 0, 0)
        BY <1>1, <1>2, <1>7, <3>1
      <4> QED BY <3>1, <4>1, <4>2, Zenon
    <3>2. CASE h = 1
      <4>1. 8 * h = 8
        BY <3>2
      <4>2. i = I(FALSE, "f", 3, 8, 1)
        BY <1>1, <1>2, <1>7, <3>2
      <4> QED BY <3>2, <4>1, <4>2, Zenon
    <3>3. h = 0 \/ h = 1
      OBVIOUS
    <3> QED BY <3>1, <3>2, <3>3, Zenon
  <2>2. PICK v : /\ regs'[3] = Loaded(regs[3], 8 * h, 8,
                                      [k \in ByteOf |-> HalvesOf(v)[8 * h + k]])
                 /\ dmem' = dmem
                 /\ \A k \in 0 .. 3 :
                      v[4 * h + k] = dmem[Quarter(4 * h + k) % DMEM_LEN] * 128
    BY <1>2, <2>1, FourthLoadIs
  <2>3. ASSUME NEW k \in 0 .. 3
        PROVE  regs'[3][2 * (4 * h + k)] * 256 + regs'[3][2 * (4 * h + k) + 1] =
                 QuarterKept(4 * h + k) * 128
    <3> DEFINE l == 4 * h + k
    <3>1. l \in Lane
      BY DEF Lane
    <3>2. /\ 2 * l \in ByteOf /\ 2 * l + 1 \in ByteOf
          /\ 2 * l \in 8 * h .. 8 * h + 8 - 1 /\ 2 * l + 1 \in 8 * h .. 8 * h + 8 - 1
          /\ 2 * l - 8 * h \in ByteOf /\ 2 * l + 1 - 8 * h \in ByteOf
          /\ 8 * h + (2 * l - 8 * h) = 2 * l /\ 8 * h + (2 * l + 1 - 8 * h) = 2 * l + 1
      BY DEF ByteOf
    <3>3. v[l] = QuarterKept(l) * 128
      <4>1. dmem[Quarter(l) % DMEM_LEN] = QuarterKept(l)
        BY <1>7, <3>1 DEF FourthInv
      <4> QED BY <2>2, <4>1
    <3> HIDE DEF l
    <3>4. v[l] \in Nat /\ v[l] < 65536
      <4>1. PICK x \in 0 .. 255 : x = QuarterKept(l)
        BY <3>1, QuarterType
      <4> QED BY <3>3, <4>1
    <3>5. regs'[3][2 * l] = HalvesOf(v)[2 * l] /\ regs'[3][2 * l + 1] = HalvesOf(v)[2 * l + 1]
      BY <2>2, <3>2 DEF Loaded
    <3>6. HalvesOf(v)[2 * l] * 256 + HalvesOf(v)[2 * l + 1] = v[l]
      BY <3>1, <3>4, HalvesIs
    <3> QED BY <3>3, <3>5, <3>6 DEF l
  <2>4. ASSUME h = 1, NEW k \in 0 .. 3
        PROVE  regs'[3][2 * k] = regs[3][2 * k] /\ regs'[3][2 * k + 1] = regs[3][2 * k + 1]
    <3>1. /\ 2 * k \in ByteOf /\ 2 * k + 1 \in ByteOf
          /\ 2 * k \notin 8 * h .. 8 * h + 8 - 1 /\ 2 * k + 1 \notin 8 * h .. 8 * h + 8 - 1
      BY <2>4 DEF ByteOf
    <3> QED BY <2>2, <3>1 DEF Loaded
  <2> QED BY <2>2, <2>3, <2>4
<1>8. CASE done = 2
  <2>1. /\ dmem' = dmem
        /\ \A k \in 0 .. 3 :
             regs'[3][2 * (4 * 0 + k)] * 256 + regs'[3][2 * (4 * 0 + k) + 1] =
               QuarterKept(4 * 0 + k) * 128
    BY <1>7, <1>8
  <2>2. \A l \in Lane : l < 4 => regs'[3][2 * l] * 256 + regs'[3][2 * l + 1] = QuarterKept(l) * 128
    BY <1>l, <2>1
  <2>3. (\A l \in Lane : l < 4 => LaneOf(3, l) = QuarterKept(l) * 128)'
    BY <1>4, <2>2 DEF LaneOf
  <2> QED BY <1>3, <1>4, <1>8, <2>1, <2>3 DEF FourthInv
<1>9. CASE done = 3
  <2>1. /\ dmem' = dmem
        /\ \A k \in 0 .. 3 :
             regs'[3][2 * (4 * 1 + k)] * 256 + regs'[3][2 * (4 * 1 + k) + 1] =
               QuarterKept(4 * 1 + k) * 128
        /\ \A k \in 0 .. 3 :
             regs'[3][2 * k] = regs[3][2 * k] /\ regs'[3][2 * k + 1] = regs[3][2 * k + 1]
    BY <1>7, <1>9
  <2>2. ASSUME NEW l \in Lane
        PROVE  regs'[3][2 * l] * 256 + regs'[3][2 * l + 1] = QuarterKept(l) * 128
    <3>1. CASE l < 4
      <4>1. regs[3][2 * l] * 256 + regs[3][2 * l + 1] = QuarterKept(l) * 128
        BY <1>9, <3>1 DEF FourthInv, LaneOf
      <4> QED BY <1>l, <2>1, <3>1, <4>1
    <3>2. CASE ~(l < 4)
      BY <1>l, <2>1, <3>2
    <3> QED BY <3>1, <3>2
  <2>3. (\A l \in Lane : LaneOf(3, l) = QuarterKept(l) * 128)'
    BY <1>4, <2>2 DEF LaneOf
  <2> QED BY <1>3, <1>4, <1>9, <2>1, <2>3 DEF FourthInv
<1> QED BY <1>3, <1>5, <1>6, <1>8, <1>9

\* Where a wrapped store leaves byte k.
Wrapped(k) ==
  LET b == program.base IN b - (b % 8) + (((b % 8) + k) % 16)

\* A register is left rotated, and its load does nothing.
WrapInv ==
  program.name = "w" /\ done >= 1 =>
    \A k \in ByteOf : dmem[Wrapped(k) % DMEM_LEN] = Regs0[1][(program.e + k) % 16]

LEMMA WrapStep ==
  ASSUME MovesTypes, WrapInv, program.name = "w", VuMemNext
  PROVE  WrapInv'
<1> DEFINE b == program.base
           e == program.e
           m == b % 8
           d == DMEM_LEN
<1>1. Code = <<I(TRUE, "w", 1, e, 0), I(FALSE, "w", 1, 0, 0)>>
  BY WrapCode
<1>2. b \in Nat /\ m \in 0 .. 7 /\ d \in Nat /\ e \in ByteOf /\ b - m \in Nat
  <2>1. b \in Nat /\ m = b % 8 /\ d \in Nat /\ e \in ByteOf
    BY LenIs DEF MovesTypes
  <2> HIDE DEF b, d, m
  <2> QED BY <2>1
<1>3. PICK i : i = Code[done + 1] /\ Execute(i)
  BY StepIs
<1>4. done' = done + 1 /\ program' = program /\ done \in {0, 1}
  BY <1>1, StepIs
<1>5. PICK a : a = Address(i) + d
  OBVIOUS
<1>p. \A k : Wrapped(k) = b - m + ((m + k) % 16)
  BY DEF Wrapped
<1>q. \A k : Wrapped(k)' = Wrapped(k)
  BY <1>4 DEF Wrapped
<1> HIDE DEF b, e, m, d
<1>6. CASE done = 0
  <2>1. i = I(TRUE, "w", 1, e, 0)
    BY <1>1, <1>3, <1>6
  <2>2. i.store /\ i.op = "w" /\ i.vt = 1 /\ i.e = e /\ a = b + d
    BY <1>2, <1>5, <2>1, ScaleIs DEF Signed7, Address, I, b
  <2>3. WrapStore(i, a)
    BY <1>3, <1>5, <2>2, MemoryIs DEF d
  <2>4. a % 8 = m
    BY <1>2, <2>2, OffsetIs DEF m, d
  <2> DEFINE n == 16
             to == [k \in ByteOf |-> a - m + ((m + k) % 16)]
             byte == [k \in ByteOf |-> regs[1][(e + k) % 16]]
  <2>5. dmem' = Stored(dmem, n, to, byte)
    BY <2>2, <2>3, <2>4 DEF WrapStore, Store
  <2>6. ASSUME NEW k \in ByteOf
        PROVE  /\ Wrapped(k) \in Nat /\ Wrapped(k) >= b - m /\ Wrapped(k) <= b - m + 15
               /\ to[k] = Wrapped(k) + d /\ byte[k] = Regs0[1][(e + k) % 16]
               /\ (m + k) % 16 \in 0 .. 15
    <3> DEFINE u == (m + k) % 16
    <3>1. u \in 0 .. 15
      BY <1>2 DEF ByteOf
    <3>2. to[k] = a - m + u /\ Wrapped(k) = b - m + u
      BY <1>p
    <3>3. byte[k] = Regs0[1][(e + k) % 16]
      BY <1>6 DEF MovesTypes
    <3> HIDE DEF u, to, byte
    <3>4. /\ b - m + u \in Nat /\ b - m + u >= b - m /\ b - m + u <= b - m + 15
          /\ a - m + u = (b - m + u) + d
      BY <1>2, <2>2, <3>1
    <3> QED BY <3>1, <3>2, <3>3, <3>4 DEF u
  <2>7. ASSUME NEW k \in ByteOf, NEW j \in ByteOf, to[k] = to[j] PROVE k = j
    <3> DEFINE u == (m + k) % 16
               w == (m + j) % 16
    <3>1. u \in 0 .. 15 /\ w \in 0 .. 15 /\ (u = w => k = j)
      BY <1>2 DEF ByteOf
    <3>2. a - m + u = a - m + w
      BY <2>7
    <3> HIDE DEF u, w
    <3> QED BY <1>2, <2>2, <3>1, <3>2
  <2> DEFINE w == b - m + d
  <2> HIDE DEF to, byte
  <2>8. \A k \in 0 .. n - 1 : k \in ByteOf
    BY DEF ByteOf
  <2>9. \A k \in ByteOf : k \in 0 .. n - 1
    BY DEF ByteOf
  <2>10. \A k \in 0 .. n - 1 : to[k] \in Nat /\ w <= to[k] /\ to[k] <= w + 15
    BY <1>2, <2>6, <2>8
  <2>11. w \in Int /\ n \in Nat
    BY <1>2
  <2> HIDE DEF w, n
  <2>12. \A k, j \in 0 .. n - 1 : to[k] = to[j] => k = j
    BY <2>7, <2>8
  <2>13. \A k \in 0 .. n - 1 : dmem'[to[k] % d] = byte[k]
    BY <2>5, <2>10, <2>11, <2>12, StoreLeaves DEF d
  <2>14. ASSUME NEW k \in ByteOf PROVE dmem'[Wrapped(k) % d] = Regs0[1][(e + k) % 16]
    <3>1. to[k] % d = Wrapped(k) % d
      BY <2>6, Around DEF d
    <3> QED BY <2>6, <2>9, <2>13, <3>1
  <2> QED BY <1>4, <1>q, <2>14 DEF WrapInv, d, e
<1>7. CASE done = 1
  <2>1. i = I(FALSE, "w", 1, 0, 0)
    BY <1>1, <1>3, <1>7
  <2>2. ~i.store /\ i.op = "w"
    BY <2>1 DEF I
  <2>3. dmem' = dmem
    BY <1>3, <1>5, <2>2, MemoryIs DEF d
  <2> QED BY <1>4, <1>7, <1>q, <2>3 DEF WrapInv
<1> QED BY <1>4, <1>6, <1>7

\* A rotation by m of sixteen bytes misses none.
LEMMA AllRotated ==
  ASSUME NEW m \in 0 .. 15, NEW j \in ByteOf
  PROVE  \E k \in ByteOf : (m + k) % 16 = j
<1>1. CASE j >= m
  <2>1. j - m \in ByteOf /\ (m + (j - m)) % 16 = j
    BY <1>1 DEF ByteOf
  <2> QED BY <2>1
<1>2. CASE j < m
  <2>1. j + 16 - m \in ByteOf /\ (m + (j + 16 - m)) % 16 = j
    BY <1>2 DEF ByteOf
  <2> QED BY <2>1
<1> QED BY <1>1, <1>2 DEF ByteOf

LEMMA WrapEnd ==
  ASSUME MovesTypes, WrapInv, program.name = "w", done >= 1
  PROVE  LET b == program.base IN
         /\ {dmem[(b - (b % 8) + k) % DMEM_LEN] : k \in ByteOf} = {Regs0[1][k] : k \in ByteOf}
         /\ dmem[b % DMEM_LEN] = Regs0[1][program.e]
<1> DEFINE b == program.base
           e == program.e
           m == b % 8
           d == DMEM_LEN
<1>1. b \in Nat /\ m \in 0 .. 7 /\ e \in 0 .. 15 /\ m + 0 = m /\ m % 16 = m /\ b - m + m = b
  <2>1. b \in Nat /\ m = b % 8 /\ e \in ByteOf
    BY DEF MovesTypes
  <2> HIDE DEF b, m
  <2>2. m \in 0 .. 7
    BY <2>1
  <2> QED BY <2>1, <2>2 DEF ByteOf
<1>2. \A k \in ByteOf : dmem[(b - m + ((m + k) % 16)) % d] = Regs0[1][(e + k) % 16]
  BY DEF WrapInv, Wrapped
<1> HIDE DEF b, e, m, d
<1>3. ASSUME NEW j \in ByteOf
      PROVE  dmem[(b - m + j) % d] \in {Regs0[1][k] : k \in ByteOf}
  <2>1. m \in 0 .. 15
    BY <1>1
  <2>2. PICK k \in ByteOf : (m + k) % 16 = j
    BY <2>1, AllRotated
  <2>3. (e + k) % 16 \in ByteOf
    BY <1>1 DEF ByteOf
  <2> QED BY <1>2, <2>2, <2>3
<1>4. ASSUME NEW j \in ByteOf
      PROVE  Regs0[1][j] \in {dmem[(b - m + k) % d] : k \in ByteOf}
  <2>1. PICK k \in ByteOf : (e + k) % 16 = j
    BY <1>1, AllRotated
  <2>2. (m + k) % 16 \in ByteOf
    BY <1>1 DEF ByteOf
  <2> QED BY <1>2, <2>1, <2>2
<1>5. dmem[b % d] = Regs0[1][e]
  <2>1. 0 \in ByteOf /\ (m + 0) % 16 = m /\ (e + 0) % 16 = e
    BY <1>1 DEF ByteOf
  <2>2. dmem[(b - m + m) % d] = Regs0[1][e]
    BY <1>2, <2>1
  <2> QED BY <1>1, <2>2
<1>6. {dmem[(b - m + k) % d] : k \in ByteOf} = {Regs0[1][k] : k \in ByteOf}
  BY <1>3, <1>4
<1> QED BY <1>5, <1>6 DEF b, m, d, e

-----------------------------------------------------------------------------
\* MatrixRow j of the matrix in memory, and the byte of a diagonal that comes c-th in it.
MatrixRow(j, c) == program.base + 16 * j + c
InRow(x, j) == (x + 16 - 2 * j) % 16

\* Diagonals are stored to rows; then rows are loaded to the diagonals across.
TransposeInv ==
  program.name = "transpose" =>
    /\ done <= 8 => regs = Regs0
    /\ \A j \in Lane, x \in ByteOf :
         j < done => dmem[MatrixRow(j, InRow(x, j)) % DMEM_LEN] = Regs0[x \div 2][InRow(x, j)]
    /\ done > 8 => \A r \in Lane, x \in ByteOf :
         ((x \div 2) + 8 - r) % 8 < done - 8 => regs[r][x] = Regs0[x \div 2][2 * r + (x % 2)]

\* The byte a row's load takes for register r is the diagonal's.
LEMMA Diagonal ==
  ASSUME NEW j \in 0 .. 7, NEW r \in 0 .. 7, NEW x \in 0 .. 15
  PROVE  /\ ((((16 - 2 * j) % 16) \div 2) + (x \div 2)) % 8 = r <=> ((x \div 2) + 8 - r) % 8 = j
         /\ ((x \div 2) + 8 - r) % 8 = j => (x + 16 - 2 * j) % 16 = 2 * r + (x % 2)
         /\ (((16 - 2 * j) % 16) + 0 + x) % 16 = (x + 16 - 2 * j) % 16
<1>1. PICK h \in 0 .. 7, p \in 0 .. 1 : x = 2 * h + p
  BY x \div 2 \in 0 .. 7, x % 2 \in 0 .. 1, x = 2 * (x \div 2) + (x % 2)
<1>2. x \div 2 = h /\ x % 2 = p
  BY <1>1
<1>3. ((16 - 2 * j) % 16) \div 2 = (8 - j) % 8
  OBVIOUS
<1>4. (((8 - j) % 8) + h) % 8 = r <=> (h + 8 - r) % 8 = j
  OBVIOUS
<1>5. (h + 8 - r) % 8 = j => (2 * h + p + 16 - 2 * j) % 16 = 2 * r + p
  OBVIOUS
<1>6. (((16 - 2 * j) % 16) + 0 + x) % 16 = (x + 16 - 2 * j) % 16
  OBVIOUS
<1> QED BY <1>1, <1>2, <1>3, <1>4, <1>5, <1>6

LEMMA InRowIs ==
  ASSUME NEW j \in Lane
  PROVE  /\ \A x \in ByteOf : InRow(x, j) \in 0 .. 15
         /\ \A x, y \in ByteOf : InRow(x, j) = InRow(y, j) => x = y
  BY DEF Lane, ByteOf, InRow

LEMMA RowsDiffer ==
  ASSUME program.base \in Nat, NEW j \in Lane, NEW k \in Lane, NEW c \in 0 .. 15, NEW f \in 0 .. 15,
         MatrixRow(j, c) % DMEM_LEN = MatrixRow(k, f) % DMEM_LEN
  PROVE  j = k
<1> DEFINE b == program.base
<1>1. b \in Nat /\ j \in 0 .. 7 /\ k \in 0 .. 7
  BY DEF Lane
<1>2. MatrixRow(j, c) = b + 16 * j + c /\ MatrixRow(k, f) = b + 16 * k + f
  BY DEF MatrixRow
<1> HIDE DEF b
<1>3. PICK x \in Nat : x = b + 16 * j + c
  BY <1>1
<1>4. PICK y \in Nat : y = b + 16 * k + f
  BY <1>1
<1>5. x - y < DMEM_LEN /\ y - x < DMEM_LEN
  BY <1>1, <1>3, <1>4, LenIs
<1>6. x = y
  BY <1>2, <1>3, <1>4, <1>5, Distinct
<1> QED BY <1>1, <1>3, <1>4, <1>6

LEMMA TransposeStoreStep ==
  ASSUME MovesTypes, TransposeInv, program.name = "transpose", VuMemNext, done < 8
  PROVE  TransposeInv'
<1> DEFINE b == program.base
           d == DMEM_LEN
           j == done
<1>1. Code = [k \in 1 .. 16 |-> IF k <= 8 THEN I(TRUE, "t", 0, 2 * (k - 1), k - 1)
                                ELSE I(FALSE, "t", 0, (16 - 2 * (k - 9)) % 16, k - 9)]
  BY TransposeCode
<1>2. b \in Nat /\ b % 16 = 0 /\ d \in Nat /\ j \in 0 .. 7
  BY LenIs, StepIs DEF MovesTypes
<1>3. PICK i : i = Code[done + 1] /\ Execute(i)
  BY StepIs
<1>4. done' = done + 1 /\ program' = program /\ regs = Regs0
  BY StepIs DEF TransposeInv
<1>5. PICK a : a = Address(i) + d
  OBVIOUS
<1>q. \A k, c : MatrixRow(k, c)' = MatrixRow(k, c)
  BY <1>4 DEF MatrixRow
<1>6. i = I(TRUE, "t", 0, 2 * j, j)
  <2>1. j + 1 \in 1 .. 16 /\ j + 1 <= 8 /\ (j + 1) - 1 = j
    BY <1>2
  <2> QED BY <1>1, <1>3, <2>1
<1> HIDE DEF b, d, j
<1>7. i.store /\ i.op = "t" /\ i.vt = 0 /\ i.e = 2 * j /\ a = (b + 16 * j) + d
  BY <1>2, <1>5, <1>6, ScaleIs DEF Signed7, Address, I, b
<1>8. TransposeStore(i, a)
  BY <1>3, <1>5, <1>7, MemoryIs DEF d
<1>9. a % 8 = 0
  <2>1. b + 16 * j \in Nat /\ (b + 16 * j) % 8 = 0
    BY <1>2
  <2> QED BY <1>7, <2>1, OffsetIs DEF d
<1>10. i.e - (i.e % 2) = 2 * j
  BY <1>2, <1>7
<1> DEFINE n == 16
           to == [k \in ByteOf |-> a - 0 + ((0 - 2 * j + k) % 16)]
           byte == [k \in ByteOf |-> regs[k \div 2][(16 - 2 * j + k) % 16]]
           w == b + 16 * j + d
<1>11. dmem' = Stored(dmem, n, to, byte) /\ regs' = regs
  BY <1>8, <1>9, <1>10 DEF TransposeStore, Store
<1>12. ASSUME NEW x \in ByteOf
       PROVE  /\ to[x] = MatrixRow(j, InRow(x, j)) + d
              /\ MatrixRow(j, InRow(x, j)) \in Nat
              /\ to[x] \in Nat /\ w <= to[x] /\ to[x] <= w + 15
              /\ byte[x] = Regs0[x \div 2][InRow(x, j)]
  <2>1. InRow(x, j) \in 0 .. 15
    BY <1>2, InRowIs DEF Lane
  <2>2. (0 - 2 * j + x) % 16 = (x + 16 - 2 * j) % 16 /\ (16 - 2 * j + x) % 16 = (x + 16 - 2 * j) % 16
    BY <1>2 DEF ByteOf
  <2>3. to[x] = a - 0 + InRow(x, j)
    BY <2>2 DEF InRow
  <2>4. byte[x] = Regs0[x \div 2][InRow(x, j)]
    BY <1>4, <2>2 DEF InRow
  <2>5. MatrixRow(j, InRow(x, j)) = b + 16 * j + InRow(x, j)
    BY DEF MatrixRow, b
  <2>6. PICK c \in 0 .. 15 : c = InRow(x, j)
    BY <2>1
  <2> HIDE DEF to, byte
  <2>7. /\ a - 0 + c = (b + 16 * j + c) + d /\ b + 16 * j + c \in Nat
        /\ a - 0 + c \in Nat /\ w <= a - 0 + c /\ a - 0 + c <= w + 15
    BY <1>2, <1>7
  <2> QED BY <2>3, <2>4, <2>5, <2>6, <2>7
<1>13. ASSUME NEW x \in ByteOf, NEW y \in ByteOf, to[x] = to[y] PROVE x = y
  <2>1. PICK c \in 0 .. 15 : c = InRow(x, j)
    BY <1>2, InRowIs DEF Lane
  <2>2. PICK f \in 0 .. 15 : f = InRow(y, j)
    BY <1>2, InRowIs DEF Lane
  <2>3. (b + 16 * j + c) + d = (b + 16 * j + f) + d
    BY <1>12, <1>13, <2>1, <2>2 DEF MatrixRow, b
  <2>4. c = f
    BY <1>2, <2>3
  <2> QED BY <1>2, <2>1, <2>2, <2>4, InRowIs DEF Lane
<1> HIDE DEF to, byte
<1>14. /\ \A k \in 0 .. n - 1 : k \in ByteOf
       /\ \A k \in ByteOf : k \in 0 .. n - 1
  BY DEF ByteOf
<1>15. w \in Int /\ n \in Nat
  BY <1>2
<1> HIDE DEF n, w
<1>16. /\ \A k \in 0 .. n - 1 : to[k] \in Nat /\ w <= to[k] /\ to[k] <= w + 15
       /\ \A k, l \in 0 .. n - 1 : to[k] = to[l] => k = l
  BY <1>12, <1>13, <1>14
<1>17. /\ \A k \in 0 .. n - 1 : dmem'[to[k] % d] = byte[k]
       /\ \A x \in Addr : (\A k \in 0 .. n - 1 : x # to[k] % d) => dmem'[x] = dmem[x]
  BY <1>11, <1>15, <1>16, StoreLeaves DEF d
<1>18. ASSUME NEW x \in ByteOf PROVE to[x] % d = MatrixRow(j, InRow(x, j)) % d
  BY <1>12, Around DEF d
<1>19. ASSUME NEW k \in Lane, NEW x \in ByteOf, k < j + 1
       PROVE  dmem'[MatrixRow(k, InRow(x, k)) % d] = Regs0[x \div 2][InRow(x, k)]
  <2>1. CASE k = j
    BY <1>12, <1>14, <1>17, <1>18, <2>1
  <2>2. CASE k # j
    <3>1. k < j
      BY <1>2, <1>19, <2>2 DEF Lane
    <3>2. dmem[MatrixRow(k, InRow(x, k)) % d] = Regs0[x \div 2][InRow(x, k)]
      BY <3>1 DEF TransposeInv, d, j
    <3>3. InRow(x, k) \in 0 .. 15
      BY InRowIs
    <3>4. MatrixRow(k, InRow(x, k)) % d \in Addr
      <4>1. PICK c \in 0 .. 15 : c = InRow(x, k)
        BY <3>3
      <4>2. b + 16 * k + c \in Nat
        BY <1>2 DEF Lane
      <4> QED BY <4>1, <4>2, AddrIs DEF MatrixRow, b, d
    <3>5. ASSUME NEW y \in 0 .. n - 1, MatrixRow(k, InRow(x, k)) % d = to[y] % d PROVE FALSE
      <4>1. y \in ByteOf
        BY <1>14
      <4>2. j \in Lane /\ InRow(y, j) \in 0 .. 15
        BY <1>2, <4>1, InRowIs DEF Lane
      <4>3. MatrixRow(k, InRow(x, k)) % d = MatrixRow(j, InRow(y, j)) % d
        BY <1>18, <3>5, <4>1
      <4>4. k = j
        BY <1>2, <3>3, <4>2, <4>3, RowsDiffer DEF b, d
      <4> QED BY <2>2, <4>4
    <3> QED BY <1>17, <3>2, <3>4, <3>5
  <2> QED BY <2>1, <2>2
<1>20. done' = j + 1 /\ j + 1 <= 8 /\ j + 1 \in Nat
  BY <1>2, <1>4 DEF j
<1>21. (\A k \in Lane, x \in ByteOf :
          k < done => dmem[MatrixRow(k, InRow(x, k)) % DMEM_LEN] = Regs0[x \div 2][InRow(x, k)])'
  BY <1>q, <1>19, <1>20 DEF d
<1>22. (done > 8 => \A r \in Lane, x \in ByteOf :
          ((x \div 2) + 8 - r) % 8 < done - 8 => regs[r][x] = Regs0[x \div 2][2 * r + (x % 2)])'
  BY <1>20
<1>23. regs' = Regs0
  BY <1>4, <1>11
<1> QED BY <1>21, <1>22, <1>23 DEF TransposeInv

LEMMA TransposeLoadStep ==
  ASSUME MovesTypes, TransposeInv, program.name = "transpose", VuMemNext, done >= 8
  PROVE  TransposeInv'
<1> DEFINE b == program.base
           d == DMEM_LEN
           j == done - 8
           e == (16 - 2 * j) % 16
<1>1. Code = [k \in 1 .. 16 |-> IF k <= 8 THEN I(TRUE, "t", 0, 2 * (k - 1), k - 1)
                                ELSE I(FALSE, "t", 0, (16 - 2 * (k - 9)) % 16, k - 9)]
  BY TransposeCode
<1>2. /\ b \in Nat /\ b % 16 = 0 /\ d \in Nat /\ j \in 0 .. 7 /\ DOMAIN regs = 0 .. 7
      /\ done = j + 8 /\ done' = (j + 1) + 8
  <2>1. Len(Code) = 16
    BY <1>1
  <2> QED BY <2>1, LenIs, StepIs DEF MovesTypes
<1>3. PICK i : i = Code[done + 1] /\ Execute(i)
  BY StepIs
<1>4. program' = program
  BY StepIs
<1>5. PICK a : a = Address(i) + d
  OBVIOUS
<1>q. \A k, c : MatrixRow(k, c)' = MatrixRow(k, c)
  BY <1>4 DEF MatrixRow
<1>6. i = I(FALSE, "t", 0, e, j)
  <2>1. done + 1 \in 1 .. 16 /\ ~(done + 1 <= 8) /\ (done + 1) - 9 = j
    BY <1>2
  <2> HIDE DEF j
  <2> QED BY <1>1, <1>3, <2>1
<1> HIDE DEF b, d, j
<1>7. ~i.store /\ i.op = "t" /\ i.e = e /\ a = (b + 16 * j) + d
  BY <1>2, <1>5, <1>6, ScaleIs DEF Signed7, Address, I, b
<1>8. TransposeLoad(i, a)
  BY <1>3, <1>5, <1>7, MemoryIs DEF d
<1>9. a % 8 = 0 /\ a % 16 = 0
  <2>1. b + 16 * j \in Nat /\ (b + 16 * j) % 8 = 0 /\ (b + 16 * j) % 16 = 0
    BY <1>2
  <2> QED BY <1>7, <2>1, OffsetIs DEF d
<1>10. /\ dmem' = dmem
       /\ regs' = [r \in 0 .. 7 |-> [x \in ByteOf |->
                    IF ((e \div 2) + (x \div 2)) % 8 = r THEN Mem(a - 0 + ((e + 0 + x) % 16))
                    ELSE regs[r][x]]]
  BY <1>2, <1>7, <1>8, <1>9 DEF TransposeLoad, FirstOfGroup
<1>11. \A x \in ByteOf : dmem[MatrixRow(j, InRow(x, j)) % d] = Regs0[x \div 2][InRow(x, j)]
  <2>1. j < done /\ j \in Lane
    BY <1>2 DEF Lane
  <2> QED BY <2>1 DEF TransposeInv, d
<1>12. ASSUME NEW x \in ByteOf
       PROVE  Mem(a - 0 + ((e + 0 + x) % 16)) = Regs0[x \div 2][InRow(x, j)]
  <2>1. x \in 0 .. 15
    BY DEF ByteOf
  <2>2. (e + 0 + x) % 16 = InRow(x, j)
    BY <1>2, <2>1, Diagonal DEF InRow
  <2>3. PICK c \in 0 .. 15 : c = InRow(x, j)
    BY <1>2, InRowIs DEF Lane
  <2>4. a - 0 + c = (b + 16 * j + c) + d /\ b + 16 * j + c \in Nat
    BY <1>2, <1>7
  <2>5. Mem((b + 16 * j + c) + d) = dmem[(b + 16 * j + c) % d]
    BY <2>4, Around DEF Mem, d
  <2>6. MatrixRow(j, InRow(x, j)) = b + 16 * j + c
    BY <2>3 DEF MatrixRow, b
  <2> QED BY <1>11, <2>2, <2>3, <2>4, <2>5, <2>6
<1>13. ASSUME NEW r \in Lane, NEW x \in ByteOf, ((x \div 2) + 8 - r) % 8 < j + 1
       PROVE  regs'[r][x] = Regs0[x \div 2][2 * r + (x % 2)]
  <2>1. r \in 0 .. 7 /\ x \in 0 .. 15
    BY DEF Lane, ByteOf
  <2>2. /\ ((e \div 2) + (x \div 2)) % 8 = r <=> ((x \div 2) + 8 - r) % 8 = j
        /\ ((x \div 2) + 8 - r) % 8 = j => InRow(x, j) = 2 * r + (x % 2)
    BY <1>2, <2>1, Diagonal DEF InRow
  <2>3. regs'[r][x] = IF ((e \div 2) + (x \div 2)) % 8 = r
                        THEN Mem(a - 0 + ((e + 0 + x) % 16)) ELSE regs[r][x]
    BY <1>10, <2>1
  <2> HIDE DEF e
  <2>4. CASE ((x \div 2) + 8 - r) % 8 = j
    BY <1>12, <2>2, <2>3, <2>4
  <2>5. CASE ((x \div 2) + 8 - r) % 8 # j
    <3>1. PICK u \in Nat : u = ((x \div 2) + 8 - r) % 8
      BY <2>1
    <3>2. u < j /\ done - 8 = j /\ done > 8
      BY <1>2, <1>13, <2>5, <3>1
    <3>3. regs[r][x] = Regs0[x \div 2][2 * r + (x % 2)]
      BY <3>1, <3>2 DEF TransposeInv
    <3> QED BY <2>2, <2>3, <2>5, <3>3
  <2> QED BY <2>4, <2>5
<1>14. ASSUME NEW k \in Lane, NEW x \in ByteOf
       PROVE  dmem'[MatrixRow(k, InRow(x, k)) % d] = Regs0[x \div 2][InRow(x, k)]
  <2>1. k < done
    BY <1>2 DEF Lane
  <2> QED BY <1>10, <2>1 DEF TransposeInv, d
<1>15. (\A k \in Lane, x \in ByteOf :
          k < done => dmem[MatrixRow(k, InRow(x, k)) % DMEM_LEN] = Regs0[x \div 2][InRow(x, k)])'
  BY <1>q, <1>14 DEF d
<1>16. done' - 8 = j + 1 /\ ~(done' <= 8)
  BY <1>2
<1>17. (done > 8 => \A r \in Lane, x \in ByteOf :
          ((x \div 2) + 8 - r) % 8 < done - 8 => regs[r][x] = Regs0[x \div 2][2 * r + (x % 2)])'
  BY <1>13, <1>16
<1> QED BY <1>15, <1>16, <1>17 DEF TransposeInv

LEMMA TransposeEnd ==
  ASSUME TransposeInv, program.name = "transpose", done = 16
  PROVE  \A r, l \in 0 .. 7 : LaneOf(r, l) = Lane0(l, r)
<1>1. ASSUME NEW r \in Lane, NEW x \in ByteOf
      PROVE  regs[r][x] = Regs0[x \div 2][2 * r + (x % 2)]
  <2>1. ((x \div 2) + 8 - r) % 8 < done - 8 /\ done > 8
    BY DEF Lane, ByteOf
  <2> QED BY <2>1 DEF TransposeInv
<1>2. ASSUME NEW r \in 0 .. 7, NEW l \in 0 .. 7
      PROVE  LaneOf(r, l) = Lane0(l, r)
  <2>1. /\ r \in Lane /\ 2 * l \in ByteOf /\ 2 * l + 1 \in ByteOf
        /\ (2 * l) \div 2 = l /\ (2 * l) % 2 = 0 /\ 2 * r + 0 = 2 * r
        /\ (2 * l + 1) \div 2 = l /\ (2 * l + 1) % 2 = 1
    BY DEF Lane, ByteOf
  <2>2. regs[r][2 * l] = Regs0[l][2 * r]
    BY <1>1, <2>1
  <2>3. regs[r][2 * l + 1] = Regs0[l][2 * r + 1]
    <3>1. PICK x \in ByteOf : x = 2 * l + 1
      BY <2>1
    <3>2. x \div 2 = l /\ x % 2 = 1
      BY <2>1, <3>1
    <3>3. regs[r][x] = Regs0[x \div 2][2 * r + (x % 2)]
      BY <1>1, <2>1
    <3> QED BY <3>1, <3>2, <3>3
  <2> QED BY <2>2, <2>3 DEF LaneOf, Lane0
<1> QED BY <1>2

\* The value that is moved.
Moved == Regs0[1][program.e] * 256 + Regs0[1][(program.e + 1) % 16]

\* A value goes to a scalar register, to a vector one and to a control register, and back.
MoveInv ==
  LET e == program.e
      c == ControlIndex(e)
  IN program.name = "move" =>
       /\ done <= 1 => regs = Regs0
       /\ done \in 1 .. 3 => gpr = Sext(Moved)
       /\ done >= 2 =>
            /\ regs[2][e] = Regs0[1][e]
            /\ e < 15 => regs[2][e + 1] = Regs0[1][e + 1]
            /\ e = 15 => regs[2][0] = Regs0[2][0]
       /\ done = 3 => control[c] = IF c = 2 THEN Moved % 256 ELSE Moved
       /\ done = 4 => gpr = IF c = 2 THEN Moved % 256 ELSE Sext(Moved)

LEMMA MoveStep ==
  ASSUME MovesTypes, MoveInv, program.name = "move", VuMemNext
  PROVE  MoveInv'
<1> DEFINE e == program.e
           c == ControlIndex(e)
<1>1. Code = <<I(FALSE, "mfc2", 1, e, 0), I(FALSE, "mtc2", 2, e, 0),
               I(FALSE, "ctc2", e, 0, 0), I(FALSE, "cfc2", e, 0, 0)>>
  BY MoveCode
<1>2. /\ e \in 0 .. 15 /\ DOMAIN regs = 0 .. 7 /\ DOMAIN control = 0 .. 2
      /\ c \in 0 .. 2 /\ (e + 1) % 16 \in 0 .. 15
  <2>1. e \in 0 .. 15 /\ DOMAIN regs = 0 .. 7 /\ DOMAIN control = 0 .. 2
    BY DEF MovesTypes, ByteOf
  <2> HIDE DEF e
  <2>2. c \in 0 .. 2
    BY <2>1 DEF ControlIndex, Least
  <2> QED BY <2>1, <2>2
<1>3. PICK i : i = Code[done + 1] /\ Execute(i)
  BY StepIs
<1>4. done' = done + 1 /\ program' = program /\ done \in {0, 1, 2, 3}
  BY <1>1, StepIs
<1>5. PICK x \in 0 .. 255, y \in 0 .. 255, v \in Nat :
        x = Regs0[1][e] /\ y = Regs0[1][(e + 1) % 16] /\ v = x * 256 + y /\ v = Moved
  <2>1. Regs0[1][e] \in 0 .. 255 /\ Regs0[1][(e + 1) % 16] \in 0 .. 255
    <3>1. PICK f \in 0 .. 15, g \in 0 .. 15 : f = e /\ g = (e + 1) % 16
      BY <1>2
    <3>2. f \in ByteOf /\ g \in ByteOf
      BY DEF ByteOf
    <3>3. \A n \in ByteOf : Regs0[1][n] \in 0 .. 255
      BY VuMemAssumption
    <3>4. Regs0[1][f] \in 0 .. 255 /\ Regs0[1][g] \in 0 .. 255
      BY <3>2, <3>3
    <3> QED BY <3>1, <3>4
  <2>2. PICK x \in 0 .. 255, y \in 0 .. 255 : x = Regs0[1][e] /\ y = Regs0[1][(e + 1) % 16]
    BY <2>1
  <2>3. x * 256 + y \in Nat /\ Moved = x * 256 + y
    BY <2>2 DEF Moved
  <2> QED BY <2>2, <2>3
<1>6. Moved' = Moved /\ e' = e /\ c' = c
  BY <1>4 DEF Moved, ControlIndex
<1> HIDE DEF e, c
\* Extending the sign is undone by what takes the low bits.
<1>7. /\ Sext(v) % 65536 = v /\ Sext(v) % 256 = v % 256
      /\ (Sext(v) \div 256) % 256 = x /\ Sext(v) % 256 = y
      /\ Sext(v % 256) = v % 256
  <2>0. v = x * 256 + y
    BY <1>5
  <2>1. v \in Nat /\ v < 65536 /\ v % 256 = y
    BY <2>0
  <2>2. Sext(v % 256) = v % 256
    BY <2>1, SMT DEF Sext
  <2>3. CASE v < 32768
    <3>1. Sext(v) = v
      BY <2>3, SMT DEF Sext
    <3>2. v % 65536 = v /\ (v \div 256) % 256 = x
      BY <2>0, <2>1
    <3> QED BY <2>1, <2>2, <3>1, <3>2
  <2>4. CASE ~(v < 32768)
    <3>1. Sext(v) = v - 65536
      BY <2>4, SMT DEF Sext
    <3>2. PICK s \in Int : s = v - 65536
      BY <2>1
    <3>3. s % 65536 = v /\ s % 256 = y
      BY <2>1, <3>2
    <3>4. s = 256 * (x - 256) + y
      BY <2>0, <3>2
    <3>5. s \div 256 = x - 256
      BY <3>4
    <3>6. (x - 256) % 256 = x
      OBVIOUS
    <3> QED BY <2>1, <2>2, <3>1, <3>2, <3>3, <3>5, <3>6
  <2> QED BY <2>3, <2>4
<1>8. CASE done = 0
  <2>1. i = I(FALSE, "mfc2", 1, e, 0)
    BY <1>1, <1>3, <1>8
  <2>2. i.op = "mfc2" /\ i.vt = 1 /\ i.e = e
    BY <2>1 DEF I
  <2>3. Mfc2(i.vt, i.e)
    BY <1>3, <2>2, ExecuteIs
  <2>4. regs = Regs0
    BY <1>8 DEF MovesTypes
  <2>5. gpr' = Sext(v) /\ regs' = regs
    <3>1. gpr' = Sext(regs[1][e] * 256 + regs[1][(e + 1) % 16]) /\ regs' = regs
      BY <2>2, <2>3 DEF Mfc2
    <3> QED BY <1>5, <2>4, <3>1
  <2>6. done' = 1
    BY <1>4, <1>8
  <2> QED BY <1>5, <1>6, <2>4, <2>5, <2>6 DEF MoveInv
<1>9. CASE done = 1
  <2>1. i = I(FALSE, "mtc2", 2, e, 0)
    BY <1>1, <1>3, <1>9
  <2>2. i.op = "mtc2" /\ i.vt = 2 /\ i.e = e
    BY <2>1 DEF I
  <2>3. Mtc2(i.vt, i.e)
    BY <1>3, <2>2, ExecuteIs
  <2>4. regs = Regs0 /\ gpr = Sext(v)
    BY <1>5, <1>9 DEF MoveInv
  <2> DEFINE byte == [k \in ByteOf |-> IF k = 0 THEN (gpr \div 256) % 256 ELSE gpr % 256]
             n == Least(2, 16 - e)
  <2>5. regs'[2] = Loaded(Regs0[2], e, n, byte) /\ gpr' = gpr
    <3>1. Load(2, e, n, byte) /\ gpr' = gpr
      BY <2>2, <2>3 DEF Mtc2
    <3> HIDE DEF byte, n
    <3> QED BY <1>2, <2>4, <3>1 DEF Load
  <2>6. byte[0] = x /\ byte[1] = y
    BY <1>7, <2>4 DEF ByteOf
  <2> HIDE DEF byte
  <2>7. n = IF e = 15 THEN 1 ELSE 2
    BY <1>2 DEF Least
  <2> HIDE DEF n
  <2>8. \A k \in ByteOf :
          regs'[2][k] = IF k \in e .. e + n - 1 THEN byte[k - e] ELSE Regs0[2][k]
    BY <2>5 DEF Loaded
  <2>9. regs'[2][e] = x
    BY <1>2, <2>6, <2>7, <2>8 DEF ByteOf
  <2>10. e < 15 => regs'[2][e + 1] = Regs0[1][e + 1]
    <3> SUFFICES ASSUME e < 15 PROVE regs'[2][e + 1] = Regs0[1][e + 1]
      OBVIOUS
    <3>1. (e + 1) % 16 = e + 1 /\ e + 1 \in ByteOf /\ n = 2 /\ (e + 1) - e = 1
      BY <1>2, <2>7 DEF ByteOf
    <3>2. regs'[2][e + 1] = y
      BY <1>2, <2>6, <2>8, <3>1
    <3> QED BY <1>5, <3>1, <3>2
  <2>11. e = 15 => regs'[2][0] = Regs0[2][0]
    BY <2>7, <2>8 DEF ByteOf
  <2>12. done' = 2
    BY <1>4, <1>9
  <2> QED BY <1>5, <1>5, <1>6, <2>4, <2>5, <2>9, <2>10, <2>11, <2>12 DEF MoveInv, e
<1>10. CASE done = 2
  <2>1. i = I(FALSE, "ctc2", e, 0, 0)
    BY <1>1, <1>3, <1>10
  <2>2. i.op = "ctc2" /\ i.vt = e
    BY <2>1 DEF I
  <2>3. Ctc2(i.vt)
    BY <1>3, <2>2, ExecuteIs
  <2>4. gpr = Sext(v)
    BY <1>5, <1>10 DEF MoveInv
  <2>5. control'[c] = IF c = 2 THEN gpr % 256 ELSE gpr % 65536
    BY <1>2, <2>2, <2>3, SMT DEF Ctc2, c
  <2>6. regs' = regs /\ gpr' = gpr
    BY <2>3 DEF Ctc2
  <2>7. control'[c] = IF c = 2 THEN v % 256 ELSE v
    BY <1>7, <2>4, <2>5, SMT
  <2>8. done' = 3
    BY <1>4, <1>10
  <2> QED BY <1>5, <1>6, <1>10, <2>4, <2>6, <2>7, <2>8 DEF MoveInv, c, e
<1>11. CASE done = 3
  <2>1. i = I(FALSE, "cfc2", e, 0, 0)
    BY <1>1, <1>3, <1>11
  <2>2. i.op = "cfc2" /\ i.vt = e
    BY <2>1 DEF I
  <2>3. Cfc2(i.vt)
    BY <1>3, <2>2, ExecuteIs
  <2>4. control[c] = IF c = 2 THEN v % 256 ELSE v
    BY <1>5, <1>11 DEF MoveInv, c, e
  <2>5. gpr' = Sext(control[c]) /\ regs' = regs
    BY <2>2, <2>3 DEF Cfc2, c
  <2>6. gpr' = IF c = 2 THEN v % 256 ELSE Sext(v)
    BY <1>7, <2>4, <2>5
  <2>7. done' = 4
    BY <1>4, <1>11
  <2> QED BY <1>5, <1>6, <1>11, <2>5, <2>6, <2>7 DEF MoveInv, c, e
<1> QED BY <1>4, <1>8, <1>9, <1>10, <1>11

-----------------------------------------------------------------------------
\* What each program has done so far, of which one is run.
MovesInv ==
  /\ MovesTypes
  /\ LoadInv /\ StoreInv /\ ScalarInv /\ LaneInv
  /\ FourthInv /\ WrapInv /\ TransposeInv /\ MoveInv

\* A program that has not begun meets it, each step keeps it, and it says what was asked.
LEMMA MovesStart == ASSUME VuMemInit PROVE MovesInv
<1>1. /\ regs = Regs0 /\ dmem = Dmem0 /\ DOMAIN control = 0 .. 2 /\ done = 0
      /\ program.name \in Names /\ program.base \in Nat /\ program.e \in ByteOf
      /\ program.name \in ScalarSizes \cup {"w", "move"} \/ program.e = 0
      /\ program.name = "transpose" => program.base % 16 = 0
  BY VuMemAssumption DEF VuMemInit
<1>2. DOMAIN regs = 0 .. 7
  BY <1>1, VuMemAssumption
<1>3. 0 \in 0 .. Len(Code)
  <2>1. program.name \in ScalarSizes \/ program.name \in {"p", "u", "h"}
        \/ program.name \in {"load", "store", "f", "w", "transpose", "move"}
    BY <1>1 DEF Names
  <2>2. Len(Code) \in Nat
    <3>1. program.name = "load" => Len(Code) = 2
      BY LoadCode
    <3>2. program.name = "store" => Len(Code) = 2
      BY StoreCode
    <3>3. program.name \in ScalarSizes => Len(Code) = 2
      <4>1. program.name \in ScalarSizes => \E x, y : Code = <<x, y>>
        BY ScalarCode, Zenon
      <4> QED BY <4>1
    <3>4. program.name \in {"p", "u", "h"} => Len(Code) = 2
      <4>1. program.name \in {"p", "u", "h"} => \E x, y : Code = <<x, y>>
        BY LaneCode, Zenon
      <4> QED BY <4>1
    <3>5. program.name = "f" => Len(Code) = 4
      BY FourthCode
    <3>6. program.name = "w" => Len(Code) = 2
      BY WrapCode
    <3>7. program.name = "transpose" => Len(Code) = 16
      BY TransposeCode
    <3>8. program.name = "move" => Len(Code) = 4
      BY MoveCode
    <3> QED BY <2>1, <3>1, <3>2, <3>3, <3>4, <3>5, <3>6, <3>7, <3>8
  <2> QED BY <2>2
<1>4. MovesTypes
  BY <1>1, <1>2, <1>3 DEF MovesTypes
<1>5. LoadInv /\ StoreInv /\ ScalarInv /\ LaneInv
  BY <1>1 DEF LoadInv, StoreInv, ScalarInv, LaneInv
<1>6. FourthInv /\ WrapInv /\ MoveInv
  BY <1>1 DEF FourthInv, WrapInv, MoveInv
<1>7. TransposeInv
  BY <1>1 DEF TransposeInv, Lane
<1> QED BY <1>4, <1>5, <1>6, <1>7 DEF MovesInv

\* A move changes bytes of registers, not which there are.
LEMMA RegistersStay ==
  ASSUME MovesTypes, VuMemNext
  PROVE  DOMAIN regs' = 0 .. 7 /\ DOMAIN control' = 0 .. 2
<1>1. PICK i : Execute(i)
  BY StepIs
<1>2. DOMAIN regs = 0 .. 7 /\ DOMAIN control = 0 .. 2
  BY DEF MovesTypes
<1>3. CASE i.op = "mtc2"
  <2>1. Mtc2(i.vt, i.e)
    BY <1>1, <1>3, ExecuteIs
  <2> QED BY <1>2, <2>1 DEF Mtc2, Load
<1>4. CASE i.op = "mfc2"
  <2>1. Mfc2(i.vt, i.e)
    BY <1>1, <1>4, ExecuteIs
  <2> QED BY <1>2, <2>1 DEF Mfc2
<1>5. CASE i.op = "ctc2"
  <2>1. Ctc2(i.vt)
    BY <1>1, <1>5, ExecuteIs
  <2> QED BY <1>2, <2>1 DEF Ctc2
<1>6. CASE i.op = "cfc2"
  <2>1. Cfc2(i.vt)
    BY <1>1, <1>6, ExecuteIs
  <2> QED BY <1>2, <2>1 DEF Cfc2
<1>7. CASE i.op \notin {"mtc2", "mfc2", "ctc2", "cfc2"}
  <2>1. Memory(i)
    BY <1>1, <1>7, ExecuteIs
  <2>2. control' = control
    BY <2>1 DEF Memory
  <2>3. ASSUME NEW n, NEW to, NEW byte, Store(n, to, byte) PROVE DOMAIN regs' = DOMAIN regs
    BY <2>3 DEF Store
  <2>4. ASSUME NEW r, NEW first, NEW n, NEW byte, Load(r, first, n, byte)
        PROVE  DOMAIN regs' = DOMAIN regs
    BY <2>4 DEF Load
  <2>5. PICK a : a = Address(i) + DMEM_LEN
    OBVIOUS
  <2>6. CASE i.store
    <3>1. \/ ScalarStore(i, a) \/ QuadStore(i, a) \/ RestStore(i, a) \/ PackedStore(i, a)
          \/ HalfStore(i, a) \/ FourthStore(i, a) \/ WrapStore(i, a) \/ TransposeStore(i, a)
      BY <2>1, <2>5, <2>6 DEF Memory
    <3>2. \E n, to, byte : Store(n, to, byte)
      BY <3>1, Zenon DEF ScalarStore, QuadStore, RestStore, PackedStore, HalfStore, FourthStore,
         WrapStore, TransposeStore
    <3> QED BY <1>2, <2>2, <2>3, <3>2
  <2>7. CASE ~i.store
    <3>1. \/ ScalarLoad(i, a) \/ QuadLoad(i, a) \/ RestLoad(i, a) \/ PackedLoad(i, a)
          \/ HalfLoad(i, a) \/ FourthLoad(i, a) \/ regs' = regs \/ TransposeLoad(i, a)
      BY <2>1, <2>5, <2>7 DEF Memory
    <3>2. (\E r, first, n, byte : Load(r, first, n, byte)) \/ regs' = regs \/ TransposeLoad(i, a)
      BY <3>1, Zenon DEF ScalarLoad, QuadLoad, RestLoad, PackedLoad, HalfLoad, FourthLoad
    <3>3. TransposeLoad(i, a) => DOMAIN regs' = DOMAIN regs
      BY DEF TransposeLoad
    <3> QED BY <1>2, <2>2, <2>4, <3>2, <3>3
  <2> QED BY <2>6, <2>7
<1> QED BY <1>3, <1>4, <1>5, <1>6, <1>7

LEMMA MovesTypesStep ==
  ASSUME MovesTypes, VuMemNext
  PROVE  MovesTypes'
<1>1. done' = done + 1 /\ done < Len(Code) /\ program' = program /\ done \in 0 .. Len(Code)
  BY StepIs DEF MovesTypes
<1>2. Code' = Code
  BY <1>1 DEF Code, I, ScalarSizes
<1>3. done' \in 0 .. Len(Code) /\ done' # 0
  BY <1>1
<1>4. DOMAIN regs' = 0 .. 7 /\ DOMAIN control' = 0 .. 2
  BY RegistersStay
<1> QED BY <1>1, <1>2, <1>3, <1>4 DEF MovesTypes, Names, ScalarSizes

LEMMA MovesStep ==
  ASSUME MovesInv, [VuMemNext]_vuMemVars
  PROVE  MovesInv'
<1>1. CASE UNCHANGED vuMemVars
  <2>1. /\ regs' = regs /\ dmem' = dmem /\ control' = control /\ gpr' = gpr
        /\ program' = program /\ done' = done
    BY <1>1 DEF vuMemVars
  <2>2. MovesTypes'
    <3>1. Code' = Code
      BY <2>1 DEF Code, I, ScalarSizes
    <3> QED BY <2>1, <3>1 DEF MovesInv, MovesTypes, Names, ScalarSizes
  <2>3. LoadInv' /\ StoreInv' /\ ScalarInv'
    BY <2>1 DEF MovesInv, LoadInv, StoreInv, ScalarInv, Mem0, Untouched, Least, Scale, ScalarSizes
  <2>4. LaneInv' /\ FourthInv' /\ WrapInv'
    BY <2>1 DEF MovesInv, LaneInv, FourthInv, WrapInv, LaneOf, Lane0, LanePlace, LaneKept, Quarter,
       QuarterKept, Wrapped
  <2>5. TransposeInv' /\ MoveInv'
    BY <2>1 DEF MovesInv, TransposeInv, MoveInv, MatrixRow, InRow, Moved, ControlIndex, Least, Sext
  <2> QED BY <2>2, <2>3, <2>4, <2>5 DEF MovesInv
<1>2. CASE VuMemNext
  <2>1. program' = program /\ MovesTypes /\ MovesTypes'
    BY <1>2, StepIs, MovesTypesStep DEF MovesInv
  <2>2. LoadInv'
    <3>1. CASE program.name = "load"
      BY <1>2, <3>1, LoadStep DEF MovesInv
    <3> QED BY <2>1, <3>1 DEF LoadInv
  <2>3. StoreInv'
    <3>1. CASE program.name = "store"
      BY <1>2, <3>1, StoreStep DEF MovesInv
    <3> QED BY <2>1, <3>1 DEF StoreInv
  <2>4. ScalarInv'
    <3>1. CASE program.name \in ScalarSizes
      BY <1>2, <3>1, ScalarStep DEF MovesInv
    <3> QED BY <2>1, <3>1 DEF ScalarInv
  <2>5. LaneInv'
    <3>1. CASE program.name \in {"p", "u", "h"}
      BY <1>2, <3>1, LaneStep DEF MovesInv
    <3> QED BY <2>1, <3>1 DEF LaneInv
  <2>6. FourthInv'
    <3>1. CASE program.name = "f"
      BY <1>2, <3>1, FourthStep DEF MovesInv
    <3> QED BY <2>1, <3>1 DEF FourthInv
  <2>7. WrapInv'
    <3>1. CASE program.name = "w"
      BY <1>2, <3>1, WrapStep DEF MovesInv
    <3> QED BY <2>1, <3>1 DEF WrapInv
  <2>8. TransposeInv'
    <3>1. CASE program.name = "transpose"
      <4>1. done < 8 \/ done >= 8
        BY <2>1 DEF MovesTypes
      <4> QED BY <1>2, <3>1, <4>1, TransposeStoreStep, TransposeLoadStep DEF MovesInv
    <3> QED BY <2>1, <3>1 DEF TransposeInv
  <2>9. MoveInv'
    <3>1. CASE program.name = "move"
      BY <1>2, <3>1, MoveStep DEF MovesInv
    <3> QED BY <2>1, <3>1 DEF MoveInv
  <2> QED BY <2>1, <2>2, <2>3, <2>4, <2>5, <2>6, <2>7, <2>8, <2>9 DEF MovesInv
<1> QED BY <1>1, <1>2

LEMMA MovesEnd == ASSUME MovesInv PROVE MovesCompose
<1> DEFINE b == program.base
           e == program.e
<1>1. Ended({"load"}) => \A k \in ByteOf : regs[1][k] = Mem0(b + k)
  BY LoadCode DEF MovesInv, LoadInv, Ended
<1>2. Ended({"store"}) =>
       /\ \A k \in ByteOf : dmem[(b - 16 + k + DMEM_LEN) % DMEM_LEN] = Regs0[1][k]
       /\ Untouched(b - 16 + DMEM_LEN, 16)
  <2> SUFFICES ASSUME Ended({"store"})
               PROVE  /\ \A k \in ByteOf : dmem[(b - 16 + k + DMEM_LEN) % DMEM_LEN] = Regs0[1][k]
                      /\ Untouched(b - 16 + DMEM_LEN, 16)
    OBVIOUS
  <2>1. program.name = "store" /\ done = 2
    BY StoreCode DEF Ended
  <2>2. /\ Untouched(b - 16 + DMEM_LEN, 16)
        /\ \A k \in ByteOf : dmem[((b - 16 + DMEM_LEN) + k) % DMEM_LEN] = Regs0[1][k]
    BY <2>1 DEF MovesInv, StoreInv
  <2>3. ASSUME NEW k \in ByteOf PROVE b - 16 + k + DMEM_LEN = (b - 16 + DMEM_LEN) + k
    <3>1. b \in Nat /\ DMEM_LEN \in Nat /\ k \in Int
      BY LenIs DEF MovesInv, MovesTypes, ByteOf
    <3> HIDE DEF b
    <3> QED BY <3>1
  <2> QED BY <2>2, <2>3
<1>3. Ended(ScalarSizes) =>
       LET n == Scale(program.name) IN
       /\ \A k \in 0 .. Least(n, 16 - e) - 1 : dmem[(b + 2 * n + k) % DMEM_LEN] = Mem0(b + k)
       /\ \A k \in 16 - e .. n - 1 : dmem[(b + 2 * n + k) % DMEM_LEN] = Regs0[1][(e + k) % 16]
       /\ Untouched(b + 2 * n, n)
  BY ScalarCode DEF MovesInv, ScalarInv, Ended
<1>4. Ended({"p", "u", "h"}) =>
        \A l \in Lane : LaneOf(2, l) = LaneKept(l) * (IF program.name = "p" THEN 256 ELSE 128)
  BY LaneCode DEF MovesInv, LaneInv, Ended
<1>5. Ended({"p"}) => \A l \in 0 .. 7 : LaneOf(2, l) = Regs0[1][2 * l] * 256
  BY <1>4 DEF Ended, LaneKept, Lane
<1>6. Ended({"u", "h"}) =>
       \A l \in 0 .. 7 : LaneOf(2, l) = ((Lane0(1, l) \div 128) % 256) * 128
  <2>1. Ended({"u", "h"}) => Ended({"p", "u", "h"}) /\ program.name # "p"
    BY DEF Ended
  <2> QED BY <1>4, <2>1 DEF LaneKept, Lane
<1>7. Ended({"f"}) =>
       \A l \in 0 .. 7 : LaneOf(3, l) = ((Lane0(IF l < 4 THEN 1 ELSE 2, l) \div 128) % 256) * 128
  BY FourthCode DEF MovesInv, FourthInv, Ended, QuarterKept, Lane
<1>8. Ended({"w"}) =>
       /\ {dmem[(b - (b % 8) + k) % DMEM_LEN] : k \in ByteOf} = {Regs0[1][k] : k \in ByteOf}
       /\ dmem[b % DMEM_LEN] = Regs0[1][e]
  <2>1. Ended({"w"}) => program.name = "w" /\ done >= 1
    <3>1. program.name = "w" => Len(Code) = 2
      BY WrapCode
    <3> QED BY <3>1 DEF Ended
  <2> QED BY <2>1, WrapEnd DEF MovesInv
<1>9. Ended({"transpose"}) => \A r, l \in 0 .. 7 : LaneOf(r, l) = Lane0(l, r)
  <2>1. Ended({"transpose"}) => program.name = "transpose" /\ done = 16
    <3>1. program.name = "transpose" => Len(Code) = 16
      BY TransposeCode
    <3> QED BY <3>1 DEF Ended
  <2> QED BY <2>1, TransposeEnd DEF MovesInv
<1>10. Ended({"move"}) =>
       LET v == Regs0[1][e] * 256 + Regs0[1][(e + 1) % 16] IN
       /\ regs[2][e] = Regs0[1][e]
       /\ IF e < 15 THEN regs[2][e + 1] = Regs0[1][e + 1] ELSE regs[2][0] = Regs0[2][0]
       /\ gpr = IF ControlIndex(e) = 2 THEN v % 256 ELSE Sext(v)
  <2> SUFFICES ASSUME Ended({"move"})
               PROVE  /\ regs[2][e] = Regs0[1][e]
                      /\ IF e < 15 THEN regs[2][e + 1] = Regs0[1][e + 1] ELSE regs[2][0] = Regs0[2][0]
                      /\ gpr = IF ControlIndex(e) = 2 THEN Moved % 256 ELSE Sext(Moved)
    BY DEF Moved
  <2>1. program.name = "move" /\ done = 4
    BY MoveCode DEF Ended
  <2>2. e < 15 \/ e = 15
    BY DEF MovesInv, MovesTypes, ByteOf
  <2> QED BY <2>1, <2>2 DEF MovesInv, MoveInv
<1> QED BY <1>1, <1>2, <1>3, <1>5, <1>6, <1>7, <1>8, <1>9, <1>10 DEF MovesCompose

\* For a DMEM of any size and whatever registers and memory hold: the two halves of an
\* unaligned load or store move sixteen bytes and touch no other, scalar, packed, strided
\* and fractional loads read back what their stores have kept, a matrix is turned, and a
\* value moved to a register and back is the value.
THEOREM MovesCorrect == VuMemSpec => []MovesCompose
<1>1. VuMemInit => MovesInv
  BY MovesStart
<1>2. MovesInv /\ [VuMemNext]_vuMemVars => MovesInv'
  BY MovesStep
<1>3. MovesInv => MovesCompose
  BY MovesEnd
<1> QED BY <1>1, <1>2, <1>3, PTL DEF VuMemSpec
=============================================================================
