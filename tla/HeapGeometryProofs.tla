------------------------- MODULE HeapGeometryProofs -------------------------
(***************************************************************************)
(* What HeapGeometry's operators return, for every page size, bitmap size  *)
(* and least number of slots.                                              *)
(***************************************************************************)
EXTENDS HeapGeometry, TLAPS

-----------------------------------------------------------------------------
(* Three facts about products and quotients.                               *)

LEMMA QuotientOfProduct ==
    ASSUME NEW i \in Nat, NEW s \in Nat, s > 0
    PROVE  (i * s) \div s = i
  BY Z3

LEMMA ProductStep ==
    ASSUME NEW i \in Nat, NEW j \in Nat, NEW s \in Nat, i < j
    PROVE  i * s + s <= j * s
<1> DEFINE k == j - i - 1
<1>1. k \in Nat /\ j = i + 1 + k
  OBVIOUS
<1>2. j * s = i * s + s + k * s
  BY <1>1
<1>3. k * s \in Nat
  BY <1>1
<1> QED BY <1>2, <1>3

LEMMA QuotientAtLeast ==
    ASSUME NEW a \in Nat, NEW m \in Nat, NEW s \in Nat, s > 0
    PROVE  /\ a \div s \in Nat
           /\ (a \div s) * s <= a
           /\ a \div s >= m <=> a >= m * s
<1> DEFINE q == a \div s
<1>1. q \in Nat /\ q * s <= a /\ a < q * s + s
  OBVIOUS
<1>2. ASSUME q >= m PROVE a >= m * s
  <2>1. CASE q = m
    BY <1>1, <2>1
  <2>2. CASE q > m
    BY <1>1, <2>2, ProductStep
  <2> QED BY <1>1, <1>2, <2>1, <2>2
<1>3. ASSUME a >= m * s PROVE q >= m
  <2> SUFFICES ASSUME q < m PROVE FALSE
    BY <1>1
  <2>1. q * s + s <= m * s
    BY <1>1, ProductStep
  <2> HIDE DEF q
  <2>2. q * s \in Nat /\ m * s \in Nat
    BY <1>1
  <2> QED BY <1>1, <1>3, <2>1, <2>2
<1> QED BY <1>1, <1>2, <1>3

-----------------------------------------------------------------------------
(* Levels.                                                                 *)

LEMMA LevelSizes ==
    ASSUME NEW l \in Level
    PROVE  /\ Capacity(l) \in Nat /\ Capacity(l) >= 16
           /\ SlotSize(l) \in Nat /\ SlotSize(l) = Capacity(l) + 16
           /\ SlotSize(l) >= 32
<1>1. l \in {0, 1, 2, 3, 4, 5, 6, 7, 8, 9}
  BY DEF Level
<1>2. Capacity(l) \in Nat /\ Capacity(l) >= 16
  BY <1>1 DEF Capacity
<1> QED BY <1>2 DEF SlotSize, SlotHeaderSize

(* malloc's level loop finds a level whose slots are large enough. *)
LEMMA LevelFits ==
    ASSUME NEW size \in Nat, size <= SMALL_MAX
    PROVE  LevelOf(size) \in Level /\ size <= Capacity(LevelOf(size))
<1> DEFINE Least(l) == /\ size <= Capacity(l)
                       /\ \A m \in 0 .. (l - 1) : size > Capacity(m)
<1>1. size <= 8192
  BY GeometryAssumption
<1>2. /\ Capacity(0) = 16 /\ Capacity(1) = 32 /\ Capacity(2) = 64
      /\ Capacity(3) = 128 /\ Capacity(4) = 256 /\ Capacity(5) = 512
      /\ Capacity(6) = 1024 /\ Capacity(7) = 2048 /\ Capacity(8) = 4096
      /\ Capacity(9) = 8192
  BY DEF Capacity
<1> HIDE DEF Capacity
<1>3. \E l \in Level : Least(l)
  <2>0. CASE size <= 16
    <3>1. Least(0) BY <1>2, <2>0
    <3> QED BY <3>1 DEF Level
  <2>1. CASE size > 16 /\ size <= 32
    <3>1. Least(1) BY <1>2, <2>1
    <3> QED BY <3>1 DEF Level
  <2>2. CASE size > 32 /\ size <= 64
    <3>1. \A m \in 0 .. 1 : m \in {0, 1} OBVIOUS
    <3>2. Least(2) BY <1>2, <2>2, <3>1
    <3> QED BY <3>2 DEF Level
  <2>3. CASE size > 64 /\ size <= 128
    <3>1. \A m \in 0 .. 2 : m \in {0, 1, 2} OBVIOUS
    <3>2. Least(3) BY <1>2, <2>3, <3>1
    <3> QED BY <3>2 DEF Level
  <2>4. CASE size > 128 /\ size <= 256
    <3>1. \A m \in 0 .. 3 : m \in {0, 1, 2, 3} OBVIOUS
    <3>2. Least(4) BY <1>2, <2>4, <3>1
    <3> QED BY <3>2 DEF Level
  <2>5. CASE size > 256 /\ size <= 512
    <3>1. \A m \in 0 .. 4 : m \in {0, 1, 2, 3, 4} OBVIOUS
    <3>2. Least(5) BY <1>2, <2>5, <3>1
    <3> QED BY <3>2 DEF Level
  <2>6. CASE size > 512 /\ size <= 1024
    <3>1. \A m \in 0 .. 5 : m \in {0, 1, 2, 3, 4, 5} OBVIOUS
    <3>2. Least(6) BY <1>2, <2>6, <3>1
    <3> QED BY <3>2 DEF Level
  <2>7. CASE size > 1024 /\ size <= 2048
    <3>1. \A m \in 0 .. 6 : m \in {0, 1, 2, 3, 4, 5, 6} OBVIOUS
    <3>2. Least(7) BY <1>2, <2>7, <3>1
    <3> QED BY <3>2 DEF Level
  <2>8. CASE size > 2048 /\ size <= 4096
    <3>1. \A m \in 0 .. 7 : m \in {0, 1, 2, 3, 4, 5, 6, 7} OBVIOUS
    <3>2. Least(8) BY <1>2, <2>8, <3>1
    <3> QED BY <3>2 DEF Level
  <2>9. CASE size > 4096 /\ size <= 8192
    <3>1. \A m \in 0 .. 8 : m \in {0, 1, 2, 3, 4, 5, 6, 7, 8} OBVIOUS
    <3>2. Least(9) BY <1>2, <2>9, <3>1
    <3> QED BY <3>2 DEF Level
  <2> HIDE DEF Least
  <2>10. CASE size <= 256
    BY <2>0, <2>1, <2>2, <2>3, <2>4, <2>10
  <2>11. CASE size > 256
    BY <1>1, <2>5, <2>6, <2>7, <2>8, <2>9, <2>11
  <2> QED BY <2>10, <2>11
<1>4. LevelOf(size) = CHOOSE l \in Level : Least(l)
  BY DEF LevelOf
<1> HIDE DEF Least
<1>5. LevelOf(size) \in Level /\ Least(LevelOf(size))
  BY <1>3, <1>4
<1> QED BY <1>5 DEF Least

-----------------------------------------------------------------------------
(* Chunks.                                                                 *)

(* A chunk of n pages is large enough when the pages hold the header and   *)
(* the least number of slots.                                              *)
LEMMA EnoughBytes ==
    ASSUME NEW l \in Level, NEW n \in Nat, n > 0
    PROVE  /\ PAGE_SIZE * n - HeaderSize \in Nat
           /\ SlotsIn(l, n) \in Nat
           /\ SlotsIn(l, n) * SlotSize(l) <= PAGE_SIZE * n - HeaderSize
           /\ Enough(l, n) <=>
                PAGE_SIZE * n >= HeaderSize + MIN_SLOT_PER_CHUNK * SlotSize(l)
<1> DEFINE a == PAGE_SIZE * n - HeaderSize
           s == SlotSize(l)
<1>1. s \in Nat /\ s > 0
  BY LevelSizes
<1>2. /\ PAGE_SIZE \in Nat /\ PAGE_SIZE > HeaderSize /\ HeaderSize = 96
      /\ MIN_SLOT_PER_CHUNK \in Nat
  BY GeometryAssumption DEF HeaderSize
<1>3. PAGE_SIZE * n \in Nat /\ PAGE_SIZE <= PAGE_SIZE * n
  <2>1. CASE n = 1
    BY <1>2, <2>1
  <2>2. CASE n > 1
    <3>1. 1 * PAGE_SIZE + PAGE_SIZE <= n * PAGE_SIZE
      BY <1>2, <2>2, ProductStep
    <3> QED BY <3>1, <1>2
  <2> QED BY <2>1, <2>2
<1>4. a \in Nat
  BY <1>2, <1>3
<1>5. SlotsIn(l, n) = a \div s
  BY DEF SlotsIn
<1> HIDE DEF a, s
<1>6. /\ a \div s \in Nat /\ (a \div s) * s <= a
      /\ a \div s >= MIN_SLOT_PER_CHUNK <=> a >= MIN_SLOT_PER_CHUNK * s
  BY <1>1, <1>2, <1>4, QuotientAtLeast
<1>7. MIN_SLOT_PER_CHUNK * s \in Nat
  BY <1>1, <1>2
<1>8. a >= MIN_SLOT_PER_CHUNK * s <=> PAGE_SIZE * n >= HeaderSize + MIN_SLOT_PER_CHUNK * s
  BY <1>2, <1>3, <1>7 DEF a
<1> QED BY <1>4, <1>5, <1>6, <1>8 DEF Enough, a, s

(* The page loop of alloc_new_chunk ends: the pages that hold the header   *)
(* and the least number of slots, rounded up, are the least that suffice.  *)
LEMMA PagesSuffice ==
    ASSUME NEW l \in Level
    PROVE  PageCount(l) \in Nat /\ PageCount(l) > 0 /\ Enough(l, PageCount(l))
<1> DEFINE need == HeaderSize + MIN_SLOT_PER_CHUNK * SlotSize(l)
           n == (need + PAGE_SIZE - 1) \div PAGE_SIZE
           Least(k) == Enough(l, k) /\ \A m \in 1 .. (k - 1) : ~ Enough(l, m)
<1>1. /\ PAGE_SIZE \in Nat /\ PAGE_SIZE > 0
      /\ need \in Nat /\ need > 0
  <2>1. MIN_SLOT_PER_CHUNK * SlotSize(l) \in Nat
    BY LevelSizes, GeometryAssumption
  <2> QED BY <2>1, GeometryAssumption DEF HeaderSize
<1> HIDE DEF need
<1>2. n \in Nat /\ n * PAGE_SIZE >= need /\ (n - 1) * PAGE_SIZE < need
  BY <1>1
<1> HIDE DEF n
<1>3. n > 0
  BY <1>1, <1>2
<1>4. n <= need
  <2> SUFFICES ASSUME n > need PROVE FALSE
    BY <1>1, <1>2
  <2>1. n - 1 \in Nat /\ n - 1 >= need
    BY <1>1, <1>2
  <2>2. (n - 1) * 1 <= (n - 1) * PAGE_SIZE
    BY <1>1, <2>1, Z3
  <2>3. (n - 1) * PAGE_SIZE \in Nat
    BY <1>1, <2>1
  <2> QED BY <1>1, <1>2, <2>1, <2>2, <2>3
<1>5. Enough(l, n)
  BY <1>1, <1>2, <1>3, EnoughBytes DEF need
<1>6. ASSUME NEW m \in 1 .. (n - 1) PROVE ~ Enough(l, m)
  <2>1. m * PAGE_SIZE <= (n - 1) * PAGE_SIZE
    <3>1. CASE m = n - 1
      BY <3>1, <1>1, <1>2
    <3>2. CASE m < n - 1
      <4>1. m * PAGE_SIZE + PAGE_SIZE <= (n - 1) * PAGE_SIZE
        BY <1>1, <1>2, <1>3, <3>2, ProductStep
      <4>2. m * PAGE_SIZE \in Nat /\ (n - 1) * PAGE_SIZE \in Nat
        BY <1>1, <1>2, <1>3
      <4> QED BY <1>1, <4>1, <4>2
    <3> QED BY <1>2, <3>1, <3>2
  <2>2. ~ (PAGE_SIZE * m >= need)
    <3>1. m * PAGE_SIZE \in Nat /\ (n - 1) * PAGE_SIZE \in Nat /\ m * PAGE_SIZE = PAGE_SIZE * m
      BY <1>1, <1>2, <1>3
    <3> QED BY <1>1, <1>2, <2>1, <3>1
  <2> QED BY <2>2, <1>2, EnoughBytes DEF need
<1>7. \E k \in 1 .. need : Least(k)
  <2>1. Least(n)
    BY <1>5, <1>6
  <2> QED BY <2>1, <1>1, <1>2, <1>3, <1>4
<1>8. PageCount(l) = CHOOSE k \in 1 .. need : Least(k)
  BY DEF PageCount, need
<1> HIDE DEF Least
<1>9. PageCount(l) \in 1 .. need /\ Least(PageCount(l))
  BY <1>7, <1>8
<1> QED BY <1>1, <1>9 DEF Least

(* A chunk has at least one slot, no more than its bitmap has bits, and    *)
(* its slots fit its pages.                                                *)
LEMMA SlotsFit ==
    ASSUME NEW l \in Level
    PROVE  /\ TotalSlots(l) \in Nat
           /\ TotalSlots(l) > 0
           /\ TotalSlots(l) <= BITMAP_BITS
           /\ PAGE_SIZE * PageCount(l) \in Nat
           /\ HeaderSize + TotalSlots(l) * SlotSize(l) <= PAGE_SIZE * PageCount(l)
<1> DEFINE n == PageCount(l)
           s == SlotSize(l)
           k == SlotsIn(l, n)
           t == TotalSlots(l)
<1>1. n \in Nat /\ n > 0 /\ k >= MIN_SLOT_PER_CHUNK
  BY PagesSuffice DEF Enough
<1>2. k \in Nat /\ k * s <= PAGE_SIZE * n - HeaderSize /\ PAGE_SIZE * n - HeaderSize \in Nat
  BY <1>1, EnoughBytes
<1>3. t = IF k > BITMAP_BITS THEN BITMAP_BITS ELSE k
  BY DEF TotalSlots
<1>4. s \in Nat /\ s > 0
  BY LevelSizes
<1>5. /\ BITMAP_BITS \in Nat /\ BITMAP_BITS > 0
      /\ MIN_SLOT_PER_CHUNK \in Nat /\ MIN_SLOT_PER_CHUNK > 0
      /\ PAGE_SIZE * n \in Nat
  BY <1>1, GeometryAssumption
<1> HIDE DEF n, s, k, t
<1>6. t \in Nat /\ t > 0 /\ t <= BITMAP_BITS /\ t <= k
  BY <1>1, <1>2, <1>3, <1>5
<1>7. t * s <= k * s
  <2>1. CASE t = k
    BY <2>1, <1>2, <1>4
  <2>2. CASE t < k
    <3>1. t * s + s <= k * s
      BY <1>2, <1>4, <1>6, <2>2, ProductStep
    <3>2. t * s \in Nat /\ k * s \in Nat
      BY <1>2, <1>4, <1>6
    <3> QED BY <1>4, <3>1, <3>2
  <2> QED BY <1>2, <1>6, <2>1, <2>2
<1>8. t * s \in Nat /\ k * s \in Nat
  BY <1>2, <1>4, <1>6
<1>9. HeaderSize + t * s <= PAGE_SIZE * n
  BY <1>2, <1>5, <1>7, <1>8 DEF HeaderSize
<1> QED BY <1>5, <1>6, <1>9 DEF t, n, s

(* Where a slot's bytes lie, and that free finds its index again. *)
LEMMA SlotPlace ==
    ASSUME NEW l \in Level, NEW i \in Nat
    PROVE  /\ UserOffset(l, i) \in Nat
           /\ UserOffset(l, i) = 112 + i * SlotSize(l)
           /\ UserOffset(l, i) >= 112
           /\ SlotIndex(l, UserOffset(l, i) - SlotHeaderSize) = i
<1>1. SlotSize(l) \in Nat /\ SlotSize(l) > 0
  BY LevelSizes
<1>2. i * SlotSize(l) \in Nat
  BY <1>1
<1>3. UserOffset(l, i) = 112 + i * SlotSize(l)
  BY <1>2 DEF UserOffset, SlotOffset, HeaderSize, SlotHeaderSize
<1>4. UserOffset(l, i) - SlotHeaderSize - HeaderSize = i * SlotSize(l)
  BY <1>2, <1>3 DEF HeaderSize, SlotHeaderSize
<1>5. (i * SlotSize(l)) \div SlotSize(l) = i
  BY <1>1, QuotientOfProduct
<1> QED BY <1>2, <1>3, <1>4, <1>5 DEF SlotIndex

(* Two slots of a chunk, headers included, do not overlap. *)
LEMMA SlotsApart ==
    ASSUME NEW l \in Level, NEW i \in Nat, NEW j \in Nat, i < j
    PROVE  UserOffset(l, i) + Capacity(l) <= UserOffset(l, j) - SlotHeaderSize
<1> DEFINE s == SlotSize(l)
           c == Capacity(l)
           a == i * s
           b == j * s
<1>1. s \in Nat /\ c \in Nat /\ s = c + 16
  BY LevelSizes
<1>2. UserOffset(l, i) = 112 + a /\ UserOffset(l, j) = 112 + b
  BY SlotPlace
<1> HIDE DEF s, c
<1>3. a \in Nat /\ b \in Nat
  BY <1>1
<1>4. a + s <= b
  BY <1>1, ProductStep
<1> HIDE DEF a, b
<1>5. 112 + a + c <= 112 + b - 16
  BY <1>1, <1>3, <1>4
<1> QED BY <1>1, <1>2, <1>3, <1>5 DEF c, SlotHeaderSize

(* The last byte of every slot is inside the chunk's pages. *)
LEMMA SlotInside ==
    ASSUME NEW l \in Level, NEW i \in 0 .. (TotalSlots(l) - 1)
    PROVE  UserOffset(l, i) + Capacity(l) <= PAGE_SIZE * PageCount(l)
<1> DEFINE s == SlotSize(l)
           c == Capacity(l)
           t == TotalSlots(l)
           w == PAGE_SIZE * PageCount(l)
           a == i * s
           b == t * s
<1>1. s \in Nat /\ c \in Nat /\ s = c + 16
  BY LevelSizes
<1>2. t \in Nat /\ w \in Nat /\ 96 + b <= w
  BY SlotsFit DEF HeaderSize
<1>3. i \in Nat /\ i < t
  BY <1>2
<1>4. UserOffset(l, i) = 112 + a
  BY <1>3, SlotPlace
<1> HIDE DEF s, c, t, w
<1>5. a \in Nat /\ b \in Nat
  BY <1>1, <1>2, <1>3
<1>6. a + s <= b
  BY <1>1, <1>2, <1>3, ProductStep
<1> HIDE DEF a
<1>7. 112 + a + c <= w
  <2> HIDE DEF b
  <2> QED BY <1>1, <1>2, <1>5, <1>6
<1> QED BY <1>1, <1>4, <1>5, <1>7 DEF c, w
=============================================================================
