---------------------------- MODULE ChunkSizing ----------------------------
(***************************************************************************)
(* The loops by which malloc finds the level of a small request and        *)
(* alloc_new_chunk finds the shape of a chunk (src/src/stdlib.cpp), step   *)
(* by step with the numbers of the source.  HeapGeometry says what they    *)
(* compute in closed form, and Heap.tla relies on it.                      *)
(***************************************************************************)
EXTENDS HeapGeometryProofs

CONSTANT Sizes   \* the requests

(* A bitmap has eight words of 64 bits.                                    *)
SizingAssumption ==
    BITMAP_BITS = 512 /\ MIN_SLOT_PER_CHUNK <= BITMAP_BITS /\ Sizes \subseteq 1 .. SMALL_MAX

VARIABLES
    pc,      \* "level", "pages", "bitmap", "done"
    size, level,
    count,   \* pages so far
    slots,   \* slots they hold
    word,    \* index of the next 64-bit word of the bitmap
    bitmap   \* the bits set so far

vars == <<pc, size, level, count, slots, word, bitmap>>

Init ==
    /\ pc = "level" /\ size \in Sizes /\ level = 0
    /\ count = 1 /\ slots = 0 /\ word = 0 /\ bitmap = {}

NextLevel ==
    /\ pc = "level" /\ size > Capacity(level)
    /\ level' = level + 1
    /\ UNCHANGED <<pc, size, count, slots, word, bitmap>>

LevelFound ==
    /\ pc = "level" /\ size <= Capacity(level)
    /\ pc' = "pages"
    /\ slots' = SlotsIn(level, 1)
    /\ UNCHANGED <<size, level, count, word, bitmap>>

AddPage ==
    /\ pc = "pages" /\ slots < MIN_SLOT_PER_CHUNK
    /\ count' = count + 1
    /\ slots' = SlotsIn(level, count + 1)
    /\ UNCHANGED <<pc, size, level, word, bitmap>>

CapSlots ==
    /\ pc = "pages" /\ slots >= MIN_SLOT_PER_CHUNK
    /\ slots' = IF slots > BITMAP_BITS THEN BITMAP_BITS ELSE slots
    /\ pc' = "bitmap"
    /\ UNCHANGED <<size, level, count, word, bitmap>>

(* The bits of the word that begins at bit start: all, those from slots    *)
(* on, or none.                                                            *)
WordBits(start) ==
    IF start >= slots THEN start .. (start + 63)
    ELSE IF start + 64 > slots THEN slots .. (start + 63)
    ELSE {}

InitWord ==
    /\ pc = "bitmap" /\ word < 8
    /\ bitmap' = bitmap \cup WordBits(word * 64)
    /\ word' = word + 1
    /\ UNCHANGED <<pc, size, level, count, slots>>

Finish ==
    /\ pc = "bitmap" /\ word = 8
    /\ pc' = "done"
    /\ UNCHANGED <<size, level, count, slots, word, bitmap>>

Next ==
    NextLevel \/ LevelFound \/ AddPage \/ CapSlots \/ InitWord \/ Finish

Spec == Init /\ [][Next]_vars /\ WF_vars(Next)

-----------------------------------------------------------------------------
(* The loops compute what HeapGeometry says: the least level that is       *)
(* large enough, the least number of pages, and a bitmap whose set bits    *)
(* are exactly those without a slot, so the search never finds one.        *)
LoopsAgree ==
    pc = "done" =>
        /\ level = LevelOf(size)
        /\ count = PageCount(level)
        /\ slots = TotalSlots(level)
        /\ bitmap = Padding(level)

(* The slots of a chunk fit the pages mapped for it, one behind the other, *)
(* and the division in free gives back the index the multiplication in     *)
(* malloc started from.                                                    *)
SlotsTile ==
    pc = "done" =>
        /\ slots \in MIN_SLOT_PER_CHUNK .. BITMAP_BITS
        /\ SlotOffset(level, slots) <= PAGE_SIZE * count
        /\ \A i \in 0 .. (slots - 1) :
             /\ SlotIndex(level, SlotOffset(level, i)) = i
             /\ UserOffset(level, i) + size <= SlotOffset(level, i + 1)

(* Both loops end, for every request. *)
SizingEnds == <>(pc = "done")

-----------------------------------------------------------------------------
(* What the loops keep: no smaller level is large enough, fewer pages hold *)
(* too few slots, and the words of the bitmap so far are as they will be.  *)
LevelKept == level \in Level /\ \A m \in 0 .. (level - 1) : size > Capacity(m)
PagesKept == count \in Nat /\ count > 0 /\ \A m \in 1 .. (count - 1) : ~ Enough(level, m)
BitsKept ==
    /\ Enough(level, count)
    /\ slots = IF SlotsIn(level, count) > BITMAP_BITS THEN BITMAP_BITS ELSE SlotsIn(level, count)
    /\ word \in 0 .. 8 /\ bitmap = {b \in 0 .. (64 * word - 1) : b >= slots}
SizingInv ==
    /\ size \in Nat /\ size <= SMALL_MAX /\ pc \in {"level", "pages", "bitmap", "done"}
    /\ LevelKept /\ PagesKept
    /\ pc = "level" => count = 1
    /\ pc \in {"level", "pages"} => word = 0 /\ bitmap = {}
    /\ pc # "level" => size <= Capacity(level)
    /\ pc = "pages" => slots = SlotsIn(level, count)
    /\ pc \in {"bitmap", "done"} => BitsKept
    /\ pc = "done" => word = 8

LEMMA SizingStarts == SizingAssumption /\ Init => SizingInv
  BY DEF SizingAssumption, Init, SizingInv, LevelKept, PagesKept, Level

LEMMA LevelGoesOn ==
    ASSUME SizingInv, NextLevel PROVE SizingInv'
<1>1. level \in {0, 1, 2, 3, 4, 5, 6, 7, 8, 9} /\ size \in Nat /\ size <= SMALL_MAX
  BY DEF SizingInv, LevelKept, Level
<1>2. Capacity(9) = 8192
  BY DEF Capacity
<1>3. SMALL_MAX \in Nat /\ SMALL_MAX <= 8192 /\ Capacity(level) \in Nat
  BY <1>1, LevelSizes, GeometryAssumption DEF SizingInv, LevelKept
<1>4. size > Capacity(level) /\ level' = level + 1 /\ UNCHANGED <<pc, size, count, slots, word, bitmap>> /\ pc = "level"
  BY DEF NextLevel
<1>5. level # 9
  BY <1>1, <1>2, <1>3, <1>4
<1>6. level' \in Level /\ \A m \in 0 .. (level' - 1) : m \in 0 .. (level - 1) \/ m = level
  BY <1>1, <1>4, <1>5 DEF Level
<1>7. LevelKept'
  BY <1>4, <1>6 DEF LevelKept, SizingInv
<1>8. PagesKept'
  BY <1>4 DEF PagesKept, SizingInv
<1> QED
  BY <1>4, <1>7, <1>8 DEF SizingInv

LEMMA PagesGoOn ==
    ASSUME SizingInv, LevelFound \/ AddPage PROVE SizingInv'
<1>1. CASE LevelFound
  BY <1>1 DEF LevelFound, SizingInv, LevelKept, PagesKept
<1>2. CASE AddPage
  <2>1. /\ pc = "pages" /\ slots < MIN_SLOT_PER_CHUNK /\ count' = count + 1 /\ slots' = SlotsIn(level, count')
        /\ UNCHANGED <<pc, size, level, word, bitmap>>
    BY <1>2 DEF AddPage
  <2>2. ~ Enough(level, count) /\ count \in Nat /\ count > 0
    <3>1. slots = SlotsIn(level, count) /\ level \in Level /\ count \in Nat /\ count > 0
      BY <2>1 DEF SizingInv, LevelKept, PagesKept
    <3>2. SlotsIn(level, count) \in Nat
      BY <3>1, EnoughBytes
    <3> QED
      BY <2>1, <3>1, <3>2, GeometryAssumption DEF Enough
  <2>3. \A m \in 1 .. (count' - 1) : m \in 1 .. (count - 1) \/ m = count
    BY <2>1, <2>2
  <2>4. PagesKept'
    BY <2>1, <2>2, <2>3 DEF PagesKept, SizingInv, Enough, SlotsIn, SlotSize, Capacity
  <2> QED
    BY <2>1, <2>4 DEF SizingInv, LevelKept
<1> QED
  BY <1>1, <1>2

LEMMA BitsGoOn ==
    ASSUME SizingInv, SizingAssumption, CapSlots \/ InitWord \/ Finish PROVE SizingInv'
<1>1. level \in Level /\ count \in Nat /\ count > 0 /\ SlotsIn(level, count) \in Nat
  BY EnoughBytes DEF SizingInv, LevelKept, PagesKept
<1>2. CASE CapSlots
  <2>1. /\ pc = "pages" /\ slots >= MIN_SLOT_PER_CHUNK /\ pc' = "bitmap"
        /\ slots' = (IF slots > BITMAP_BITS THEN BITMAP_BITS ELSE slots)
        /\ UNCHANGED <<size, level, count, word, bitmap>>
    BY <1>2 DEF CapSlots
  <2>2. slots = SlotsIn(level, count) /\ word = 0 /\ bitmap = {}
    BY <2>1 DEF SizingInv
  <2>3. Enough(level, count)'
    BY <2>1, <2>2 DEF Enough, SlotsIn, SlotSize, Capacity
  <2>4. bitmap' = {b \in 0 .. (64 * word' - 1) : b >= slots'} /\ word' \in 0 .. 8
    BY <2>1, <2>2
  <2>5. BitsKept'
    BY <2>1, <2>2, <2>3, <2>4 DEF BitsKept, SlotsIn, SlotSize, Capacity
  <2>6. LevelKept' /\ PagesKept'
    BY <2>1 DEF SizingInv, LevelKept, PagesKept, Enough, SlotsIn, SlotSize, Capacity
  <2> QED
    BY <2>1, <2>5, <2>6 DEF SizingInv
<1>3. CASE InitWord
  <2>1. /\ pc = "bitmap" /\ word < 8 /\ bitmap' = bitmap \cup WordBits(word * 64) /\ word' = word + 1
        /\ UNCHANGED <<pc, size, level, count, slots>>
    BY <1>3 DEF InitWord
  <2>2. /\ Enough(level, count) /\ word \in 0 .. 8 /\ bitmap = {b \in 0 .. (64 * word - 1) : b >= slots}
        /\ slots = IF SlotsIn(level, count) > BITMAP_BITS THEN BITMAP_BITS ELSE SlotsIn(level, count)
    BY <2>1 DEF SizingInv, BitsKept
  <2>3. slots \in Nat
    BY <1>1, <2>2, GeometryAssumption
  <2>4. bitmap' = {b \in 0 .. (64 * word' - 1) : b >= slots}
    <3>1. WordBits(word * 64) = {b \in (64 * word) .. (64 * word + 63) : b >= slots}
      BY <2>2, <2>3 DEF WordBits
    <3> QED
      BY <2>1, <2>2, <2>3, <3>1
  <2>5. word' \in 0 .. 8
    BY <2>1, <2>2
  <2>6. BitsKept'
    BY <2>1, <2>2, <2>4, <2>5 DEF BitsKept, Enough, SlotsIn, SlotSize, Capacity
  <2>7. LevelKept' /\ PagesKept'
    BY <2>1 DEF SizingInv, LevelKept, PagesKept, Enough, SlotsIn, SlotSize, Capacity
  <2> QED
    BY <2>1, <2>6, <2>7 DEF SizingInv
<1>4. CASE Finish
  <2>1. pc = "bitmap" /\ word = 8 /\ pc' = "done" /\ UNCHANGED <<size, level, count, slots, word, bitmap>>
    BY <1>4 DEF Finish
  <2>2. BitsKept' /\ LevelKept' /\ PagesKept'
    BY <2>1 DEF SizingInv, BitsKept, LevelKept, PagesKept, Enough, SlotsIn, SlotSize, Capacity
  <2> QED
    BY <2>1, <2>2 DEF SizingInv
<1> QED
  BY <1>2, <1>3, <1>4

(* The least number of pages that is enough is PageCount.                  *)
LEMMA LeastPages ==
    ASSUME NEW l \in Level, NEW n \in Nat, n > 0, Enough(l, n), \A m \in 1 .. (n - 1) : ~ Enough(l, m)
    PROVE  n = PageCount(l)
<1> DEFINE bytes == HeaderSize + MIN_SLOT_PER_CHUNK * SlotSize(l)
<1>1. bytes \in Nat /\ bytes > 0
  BY LevelSizes, GeometryAssumption DEF HeaderSize
<1>2. n <= bytes
  <2>1. CASE n = 1
    BY <1>1, <2>1
  <2>2. CASE n > 1
    <3>1. n - 1 \in 1 .. (n - 1) /\ n - 1 \in Nat /\ n - 1 > 0
      BY <2>2
    <3>2. ~ PAGE_SIZE * (n - 1) >= bytes
      BY <3>1, EnoughBytes
    <3>3. PAGE_SIZE * (n - 1) >= n - 1 /\ PAGE_SIZE * (n - 1) \in Nat
      <4> DEFINE k == n - 1
                 j == PAGE_SIZE - 1
      <4>1. k \in Nat /\ j \in Nat /\ PAGE_SIZE = j + 1
        BY <3>1, GeometryAssumption DEF HeaderSize
      <4> HIDE DEF k, j
      <4>2. j * k \in Nat
        BY <4>1
      <4>3. PAGE_SIZE * k = j * k + k
        BY <4>1
      <4>4. PAGE_SIZE * k >= k /\ PAGE_SIZE * k \in Nat
        BY <4>1, <4>2, <4>3
      <4> QED
        BY <4>4 DEF k
    <3> HIDE DEF bytes
    <3> QED
      BY <1>1, <3>1, <3>2, <3>3
  <2> QED
    BY <2>1, <2>2
<1>3. n \in 1 .. bytes
  BY <1>1, <1>2
<1> DEFINE Least(k) == Enough(l, k) /\ \A m \in 1 .. (k - 1) : ~ Enough(l, m)
           p == CHOOSE k \in 1 .. bytes : Least(k)
<1>4. PageCount(l) = p
  BY DEF PageCount
<1>5. Least(n)
  OBVIOUS
<1> HIDE DEF Least
<1>6. p \in 1 .. bytes /\ Least(p)
  BY <1>3, <1>5
<1> HIDE DEF p, bytes
<1>7. p \in Nat /\ p > 0
  BY <1>1, <1>6
<1>8. ~ p < n /\ ~ n < p
  BY <1>5, <1>6, <1>7 DEF Least
<1> QED
  BY <1>4, <1>7, <1>8

(* LoopsAgree and SlotsTile (stdlib.cpp:111-136, 154-156, 210): for every  *)
(* page size, least number of slots and request.                           *)
LEMMA SizingDone ==
    ASSUME SizingInv, SizingAssumption PROVE LoopsAgree /\ SlotsTile
<1> SUFFICES ASSUME pc = "done" PROVE LoopsAgree /\ SlotsTile
  BY DEF LoopsAgree, SlotsTile
<1>1. /\ level \in Level /\ size \in Nat /\ size <= SMALL_MAX /\ size <= Capacity(level)
      /\ \A m \in 0 .. (level - 1) : size > Capacity(m)
  BY DEF SizingInv, LevelKept
<1>2. level = LevelOf(size)
  <2> DEFINE Fit(l) == size <= Capacity(l) /\ \A m \in 0 .. (l - 1) : size > Capacity(m)
             found == CHOOSE l \in Level : Fit(l)
  <2>1. LevelOf(size) = found
    BY DEF LevelOf
  <2>2. Fit(level)
    BY <1>1
  <2> HIDE DEF Fit
  <2>3. found \in Level /\ Fit(found)
    BY <1>1, <2>2
  <2> HIDE DEF found
  <2>4. ~ found < level /\ ~ level < found
    <3>1. Capacity(found) \in Nat /\ Capacity(level) \in Nat
      BY <1>1, <2>3, LevelSizes
    <3> QED
      BY <1>1, <2>2, <2>3, <3>1 DEF Fit, Level
  <2> QED
    BY <1>1, <2>1, <2>3, <2>4 DEF Level
<1>3. count = PageCount(level)
  BY <1>1, LeastPages DEF SizingInv, PagesKept, BitsKept
<1>4. slots = TotalSlots(level)
  BY <1>3 DEF SizingInv, BitsKept, TotalSlots
<1>5. bitmap = Padding(level)
  <2>1. word = 8 /\ bitmap = {b \in 0 .. (64 * word - 1) : b >= slots} /\ BITMAP_BITS = 512
    BY DEF SizingInv, BitsKept, SizingAssumption
  <2>2. slots \in Nat
    BY <1>1, <1>4, SlotsFit
  <2>3. {b \in 0 .. 511 : b >= slots} = slots .. 511
    BY <2>2
  <2> QED
    BY <1>4, <2>1, <2>3 DEF Padding
<1>6. LoopsAgree
  BY <1>2, <1>3, <1>4, <1>5 DEF LoopsAgree
<1>7. slots \in MIN_SLOT_PER_CHUNK .. BITMAP_BITS
  <2>1. SlotsIn(level, count) >= MIN_SLOT_PER_CHUNK /\ count \in Nat /\ count > 0
        /\ slots = IF SlotsIn(level, count) > BITMAP_BITS THEN BITMAP_BITS ELSE SlotsIn(level, count)
    BY DEF SizingInv, BitsKept, PagesKept, Enough
  <2>2. SlotsIn(level, count) \in Nat
    BY <1>1, <2>1, EnoughBytes
  <2> QED
    BY <2>1, <2>2, GeometryAssumption DEF SizingAssumption
<1>8. SlotOffset(level, slots) <= PAGE_SIZE * count
  BY <1>1, <1>3, <1>4, SlotsFit DEF SlotOffset
<1>9. ASSUME NEW i \in 0 .. (slots - 1)
      PROVE  /\ SlotIndex(level, SlotOffset(level, i)) = i
             /\ UserOffset(level, i) + size <= SlotOffset(level, i + 1)
  <2>1. i \in Nat /\ i + 1 \in Nat /\ i < i + 1
    BY <1>7, GeometryAssumption
  <2>2. SlotSize(level) \in Nat /\ Capacity(level) \in Nat
    BY <1>1, LevelSizes
  <2>3. SlotOffset(level, i) \in Nat /\ SlotOffset(level, i + 1) \in Nat
    BY <2>1, <2>2 DEF SlotOffset, HeaderSize
  <2>4. UserOffset(level, i) - SlotHeaderSize = SlotOffset(level, i)
        /\ UserOffset(level, i + 1) - SlotHeaderSize = SlotOffset(level, i + 1)
        /\ UserOffset(level, i) \in Nat
    BY <2>3 DEF UserOffset, SlotHeaderSize
  <2>5. SlotIndex(level, SlotOffset(level, i)) = i
    BY <1>1, <2>1, <2>4, SlotPlace
  <2>6. UserOffset(level, i) + Capacity(level) <= SlotOffset(level, i + 1)
    BY <1>1, <2>1, <2>4, SlotsApart
  <2> QED
    BY <1>1, <2>2, <2>3, <2>4, <2>5, <2>6
<1>10. SlotsTile
  BY <1>7, <1>8, <1>9 DEF SlotsTile
<1> QED
  BY <1>6, <1>10

(* The loops of alloc_new_chunk and malloc (stdlib.cpp:111-136, 154-156,  *)
(* 210) end at the geometry HeapGeometry gives in closed form, and the     *)
(* slots tile the chunk, from any requests.                                *)
THEOREM Shaped == SizingAssumption /\ Init /\ [][Next]_vars => [](LoopsAgree /\ SlotsTile)
<1> DEFINE Inv == SizingAssumption /\ SizingInv
<1>1. SizingAssumption /\ Init => Inv
  BY SizingStarts
<1>2. Inv /\ [Next]_vars => Inv'
  <2> SUFFICES ASSUME SizingAssumption, SizingInv, [Next]_vars PROVE SizingInv'
    BY DEF SizingAssumption
  <2>1. CASE UNCHANGED vars
    BY <2>1 DEF vars, SizingInv, LevelKept, PagesKept, BitsKept
  <2> QED
    BY <2>1, LevelGoesOn, PagesGoOn, BitsGoOn DEF Next
<1>3. Inv => LoopsAgree /\ SlotsTile
  BY SizingDone
<1> HIDE DEF Inv
<1> QED
  BY <1>1, <1>2, <1>3, PTL
=============================================================================
