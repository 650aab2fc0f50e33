----------------------------- MODULE HeapProofs -----------------------------
(***************************************************************************)
(* The safety of the slab heap, for every set of mappings, every page,     *)
(* bitmap and chunk size, and every set of request sizes.                  *)
(*                                                                         *)
(* None of the invariants of Heap is inductive alone: free trusts          *)
(* the header in front of a block, the header is right because the bitmap  *)
(* handed the slot out once, and the bitmap's chunk is mapped because a    *)
(* chunk is unmapped only when no bit is set.  HeapInv ties the four       *)
(* structures together; CallInv is what malloc's search and realloc's      *)
(* second half know about them.                                            *)
(***************************************************************************)
EXTENDS Heap, HeapGeometryProofs, FiniteSetTheorems

(* A chunk_header is as alloc_new_chunk made it. *)
ChunksOK ==
    \A r \in Chunks :
        /\ chunk[r].total_slots = TotalSlots(chunk[r].level)
        /\ chunk[r].page_count = PageCount(chunk[r].level)
        /\ maplen[r] = PAGE_SIZE * chunk[r].page_count
        /\ Padding(chunk[r].level) \subseteq chunk[r].bitmap

(* The header of an allocated block tells what free has to do. *)
IsLarge(p) ==
    /\ hdr[p].chunk_ptr = MMAP_MARK
    /\ p = <<p[1], MMapHeaderSize>>
    /\ p[1] \notin Chunks
    /\ hdr[p].reserved = maplen[p[1]]
    /\ hdr[p].reserved > MMapHeaderSize

IsSlot(p) ==
    /\ hdr[p].chunk_ptr = p[1]
    /\ p[1] \in Chunks
    /\ \E i \in SlotsOf(p[1]) : p = <<p[1], UserOffset(chunk[p[1]].level, i)>>

HeadersOK == \A p \in DOMAIN hdr : IsLarge(p) \/ IsSlot(p)

MappingsOK ==
    \A r \in Region :
        maplen[r] # 0 => r \in Chunks \/ <<r, MMapHeaderSize>> \in DOMAIN hdr

HeapInv ==
    /\ ChunksOK
    /\ HeadersOK
    /\ MappingsOK
    /\ BitmapMatchesBlocks
    /\ ListsLinked
    /\ EmptyChunkIsAlone

(* Callers own allocated blocks that are large enough for them. *)
LiveInv ==
    /\ DOMAIN live \subseteq DOMAIN hdr
    /\ \A p \in DOMAIN live : live[p].size <= OldSize(p)

(* While malloc walks the list of a level, every chunk it has passed is    *)
(* full, the head of the list in particular: so the chunk it may then add  *)
(* in front does not leave an empty one behind it.                         *)
SearchOK ==
    LET level == LevelOf(call.size)
    IN  /\ call.size \in 1 .. SMALL_MAX
        /\ call.head # NULL => call.head \in Chunks /\ chunk[call.head].level = level
        /\ call.head # chunk_heads[level] =>
             chunk_heads[level] # NULL /\ FreeBits(chunk_heads[level]) = {}

CallInv ==
    /\ call.size \in Sizes \cup {0}
    /\ call.pc = "idle" => call.old = NULL
    /\ call.old # NULL =>
         /\ call.old \in DOMAIN live
         /\ call.size > OldSize(call.old)
    /\ call.pc = "search" => SearchOK
    /\ call.pc = "copy" =>
         /\ call.old # NULL
         /\ call.new \in DOMAIN hdr \ DOMAIN live
         /\ call.size <= OldSize(call.new)

IInv == TypeOK /\ HeapInv /\ LiveInv /\ CallInv

HeapType ==
    /\ chunk_heads \in [Level -> RegionOrNull]
    /\ chunk \in [Region -> ChunkHeader]
    /\ DOMAIN hdr \subseteq Ptr /\ hdr \in [DOMAIN hdr -> BlockHeader]
    /\ maplen \in [Region -> Nat]

CallerType ==
    /\ DOMAIN live \subseteq Ptr /\ live \in [DOMAIN live -> Block]
    /\ call \in Call

(* A step leaves the size of every block that stays allocated. *)
KeepsBlocks ==
    \A q \in DOMAIN hdr \cap DOMAIN hdr' : OldSize(q)' = OldSize(q)

-----------------------------------------------------------------------------
(* Facts about one state.                                                  *)

LEMMA HeaderType ==
    ASSUME HeapType, NEW r \in Region
    PROVE  /\ chunk[r] \in ChunkHeader
           /\ chunk[r].next \in RegionOrNull
           /\ chunk[r].prev \in RegionOrNull
           /\ chunk[r].level \in Level
           /\ chunk[r].total_slots \in Nat
           /\ chunk[r].used_count \in Nat
           /\ chunk[r].page_count \in Nat
           /\ chunk[r].bitmap \subseteq 0 .. (BITMAP_BITS - 1)
  BY DEF HeapType, ChunkHeader

LEMMA SlotsDistinct ==
    ASSUME NEW l \in Level, NEW i \in Nat, NEW j \in Nat,
           UserOffset(l, i) = UserOffset(l, j)
    PROVE  i = j
  BY SlotPlace

(* The used slots of a chunk are finitely many. *)
LEMMA UsedSlotsFinite ==
    ASSUME HeapType, NEW r \in Region
    PROVE  IsFiniteSet(chunk[r].bitmap \cap SlotsOf(r))
<1>1. IsFiniteSet(0 .. (BITMAP_BITS - 1))
  BY GeometryAssumption, FS_Interval
<1>2. chunk[r].bitmap \cap SlotsOf(r) \subseteq 0 .. (BITMAP_BITS - 1)
  BY HeaderType
<1> QED BY <1>1, <1>2, FS_Subset

(* The slot of an allocated block that is no large block: free finds its   *)
(* chunk and its bit.                                                      *)
LEMMA SlotOfBlock ==
    ASSUME HeapType, HeapInv, NEW p \in DOMAIN hdr, hdr[p].chunk_ptr # MMAP_MARK
    PROVE  /\ hdr[p].chunk_ptr = p[1]
           /\ p[1] \in Chunks /\ p[1] \in Region
           /\ ClearedBit(p) \in SlotsOf(p[1]) /\ ClearedBit(p) \in Nat
           /\ p = <<p[1], UserOffset(chunk[p[1]].level, ClearedBit(p))>>
           /\ ClearedBit(p) \in chunk[p[1]].bitmap
<1> DEFINE head == p[1]
           l == chunk[head].level
<1>1. IsSlot(p)
  BY DEF HeapInv, HeadersOK, IsLarge
<1>2. head \in Chunks /\ hdr[p].chunk_ptr = head /\ head \in Region
  BY <1>1 DEF IsSlot, Chunks
<1>3. PICK i \in SlotsOf(head) : p = <<head, UserOffset(l, i)>>
  BY <1>1 DEF IsSlot
<1>4. l \in Level /\ i \in Nat
  BY <1>2, HeaderType DEF SlotsOf
<1>5. p[2] = UserOffset(l, i)
  BY <1>3
<1>6. ClearedBit(p) = i
  BY <1>2, <1>4, <1>5, SlotPlace DEF ClearedBit
<1>7. i \in chunk[head].bitmap
  BY <1>2, <1>3 DEF HeapInv, BitmapMatchesBlocks
<1> QED BY <1>2, <1>3, <1>4, <1>6, <1>7

(* The bits of a chunk's slots are below those of its padding. *)
LEMMA SlotsAndPadding ==
    ASSUME HeapType, HeapInv, NEW r \in Chunks
    PROVE  /\ r \in Region /\ chunk[r].level \in Level
           /\ SlotsOf(r) = 0 .. (TotalSlots(chunk[r].level) - 1)
           /\ SlotsOf(r) \cap Padding(chunk[r].level) = {}
           /\ SlotsOf(r) \subseteq 0 .. (BITMAP_BITS - 1)
           /\ 0 \in SlotsOf(r)
           /\ FreeBits(r) \subseteq SlotsOf(r)
<1>1. r \in Region /\ chunk[r].level \in Level
  BY HeaderType DEF Chunks
<1>2. chunk[r].total_slots = TotalSlots(chunk[r].level)
  BY DEF HeapInv, ChunksOK
<1>3. /\ TotalSlots(chunk[r].level) \in Nat
      /\ TotalSlots(chunk[r].level) > 0
      /\ TotalSlots(chunk[r].level) <= BITMAP_BITS
  BY <1>1, SlotsFit
<1>4. BITMAP_BITS \in Nat
  BY GeometryAssumption
<1>5. Padding(chunk[r].level) \subseteq chunk[r].bitmap
  BY DEF HeapInv, ChunksOK
<1> QED BY <1>1, <1>2, <1>3, <1>4, <1>5 DEF SlotsOf, Padding, FreeBits

-----------------------------------------------------------------------------
(* free.                                                                   *)

LEMMA ReleaseSlotInv ==
    ASSUME HeapType, HeapInv, NEW p \in DOMAIN hdr,
           ReleaseSlot(p), hdr' = Without(hdr, p)
    PROVE  HeapType' /\ HeapInv' /\ KeepsBlocks
<1> DEFINE head == p[1]
           l == chunk[head].level
           i == ClearedBit(p)
           used == chunk[head].bitmap \cap SlotsOf(head)
<1>1. /\ hdr[p].chunk_ptr = head /\ head \in Chunks /\ head \in Region
      /\ i \in SlotsOf(head) /\ i \in Nat
      /\ p = <<head, UserOffset(l, i)>>
      /\ i \in chunk[head].bitmap
  BY SlotOfBlock DEF ReleaseSlot
<1>2. chunk' = [chunk EXCEPT ![head].bitmap = @ \ {i},
                             ![head].used_count = @ - 1]
  BY <1>1 DEF ReleaseSlot
<1>3. UNCHANGED <<chunk_heads, maplen>>
  BY DEF ReleaseSlot
<1>4. /\ DOMAIN hdr' = DOMAIN hdr \ {p}
      /\ \A q \in DOMAIN hdr' : hdr'[q] = hdr[q]
  BY DEF Without
<1> HIDE DEF i
<1>5. /\ chunk \in [Region -> ChunkHeader]
      /\ DOMAIN chunk' = Region
  BY <1>2 DEF HeapType
<1>6. \A r \in Region :
        /\ chunk'[r].next = chunk[r].next
        /\ chunk'[r].prev = chunk[r].prev
        /\ chunk'[r].level = chunk[r].level
        /\ chunk'[r].total_slots = chunk[r].total_slots
        /\ chunk'[r].page_count = chunk[r].page_count
        /\ r # head => chunk'[r] = chunk[r]
  BY <1>1, <1>2, <1>5, HeaderType DEF ChunkHeader
<1>7. /\ chunk'[head].bitmap = chunk[head].bitmap \ {i}
      /\ chunk'[head].used_count = chunk[head].used_count - 1
  BY <1>1, <1>2, <1>5, HeaderType DEF ChunkHeader
<1>8. /\ IsFiniteSet(used) /\ i \in used
      /\ chunk[head].used_count = Cardinality(used)
      /\ Cardinality(used) \in Nat
  BY <1>1, UsedSlotsFinite, FS_CardinalityType DEF HeapInv, BitmapMatchesBlocks
<1>9. /\ Cardinality(used \ {i}) = Cardinality(used) - 1
      /\ Cardinality(used) - 1 \in Nat
  <2>1. IsFiniteSet(used \ {i}) /\ Cardinality(used \ {i}) = Cardinality(used) - 1
    BY <1>8, FS_RemoveElement
  <2> QED BY <2>1, FS_CardinalityType
<1>10. HeapType'
  <2>1. chunk' \in [Region -> ChunkHeader]
    <3>1. \A r \in Region : chunk'[r] \in ChunkHeader
      <4>1. chunk'[head] \in ChunkHeader
        <5>1. chunk[head] \in ChunkHeader
          BY <1>1, <1>5
        <5>2. chunk'[head] = [chunk[head] EXCEPT !.bitmap = @ \ {i}, !.used_count = @ - 1]
          BY <1>1, <1>2, <1>5
        <5>3. chunk[head].used_count - 1 \in Nat
          BY <1>8, <1>9
        <5> QED BY <5>1, <5>2, <5>3 DEF ChunkHeader
      <4> QED BY <1>5, <1>6, <4>1
    <3>2. chunk' = [r \in Region |-> chunk'[r]]
      BY <1>2, <1>5
    <3> QED BY <3>1, <3>2
  <2>2. DOMAIN hdr' \subseteq Ptr /\ hdr' \in [DOMAIN hdr' -> BlockHeader]
    BY <1>4 DEF HeapType, Without
  <2> QED BY <2>1, <2>2, <1>3 DEF HeapType
<1>11. /\ Chunks' = Chunks
       /\ \A r \in Region : SlotsOf(r)' = SlotsOf(r)
  BY <1>6 DEF Chunks, SlotsOf
<1>12. ChunksOK'
  <2> SUFFICES ASSUME NEW r \in Chunks
               PROVE  /\ chunk'[r].total_slots = TotalSlots(chunk'[r].level)
                      /\ chunk'[r].page_count = PageCount(chunk'[r].level)
                      /\ maplen'[r] = PAGE_SIZE * chunk'[r].page_count
                      /\ Padding(chunk'[r].level) \subseteq chunk'[r].bitmap
    BY <1>11 DEF ChunksOK
  <2>1. r \in Region
    BY SlotsAndPadding
  <2>2. i \notin Padding(l)
    BY <1>1, SlotsAndPadding
  <2>3. Padding(chunk[r].level) \subseteq chunk[r].bitmap
    BY DEF HeapInv, ChunksOK
  <2>4. Padding(chunk'[r].level) \subseteq chunk'[r].bitmap
    BY <1>6, <1>7, <2>1, <2>2, <2>3
  <2> QED BY <1>3, <1>6, <2>1, <2>4 DEF HeapInv, ChunksOK
<1>13. HeadersOK'
  <2> SUFFICES ASSUME NEW q \in DOMAIN hdr' PROVE IsLarge(q)' \/ IsSlot(q)'
    BY DEF HeadersOK
  <2>1. q \in DOMAIN hdr /\ hdr'[q] = hdr[q]
    BY <1>4
  <2>2. CASE IsLarge(q)
    BY <1>3, <1>11, <2>1, <2>2 DEF IsLarge
  <2>3. CASE IsSlot(q)
    <3>1. q[1] \in Region
      BY <2>3 DEF IsSlot, Chunks
    <3> QED BY <1>6, <1>11, <2>1, <2>3, <3>1 DEF IsSlot
  <2> QED BY <2>1, <2>2, <2>3 DEF HeapInv, HeadersOK
<1>14. MappingsOK'
  <2>1. \A r \in Region : <<r, MMapHeaderSize>> # p
    <3>1. p[2] = UserOffset(l, i) /\ l \in Level
      BY <1>1, HeaderType
    <3>2. p[2] >= 112 /\ p[2] \in Nat
      BY <1>1, <3>1, SlotPlace
    <3> QED BY <3>2 DEF MMapHeaderSize
  <2> QED BY <1>3, <1>4, <1>11, <2>1 DEF HeapInv, MappingsOK
<1>15. BitmapMatchesBlocks'
  <2> SUFFICES ASSUME NEW r \in Chunks
               PROVE  /\ \A j \in SlotsOf(r) :
                           j \in chunk'[r].bitmap
                             <=> <<r, UserOffset(chunk[r].level, j)>> \in DOMAIN hdr'
                      /\ chunk'[r].used_count = Cardinality(chunk'[r].bitmap \cap SlotsOf(r))
    <3>1. \A r \in Chunks : r \in Region
      BY DEF Chunks
    <3> QED BY <3>1, <1>6, <1>11 DEF BitmapMatchesBlocks
  <2>0. r \in Region /\ chunk[r].level \in Level
    BY SlotsAndPadding
  <2>1. /\ \A j \in SlotsOf(r) :
             j \in chunk[r].bitmap
               <=> <<r, UserOffset(chunk[r].level, j)>> \in DOMAIN hdr
        /\ chunk[r].used_count = Cardinality(chunk[r].bitmap \cap SlotsOf(r))
    BY DEF HeapInv, BitmapMatchesBlocks
  <2>2. CASE r # head
    <3>1. chunk'[r] = chunk[r]
      BY <1>6, <2>0, <2>2
    <3>2. \A j \in SlotsOf(r) : <<r, UserOffset(chunk[r].level, j)>> # p
      BY <1>1, <2>2
    <3> QED BY <1>4, <2>1, <3>1, <3>2
  <2>3. CASE r = head
    <3>1. \A j \in SlotsOf(r) : j # i => UserOffset(l, j) # UserOffset(l, i)
      <4>1. \A j \in SlotsOf(r) : j \in Nat
        BY DEF SlotsOf
      <4> QED BY <1>1, <2>0, <2>3, <4>1, SlotsDistinct
    <3>2. \A j \in SlotsOf(r) :
            <<r, UserOffset(l, j)>> = p <=> j = i
      BY <1>1, <2>3, <3>1
    <3>3. (chunk[r].bitmap \ {i}) \cap SlotsOf(r) = used \ {i}
      BY <2>3
    <3>4. chunk'[r].used_count = Cardinality(chunk'[r].bitmap \cap SlotsOf(r))
      BY <1>7, <1>8, <1>9, <2>3, <3>3
    <3> QED BY <1>4, <1>7, <2>1, <2>3, <3>2, <3>4
  <2> QED BY <2>2, <2>3
<1>16. ListsLinked'
  <2>1. \A l1 \in Level : chunk_heads[l1] # NULL => chunk_heads[l1] \in Region
    BY DEF HeapType, RegionOrNull
  <2>2. \A r \in Region : /\ chunk[r].next # NULL => chunk[r].next \in Region
                          /\ chunk[r].prev # NULL => chunk[r].prev \in Region
    BY HeaderType DEF RegionOrNull
  <2>3. \A r \in Chunks : r \in Region
    BY DEF Chunks
  <2> QED BY <1>3, <1>6, <1>11, <2>1, <2>2, <2>3 DEF HeapInv, ListsLinked
<1>17. EmptyChunkIsAlone'
  <2> SUFFICES ASSUME NEW r \in Chunks, chunk'[r].used_count = 0
               PROVE  /\ chunk'[r].next = NULL /\ chunk'[r].prev = NULL
                      /\ chunk_heads'[chunk'[r].level] = r
    BY <1>11 DEF EmptyChunkIsAlone
  <2>0. r \in Region
    BY SlotsAndPadding
  <2>1. CASE r # head
    BY <1>3, <1>6, <2>0, <2>1 DEF HeapInv, EmptyChunkIsAlone
  <2>2. CASE r = head
    <3>1. chunk[head].used_count - 1 = 0
      BY <1>7, <2>2
    <3>2. chunk[head].next = NULL /\ chunk[head].prev = NULL
      BY <1>1, <3>1 DEF ReleaseSlot, GivesBack
    <3>3. chunk_heads[l] = head
      BY <1>1, <3>2 DEF HeapInv, ListsLinked
    <3> QED BY <1>1, <1>3, <1>6, <2>2, <3>2, <3>3
  <2> QED BY <2>1, <2>2
<1>18. KeepsBlocks
  <2> SUFFICES ASSUME NEW q \in DOMAIN hdr, q \in DOMAIN hdr'
               PROVE  OldSize(q)' = OldSize(q)
    BY DEF KeepsBlocks
  <2>1. hdr'[q] = hdr[q]
    BY <1>4
  <2>2. CASE hdr[q].chunk_ptr = MMAP_MARK
    BY <2>1, <2>2 DEF OldSize
  <2>3. CASE hdr[q].chunk_ptr # MMAP_MARK
    <3>1. hdr[q].chunk_ptr \in Region
      BY <2>3, SlotOfBlock
    <3> QED BY <1>6, <2>1, <2>3, <3>1 DEF OldSize
  <2> QED BY <2>2, <2>3
<1> QED BY <1>10, <1>12, <1>13, <1>14, <1>15, <1>16, <1>17, <1>18 DEF HeapInv

(* When the last used slot of a chunk is given back, no other block lies   *)
(* in the chunk.                                                           *)
LEMMA LastSlot ==
    ASSUME HeapType, HeapInv, NEW p \in DOMAIN hdr,
           hdr[p].chunk_ptr # MMAP_MARK, chunk[p[1]].used_count - 1 = 0,
           NEW q \in DOMAIN hdr, q[1] = p[1]
    PROVE  q = p
<1> DEFINE head == p[1]
           used == chunk[head].bitmap \cap SlotsOf(head)
<1>1. /\ head \in Chunks /\ head \in Region
      /\ ClearedBit(p) \in used
      /\ p = <<head, UserOffset(chunk[head].level, ClearedBit(p))>>
  BY SlotOfBlock
<1>2. hdr[q].chunk_ptr # MMAP_MARK
  <2>1. IsLarge(q) \/ IsSlot(q)
    BY DEF HeapInv, HeadersOK
  <2> QED BY <1>1, <2>1, HeapAssumption DEF IsLarge, IsSlot
<1>3. /\ ClearedBit(q) \in used
      /\ q = <<head, UserOffset(chunk[head].level, ClearedBit(q))>>
  BY <1>2, SlotOfBlock
<1>4. IsFiniteSet(used) /\ Cardinality(used) = 1
  <2>1. IsFiniteSet(used)
    BY <1>1, UsedSlotsFinite
  <2>2. chunk[head].used_count = Cardinality(used) /\ chunk[head].used_count \in Nat
    BY <1>1, HeaderType DEF HeapInv, BitmapMatchesBlocks
  <2> QED BY <2>1, <2>2
<1>5. IsFiniteSet(used \ {ClearedBit(p)}) /\ Cardinality(used \ {ClearedBit(p)}) = 0
  BY <1>1, <1>4, FS_RemoveElement
<1>6. used \ {ClearedBit(p)} = {}
  BY <1>5, FS_EmptySet
<1> QED BY <1>1, <1>3, <1>6

LEMMA ReleaseChunkInv ==
    ASSUME HeapType, HeapInv, NEW p \in DOMAIN hdr,
           ReleaseChunk(p), hdr' = Without(hdr, p)
    PROVE  HeapType' /\ HeapInv' /\ KeepsBlocks
<1> DEFINE head == p[1]
           l == chunk[head].level
           pv == chunk[head].prev
           nx == chunk[head].next
<1>1. /\ hdr[p].chunk_ptr = head /\ head \in Chunks /\ head \in Region
      /\ p = <<head, UserOffset(l, ClearedBit(p))>> /\ ClearedBit(p) \in Nat
      /\ hdr[p].chunk_ptr # MMAP_MARK
  BY SlotOfBlock DEF ReleaseChunk
<1>2. /\ chunk' = [c \in Region |-> IF c = head THEN NoChunk ELSE Unlinked(c, head)]
      /\ chunk_heads' = [chunk_heads EXCEPT ![l] = IF @ = head THEN nx ELSE @]
      /\ maplen' = [maplen EXCEPT ![head] = @ - chunk[head].page_count * PAGE_SIZE]
      /\ chunk[head].used_count - 1 = 0
  BY <1>1 DEF ReleaseChunk, Munmap, GivesBack
<1>3. /\ DOMAIN hdr' = DOMAIN hdr \ {p}
      /\ \A q \in DOMAIN hdr' : hdr'[q] = hdr[q]
  BY DEF Without
<1>4. \A q \in DOMAIN hdr' : q[1] # head
  BY <1>1, <1>2, <1>3, LastSlot
<1>5. /\ l \in Level /\ pv \in RegionOrNull /\ nx \in RegionOrNull
      /\ NoChunk \in ChunkHeader /\ NoChunk.total_slots = 0
  BY <1>1, HeaderType DEF NoChunk, ChunkHeader, RegionOrNull, Level
<1>6. \A c \in Region : c # head =>
        /\ chunk'[c] \in ChunkHeader
        /\ chunk'[c].next = IF c = pv THEN nx ELSE chunk[c].next
        /\ chunk'[c].prev = IF c = nx THEN pv ELSE chunk[c].prev
        /\ chunk'[c].level = chunk[c].level
        /\ chunk'[c].total_slots = chunk[c].total_slots
        /\ chunk'[c].used_count = chunk[c].used_count
        /\ chunk'[c].page_count = chunk[c].page_count
        /\ chunk'[c].bitmap = chunk[c].bitmap
  <2> SUFFICES ASSUME NEW c \in Region, c # head
               PROVE  /\ Unlinked(c, head) \in ChunkHeader
                      /\ Unlinked(c, head).next = IF c = pv THEN nx ELSE chunk[c].next
                      /\ Unlinked(c, head).prev = IF c = nx THEN pv ELSE chunk[c].prev
                      /\ Unlinked(c, head).level = chunk[c].level
                      /\ Unlinked(c, head).total_slots = chunk[c].total_slots
                      /\ Unlinked(c, head).used_count = chunk[c].used_count
                      /\ Unlinked(c, head).page_count = chunk[c].page_count
                      /\ Unlinked(c, head).bitmap = chunk[c].bitmap
    BY <1>2
  <2>1. chunk[c] \in ChunkHeader
    BY HeaderType
  <2> QED BY <1>5, <2>1 DEF Unlinked, ChunkHeader
<1>7. chunk'[head] = NoChunk
  BY <1>1, <1>2
<1>8. /\ Chunks' = Chunks \ {head}
      /\ \A c \in Region \ {head} : SlotsOf(c)' = SlotsOf(c)
      /\ \A c \in Chunks : c \in Region
  <2>1. chunk'[head].total_slots = 0
    BY <1>5, <1>7
  <2> QED BY <1>1, <1>6, <2>1 DEF Chunks, SlotsOf
<1>9. maplen'[head] = 0 /\ \A c \in Region \ {head} : maplen'[c] = maplen[c]
  <2>1. maplen[head] = PAGE_SIZE * chunk[head].page_count /\ maplen[head] \in Nat
    BY <1>1 DEF HeapInv, ChunksOK, HeapType
  <2>2. PAGE_SIZE * chunk[head].page_count = chunk[head].page_count * PAGE_SIZE
    BY <1>1, HeaderType, GeometryAssumption
  <2> QED BY <1>1, <1>2, <2>1, <2>2 DEF HeapType
<1>10. /\ chunk_heads' \in [Level -> RegionOrNull]
       /\ chunk_heads'[l] = IF chunk_heads[l] = head THEN nx ELSE chunk_heads[l]
       /\ \A k \in Level : k # l => chunk_heads'[k] = chunk_heads[k]
  BY <1>2, <1>5 DEF HeapType
<1>11. HeapType'
  <2>1. chunk' \in [Region -> ChunkHeader]
    <3>1. \A c \in Region : chunk'[c] \in ChunkHeader
      BY <1>5, <1>6, <1>7
    <3> QED BY <1>2, <3>1
  <2>2. DOMAIN hdr' \subseteq Ptr /\ hdr' \in [DOMAIN hdr' -> BlockHeader]
    BY <1>3 DEF HeapType, Without
  <2>3. maplen' \in [Region -> Nat]
    <3>1. \A c \in Region : maplen'[c] \in Nat
      BY <1>9 DEF HeapType
    <3> QED BY <1>2, <3>1 DEF HeapType
  <2> QED BY <1>10, <2>1, <2>2, <2>3 DEF HeapType
<1>12. ChunksOK'
  BY <1>6, <1>8, <1>9 DEF HeapInv, ChunksOK
<1>13. HeadersOK'
  <2> SUFFICES ASSUME NEW q \in DOMAIN hdr' PROVE IsLarge(q)' \/ IsSlot(q)'
    BY DEF HeadersOK
  <2>1. q \in DOMAIN hdr /\ hdr'[q] = hdr[q] /\ q[1] # head /\ q[1] \in Region
    BY <1>3, <1>4 DEF HeapType, Ptr
  <2>2. CASE IsLarge(q)
    BY <1>8, <1>9, <2>1, <2>2 DEF IsLarge
  <2>3. CASE IsSlot(q)
    BY <1>6, <1>8, <2>1, <2>3 DEF IsSlot
  <2> QED BY <2>1, <2>2, <2>3 DEF HeapInv, HeadersOK
<1>14. MappingsOK'
  <2> SUFFICES ASSUME NEW r \in Region, maplen'[r] # 0
               PROVE  r \in Chunks' \/ <<r, MMapHeaderSize>> \in DOMAIN hdr'
    BY DEF MappingsOK
  <2>1. r # head /\ maplen[r] # 0
    BY <1>9
  <2>2. <<r, MMapHeaderSize>> # p
    BY <1>1, <2>1
  <2> QED BY <1>3, <1>8, <2>1, <2>2 DEF HeapInv, MappingsOK
<1>15. BitmapMatchesBlocks'
  <2> SUFFICES ASSUME NEW r \in Chunks, r # head
               PROVE  /\ \A j \in SlotsOf(r) :
                           j \in chunk'[r].bitmap
                             <=> <<r, UserOffset(chunk'[r].level, j)>> \in DOMAIN hdr'
                      /\ chunk'[r].used_count = Cardinality(chunk'[r].bitmap \cap SlotsOf(r))
    BY <1>8 DEF BitmapMatchesBlocks
  <2>1. r \in Region
    BY <1>8
  <2>2. \A j \in SlotsOf(r) : <<r, UserOffset(chunk[r].level, j)>> # p
    BY <1>1
  <2> QED BY <1>3, <1>6, <2>1, <2>2 DEF HeapInv, BitmapMatchesBlocks
<1>16. ListsLinked'
  <2>0. /\ head \in Chunks
        /\ pv = NULL => chunk_heads[l] = head
        /\ nx # NULL => nx \in Chunks /\ chunk[nx].prev = head /\ chunk[nx].level = l
        /\ pv # NULL => pv \in Chunks /\ chunk[pv].next = head /\ chunk[pv].level = l
    BY <1>1 DEF HeapInv, ListsLinked
  <2>1. ASSUME NEW k \in Level, chunk_heads'[k] # NULL
        PROVE  /\ chunk_heads'[k] \in Chunks'
               /\ chunk'[chunk_heads'[k]].level = k
               /\ chunk'[chunk_heads'[k]].prev = NULL
    <3>1. chunk_heads[k] # NULL =>
            /\ chunk_heads[k] \in Chunks
            /\ chunk[chunk_heads[k]].level = k
            /\ chunk[chunk_heads[k]].prev = NULL
      BY DEF HeapInv, ListsLinked
    <3>2. head # NULL
      BY <1>1, HeapAssumption
    <3>3. CASE chunk_heads[k] = head
      <4>1. k = l /\ pv = NULL
        BY <3>1, <3>2, <3>3
      <4>2. chunk_heads'[k] = nx
        BY <1>10, <3>3, <4>1
      <4>3. nx # head /\ nx \in Region /\ nx \in Chunks
        BY <1>8, <2>0, <2>1, <3>2, <4>1, <4>2
      <4> QED BY <1>6, <1>8, <2>0, <2>1, <4>1, <4>2, <4>3
    <3>4. CASE chunk_heads[k] # head
      <4>1. chunk_heads'[k] = chunk_heads[k]
        BY <1>10, <3>4
      <4>2. chunk_heads[k] # nx
        BY <2>0, <2>1, <3>1, <3>2, <4>1
      <4> QED BY <1>6, <1>8, <2>1, <3>1, <3>4, <4>1, <4>2
    <3> QED BY <3>3, <3>4
  <2>2. ASSUME NEW r \in Chunks, r # head
        PROVE  /\ chunk'[r].prev = NULL => chunk_heads'[chunk'[r].level] = r
               /\ chunk'[r].next # NULL =>
                    /\ chunk'[r].next \in Chunks'
                    /\ chunk'[chunk'[r].next].prev = r
                    /\ chunk'[chunk'[r].next].level = chunk'[r].level
               /\ chunk'[r].prev # NULL =>
                    /\ chunk'[r].prev \in Chunks'
                    /\ chunk'[chunk'[r].prev].next = r
                    /\ chunk'[chunk'[r].prev].level = chunk'[r].level
    <3>0. /\ r \in Region /\ chunk[r].level \in Level
          /\ chunk[r].prev = NULL => chunk_heads[chunk[r].level] = r
          /\ chunk[r].next # NULL =>
               /\ chunk[r].next \in Chunks
               /\ chunk[chunk[r].next].prev = r
               /\ chunk[chunk[r].next].level = chunk[r].level
          /\ chunk[r].prev # NULL =>
               /\ chunk[r].prev \in Chunks
               /\ chunk[chunk[r].prev].next = r
               /\ chunk[chunk[r].prev].level = chunk[r].level
          /\ r # NULL
      BY <1>8, HeaderType, HeapAssumption DEF HeapInv, ListsLinked
    <3>1. chunk'[r].prev = NULL => chunk_heads'[chunk'[r].level] = r
      <4>1. CASE r = nx
        BY <1>6, <1>10, <2>0, <2>2, <3>0, <4>1
      <4>2. CASE r # nx
        BY <1>6, <1>10, <2>2, <3>0, <4>2
      <4> QED BY <4>1, <4>2
    <3>2. ASSUME chunk'[r].next # NULL
          PROVE  /\ chunk'[r].next \in Chunks'
                 /\ chunk'[chunk'[r].next].prev = r
                 /\ chunk'[chunk'[r].next].level = chunk'[r].level
      <4>1. CASE r = pv
        <5>1. chunk'[r].next = nx /\ nx # NULL
          BY <1>6, <2>2, <3>0, <3>2, <4>1
        <5>2. nx # head /\ nx \in Chunks /\ nx \in Region
          BY <1>8, <2>0, <2>2, <4>1, <5>1
        <5> QED BY <1>6, <1>8, <2>0, <2>2, <3>0, <4>1, <5>1, <5>2
      <4>2. CASE r # pv
        <5>1. chunk'[r].next = chunk[r].next
          BY <1>6, <2>2, <3>0, <4>2
        <5>2. chunk[r].next # head /\ chunk[r].next \in Region
          BY <1>8, <3>0, <3>2, <4>2, <5>1
        <5>3. chunk[r].next # nx
          BY <2>0, <2>2, <3>0, <3>2, <5>1
        <5> QED BY <1>6, <1>8, <2>2, <3>0, <3>2, <5>1, <5>2, <5>3
      <4> QED BY <4>1, <4>2
    <3>3. ASSUME chunk'[r].prev # NULL
          PROVE  /\ chunk'[r].prev \in Chunks'
                 /\ chunk'[chunk'[r].prev].next = r
                 /\ chunk'[chunk'[r].prev].level = chunk'[r].level
      <4>1. CASE r = nx
        <5>1. chunk'[r].prev = pv /\ pv # NULL
          BY <1>6, <2>2, <3>0, <3>3, <4>1
        <5>2. pv # head /\ pv \in Chunks /\ pv \in Region
          BY <1>8, <2>0, <2>2, <4>1, <5>1
        <5> QED BY <1>6, <1>8, <2>0, <2>2, <3>0, <4>1, <5>1, <5>2
      <4>2. CASE r # nx
        <5>1. chunk'[r].prev = chunk[r].prev
          BY <1>6, <2>2, <3>0, <4>2
        <5>2. chunk[r].prev # head /\ chunk[r].prev \in Region
          BY <1>8, <3>0, <3>3, <4>2, <5>1
        <5>3. chunk[r].prev # pv
          BY <2>0, <2>2, <3>0, <3>3, <5>1
        <5> QED BY <1>6, <1>8, <2>2, <3>0, <3>3, <5>1, <5>2, <5>3
      <4> QED BY <4>1, <4>2
    <3> QED BY <3>1, <3>2, <3>3
  <2> QED BY <1>8, <2>1, <2>2 DEF ListsLinked
<1>17. EmptyChunkIsAlone'
  <2> SUFFICES ASSUME NEW r \in Chunks, r # head, chunk'[r].used_count = 0
               PROVE  /\ chunk'[r].next = NULL /\ chunk'[r].prev = NULL
                      /\ chunk_heads'[chunk'[r].level] = r
    BY <1>8 DEF EmptyChunkIsAlone
  <2>1. r \in Region /\ chunk[r].level \in Level
    BY SlotsAndPadding
  <2>2. /\ chunk[r].next = NULL /\ chunk[r].prev = NULL
        /\ chunk_heads[chunk[r].level] = r
    BY <1>6, <2>1 DEF HeapInv, EmptyChunkIsAlone
  <2>3. r # pv /\ r # nx
    BY <1>1, <2>1, <2>2, HeapAssumption DEF HeapInv, ListsLinked
  <2> QED BY <1>6, <1>10, <2>1, <2>2, <2>3
<1>18. KeepsBlocks
  <2> SUFFICES ASSUME NEW q \in DOMAIN hdr, q \in DOMAIN hdr'
               PROVE  OldSize(q)' = OldSize(q)
    BY DEF KeepsBlocks
  <2>1. hdr'[q] = hdr[q] /\ q[1] # head
    BY <1>3, <1>4
  <2>2. CASE hdr[q].chunk_ptr = MMAP_MARK
    BY <2>1, <2>2 DEF OldSize
  <2>3. CASE hdr[q].chunk_ptr # MMAP_MARK
    <3>1. hdr[q].chunk_ptr = q[1] /\ q[1] \in Region
      BY <2>3, SlotOfBlock
    <3> QED BY <1>6, <2>1, <2>3, <3>1 DEF OldSize
  <2> QED BY <2>2, <2>3
<1> QED BY <1>11, <1>12, <1>13, <1>14, <1>15, <1>16, <1>17, <1>18 DEF HeapInv

LEMMA ReleaseLargeInv ==
    ASSUME HeapType, HeapInv, NEW p \in DOMAIN hdr,
           ReleaseLarge(p), hdr' = Without(hdr, p)
    PROVE  HeapType' /\ HeapInv' /\ KeepsBlocks
<1> DEFINE r == p[1]
<1>1. /\ hdr[p].chunk_ptr = MMAP_MARK
      /\ maplen' = [maplen EXCEPT ![r] = @ - hdr[p].reserved]
      /\ UNCHANGED <<chunk_heads, chunk>>
  BY DEF ReleaseLarge, Munmap
<1>2. /\ DOMAIN hdr' = DOMAIN hdr \ {p}
      /\ \A q \in DOMAIN hdr' : hdr'[q] = hdr[q]
  BY DEF Without
<1>3. IsLarge(p) /\ r \in Region
  <2>1. r \in Region
    BY DEF HeapType, Ptr
  <2> QED BY <1>1, <2>1, HeapAssumption DEF HeapInv, HeadersOK, IsSlot
<1>4. maplen'[r] = 0 /\ \A c \in Region \ {r} : maplen'[c] = maplen[c]
  BY <1>1, <1>3 DEF IsLarge, HeapType
<1>5. /\ Chunks' = Chunks
      /\ \A c \in Region : SlotsOf(c)' = SlotsOf(c)
  BY <1>1 DEF Chunks, SlotsOf
<1>6. HeapType'
  <2>1. \A c \in Region : maplen'[c] \in Nat
    BY <1>4 DEF HeapType
  <2>2. maplen' \in [Region -> Nat]
    BY <1>1, <2>1 DEF HeapType
  <2> QED BY <1>1, <1>2, <2>2 DEF HeapType, Without
<1>7. r \notin Chunks
  BY <1>3 DEF IsLarge
<1>8. ChunksOK'
  BY <1>1, <1>4, <1>5, <1>7 DEF HeapInv, ChunksOK, Chunks
<1>9. HeadersOK'
  <2> SUFFICES ASSUME NEW q \in DOMAIN hdr' PROVE IsLarge(q)' \/ IsSlot(q)'
    BY DEF HeadersOK
  <2>1. q \in DOMAIN hdr /\ hdr'[q] = hdr[q] /\ q[1] \in Region /\ q # p
    BY <1>2 DEF HeapType, Ptr
  <2>2. CASE IsLarge(q)
    <3>1. q[1] # r
      BY <1>3, <2>1, <2>2 DEF IsLarge
    <3> QED BY <1>4, <1>5, <2>1, <2>2, <3>1 DEF IsLarge
  <2>3. CASE IsSlot(q)
    BY <1>1, <1>5, <2>1, <2>3 DEF IsSlot
  <2> QED BY <2>1, <2>2, <2>3 DEF HeapInv, HeadersOK
<1>10. MappingsOK'
  <2> SUFFICES ASSUME NEW c \in Region, maplen'[c] # 0
               PROVE  c \in Chunks \/ <<c, MMapHeaderSize>> \in DOMAIN hdr'
    BY <1>5 DEF MappingsOK
  <2>1. c # r /\ maplen[c] # 0
    BY <1>4
  <2>2. <<c, MMapHeaderSize>> # p
    BY <2>1
  <2> QED BY <1>2, <2>1, <2>2 DEF HeapInv, MappingsOK
<1>11. BitmapMatchesBlocks'
  <2> SUFFICES ASSUME NEW c \in Chunks
               PROVE  /\ \A j \in SlotsOf(c) :
                           j \in chunk[c].bitmap
                             <=> <<c, UserOffset(chunk[c].level, j)>> \in DOMAIN hdr'
                      /\ chunk[c].used_count = Cardinality(chunk[c].bitmap \cap SlotsOf(c))
    BY <1>1, <1>5 DEF BitmapMatchesBlocks, Chunks
  <2>1. \A j \in SlotsOf(c) : <<c, UserOffset(chunk[c].level, j)>> # p
    BY <1>7
  <2> QED BY <1>2, <2>1 DEF HeapInv, BitmapMatchesBlocks
<1>12. ListsLinked' /\ EmptyChunkIsAlone'
  BY <1>1, <1>5 DEF HeapInv, ListsLinked, EmptyChunkIsAlone
<1>13. KeepsBlocks
  BY <1>1, <1>2 DEF KeepsBlocks, OldSize
<1> QED BY <1>6, <1>8, <1>9, <1>10, <1>11, <1>12, <1>13 DEF HeapInv

(* free, whatever the block. *)
LEMMA ReleaseInv ==
    ASSUME HeapType, HeapInv, NEW p \in DOMAIN hdr, Release(p)
    PROVE  /\ HeapType' /\ HeapInv' /\ KeepsBlocks
           /\ DOMAIN hdr' = DOMAIN hdr \ {p}
<1>1. hdr' = Without(hdr, p)
  BY DEF Release
<1>2. HeapType' /\ HeapInv' /\ KeepsBlocks
  BY <1>1, ReleaseLargeInv, ReleaseSlotInv, ReleaseChunkInv DEF Release
<1> QED BY <1>1, <1>2 DEF Without

-----------------------------------------------------------------------------
(* malloc.                                                                 *)

(* What an allocating step does: p, a constant, is a new block and large   *)
(* enough.                                                                 *)
Allocates(p) ==
    /\ HeapType' /\ HeapInv' /\ KeepsBlocks
    /\ p \in Ptr /\ p \notin DOMAIN hdr
    /\ DOMAIN hdr' = DOMAIN hdr \cup {p}
    /\ call.size <= OldSize(p)'

(* Nothing stands in a region that is not mapped. *)
LEMMA UnmappedRegion ==
    ASSUME HeapType, HeapInv, NEW r \in Region, maplen[r] = 0
    PROVE  /\ r \notin Chunks
           /\ \A q \in DOMAIN hdr : q[1] # r
<1>1. ASSUME r \in Chunks PROVE FALSE
  <2> DEFINE l == chunk[r].level
             t == TotalSlots(l)
             s == SlotSize(l)
  <2>1. l \in Level /\ maplen[r] = PAGE_SIZE * PageCount(l)
    BY <1>1, HeaderType DEF HeapInv, ChunksOK
  <2>2. HeaderSize + t * s <= maplen[r] /\ t \in Nat
    BY <2>1, SlotsFit
  <2>3. s \in Nat
    BY <2>1, LevelSizes
  <2> HIDE DEF t, s
  <2>4. t * s \in Nat
    BY <2>2, <2>3
  <2> QED BY <2>2, <2>4 DEF HeaderSize
<1>2. ASSUME NEW q \in DOMAIN hdr, q[1] = r PROVE FALSE
  <2>1. CASE IsLarge(q)
    BY <1>2, <2>1 DEF IsLarge, MMapHeaderSize
  <2>2. CASE IsSlot(q)
    BY <1>1, <1>2, <2>2 DEF IsSlot
  <2> QED BY <2>1, <2>2 DEF HeapInv, HeadersOK
<1> QED BY <1>1, <1>2

LEMMA TakeSlotInv ==
    ASSUME HeapType, HeapInv, CallInv, NEW i \in 0 .. (BITMAP_BITS - 1), TakeSlot(i)
    PROVE  \E p \in Ptr :
             /\ p = <<call.head, UserOffset(chunk[call.head].level, i)>>
             /\ Allocates(p)
<1> DEFINE head == call.head
           l == chunk[head].level
           used == chunk[head].bitmap \cap SlotsOf(head)
<1>0. PICK p : p = <<head, UserOffset(l, i)>>
  OBVIOUS
<1>1. /\ head \in Chunks /\ head \in Region /\ l = LevelOf(call.size) /\ l \in Level
      /\ call.size \in 1 .. SMALL_MAX
  BY SlotsAndPadding DEF TakeSlot, CallInv, SearchOK
<1>2. /\ i \in SlotsOf(head) /\ i \in Nat /\ i \notin chunk[head].bitmap
      /\ i \in 0 .. (BITMAP_BITS - 1)
  BY <1>1, SlotsAndPadding DEF TakeSlot, FreeBits
<1>3. /\ chunk' = [chunk EXCEPT ![head].bitmap = @ \cup {i},
                                ![head].used_count = @ + 1]
      /\ hdr' = Extend(hdr, p, SlotHeader(head))
      /\ UNCHANGED <<chunk_heads, maplen>>
  BY <1>0 DEF TakeSlot
<1>4. /\ p \in Ptr /\ p \notin DOMAIN hdr
      /\ head \notin {MMAP_MARK}
  <2>1. UserOffset(l, i) \in Nat
    BY <1>1, <1>2, SlotPlace
  <2>2. p \notin DOMAIN hdr
    BY <1>0, <1>1, <1>2 DEF HeapInv, BitmapMatchesBlocks
  <2> QED BY <1>0, <1>1, <2>1, <2>2, HeapAssumption DEF Ptr
<1>5. /\ DOMAIN hdr' = DOMAIN hdr \cup {p}
      /\ \A q \in DOMAIN hdr : hdr'[q] = hdr[q]
      /\ hdr'[p] = [chunk_ptr |-> head, reserved |-> 0]
  BY <1>3, <1>4 DEF Extend, SlotHeader
<1>6. chunk \in [Region -> ChunkHeader] /\ DOMAIN chunk' = Region
  BY <1>3 DEF HeapType
<1>7. \A r \in Region :
        /\ chunk'[r].next = chunk[r].next
        /\ chunk'[r].prev = chunk[r].prev
        /\ chunk'[r].level = chunk[r].level
        /\ chunk'[r].total_slots = chunk[r].total_slots
        /\ chunk'[r].page_count = chunk[r].page_count
        /\ r # head => chunk'[r] = chunk[r]
  BY <1>1, <1>3, <1>6, HeaderType DEF ChunkHeader
<1>8. /\ chunk'[head].bitmap = chunk[head].bitmap \cup {i}
      /\ chunk'[head].used_count = chunk[head].used_count + 1
  BY <1>1, <1>3, <1>6, HeaderType DEF ChunkHeader
<1>9. /\ chunk[head].used_count = Cardinality(used)
      /\ Cardinality(used) \in Nat
      /\ Cardinality(used \cup {i}) = Cardinality(used) + 1
  <2>1. IsFiniteSet(used) /\ i \notin used
    BY <1>1, <1>2, UsedSlotsFinite
  <2> QED BY <1>1, <2>1, FS_CardinalityType, FS_AddElement DEF HeapInv, BitmapMatchesBlocks
<1>10. HeapType'
  <2>1. chunk'[head] \in ChunkHeader
    <3>1. chunk[head] \in ChunkHeader /\ chunk[head].used_count + 1 \in Nat
      BY <1>1, HeaderType
    <3>2. chunk'[head] = [chunk[head] EXCEPT !.bitmap = @ \cup {i}, !.used_count = @ + 1]
      BY <1>1, <1>3, <1>6
    <3>3. chunk[head].bitmap \cup {i} \in SUBSET (0 .. (BITMAP_BITS - 1))
      BY <1>1, <1>2, HeaderType
    <3> QED BY <3>1, <3>2, <3>3 DEF ChunkHeader
  <2>2. \A r \in Region : chunk'[r] \in ChunkHeader
    BY <1>6, <1>7, <2>1
  <2>3. chunk' \in [Region -> ChunkHeader]
    BY <1>3, <1>6, <2>2
  <2>4. hdr' \in [DOMAIN hdr' -> BlockHeader]
    BY <1>1, <1>3, <1>5 DEF HeapType, BlockHeader, Extend, SlotHeader
  <2> QED BY <1>3, <1>4, <1>5, <2>3, <2>4 DEF HeapType
<1>11. /\ Chunks' = Chunks
       /\ \A r \in Region : SlotsOf(r)' = SlotsOf(r)
       /\ \A r \in Chunks : r \in Region
  BY <1>7 DEF Chunks, SlotsOf
<1>12. ChunksOK'
  <2> SUFFICES ASSUME NEW r \in Chunks
               PROVE  /\ chunk'[r].total_slots = TotalSlots(chunk'[r].level)
                      /\ chunk'[r].page_count = PageCount(chunk'[r].level)
                      /\ maplen'[r] = PAGE_SIZE * chunk'[r].page_count
                      /\ Padding(chunk'[r].level) \subseteq chunk'[r].bitmap
    BY <1>11 DEF ChunksOK
  <2>1. chunk[r].bitmap \subseteq chunk'[r].bitmap
    BY <1>7, <1>8, <1>11
  <2> QED BY <1>3, <1>7, <1>11, <2>1 DEF HeapInv, ChunksOK
<1>13. HeadersOK'
  <2> SUFFICES ASSUME NEW q \in DOMAIN hdr' PROVE IsLarge(q)' \/ IsSlot(q)'
    BY DEF HeadersOK
  <2>1. CASE q = p
    <3>1. q[1] = head /\ hdr'[q].chunk_ptr = q[1]
      BY <1>0, <1>5, <2>1
    <3>2. IsSlot(q)'
      BY <1>0, <1>1, <1>2, <1>7, <1>11, <2>1, <3>1 DEF IsSlot
    <3> QED BY <3>2
  <2>2. CASE q # p
    <3>1. q \in DOMAIN hdr /\ hdr'[q] = hdr[q]
      BY <1>5, <2>2
    <3>2. CASE IsLarge(q)
      BY <1>3, <1>11, <3>1, <3>2 DEF IsLarge
    <3>3. CASE IsSlot(q)
      <4>1. q[1] \in Region
        BY <3>3, <1>11 DEF IsSlot
      <4> QED BY <1>7, <1>11, <3>1, <3>3, <4>1 DEF IsSlot
    <3> QED BY <3>1, <3>2, <3>3 DEF HeapInv, HeadersOK
  <2> QED BY <2>1, <2>2
<1>14. MappingsOK'
  BY <1>3, <1>5, <1>11 DEF HeapInv, MappingsOK
<1>15. BitmapMatchesBlocks'
  <2> SUFFICES ASSUME NEW r \in Chunks
               PROVE  /\ \A j \in SlotsOf(r) :
                           j \in chunk'[r].bitmap
                             <=> <<r, UserOffset(chunk[r].level, j)>> \in DOMAIN hdr'
                      /\ chunk'[r].used_count = Cardinality(chunk'[r].bitmap \cap SlotsOf(r))
    BY <1>7, <1>11 DEF BitmapMatchesBlocks
  <2>1. /\ \A j \in SlotsOf(r) :
             j \in chunk[r].bitmap
               <=> <<r, UserOffset(chunk[r].level, j)>> \in DOMAIN hdr
        /\ chunk[r].used_count = Cardinality(chunk[r].bitmap \cap SlotsOf(r))
    BY DEF HeapInv, BitmapMatchesBlocks
  <2>2. CASE r # head
    <3>1. chunk'[r] = chunk[r]
      BY <1>7, <1>11, <2>2
    <3>2. \A j \in SlotsOf(r) : <<r, UserOffset(chunk[r].level, j)>> # p
      BY <1>0, <2>2
    <3> QED BY <1>5, <2>1, <3>1, <3>2
  <2>3. CASE r = head
    <3>1. \A j \in SlotsOf(r) : j \in Nat
      BY DEF SlotsOf
    <3>2. \A j \in SlotsOf(r) : <<r, UserOffset(l, j)>> = p <=> j = i
      BY <1>0, <1>1, <1>2, <2>3, <3>1, SlotsDistinct
    <3>3. (chunk[r].bitmap \cup {i}) \cap SlotsOf(r) = used \cup {i}
      BY <1>2, <2>3
    <3>4. chunk'[r].used_count = Cardinality(chunk'[r].bitmap \cap SlotsOf(r))
      BY <1>8, <1>9, <2>3, <3>3
    <3> QED BY <1>5, <1>8, <2>1, <2>3, <3>2, <3>4
  <2> QED BY <2>2, <2>3
<1>16. ListsLinked'
  <2>1. \A k \in Level : chunk_heads[k] # NULL => chunk_heads[k] \in Region
    BY DEF HeapType, RegionOrNull
  <2>2. \A r \in Region : /\ chunk[r].next # NULL => chunk[r].next \in Region
                          /\ chunk[r].prev # NULL => chunk[r].prev \in Region
    BY HeaderType DEF RegionOrNull
  <2>3. ListsLinked /\ chunk_heads' = chunk_heads
    BY <1>3 DEF HeapInv
  <2>4. \A k \in Level :
          chunk_heads'[k] # NULL =>
            /\ chunk_heads'[k] \in Chunks'
            /\ chunk'[chunk_heads'[k]].level = k
            /\ chunk'[chunk_heads'[k]].prev = NULL
    BY <1>7, <1>11, <2>1, <2>3 DEF ListsLinked
  <2>5. \A r \in Chunks' :
          /\ chunk'[r].prev = NULL => chunk_heads'[chunk'[r].level] = r
          /\ chunk'[r].next # NULL =>
               /\ chunk'[r].next \in Chunks'
               /\ chunk'[chunk'[r].next].prev = r
               /\ chunk'[chunk'[r].next].level = chunk'[r].level
          /\ chunk'[r].prev # NULL =>
               /\ chunk'[r].prev \in Chunks'
               /\ chunk'[chunk'[r].prev].next = r
               /\ chunk'[chunk'[r].prev].level = chunk'[r].level
    BY <1>7, <1>11, <2>2, <2>3 DEF ListsLinked
  <2> QED BY <2>4, <2>5 DEF ListsLinked
<1>17. EmptyChunkIsAlone'
  <2> SUFFICES ASSUME NEW r \in Chunks, chunk'[r].used_count = 0
               PROVE  /\ chunk'[r].next = NULL /\ chunk'[r].prev = NULL
                      /\ chunk_heads'[chunk'[r].level] = r
    BY <1>11 DEF EmptyChunkIsAlone
  <2>1. r # head
    BY <1>8, <1>9
  <2> QED BY <1>3, <1>7, <1>11, <2>1 DEF HeapInv, EmptyChunkIsAlone
<1>18. KeepsBlocks
  <2> SUFFICES ASSUME NEW q \in DOMAIN hdr PROVE OldSize(q)' = OldSize(q)
    BY DEF KeepsBlocks
  <2>1. hdr'[q] = hdr[q]
    BY <1>5
  <2>2. CASE hdr[q].chunk_ptr = MMAP_MARK
    BY <2>1, <2>2 DEF OldSize
  <2>3. CASE hdr[q].chunk_ptr # MMAP_MARK
    <3>1. hdr[q].chunk_ptr \in Region
      BY <2>3, SlotOfBlock
    <3> QED BY <1>7, <2>1, <2>3, <3>1 DEF OldSize
  <2> QED BY <2>2, <2>3
<1>19. call.size <= OldSize(p)'
  <2>1. OldSize(p)' = Capacity(l)
    BY <1>1, <1>4, <1>5, <1>7 DEF OldSize
  <2>2. call.size \in Nat /\ call.size <= SMALL_MAX
    BY <1>1, GeometryAssumption
  <2> QED BY <1>1, <2>1, <2>2, LevelFits
<1>20. HeapInv'
  BY <1>12, <1>13, <1>14, <1>15, <1>16, <1>17 DEF HeapInv
<1> QED BY <1>0, <1>4, <1>5, <1>10, <1>18, <1>19, <1>20 DEF Allocates

LEMMA NewChunkInv ==
    ASSUME HeapType, HeapInv, CallInv, NEW r \in Region, NewChunk(r)
    PROVE  \E p \in Ptr :
             /\ p = <<r, UserOffset(LevelOf(call.size), 0)>>
             /\ Allocates(p)
<1> DEFINE l == LevelOf(call.size)
           first == chunk_heads[l]
<1>0. PICK p : p = <<r, UserOffset(l, 0)>>
  OBVIOUS
<1>1. /\ call.size \in Nat /\ call.size <= SMALL_MAX
      /\ first # NULL => FreeBits(first) = {}
  BY GeometryAssumption DEF NewChunk, CallInv, SearchOK
<1>2. l \in Level /\ call.size <= Capacity(l)
  BY <1>1, LevelFits
<1>3. maplen[r] = 0 /\ r \notin Chunks /\ \A q \in DOMAIN hdr : q[1] # r
  BY UnmappedRegion DEF NewChunk, Mmap
<1>4. /\ chunk' = [c \in Region |->
                     IF c = r
                     THEN [FreshChunk(l) EXCEPT
                             !.next = first, !.bitmap = @ \cup {0}, !.used_count = 1]
                     ELSE IF c = first THEN [chunk[c] EXCEPT !.prev = r]
                     ELSE chunk[c]]
      /\ chunk_heads' = [chunk_heads EXCEPT ![l] = r]
      /\ hdr' = Extend(hdr, p, SlotHeader(r))
      /\ maplen' = [maplen EXCEPT ![r] = PAGE_SIZE * PageCount(l)]
  BY <1>0 DEF NewChunk, Mmap
<1>5. /\ DOMAIN hdr' = DOMAIN hdr \cup {p}
      /\ \A q \in DOMAIN hdr : hdr'[q] = hdr[q]
      /\ hdr'[p] = [chunk_ptr |-> r, reserved |-> 0]
      /\ p \notin DOMAIN hdr /\ p \in Ptr
  <2>1. p \notin DOMAIN hdr
    BY <1>0, <1>3
  <2>2. UserOffset(l, 0) \in Nat
    BY <1>2, SlotPlace
  <2> QED BY <1>0, <1>4, <2>1, <2>2 DEF Extend, SlotHeader, Ptr
<1>6. /\ chunk'[r].next = first /\ chunk'[r].prev = NULL
      /\ chunk'[r].level = l /\ chunk'[r].total_slots = TotalSlots(l)
      /\ chunk'[r].used_count = 1 /\ chunk'[r].page_count = PageCount(l)
      /\ chunk'[r].bitmap = Padding(l) \cup {0}
      /\ chunk'[r] = [next |-> first, prev |-> NULL, level |-> l,
                      total_slots |-> TotalSlots(l), used_count |-> 1,
                      page_count |-> PageCount(l), bitmap |-> Padding(l) \cup {0}]
  BY <1>4 DEF FreshChunk
<1>7. /\ TotalSlots(l) \in Nat /\ TotalSlots(l) > 0 /\ TotalSlots(l) <= BITMAP_BITS
      /\ PAGE_SIZE * PageCount(l) \in Nat /\ PageCount(l) \in Nat
      /\ BITMAP_BITS \in Nat
      /\ Padding(l) \subseteq 0 .. (BITMAP_BITS - 1)
      /\ 0 \in 0 .. (BITMAP_BITS - 1)
  BY <1>2, SlotsFit, PagesSuffice, GeometryAssumption DEF Padding
<1>8. /\ first \in RegionOrNull
      /\ first # NULL => /\ first \in Chunks /\ first \in Region /\ first # r
                         /\ chunk[first].level = l /\ chunk[first].prev = NULL
  BY <1>2, <1>3 DEF HeapType, HeapInv, ListsLinked, RegionOrNull, Chunks
<1>9. \A c \in Region : c # r =>
        /\ chunk'[c] \in ChunkHeader
        /\ chunk'[c].prev = IF c = first THEN r ELSE chunk[c].prev
        /\ chunk'[c].next = chunk[c].next
        /\ chunk'[c].level = chunk[c].level
        /\ chunk'[c].total_slots = chunk[c].total_slots
        /\ chunk'[c].used_count = chunk[c].used_count
        /\ chunk'[c].page_count = chunk[c].page_count
        /\ chunk'[c].bitmap = chunk[c].bitmap
  <2> SUFFICES ASSUME NEW c \in Region, c # r
               PROVE  /\ chunk'[c] \in ChunkHeader
                      /\ chunk'[c].prev = IF c = first THEN r ELSE chunk[c].prev
                      /\ chunk'[c].next = chunk[c].next
                      /\ chunk'[c].level = chunk[c].level
                      /\ chunk'[c].total_slots = chunk[c].total_slots
                      /\ chunk'[c].used_count = chunk[c].used_count
                      /\ chunk'[c].page_count = chunk[c].page_count
                      /\ chunk'[c].bitmap = chunk[c].bitmap
    OBVIOUS
  <2>1. chunk'[c] = IF c = first THEN [chunk[c] EXCEPT !.prev = r] ELSE chunk[c]
    BY <1>4
  <2>2. chunk[c] \in ChunkHeader
    BY HeaderType
  <2> QED BY <2>1, <2>2 DEF ChunkHeader, RegionOrNull
<1>10. /\ maplen'[r] = PAGE_SIZE * PageCount(l)
       /\ \A c \in Region : c # r => maplen'[c] = maplen[c]
       /\ chunk_heads'[l] = r
       /\ \A k \in Level : k # l => chunk_heads'[k] = chunk_heads[k]
  BY <1>2, <1>4 DEF HeapType
<1>11. HeapType'
  <2>1. chunk'[r] \in ChunkHeader
    <3>1. NULL \in RegionOrNull /\ 1 \in Nat
      BY DEF RegionOrNull
    <3>2. Padding(l) \cup {0} \in SUBSET (0 .. (BITMAP_BITS - 1))
      BY <1>7
    <3> QED BY <1>2, <1>6, <1>7, <1>8, <3>1, <3>2 DEF ChunkHeader
  <2>2. \A c \in Region : chunk'[c] \in ChunkHeader
    BY <1>9, <2>1
  <2>3. chunk' \in [Region -> ChunkHeader]
    BY <1>4, <2>2
  <2>4. hdr' \in [DOMAIN hdr' -> BlockHeader]
    BY <1>4, <1>5 DEF HeapType, BlockHeader, Extend, SlotHeader
  <2>5. maplen' \in [Region -> Nat]
    BY <1>4, <1>7 DEF HeapType
  <2>6. chunk_heads' \in [Level -> RegionOrNull]
    BY <1>2, <1>4 DEF HeapType, RegionOrNull
  <2> QED BY <1>5, <2>3, <2>4, <2>5, <2>6 DEF HeapType
<1>12. /\ Chunks' = Chunks \cup {r}
       /\ \A c \in Chunks : c \in Region /\ c # r
       /\ \A c \in Region : c # r => SlotsOf(c)' = SlotsOf(c)
       /\ SlotsOf(r)' = 0 .. (TotalSlots(l) - 1)
  <2>1. \A c \in Region : c # r => (c \in Chunks' <=> c \in Chunks)
    BY <1>9 DEF Chunks
  <2>2. r \in Chunks'
    BY <1>6, <1>7 DEF Chunks
  <2> QED BY <1>3, <1>6, <1>9, <2>1, <2>2 DEF Chunks, SlotsOf
<1>13. ChunksOK'
  <2>1. ASSUME NEW c \in Chunks
        PROVE  /\ chunk'[c].total_slots = TotalSlots(chunk'[c].level)
               /\ chunk'[c].page_count = PageCount(chunk'[c].level)
               /\ maplen'[c] = PAGE_SIZE * chunk'[c].page_count
               /\ Padding(chunk'[c].level) \subseteq chunk'[c].bitmap
    BY <1>9, <1>10, <1>12 DEF HeapInv, ChunksOK
  <2> QED BY <1>6, <1>10, <1>12, <2>1 DEF ChunksOK
<1>14. HeadersOK'
  <2> SUFFICES ASSUME NEW q \in DOMAIN hdr' PROVE IsLarge(q)' \/ IsSlot(q)'
    BY DEF HeadersOK
  <2>1. CASE q = p
    <3>1. q[1] = r /\ hdr'[q].chunk_ptr = q[1] /\ r \in Chunks'
      BY <1>0, <1>5, <1>12, <2>1
    <3>2. 0 \in SlotsOf(r)'
      BY <1>7, <1>12
    <3> QED BY <1>0, <1>6, <2>1, <3>1, <3>2 DEF IsSlot
  <2>2. CASE q # p
    <3>1. q \in DOMAIN hdr /\ hdr'[q] = hdr[q] /\ q[1] # r /\ q[1] \in Region
      BY <1>3, <1>5, <2>2 DEF HeapType, Ptr
    <3>2. CASE IsLarge(q)
      BY <1>10, <1>12, <3>1, <3>2 DEF IsLarge
    <3>3. CASE IsSlot(q)
      BY <1>9, <1>12, <3>1, <3>3 DEF IsSlot
    <3> QED BY <3>1, <3>2, <3>3 DEF HeapInv, HeadersOK
  <2> QED BY <2>1, <2>2
<1>15. MappingsOK'
  BY <1>5, <1>10, <1>12 DEF HeapInv, MappingsOK
<1>16. BitmapMatchesBlocks'
  <2>1. ASSUME NEW c \in Chunks
        PROVE  /\ \A j \in SlotsOf(c)' :
                    j \in chunk'[c].bitmap
                      <=> <<c, UserOffset(chunk'[c].level, j)>> \in DOMAIN hdr'
               /\ chunk'[c].used_count = Cardinality(chunk'[c].bitmap \cap SlotsOf(c)')
    <3>1. c # r /\ c \in Region /\ SlotsOf(c)' = SlotsOf(c)
      BY <1>12
    <3>2. \A j \in SlotsOf(c) : <<c, UserOffset(chunk[c].level, j)>> # p
      BY <1>0, <3>1
    <3>3. BitmapMatchesBlocks
      BY DEF HeapInv
    <3>4. ASSUME NEW j \in SlotsOf(c)
          PROVE  j \in chunk'[c].bitmap
                   <=> <<c, UserOffset(chunk'[c].level, j)>> \in DOMAIN hdr'
      BY <1>5, <1>9, <3>1, <3>2, <3>3 DEF BitmapMatchesBlocks
    <3>5. chunk'[c].used_count = Cardinality(chunk'[c].bitmap \cap SlotsOf(c))
      BY <1>9, <3>1, <3>3 DEF BitmapMatchesBlocks
    <3> QED BY <3>1, <3>4, <3>5
  <2>2. ASSUME NEW j \in 0 .. (TotalSlots(l) - 1)
        PROVE  j \in chunk'[r].bitmap
                 <=> <<r, UserOffset(chunk'[r].level, j)>> \in DOMAIN hdr'
    <3>1. j \in chunk'[r].bitmap <=> j = 0
      BY <1>6, <1>7 DEF Padding
    <3>2. <<r, UserOffset(l, j)>> \notin DOMAIN hdr
      BY <1>3
    <3>3. <<r, UserOffset(l, j)>> = p <=> j = 0
      BY <1>0, <1>2, SlotsDistinct
    <3> QED BY <1>5, <1>6, <3>1, <3>2, <3>3
  <2>3. chunk'[r].used_count = Cardinality(chunk'[r].bitmap \cap SlotsOf(r)')
    <3>1. (Padding(l) \cup {0}) \cap (0 .. (TotalSlots(l) - 1)) = {0}
      BY <1>7 DEF Padding
    <3>2. Cardinality({0}) = 1
      BY FS_Singleton
    <3> QED BY <1>6, <1>12, <3>1, <3>2
  <2> QED BY <1>12, <2>1, <2>2, <2>3 DEF BitmapMatchesBlocks
<1>17. ListsLinked'
  <2>0. r # NULL
    BY HeapAssumption
  <2>1. ASSUME NEW k \in Level, chunk_heads'[k] # NULL
        PROVE  /\ chunk_heads'[k] \in Chunks'
               /\ chunk'[chunk_heads'[k]].level = k
               /\ chunk'[chunk_heads'[k]].prev = NULL
    <3>1. CASE k = l
      BY <1>6, <1>10, <1>12, <3>1
    <3>2. CASE k # l
      <4>1. chunk_heads'[k] = chunk_heads[k]
        BY <1>10, <3>2
      <4>2. /\ chunk_heads[k] \in Chunks /\ chunk[chunk_heads[k]].level = k
            /\ chunk[chunk_heads[k]].prev = NULL
        BY <2>1, <4>1 DEF HeapInv, ListsLinked
      <4>3. chunk_heads[k] # first
        BY <1>8, <2>1, <3>2, <4>1, <4>2
      <4> QED BY <1>9, <1>12, <4>1, <4>2, <4>3
    <3> QED BY <3>1, <3>2
  <2>2. ASSUME NEW c \in Chunks
        PROVE  /\ chunk'[c].prev = NULL => chunk_heads'[chunk'[c].level] = c
               /\ chunk'[c].next # NULL =>
                    /\ chunk'[c].next \in Chunks'
                    /\ chunk'[chunk'[c].next].prev = c
                    /\ chunk'[chunk'[c].next].level = chunk'[c].level
               /\ chunk'[c].prev # NULL =>
                    /\ chunk'[c].prev \in Chunks'
                    /\ chunk'[chunk'[c].prev].next = c
                    /\ chunk'[chunk'[c].prev].level = chunk'[c].level
    <3>0. /\ c \in Region /\ c # r /\ chunk[c].level \in Level /\ c # NULL
          /\ chunk[c].prev = NULL => chunk_heads[chunk[c].level] = c
          /\ chunk[c].next # NULL =>
               /\ chunk[c].next \in Chunks
               /\ chunk[chunk[c].next].prev = c
               /\ chunk[chunk[c].next].level = chunk[c].level
          /\ chunk[c].prev # NULL =>
               /\ chunk[c].prev \in Chunks
               /\ chunk[chunk[c].prev].next = c
               /\ chunk[chunk[c].prev].level = chunk[c].level
      BY <1>12, HeaderType, HeapAssumption DEF HeapInv, ListsLinked
    <3>1. chunk'[c].prev = NULL => chunk_heads'[chunk'[c].level] = c
      <4>1. CASE c = first
        BY <1>9, <2>0, <3>0, <4>1
      <4>2. CASE c # first
        BY <1>9, <1>10, <3>0, <4>2
      <4> QED BY <4>1, <4>2
    <3>2. ASSUME chunk'[c].next # NULL
          PROVE  /\ chunk'[c].next \in Chunks'
                 /\ chunk'[chunk'[c].next].prev = c
                 /\ chunk'[chunk'[c].next].level = chunk'[c].level
      <4>1. chunk'[c].next = chunk[c].next
        BY <1>9, <3>0
      <4>2. chunk[c].next # first
        BY <1>8, <3>0, <3>2, <4>1
      <4> QED BY <1>9, <1>12, <3>0, <3>2, <4>1, <4>2
    <3>3. ASSUME chunk'[c].prev # NULL
          PROVE  /\ chunk'[c].prev \in Chunks'
                 /\ chunk'[chunk'[c].prev].next = c
                 /\ chunk'[chunk'[c].prev].level = chunk'[c].level
      <4>1. CASE c = first
        <5>1. chunk'[c].prev = r
          BY <1>9, <3>0, <4>1
        <5>2. chunk'[c].level = l
          BY <1>8, <1>9, <3>0, <4>1
        <5> QED BY <1>6, <1>12, <4>1, <5>1, <5>2
      <4>2. CASE c # first
        BY <1>9, <1>12, <3>0, <3>3, <4>2
      <4> QED BY <4>1, <4>2
    <3> QED BY <3>1, <3>2, <3>3
  <2>3. /\ chunk'[r].prev = NULL => chunk_heads'[chunk'[r].level] = r
        /\ chunk'[r].next # NULL =>
             /\ chunk'[r].next \in Chunks'
             /\ chunk'[chunk'[r].next].prev = r
             /\ chunk'[chunk'[r].next].level = chunk'[r].level
        /\ chunk'[r].prev # NULL =>
             /\ chunk'[r].prev \in Chunks'
             /\ chunk'[chunk'[r].prev].next = r
             /\ chunk'[chunk'[r].prev].level = chunk'[r].level
    BY <1>6, <1>8, <1>9, <1>10, <1>12
  <2> QED BY <1>12, <2>1, <2>2, <2>3 DEF ListsLinked
<1>18. EmptyChunkIsAlone'
  <2> SUFFICES ASSUME NEW c \in Chunks, chunk'[c].used_count = 0
               PROVE  /\ chunk'[c].next = NULL /\ chunk'[c].prev = NULL
                      /\ chunk_heads'[chunk'[c].level] = c
    BY <1>6, <1>12 DEF EmptyChunkIsAlone
  <2>1. c \in Region /\ c # r /\ chunk[c].used_count = 0 /\ chunk[c].level \in Level
    BY <1>9, <1>12, HeaderType
  <2>2. /\ chunk[c].next = NULL /\ chunk[c].prev = NULL
        /\ chunk_heads[chunk[c].level] = c
    BY <2>1 DEF HeapInv, EmptyChunkIsAlone
  <2>3. c # first
    <3> SUFFICES ASSUME c = first PROVE FALSE
      OBVIOUS
    <3>1. FreeBits(c) = {} /\ 0 \in SlotsOf(c) /\ SlotsOf(c) \subseteq 0 .. (BITMAP_BITS - 1)
      <4>1. c # NULL
        BY <2>1, HeapAssumption
      <4> QED BY <1>1, <4>1, SlotsAndPadding
    <3>2. 0 \in chunk[c].bitmap \cap SlotsOf(c)
      BY <3>1 DEF FreeBits
    <3>3. Cardinality(chunk[c].bitmap \cap SlotsOf(c)) = 0
      BY <2>1 DEF HeapInv, BitmapMatchesBlocks
    <3> QED BY <2>1, <3>2, <3>3, UsedSlotsFinite, FS_EmptySet
  <2>4. chunk[c].level # l
    BY <2>2, <2>3
  <2> QED BY <1>9, <1>10, <2>1, <2>2, <2>3, <2>4
<1>19. KeepsBlocks
  <2> SUFFICES ASSUME NEW q \in DOMAIN hdr PROVE OldSize(q)' = OldSize(q)
    BY DEF KeepsBlocks
  <2>1. hdr'[q] = hdr[q] /\ q[1] # r
    BY <1>3, <1>5
  <2>2. CASE hdr[q].chunk_ptr = MMAP_MARK
    BY <2>1, <2>2 DEF OldSize
  <2>3. CASE hdr[q].chunk_ptr # MMAP_MARK
    <3>1. hdr[q].chunk_ptr = q[1] /\ q[1] \in Region
      BY <2>3, SlotOfBlock
    <3> QED BY <1>9, <2>1, <2>3, <3>1 DEF OldSize
  <2> QED BY <2>2, <2>3
<1>20. call.size <= OldSize(p)'
  <2>1. r # MMAP_MARK
    BY HeapAssumption
  <2> QED BY <1>2, <1>5, <1>6, <2>1 DEF OldSize
<1>21. HeapInv'
  BY <1>13, <1>14, <1>15, <1>16, <1>17, <1>18 DEF HeapInv
<1> QED BY <1>0, <1>5, <1>11, <1>19, <1>20, <1>21 DEF Allocates

LEMMA MallocLargeInv ==
    ASSUME HeapType, HeapInv, CallInv, NEW r \in Region, MallocLarge(r)
    PROVE  \E p \in Ptr : p = <<r, MMapHeaderSize>> /\ Allocates(p)
<1> DEFINE p == <<r, MMapHeaderSize>>
           total == call.size + 16
<1>1. /\ maplen[r] = 0
      /\ maplen' = [maplen EXCEPT ![r] = LargeTotal(call.size)]
      /\ hdr' = Extend(hdr, p, [chunk_ptr |-> MMAP_MARK, reserved |-> LargeTotal(call.size)])
      /\ UNCHANGED <<chunk_heads, chunk>>
      /\ call.size > SMALL_MAX
  BY DEF MallocLarge, Mmap
<1>2. r \notin Chunks /\ \A q \in DOMAIN hdr : q[1] # r
  BY <1>1, UnmappedRegion
<1>3. call.size \in Nat /\ call.size > 0 /\ LargeTotal(call.size) = total
  <2>0. call.size \in Nat
    <3>1. call.size \in Sizes \cup {0}
      BY DEF CallInv
    <3>2. Sizes \subseteq Nat
      BY HeapAssumption
    <3>3. 0 \in Nat
      OBVIOUS
    <3> QED BY <3>1, <3>2, <3>3, Zenon
  <2>1. call.size \in Nat /\ call.size > 0
    BY <1>1, <2>0, GeometryAssumption
  <2>2. call.size \in Sizes
    BY <2>1 DEF CallInv
  <2>3. total < SIZE_MOD /\ SIZE_MOD \in Nat
    BY <2>2, HeapAssumption DEF MMapHeaderSize
  <2> QED BY <2>1, <2>3 DEF LargeTotal, MMapHeaderSize
<1> HIDE DEF total
<1>4. total \in Nat /\ total > MMapHeaderSize /\ total - MMapHeaderSize = call.size
  BY <1>3 DEF total, MMapHeaderSize
<1>5. /\ DOMAIN hdr' = DOMAIN hdr \cup {p}
      /\ \A q \in DOMAIN hdr : hdr'[q] = hdr[q]
      /\ hdr'[p] = [chunk_ptr |-> MMAP_MARK, reserved |-> total]
      /\ p \notin DOMAIN hdr /\ p \in Ptr
  BY <1>1, <1>2, <1>3 DEF Extend, Ptr, MMapHeaderSize
<1>6. maplen'[r] = total /\ \A c \in Region : c # r => maplen'[c] = maplen[c]
  BY <1>1, <1>3 DEF HeapType
<1>7. /\ Chunks' = Chunks
      /\ \A c \in Region : SlotsOf(c)' = SlotsOf(c)
      /\ \A c \in Chunks : c \in Region /\ c # r
  BY <1>1, <1>2 DEF Chunks, SlotsOf
<1>8. HeapType'
  <2>1. hdr' \in [DOMAIN hdr' -> BlockHeader]
    BY <1>1, <1>3, <1>4, <1>5 DEF HeapType, BlockHeader, Extend
  <2>2. maplen' \in [Region -> Nat]
    BY <1>1, <1>3, <1>4 DEF HeapType
  <2> QED BY <1>1, <1>5, <2>1, <2>2 DEF HeapType
<1>9. ChunksOK'
  BY <1>1, <1>6, <1>7 DEF HeapInv, ChunksOK
<1>10. HeadersOK'
  <2> SUFFICES ASSUME NEW q \in DOMAIN hdr' PROVE IsLarge(q)' \/ IsSlot(q)'
    BY DEF HeadersOK
  <2>1. CASE q = p
    BY <1>2, <1>4, <1>5, <1>6, <1>7, <2>1 DEF IsLarge
  <2>2. CASE q # p
    <3>1. q \in DOMAIN hdr /\ hdr'[q] = hdr[q] /\ q[1] # r /\ q[1] \in Region
      BY <1>2, <1>5, <2>2 DEF HeapType, Ptr
    <3>2. CASE IsLarge(q)
      BY <1>6, <1>7, <3>1, <3>2 DEF IsLarge
    <3>3. CASE IsSlot(q)
      BY <1>1, <1>7, <3>1, <3>3 DEF IsSlot
    <3> QED BY <3>1, <3>2, <3>3 DEF HeapInv, HeadersOK
  <2> QED BY <2>1, <2>2
<1>11. MappingsOK'
  BY <1>5, <1>6, <1>7 DEF HeapInv, MappingsOK
<1>12. BitmapMatchesBlocks'
  <2> SUFFICES ASSUME NEW c \in Chunks
               PROVE  /\ \A j \in SlotsOf(c) :
                           j \in chunk[c].bitmap
                             <=> <<c, UserOffset(chunk[c].level, j)>> \in DOMAIN hdr'
                      /\ chunk[c].used_count = Cardinality(chunk[c].bitmap \cap SlotsOf(c))
    BY <1>1, <1>7 DEF BitmapMatchesBlocks
  <2>1. \A j \in SlotsOf(c) : <<c, UserOffset(chunk[c].level, j)>> # p
    BY <1>7
  <2> QED BY <1>5, <2>1 DEF HeapInv, BitmapMatchesBlocks
<1>13. ListsLinked' /\ EmptyChunkIsAlone'
  BY <1>1, <1>7 DEF HeapInv, ListsLinked, EmptyChunkIsAlone
<1>14. KeepsBlocks
  BY <1>1, <1>5 DEF KeepsBlocks, OldSize
<1>15. call.size <= OldSize(p)'
  BY <1>3, <1>4, <1>5 DEF OldSize
<1>16. HeapInv'
  BY <1>9, <1>10, <1>11, <1>12, <1>13 DEF HeapInv
<1> QED BY <1>5, <1>8, <1>14, <1>15, <1>16 DEF Allocates

-----------------------------------------------------------------------------
(* The callers and the call in progress.                                   *)

LEMMA Types == TypeOK <=> HeapType /\ CallerType
  BY DEF TypeOK, HeapType, CallerType

LEMMA CallTypes ==
    ASSUME CallerType
    PROVE  /\ call.pc \in {"idle", "malloc", "search", "copy"}
           /\ call.size \in Nat /\ call.head \in RegionOrNull
           /\ call.old \in PtrOrNull /\ call.new \in PtrOrNull
           /\ call = [pc |-> call.pc, size |-> call.size, head |-> call.head,
                      old |-> call.old, new |-> call.new]
           /\ Idle \in Call
  BY DEF CallerType, Call, Idle, RegionOrNull, PtrOrNull

LEMMA HeapUnchanged ==
    ASSUME HeapType, HeapInv, UNCHANGED heap
    PROVE  /\ HeapType' /\ HeapInv'
           /\ \A q \in Ptr : OldSize(q)' = OldSize(q)
           /\ Chunks' = Chunks
           /\ \A r \in Region : FreeBits(r)' = FreeBits(r)
<1>1. /\ chunk_heads' = chunk_heads /\ chunk' = chunk /\ hdr' = hdr
      /\ maplen' = maplen
  BY DEF heap
<1>2. /\ Chunks' = Chunks
      /\ \A r \in Region : SlotsOf(r)' = SlotsOf(r)
  BY <1>1 DEF Chunks, SlotsOf
<1>3. HeapType'
  BY <1>1 DEF HeapType
<1>4. ChunksOK' /\ MappingsOK' /\ ListsLinked' /\ EmptyChunkIsAlone'
  BY <1>1, <1>2 DEF HeapInv, ChunksOK, MappingsOK, ListsLinked, EmptyChunkIsAlone
<1>5. HeadersOK'
  BY <1>1, <1>2 DEF HeapInv, HeadersOK, IsLarge, IsSlot, Chunks
<1>6. BitmapMatchesBlocks'
  BY <1>1, <1>2 DEF HeapInv, BitmapMatchesBlocks, Chunks
<1>7. \A q \in Ptr : OldSize(q)' = OldSize(q)
  BY <1>1 DEF OldSize
<1>8. \A r \in Region : FreeBits(r)' = FreeBits(r)
  BY <1>1 DEF FreeBits
<1> QED BY <1>2, <1>3, <1>4, <1>5, <1>6, <1>7, <1>8 DEF HeapInv

(* Owners keep large enough blocks when an allocating step hands one out,  *)
(* to a caller of malloc or to realloc.                                    *)
LEMMA ObtainInv ==
    ASSUME HeapType, CallerType, LiveInv, CallInv,
           call.pc \in {"malloc", "search"},
           NEW p \in Ptr, Allocates(p), Obtain(p)
    PROVE  CallerType' /\ LiveInv' /\ CallInv'
<1>1. \A q \in DOMAIN hdr : OldSize(q)' = OldSize(q)
  BY DEF Allocates, KeepsBlocks
<1>2. /\ DOMAIN hdr' = DOMAIN hdr \cup {p} /\ p \notin DOMAIN hdr
      /\ call.size <= OldSize(p)'
      /\ DOMAIN live \subseteq DOMAIN hdr
      /\ \A q \in DOMAIN live : live[q].size <= OldSize(q)
  BY DEF Allocates, LiveInv
<1>3. CASE call.old = NULL
  <2>1. /\ live' = Extend(live, p, [size |-> call.size, data |-> UNWRITTEN])
        /\ call' = Idle
    BY <1>3 DEF Obtain
  <2>2. /\ DOMAIN live' = DOMAIN live \cup {p}
        /\ \A q \in DOMAIN live : live'[q] = live[q]
        /\ live'[p] = [size |-> call.size, data |-> UNWRITTEN]
    BY <1>2, <2>1 DEF Extend
  <2>3. live' \in [DOMAIN live' -> Block]
    <3>1. [size |-> call.size, data |-> UNWRITTEN] \in Block
      BY CallTypes DEF Block
    <3> QED BY <2>1, <3>1 DEF Extend, CallerType
  <2>4. CallerType'
    BY <2>1, <2>2, <2>3, CallTypes DEF CallerType
  <2>5. LiveInv'
    BY <1>1, <1>2, <2>2 DEF LiveInv
  <2>6. CallInv'
    BY <2>1 DEF CallInv, Idle
  <2> QED BY <2>4, <2>5, <2>6
<1>4. CASE call.old # NULL
  <2>1. live' = live /\ call' = [call EXCEPT !.pc = "copy", !.head = NULL, !.new = p]
    BY <1>4 DEF Obtain
  <2>2. /\ call'.pc = "copy" /\ call'.size = call.size /\ call'.old = call.old
        /\ call'.new = p /\ call'.head = NULL
    BY <2>1, CallTypes
  <2>3. CallerType'
    <3>1. call' = [pc |-> "copy", size |-> call.size, head |-> NULL,
                   old |-> call.old, new |-> p]
      BY <2>1, CallTypes
    <3>2. call' \in Call
      BY <3>1, CallTypes DEF Call, RegionOrNull, PtrOrNull
    <3> QED BY <2>1, <3>2 DEF CallerType
  <2>4. LiveInv'
    BY <1>1, <1>2, <2>1 DEF LiveInv
  <2>5. CallInv'
    <3>1. /\ call.size \in Sizes \cup {0}
          /\ call.old \in DOMAIN live /\ call.size > OldSize(call.old)
      BY <1>4 DEF CallInv
    <3>2. \A q : q = call.old => OldSize(q)' = OldSize(q)
      BY <1>1, <1>2, <3>1
    <3>3. PICK o : o = call.old
      OBVIOUS
    <3>4. /\ call'.old = o /\ o \in DOMAIN live' /\ call'.size > OldSize(o)'
          /\ call'.new = p /\ p \in DOMAIN hdr' \ DOMAIN live'
          /\ call'.size <= OldSize(p)'
      BY <1>2, <2>1, <2>2, <3>1, <3>2, <3>3
    <3> QED BY <1>4, <2>2, <3>1, <3>3, <3>4 DEF CallInv
  <2> QED BY <2>3, <2>4, <2>5
<1> QED BY <1>3, <1>4

-----------------------------------------------------------------------------
(* The inductive invariant.                                                *)

(* A step that touches neither the heap nor the owners' blocks. *)
LEMMA CallStep ==
    ASSUME IInv, UNCHANGED heap, UNCHANGED live, call' \in Call, CallInv'
    PROVE  IInv'
<1>1. HeapType' /\ HeapInv' /\ \A q \in Ptr : OldSize(q)' = OldSize(q)
  BY HeapUnchanged, Types DEF IInv
<1>2. CallerType'
  BY Types DEF IInv, CallerType
<1>3. LiveInv'
  <2>1. DOMAIN live \subseteq Ptr /\ DOMAIN hdr' = DOMAIN hdr
    BY Types DEF IInv, CallerType, heap
  <2> QED BY <1>1, <2>1 DEF IInv, LiveInv
<1>4. TypeOK'
  BY <1>1, <1>2 DEF TypeOK, HeapType, CallerType
<1> QED BY <1>1, <1>3, <1>4 DEF IInv

(* An allocating step. *)
LEMMA ObtainStep ==
    ASSUME IInv, call.pc \in {"malloc", "search"},
           NEW p \in Ptr, Allocates(p), Obtain(p)
    PROVE  IInv'
<1>1. CallerType' /\ LiveInv' /\ CallInv'
  BY ObtainInv, Types DEF IInv
<1>2. HeapType' /\ HeapInv'
  BY DEF Allocates
<1>3. TypeOK'
  BY <1>1, <1>2 DEF TypeOK, HeapType, CallerType
<1> QED BY <1>1, <1>2, <1>3 DEF IInv

LEMMA InitInv == Init => IInv
<1> SUFFICES ASSUME Init PROVE IInv
  OBVIOUS
<1>1. /\ chunk_heads = [l \in Level |-> NULL] /\ chunk = [r \in Region |-> NoChunk]
      /\ hdr = [p \in {} |-> NoChunk] /\ maplen = [r \in Region |-> 0]
      /\ live = [p \in {} |-> NoChunk] /\ call = Idle
  BY DEF Init
<1>2. Chunks = {} /\ DOMAIN hdr = {} /\ DOMAIN live = {}
  BY <1>1 DEF Chunks, NoChunk
<1>3. HeapType
  <2>1. NoChunk \in ChunkHeader
    BY DEF NoChunk, ChunkHeader, RegionOrNull, Level
  <2> QED BY <1>1, <1>2, <2>1 DEF HeapType, RegionOrNull
<1>4. CallerType
  BY <1>1, <1>2 DEF CallerType, Call, Idle, RegionOrNull, PtrOrNull
<1>5. HeapInv
  BY <1>1, <1>2 DEF HeapInv, ChunksOK, HeadersOK, MappingsOK,
                    BitmapMatchesBlocks, ListsLinked, EmptyChunkIsAlone
<1>6. LiveInv /\ CallInv
  BY <1>1, <1>2 DEF LiveInv, CallInv, Idle
<1> QED BY <1>3, <1>4, <1>5, <1>6, Types DEF IInv

LEMMA IdleStep ==
    ASSUME IInv, UNCHANGED heap, UNCHANGED live, call' = Idle
    PROVE  IInv'
<1>1. call' \in Call
  BY CallTypes, Types DEF IInv
<1>2. CallInv'
  BY DEF CallInv, Idle
<1> QED BY <1>1, <1>2, CallStep

LEMMA MallocStep ==
    ASSUME IInv, NEW size \in Sizes, Malloc(size)
    PROVE  IInv'
<1>1. /\ call' = [pc |-> "malloc", size |-> size, head |-> NULL,
                  old |-> NULL, new |-> NULL]
      /\ UNCHANGED heap /\ UNCHANGED live
  BY DEF Malloc, Idle
<1>2. call' \in Call
  BY <1>1, HeapAssumption DEF Call, RegionOrNull, PtrOrNull
<1>3. CallInv'
  BY <1>1 DEF CallInv
<1> QED BY <1>1, <1>2, <1>3, CallStep

LEMMA ReallocMoveStep ==
    ASSUME IInv, NEW p \in DOMAIN live, NEW size \in Sizes, ReallocMove(p, size)
    PROVE  IInv'
<1>1. /\ call' = [pc |-> "malloc", size |-> size, head |-> NULL,
                  old |-> p, new |-> NULL]
      /\ UNCHANGED heap /\ UNCHANGED live /\ size > OldSize(p)
  BY DEF ReallocMove, Idle
<1>2. p \in Ptr
  BY Types DEF IInv, CallerType
<1>3. call' \in Call
  BY <1>1, <1>2, HeapAssumption DEF Call, RegionOrNull, PtrOrNull
<1>4. OldSize(p)' = OldSize(p)
  BY <1>1, <1>2, HeapUnchanged, Types DEF IInv
<1>5. CallInv'
  <2>1. call'.old = p /\ call'.size = size /\ call'.pc = "malloc"
    BY <1>1
  <2> QED BY <1>1, <1>4, <2>1 DEF CallInv
<1> QED BY <1>1, <1>3, <1>5, CallStep

LEMMA MallocSmallStep ==
    ASSUME IInv, MallocSmall
    PROVE  IInv'
<1> DEFINE l == LevelOf(call.size)
<1>0. HeapType /\ CallerType /\ HeapInv /\ CallInv
  BY Types DEF IInv
<1>1. /\ call.size \in 1 .. SMALL_MAX /\ call.size \in Nat
      /\ call' = [call EXCEPT !.pc = "search", !.head = chunk_heads[l]]
      /\ UNCHANGED heap /\ UNCHANGED live
  BY <1>0, CallTypes DEF MallocSmall
<1>2. l \in Level
  BY <1>1, LevelFits, GeometryAssumption
<1>3. /\ call' = [pc |-> "search", size |-> call.size, head |-> chunk_heads[l],
                  old |-> call.old, new |-> call.new]
  BY <1>0, <1>1, CallTypes
<1>4. chunk_heads[l] \in RegionOrNull
  BY <1>0, <1>2 DEF HeapType
<1>5. call' \in Call
  BY <1>0, <1>3, <1>4, CallTypes DEF Call
<1>6. /\ Chunks' = Chunks /\ chunk_heads' = chunk_heads /\ chunk' = chunk
      /\ hdr' = hdr /\ live' = live
  BY <1>0, <1>1, HeapUnchanged DEF heap
<1>7. SearchOK'
  <2>1. chunk_heads[l] # NULL =>
          chunk_heads[l] \in Chunks /\ chunk[chunk_heads[l]].level = l
    BY <1>0, <1>2 DEF HeapInv, ListsLinked
  <2> QED BY <1>1, <1>3, <1>6, <2>1 DEF SearchOK
<1>8. CallInv'
  <2>1. call'.old # NULL =>
          call'.old \in DOMAIN live' /\ call'.size > OldSize(call.old)
    BY <1>0, <1>3, <1>6 DEF CallInv
  <2>2. \A q : OldSize(q)' = OldSize(q)
    BY <1>6 DEF OldSize
  <2>3. PICK o : o = call.old
    OBVIOUS
  <2>4. call'.old = o /\ OldSize(o)' = OldSize(call.old)
    BY <1>3, <2>2, <2>3
  <2>5. call'.size \in Sizes \cup {0} /\ call'.pc = "search"
    BY <1>0, <1>3 DEF CallInv
  <2> QED BY <1>7, <2>1, <2>4, <2>5 DEF CallInv
<1> QED BY <1>1, <1>5, <1>8, CallStep

LEMMA NextChunkStep ==
    ASSUME IInv, NextChunk
    PROVE  IInv'
<1> DEFINE l == LevelOf(call.size)
           head == call.head
<1>0. HeapType /\ CallerType /\ HeapInv /\ CallInv
  BY Types DEF IInv
<1>1. /\ call.pc = "search" /\ head # NULL /\ FreeBits(head) = {}
      /\ call' = [call EXCEPT !.head = chunk[head].next]
      /\ UNCHANGED heap /\ UNCHANGED live
  BY DEF NextChunk
<1>2. /\ call.size \in 1 .. SMALL_MAX /\ call.size \in Nat
      /\ head \in Chunks /\ head \in Region /\ chunk[head].level = l
      /\ head # chunk_heads[l] =>
           chunk_heads[l] # NULL /\ FreeBits(chunk_heads[l]) = {}
  BY <1>0, <1>1, CallTypes DEF CallInv, SearchOK, Chunks
<1>3. call' = [pc |-> "search", size |-> call.size, head |-> chunk[head].next,
               old |-> call.old, new |-> call.new]
  BY <1>0, <1>1, CallTypes
<1>4. chunk[head].next \in RegionOrNull
  BY <1>0, <1>2, HeaderType
<1>5. call' \in Call
  BY <1>0, <1>3, <1>4, CallTypes DEF Call
<1>6. /\ Chunks' = Chunks /\ chunk_heads' = chunk_heads /\ chunk' = chunk
      /\ hdr' = hdr /\ live' = live
      /\ \A q : OldSize(q)' = OldSize(q)
  BY <1>0, <1>1, HeapUnchanged DEF heap, OldSize
<1>7. SearchOK'
  <2>1. chunk[head].next # NULL =>
          chunk[head].next \in Chunks /\ chunk[chunk[head].next].level = l
    BY <1>0, <1>2 DEF HeapInv, ListsLinked
  <2>2. chunk_heads[l] # NULL /\ FreeBits(chunk_heads[l]) = {}
    BY <1>1, <1>2
  <2>3. FreeBits(chunk_heads[l])' = FreeBits(chunk_heads[l])'
    OBVIOUS
  <2>4. PICK f : f = chunk_heads[l]
    OBVIOUS
  <2>5. FreeBits(f)' = {}
    BY <1>6, <2>2, <2>4 DEF FreeBits
  <2>6. call'.size = call.size /\ call'.head = chunk[head].next
    BY <1>3
  <2> QED BY <1>2, <1>6, <2>1, <2>2, <2>4, <2>5, <2>6 DEF SearchOK
<1>8. CallInv'
  <2>1. call'.old # NULL =>
          call'.old \in DOMAIN live' /\ call'.size > OldSize(call.old)
    BY <1>0, <1>3, <1>6 DEF CallInv
  <2>2. PICK o : o = call.old
    OBVIOUS
  <2>3. call'.old = o /\ OldSize(o)' = OldSize(call.old)
    BY <1>3, <1>6, <2>2
  <2>4. call'.size \in Sizes \cup {0} /\ call'.pc = "search"
    BY <1>0, <1>3 DEF CallInv
  <2> QED BY <1>7, <2>1, <2>3, <2>4 DEF CallInv
<1> QED BY <1>1, <1>5, <1>8, CallStep

(* The owner lets a block go. *)
LEMMA FreeStep ==
    ASSUME IInv, NEW p \in DOMAIN live, Free(p)
    PROVE  IInv'
<1>0. HeapType /\ CallerType /\ HeapInv /\ CallInv /\ LiveInv
  BY Types DEF IInv
<1>1. /\ call.pc = "idle" /\ call.old = NULL /\ Release(p)
      /\ live' = Without(live, p) /\ call' = call
  BY <1>0 DEF Free, CallInv
<1>2. p \in DOMAIN hdr
  BY <1>0 DEF LiveInv
<1>3. /\ HeapType' /\ HeapInv' /\ KeepsBlocks
      /\ DOMAIN hdr' = DOMAIN hdr \ {p}
  BY <1>0, <1>1, <1>2, ReleaseInv
<1>4. DOMAIN live' = DOMAIN live \ {p} /\ \A q \in DOMAIN live' : live'[q] = live[q]
  BY <1>1 DEF Without
<1>5. CallerType'
  BY <1>0, <1>1, <1>4 DEF CallerType, Without
<1>6. LiveInv'
  BY <1>0, <1>3, <1>4 DEF LiveInv, KeepsBlocks
<1>7. CallInv'
  BY <1>0, <1>1 DEF CallInv
<1>8. TypeOK'
  BY <1>3, <1>5 DEF TypeOK, HeapType, CallerType
<1> QED BY <1>3, <1>6, <1>7, <1>8 DEF IInv

(* The second half of a realloc that moves. *)
LEMMA CopyAndFreeStep ==
    ASSUME IInv, CopyAndFree
    PROVE  IInv'
<1> DEFINE blk == [size |-> call.size, data |-> Copied(call.old)]
<1>0. HeapType /\ CallerType /\ HeapInv /\ CallInv /\ LiveInv
  BY Types DEF IInv
<1>1. /\ call.pc = "copy" /\ Release(call.old) /\ call' = Idle
      /\ live' = Extend(Without(live, call.old), call.new, blk)
  BY DEF CopyAndFree
<1>2. PICK o, n : o = call.old /\ n = call.new
  OBVIOUS
<1>3. /\ o \in DOMAIN live /\ o \in DOMAIN hdr
      /\ n \in DOMAIN hdr /\ n \notin DOMAIN live /\ n # o
      /\ call.size <= OldSize(n)
  BY <1>0, <1>1, <1>2 DEF CallInv, LiveInv
<1>4. /\ HeapType' /\ HeapInv' /\ KeepsBlocks
      /\ DOMAIN hdr' = DOMAIN hdr \ {o}
  BY <1>0, <1>1, <1>2, <1>3, ReleaseInv
<1>5. /\ DOMAIN live' = (DOMAIN live \ {o}) \cup {n}
      /\ \A q \in DOMAIN live \ {o} : live'[q] = live[q]
      /\ live'[n] = blk
  BY <1>1, <1>2, <1>3 DEF Extend, Without
<1>6. blk \in Block
  <2>1. Copied(call.old) \in Data \cup {UNWRITTEN}
    BY <1>0, <1>2, <1>3 DEF Copied, CallerType, Block
  <2> QED BY <1>0, <2>1, CallTypes DEF Block
<1>7. CallerType'
  <2>1. DOMAIN live' \subseteq Ptr
    BY <1>0, <1>3, <1>5 DEF CallerType, HeapType
  <2>2. \A q \in DOMAIN live' : live'[q] \in Block
    <3> HIDE DEF blk
    <3> QED BY <1>0, <1>5, <1>6 DEF CallerType
  <2>3. live' = [q \in DOMAIN live' |-> live'[q]]
    BY <1>1 DEF Extend
  <2>4. live' \in [DOMAIN live' -> Block]
    BY <2>2, <2>3
  <2> QED BY <1>0, <1>1, <2>1, <2>4, CallTypes DEF CallerType
<1>8. LiveInv'
  <2>1. \A q \in DOMAIN live' : q \in DOMAIN hdr /\ q \in DOMAIN hdr'
    BY <1>0, <1>3, <1>4, <1>5 DEF LiveInv
  <2>2. \A q \in DOMAIN live' : OldSize(q)' = OldSize(q)
    BY <1>4, <2>1 DEF KeepsBlocks
  <2>3. \A q \in DOMAIN live' : live'[q].size <= OldSize(q)
    BY <1>0, <1>3, <1>5 DEF LiveInv
  <2> QED BY <2>1, <2>2, <2>3 DEF LiveInv
<1>9. CallInv'
  BY <1>1 DEF CallInv, Idle
<1>10. TypeOK'
  BY <1>4, <1>7 DEF TypeOK, HeapType, CallerType
<1> QED BY <1>4, <1>8, <1>9, <1>10 DEF IInv

(* The owner writes to a block, or has it grow or shrink where it is. *)
LEMMA InPlaceStep ==
    ASSUME IInv, call.pc = "idle", NEW p \in DOMAIN live, NEW b \in Block,
           b.size <= OldSize(p), live' = [live EXCEPT ![p] = b],
           UNCHANGED heap, UNCHANGED call
    PROVE  IInv'
<1>0. HeapType /\ CallerType /\ HeapInv /\ CallInv /\ LiveInv
  BY Types DEF IInv
<1>1. /\ HeapType' /\ HeapInv' /\ \A q \in Ptr : OldSize(q)' = OldSize(q)
      /\ hdr' = hdr
  BY <1>0, HeapUnchanged DEF heap
<1>2. CallerType'
  BY <1>0 DEF CallerType
<1>3. LiveInv'
  BY <1>0, <1>1 DEF LiveInv, CallerType
<1>4. CallInv'
  BY <1>0 DEF CallInv
<1>5. TypeOK'
  BY <1>1, <1>2 DEF TypeOK, HeapType, CallerType
<1> QED BY <1>1, <1>3, <1>4, <1>5 DEF IInv

LEMMA ReallocInPlaceStep ==
    ASSUME IInv, NEW p \in DOMAIN live, NEW size \in Sizes, ReallocInPlace(p, size)
    PROVE  IInv'
<1> DEFINE b == [live[p] EXCEPT !.size = size]
<1>1. live \in [DOMAIN live -> Block] /\ size \in Nat
  BY Types, HeapAssumption DEF IInv, CallerType
<1>2. b \in Block /\ b.size = size
  BY <1>1 DEF Block
<1>3. /\ live' = [live EXCEPT ![p] = b] /\ size <= OldSize(p) /\ call.pc = "idle"
      /\ UNCHANGED heap /\ UNCHANGED call
  BY DEF ReallocInPlace
<1> HIDE DEF b
<1> QED BY <1>2, <1>3, InPlaceStep

LEMMA StoreStep ==
    ASSUME IInv, NEW p \in DOMAIN live, NEW d \in Data, Store(p, d)
    PROVE  IInv'
<1> DEFINE b == [live[p] EXCEPT !.data = d]
<1>1. live \in [DOMAIN live -> Block] /\ live[p].size <= OldSize(p)
  BY Types DEF IInv, CallerType, LiveInv
<1>2. b \in Block /\ b.size = live[p].size
  BY <1>1 DEF Block
<1>3. /\ live' = [live EXCEPT ![p] = b] /\ call.pc = "idle"
      /\ UNCHANGED heap /\ UNCHANGED call
  BY DEF Store
<1> HIDE DEF b
<1> QED BY <1>1, <1>2, <1>3, InPlaceStep

LEMMA NextInv == IInv /\ [Next]_vars => IInv'
<1> SUFFICES ASSUME IInv, [Next]_vars PROVE IInv'
  OBVIOUS
<1>0. HeapType /\ HeapInv /\ CallInv
  BY Types DEF IInv
<1>1. CASE MallocZero \/ MallocLargeFails \/ NewChunkFails
  <2>1. UNCHANGED heap /\ UNCHANGED live /\ call' = Idle
    BY <1>1 DEF MallocZero, MallocLargeFails, NewChunkFails, ReturnNull
  <2> QED BY <2>1, IdleStep
<1>2. ASSUME NEW r \in Region, MallocLarge(r) PROVE IInv'
  <2>1. call.pc \in {"malloc", "search"} /\ Obtain(<<r, MMapHeaderSize>>)
    BY <1>2 DEF MallocLarge
  <2>2. PICK p \in Ptr : p = <<r, MMapHeaderSize>> /\ Allocates(p)
    BY <1>0, <1>2, MallocLargeInv
  <2> QED BY <2>1, <2>2, ObtainStep
<1>3. CASE MallocSmall
  BY <1>3, MallocSmallStep
<1>4. ASSUME NEW i \in 0 .. (BITMAP_BITS - 1), TakeSlot(i) PROVE IInv'
  <2>1. /\ call.pc \in {"malloc", "search"}
        /\ Obtain(<<call.head, UserOffset(chunk[call.head].level, i)>>)
    BY <1>4 DEF TakeSlot
  <2>2. PICK p \in Ptr :
           /\ p = <<call.head, UserOffset(chunk[call.head].level, i)>>
           /\ Allocates(p)
    BY <1>0, <1>4, TakeSlotInv
  <2> QED BY <2>1, <2>2, ObtainStep
<1>5. CASE NextChunk
  BY <1>5, NextChunkStep
<1>6. ASSUME NEW r \in Region, NewChunk(r) PROVE IInv'
  <2>1. /\ call.pc \in {"malloc", "search"}
        /\ Obtain(<<r, UserOffset(LevelOf(call.size), 0)>>)
    BY <1>6 DEF NewChunk
  <2>2. PICK p \in Ptr :
           p = <<r, UserOffset(LevelOf(call.size), 0)>> /\ Allocates(p)
    BY <1>0, <1>6, NewChunkInv
  <2> QED BY <2>1, <2>2, ObtainStep
<1>7. CASE CopyAndFree
  BY <1>7, CopyAndFreeStep
<1>8. ASSUME NEW size \in Sizes, Malloc(size) PROVE IInv'
  BY <1>8, MallocStep
<1>9. ASSUME NEW p \in DOMAIN live, Free(p) PROVE IInv'
  BY <1>9, FreeStep
<1>10. ASSUME NEW p \in DOMAIN live, NEW size \in Sizes, ReallocInPlace(p, size)
       PROVE  IInv'
  BY <1>10, ReallocInPlaceStep
<1>11. ASSUME NEW p \in DOMAIN live, NEW size \in Sizes, ReallocMove(p, size)
       PROVE  IInv'
  BY <1>11, ReallocMoveStep
<1>12. ASSUME NEW p \in DOMAIN live, NEW d \in Data, Store(p, d) PROVE IInv'
  BY <1>12, StoreStep
<1>13. CASE UNCHANGED vars
  <2>1. UNCHANGED heap /\ UNCHANGED live /\ call' = call
    BY <1>13 DEF vars, heap
  <2>2. CallInv'
    <3>1. Chunks' = Chunks /\ chunk' = chunk /\ hdr' = hdr /\ chunk_heads' = chunk_heads
      BY <2>1 DEF heap, Chunks
    <3> QED BY <1>0, <2>1, <3>1 DEF CallInv, SearchOK, OldSize, FreeBits
  <2>3. call' \in Call
    BY <2>1, Types DEF IInv, CallerType
  <2> QED BY <2>1, <2>2, <2>3, CallStep
<1> QED
  BY <1>1, <1>2, <1>3, <1>4, <1>5, <1>6, <1>7, <1>8, <1>9, <1>10, <1>11,
     <1>12, <1>13 DEF Next, Internal

(* The invariant holds of every behaviour. *)
THEOREM Invariance == Spec => []IInv
  BY InitInv, NextInv, PTL DEF Spec

(* Every variable of the heap keeps its type. *)
THEOREM TypeCorrect == Spec => []TypeOK
<1>1. IInv => TypeOK
  BY DEF IInv
<1> QED BY <1>1, Invariance, PTL

-----------------------------------------------------------------------------
(* What the invariant means for the owners of the blocks.                  *)

(* Where a block's bytes end, and that a large block has a mapping to      *)
(* itself.                                                                 *)
LEMMA BlockPlace ==
    ASSUME HeapType, HeapInv, NEW p \in DOMAIN hdr
    PROVE  /\ p[1] \in Region /\ p[2] \in Nat /\ OldSize(p) \in Nat
           /\ p[2] + OldSize(p) <= maplen[p[1]]
           /\ hdr[p].chunk_ptr = MMAP_MARK =>
                p[1] \notin Chunks /\ p = <<p[1], MMapHeaderSize>>
           /\ hdr[p].chunk_ptr # MMAP_MARK =>
                /\ p[1] \in Chunks /\ chunk[p[1]].level \in Level
                /\ OldSize(p) = Capacity(chunk[p[1]].level)
                /\ ClearedBit(p) \in Nat
                /\ p = <<p[1], UserOffset(chunk[p[1]].level, ClearedBit(p))>>
                /\ p[2] >= 112
<1>1. p[1] \in Region /\ p[2] \in Nat
  BY DEF HeapType, Ptr
<1>2. CASE hdr[p].chunk_ptr = MMAP_MARK
  <2>1. IsLarge(p)
    BY <1>1, <1>2, HeapAssumption DEF HeapInv, HeadersOK, IsSlot
  <2>2. hdr[p].reserved \in Nat /\ p[2] = MMapHeaderSize
    BY <2>1 DEF HeapType, BlockHeader, IsLarge
  <2> QED BY <1>1, <1>2, <2>1, <2>2 DEF IsLarge, OldSize, MMapHeaderSize
<1>3. CASE hdr[p].chunk_ptr # MMAP_MARK
  <2> DEFINE l == chunk[p[1]].level
             i == ClearedBit(p)
  <2>1. /\ hdr[p].chunk_ptr = p[1] /\ p[1] \in Chunks
        /\ i \in SlotsOf(p[1]) /\ i \in Nat /\ p = <<p[1], UserOffset(l, i)>>
    BY <1>3, SlotOfBlock
  <2>2. /\ l \in Level /\ i \in 0 .. (TotalSlots(l) - 1)
        /\ maplen[p[1]] = PAGE_SIZE * PageCount(l)
    BY <2>1, SlotsAndPadding DEF HeapInv, ChunksOK
  <2>3. p[2] = UserOffset(l, i) /\ OldSize(p) = Capacity(l)
    BY <1>3, <2>1 DEF OldSize
  <2>4. UserOffset(l, i) + Capacity(l) <= PAGE_SIZE * PageCount(l)
    BY <2>2, SlotInside
  <2>5. Capacity(l) \in Nat /\ UserOffset(l, i) >= 112
    BY <2>1, <2>2, LevelSizes, SlotPlace
  <2> HIDE DEF l, i
  <2>6. p[2] + OldSize(p) <= maplen[p[1]] /\ OldSize(p) \in Nat /\ p[2] >= 112
    BY <2>2, <2>3, <2>4, <2>5
  <2> QED BY <1>1, <1>3, <2>1, <2>2, <2>3, <2>6 DEF l, i
<1> QED BY <1>2, <1>3

LEMMA BlocksApart ==
    ASSUME HeapType, HeapInv, NEW p \in DOMAIN hdr, NEW q \in DOMAIN hdr,
           p # q, p[1] = q[1]
    PROVE  \/ p[2] + OldSize(p) <= q[2] - SlotHeaderSize
           \/ q[2] + OldSize(q) <= p[2] - SlotHeaderSize
<1>1. hdr[p].chunk_ptr # MMAP_MARK /\ hdr[q].chunk_ptr # MMAP_MARK
  BY BlockPlace
<1> DEFINE l == chunk[p[1]].level
           i == ClearedBit(p)
           j == ClearedBit(q)
<1>2. /\ l \in Level /\ i \in Nat /\ j \in Nat
      /\ p = <<p[1], UserOffset(l, i)>> /\ q = <<p[1], UserOffset(l, j)>>
      /\ OldSize(p) = Capacity(l) /\ OldSize(q) = Capacity(l)
  BY <1>1, BlockPlace
<1>3. /\ p[2] = UserOffset(l, i) /\ q[2] = UserOffset(l, j) /\ i # j
      /\ UserOffset(l, i) \in Nat /\ UserOffset(l, j) \in Nat
      /\ Capacity(l) \in Nat
  BY <1>2, SlotPlace, LevelSizes
<1> HIDE DEF l, i, j
<1>4. CASE i < j
  BY <1>2, <1>3, <1>4, SlotsApart
<1>5. CASE j < i
  BY <1>2, <1>3, <1>5, SlotsApart
<1> QED BY <1>2, <1>3, <1>4, <1>5

LEMMA DisjointFromInv == IInv => BlocksDisjoint
<1> SUFFICES ASSUME IInv, NEW p \in DOMAIN live, NEW q \in DOMAIN live,
                    p # q, p[1] = q[1]
             PROVE  \/ p[2] + live[p].size <= q[2] - SlotHeaderSize
                    \/ q[2] + live[q].size <= p[2] - SlotHeaderSize
  BY DEF BlocksDisjoint
<1>0. HeapType /\ CallerType /\ HeapInv /\ LiveInv
  BY Types DEF IInv
<1>1. /\ p \in DOMAIN hdr /\ q \in DOMAIN hdr
      /\ live[p].size <= OldSize(p) /\ live[q].size <= OldSize(q)
      /\ live[p].size \in Nat /\ live[q].size \in Nat
  BY <1>0 DEF LiveInv, CallerType, Block
<1>2. /\ p[2] \in Nat /\ q[2] \in Nat
      /\ OldSize(p) \in Nat /\ OldSize(q) \in Nat
  BY <1>0, <1>1, BlockPlace
<1>3. \/ p[2] + OldSize(p) <= q[2] - SlotHeaderSize
      \/ q[2] + OldSize(q) <= p[2] - SlotHeaderSize
  BY <1>0, <1>1, BlocksApart
<1> QED BY <1>1, <1>2, <1>3 DEF SlotHeaderSize

(* No two owners ever share a byte, nor does an owner reach the header in  *)
(* front of another's block.                                               *)
THEOREM Disjointness == Spec => []BlocksDisjoint
  BY DisjointFromInv, Invariance, PTL

LEMMA MappedFromInv == IInv => BlocksMapped
<1> SUFFICES ASSUME IInv, NEW p \in DOMAIN live
             PROVE  /\ p[2] + live[p].size <= maplen[p[1]]
                    /\ p[1] \in Chunks => p[2] >= HeaderSize + SlotHeaderSize
  BY DEF BlocksMapped
<1>0. HeapType /\ CallerType /\ HeapInv /\ LiveInv
  BY Types DEF IInv
<1>1. /\ p \in DOMAIN hdr /\ live[p].size <= OldSize(p) /\ live[p].size \in Nat
  BY <1>0 DEF LiveInv, CallerType, Block
<1>2. /\ p[2] \in Nat /\ OldSize(p) \in Nat /\ p[1] \in Region
      /\ p[2] + OldSize(p) <= maplen[p[1]]
      /\ p[1] \in Chunks => p[2] >= 112
  BY <1>0, <1>1, BlockPlace
<1>3. maplen[p[1]] \in Nat
  BY <1>0, <1>2 DEF HeapType
<1> QED BY <1>1, <1>2, <1>3 DEF HeaderSize, SlotHeaderSize

(* Every byte of every block stays mapped while somebody owns it. *)
THEOREM Mapped == Spec => []BlocksMapped
  BY MappedFromInv, Invariance, PTL

(* The bitmaps and the counts agree with the blocks handed out. *)
THEOREM BitmapsMatch == Spec => []BitmapMatchesBlocks
<1>1. IInv => BitmapMatchesBlocks
  BY DEF IInv, HeapInv
<1> QED BY <1>1, Invariance, PTL

(* The chunks of a level stay linked in both directions. *)
THEOREM Linked == Spec => []ListsLinked
<1>1. IInv => ListsLinked
  BY DEF IInv, HeapInv
<1> QED BY <1>1, Invariance, PTL

(* An empty chunk is alone in its list: free unmaps every other one. *)
THEOREM EmptyAlone == Spec => []EmptyChunkIsAlone
<1>1. IInv => EmptyChunkIsAlone
  BY DEF IInv, HeapInv
<1> QED BY <1>1, Invariance, PTL

(* The heap is well formed, whatever malloc, free and realloc were called  *)
(* for and wherever mmap failed.                                           *)
THEOREM WellFormedness == Spec => []WellFormed
<1>1. BlocksDisjoint /\ BlocksMapped /\ BitmapMatchesBlocks /\ ListsLinked /\ EmptyChunkIsAlone => WellFormed
  BY DEF WellFormed
<1> QED BY <1>1, Disjointness, Mapped, BitmapsMatch, Linked, EmptyAlone, PTL

-----------------------------------------------------------------------------
(* Nothing leaks: every chunk stays on the list of its level, through      *)
(* insertion at the head and unlinking anywhere.                           *)

AllReached == \A r \in Chunks : r \in Reached(chunk[r].level)

(* What may change besides the lists. *)
LEMMA SameLists ==
    ASSUME AllReached, chunk_heads' = chunk_heads, Chunks' = Chunks,
           \A c \in Region : chunk'[c].next = chunk[c].next /\ chunk'[c].level = chunk[c].level
    PROVE  AllReached'
<1>1. \A r \in Chunks : r \in Region
  BY DEF Chunks
<1>2. \A S \in SUBSET Region : \A k : Follows(S, k)' => Follows(S, k)
  BY DEF Follows
<1> QED BY <1>1, <1>2 DEF AllReached, Reached

(* A set with the new head holds the old one, for it comes next.           *)
LEMMA NewChunkReached ==
    ASSUME HeapType, HeapInv, CallInv, AllReached, NEW r \in Region, NewChunk(r)
    PROVE  AllReached'
<1> DEFINE l == LevelOf(call.size)
           first == chunk_heads[l]
<1>1. call.size \in Nat /\ call.size <= SMALL_MAX
  BY GeometryAssumption DEF NewChunk, CallInv, SearchOK
<1>2. l \in Level /\ TotalSlots(l) \in Nat /\ TotalSlots(l) > 0
  BY <1>1, LevelFits, SlotsFit
<1>3. r \notin Chunks
  BY UnmappedRegion DEF NewChunk, Mmap
<1>4. /\ chunk' = [c \in Region |->
                     IF c = r
                     THEN [FreshChunk(l) EXCEPT
                             !.next = first, !.bitmap = @ \cup {0}, !.used_count = 1]
                     ELSE IF c = first THEN [chunk[c] EXCEPT !.prev = r]
                     ELSE chunk[c]]
      /\ chunk_heads' = [chunk_heads EXCEPT ![l] = r]
  BY DEF NewChunk
<1> HIDE DEF l
<1>5. chunk'[r].next = first /\ chunk'[r].level = l /\ chunk'[r].total_slots = TotalSlots(l)
  BY <1>4 DEF FreshChunk
<1>6. \A c \in Region : c # r =>
        /\ chunk'[c].next = chunk[c].next /\ chunk'[c].level = chunk[c].level
        /\ chunk'[c].total_slots = chunk[c].total_slots
  BY <1>4, HeaderType DEF ChunkHeader
<1>7. chunk_heads'[l] = r /\ \A k \in Level : k # l => chunk_heads'[k] = chunk_heads[k]
  BY <1>2, <1>4 DEF HeapType
<1>8. Chunks' = Chunks \cup {r} /\ Chunks \subseteq Region
  BY <1>2, <1>5, <1>6 DEF Chunks
<1>9. /\ \A k \in Level : chunk_heads[k] # NULL => chunk_heads[k] \in Chunks
      /\ \A c \in Chunks : chunk[c].next # NULL => chunk[c].next \in Chunks
  BY DEF HeapInv, ListsLinked
<1>10. ASSUME NEW q \in Chunks', NEW S \in SUBSET Region, Follows(S, chunk[q].level)'
       PROVE  q \in S
  <2>1. r # NULL
    BY HeapAssumption
  <2>2. CASE q = r
    BY <1>5, <1>7, <1>10, <2>1, <2>2 DEF Follows
  <2>3. CASE q # r
    <3> DEFINE k == chunk[q].level
               T == S \cap Chunks
    <3>1. q \in Chunks /\ q \in Region /\ k \in Level /\ chunk'[q].level = k
      BY <1>6, <1>8, <2>3, HeaderType
    <3>2. chunk_heads[k] # NULL => chunk_heads[k] \in S
      <4>1. CASE k = l
        BY <1>5, <1>7, <1>10, <2>1, <3>1, <4>1 DEF Follows
      <4>2. CASE k # l
        BY <1>7, <1>10, <3>1, <4>2 DEF Follows
      <4> QED BY <4>1, <4>2
    <3>3. \A c \in T : chunk[c].next # NULL => chunk[c].next \in T
      BY <1>3, <1>6, <1>8, <1>9, <1>10 DEF Follows
    <3>4. Follows(T, k) /\ T \in SUBSET Region
      BY <1>8, <1>9, <3>1, <3>2, <3>3 DEF Follows
    <3>5. q \in T
      BY <3>1, <3>4 DEF AllReached, Reached
    <3> QED BY <3>5
  <2> QED BY <2>2, <2>3
<1> QED BY <1>8, <1>10 DEF AllReached, Reached

(* A set that follows the links around the chunk taken out follows those   *)
(* through it, with the chunk added where they lead to it.                 *)
LEMMA ReleaseChunkReached ==
    ASSUME HeapType, HeapInv, AllReached, NEW p \in DOMAIN hdr, ReleaseChunk(p)
    PROVE  AllReached'
<1> DEFINE u == p[1]
           l == chunk[u].level
           pv == chunk[u].prev
           nx == chunk[u].next
<1>1. hdr[p].chunk_ptr = u /\ u \in Chunks /\ u \in Region
  BY SlotOfBlock DEF ReleaseChunk
<1>2. /\ chunk' = [c \in Region |-> IF c = u THEN NoChunk ELSE Unlinked(c, u)]
      /\ chunk_heads' = [chunk_heads EXCEPT ![l] = IF @ = u THEN nx ELSE @]
  BY <1>1 DEF ReleaseChunk
<1>3. \A c \in Region : c # u =>
        /\ chunk'[c].next = IF c = pv THEN nx ELSE chunk[c].next
        /\ chunk'[c].level = chunk[c].level
        /\ chunk'[c].total_slots = chunk[c].total_slots
  BY <1>2, HeaderType DEF Unlinked, ChunkHeader
<1>4. chunk'[u].total_slots = 0 /\ l \in Level
  BY <1>1, <1>2, HeaderType DEF NoChunk
<1>5. /\ chunk_heads'[l] = IF chunk_heads[l] = u THEN nx ELSE chunk_heads[l]
      /\ \A k \in Level : k # l => chunk_heads'[k] = chunk_heads[k]
  BY <1>2, <1>4 DEF HeapType
<1>6. Chunks' = Chunks \ {u} /\ Chunks \subseteq Region
  BY <1>1, <1>3, <1>4 DEF Chunks
<1>7. /\ \A k \in Level : chunk_heads[k] # NULL =>
           /\ chunk_heads[k] \in Chunks /\ chunk[chunk_heads[k]].level = k
           /\ chunk[chunk_heads[k]].prev = NULL
      /\ \A c \in Chunks : chunk[c].next # NULL =>
           chunk[c].next \in Chunks /\ chunk[chunk[c].next].prev = c
      /\ pv = NULL => chunk_heads[l] = u
      /\ pv # NULL => pv \in Chunks /\ chunk[pv].next = u
  BY <1>1 DEF HeapInv, ListsLinked
<1>8. NULL \notin Region
  BY HeapAssumption
<1> HIDE DEF u, l, pv, nx
<1>9. ASSUME NEW q \in Chunks', NEW S \in SUBSET Region, Follows(S, chunk[q].level)'
      PROVE  q \in S
  <2> DEFINE k == chunk[q].level
  <2>1. q \in Chunks /\ q # u /\ k \in Level /\ chunk'[q].level = k
    BY <1>3, <1>6, HeaderType
  <2>2. /\ chunk_heads'[k] # NULL => chunk_heads'[k] \in S
        /\ \A c \in S : chunk'[c].next # NULL => chunk'[c].next \in S
    BY <1>9, <2>1 DEF Follows
  <2> HIDE DEF k
  <2>3. CASE pv \in S \/ (pv = NULL /\ k = l)
    <3> DEFINE T == (S \cap Chunks) \cup {u}
    <3>1. nx # NULL => nx \in S /\ nx \in Chunks
      <4>1. CASE pv \in S
        <5>1. pv \in Chunks /\ chunk[pv].next = u
          BY <1>7, <1>8, <4>1
        <5>2. nx # NULL => nx \in Chunks /\ chunk[nx].prev = u
          BY <1>1, <1>7 DEF nx, u
        <5>3. CASE pv = u
          <6>1. nx = u
            BY <5>1, <5>3 DEF nx, u
          <6>2. chunk[u].prev = u
            BY <5>3 DEF pv, u
          <6> QED BY <4>1, <5>2, <5>3, <6>1
        <5>4. CASE pv # u
          <6>1. chunk'[pv].next = nx
            BY <1>3, <1>6, <5>1, <5>4
          <6> QED BY <2>2, <4>1, <5>2, <6>1
        <5> QED BY <5>3, <5>4
      <4>2. CASE pv = NULL /\ k = l
        BY <1>1, <1>5, <1>7, <2>2, <4>2 DEF nx, u
      <4> QED BY <2>3, <4>1, <4>2
    <3>2. chunk_heads[k] # NULL => chunk_heads[k] \in T
      BY <1>5, <1>7, <2>1, <2>2
    <3>3. \A c \in T : chunk[c].next # NULL => chunk[c].next \in T
      <4> SUFFICES ASSUME NEW c \in T, chunk[c].next # NULL PROVE chunk[c].next \in T
        OBVIOUS
      <4>1. CASE c = u
        BY <3>1, <4>1 DEF nx, u
      <4>2. CASE c # u /\ c = pv
        BY <1>7, <1>8, <1>6, <4>2
      <4>3. CASE c # u /\ c # pv
        BY <1>3, <1>6, <1>7, <2>2, <4>3
      <4> QED BY <4>1, <4>2, <4>3
    <3>4. Follows(T, k) /\ T \in SUBSET Region
      BY <1>1, <1>6, <3>2, <3>3 DEF Follows
    <3>5. q \in T
      BY <2>1, <3>4 DEF AllReached, Reached, k
    <3> QED BY <2>1, <3>5
  <2>4. CASE ~ (pv \in S \/ (pv = NULL /\ k = l))
    <3> DEFINE T == (S \cap Chunks) \ {u}
    <3>1. chunk_heads[k] # NULL => chunk_heads[k] \in T
      <4>1. chunk_heads[k] # u
        <5>1. CASE k = l
          BY <1>1, <1>7, <1>8, <2>1, <2>4, <5>1 DEF pv, u
        <5>2. CASE k # l
          BY <1>1, <1>7, <1>8, <2>1, <5>2 DEF l, u
        <5> QED BY <5>1, <5>2
      <4> QED BY <1>5, <1>7, <2>1, <2>2, <4>1
    <3>2. \A c \in T : chunk[c].next # NULL => chunk[c].next \in T
      <4> SUFFICES ASSUME NEW c \in T, chunk[c].next # NULL PROVE chunk[c].next \in T
        OBVIOUS
      <4>1. c # u /\ c # pv
        BY <2>4
      <4>2. chunk'[c].next = chunk[c].next /\ chunk[c].next \in S
        BY <1>3, <1>6, <2>2, <4>1
      <4>3. chunk[c].next \in Chunks /\ chunk[chunk[c].next].prev = c
        BY <1>7
      <4>4. chunk[c].next # u
        BY <4>1, <4>3 DEF pv, u
      <4> QED BY <4>2, <4>3, <4>4
    <3>3. Follows(T, k) /\ T \in SUBSET Region
      BY <1>6, <3>1, <3>2 DEF Follows
    <3>4. q \in T
      BY <2>1, <3>3 DEF AllReached, Reached, k
    <3> QED BY <3>4
  <2> QED BY <2>3, <2>4
<1> QED BY <1>6, <1>9 DEF AllReached, Reached

LEMMA ReleaseReached ==
    ASSUME HeapType, HeapInv, AllReached, NEW p \in DOMAIN hdr, Release(p)
    PROVE  AllReached'
<1>1. CASE ReleaseLarge(p)
  BY <1>1, SameLists DEF ReleaseLarge, Chunks
<1>2. CASE ReleaseSlot(p)
  <2>1. PICK head \in Region : head = hdr[p].chunk_ptr
    BY <1>2, SlotOfBlock DEF ReleaseSlot
  <2>2. /\ chunk' = [chunk EXCEPT ![head].bitmap = @ \ {ClearedBit(p)}, ![head].used_count = @ - 1]
        /\ chunk_heads' = chunk_heads
    BY <1>2, <2>1 DEF ReleaseSlot
  <2>3. \A c \in Region : /\ chunk'[c].next = chunk[c].next /\ chunk'[c].level = chunk[c].level
                          /\ chunk'[c].total_slots = chunk[c].total_slots
    BY <2>2 DEF HeapType, ChunkHeader
  <2>4. Chunks' = Chunks
    BY <2>3 DEF Chunks
  <2> QED BY <2>2, <2>3, <2>4, SameLists
<1>3. CASE ReleaseChunk(p)
  BY <1>3, ReleaseChunkReached
<1> QED BY <1>1, <1>2, <1>3 DEF Release

LEMMA NextReached == IInv /\ AllReached /\ [Next]_vars => AllReached'
<1> SUFFICES ASSUME IInv, AllReached, [Next]_vars PROVE AllReached'
  OBVIOUS
<1>0. HeapType /\ HeapInv /\ CallInv /\ LiveInv
  BY Types DEF IInv
<1>1. ASSUME chunk' = chunk, chunk_heads' = chunk_heads PROVE AllReached'
  BY <1>1, SameLists DEF Chunks
<1>2. ASSUME NEW i \in 0 .. (BITMAP_BITS - 1), TakeSlot(i) PROVE AllReached'
  <2>1. PICK head \in Region : head = call.head
    BY <1>0, <1>2 DEF TakeSlot, CallInv, SearchOK, Chunks
  <2>2. /\ chunk' = [chunk EXCEPT ![head].bitmap = @ \cup {i}, ![head].used_count = @ + 1]
        /\ chunk_heads' = chunk_heads
    BY <1>2, <2>1 DEF TakeSlot
  <2>3. \A c \in Region : /\ chunk'[c].next = chunk[c].next /\ chunk'[c].level = chunk[c].level
                          /\ chunk'[c].total_slots = chunk[c].total_slots
    BY <1>0, <2>2 DEF HeapType, ChunkHeader
  <2>4. Chunks' = Chunks
    BY <2>3 DEF Chunks
  <2> QED BY <2>2, <2>3, <2>4, SameLists
<1>3. ASSUME NEW r \in Region, NewChunk(r) PROVE AllReached'
  BY <1>0, <1>3, NewChunkReached
<1>4. ASSUME NEW p \in DOMAIN live, Free(p) PROVE AllReached'
  BY <1>0, <1>4, ReleaseReached DEF Free, LiveInv
<1>5. CASE CopyAndFree
  BY <1>0, <1>5, ReleaseReached DEF CopyAndFree, CallInv, LiveInv
<1>6. CASE MallocZero \/ MallocLargeFails \/ MallocSmall \/ NextChunk \/ NewChunkFails
  BY <1>1, <1>6 DEF MallocZero, MallocLargeFails, MallocSmall, NextChunk, NewChunkFails, ReturnNull, heap
<1>7. ASSUME NEW r \in Region, MallocLarge(r) PROVE AllReached'
  BY <1>1, <1>7 DEF MallocLarge
<1>8. ASSUME NEW size \in Sizes, Malloc(size) PROVE AllReached'
  BY <1>1, <1>8 DEF Malloc, heap
<1>9. ASSUME NEW p \in DOMAIN live, NEW size \in Sizes, ReallocInPlace(p, size) \/ ReallocMove(p, size)
      PROVE  AllReached'
  BY <1>1, <1>9 DEF ReallocInPlace, ReallocMove, heap
<1>10. ASSUME NEW p \in DOMAIN live, NEW d \in Data, Store(p, d) PROVE AllReached'
  BY <1>1, <1>10 DEF Store, heap
<1>11. CASE UNCHANGED vars
  BY <1>1, <1>11 DEF vars
<1> QED
  BY <1>2, <1>3, <1>4, <1>5, <1>6, <1>7, <1>8, <1>9, <1>10, <1>11 DEF Next, Internal

(* Every mapping is a chunk on its level's list or a large block, of the   *)
(* very length free will unmap (stdlib.cpp:152, 188-190, 198, 215-226).    *)
THEOREM NoLeaks == Spec => []NothingLeaks
<1>1. IInv /\ AllReached => NothingLeaks
  <2> SUFFICES ASSUME IInv, AllReached, NEW r \in Region, maplen[r] # 0
               PROVE  \/ r \in Reached(chunk[r].level) /\ maplen[r] = PAGE_SIZE * chunk[r].page_count
                      \/ /\ <<r, MMapHeaderSize>> \in DOMAIN hdr
                         /\ maplen[r] = hdr[<<r, MMapHeaderSize>>].reserved
    BY DEF NothingLeaks
  <2>1. CASE r \in Chunks
    BY <2>1 DEF AllReached, IInv, HeapInv, ChunksOK
  <2>2. CASE r \notin Chunks
    <3>1. <<r, MMapHeaderSize>> \in DOMAIN hdr
      BY <2>2 DEF IInv, HeapInv, MappingsOK
    <3>2. IsLarge(<<r, MMapHeaderSize>>)
      BY <2>2, <3>1 DEF IInv, HeapInv, HeadersOK, IsSlot
    <3> QED BY <3>1, <3>2 DEF IsLarge
  <2> QED BY <2>1, <2>2
<1>2. Init => AllReached
  BY DEF Init, AllReached, Chunks, NoChunk
<1>3. Spec => [](IInv /\ AllReached)
  BY <1>2, InitInv, NextInv, NextReached, PTL DEF Spec
<1> QED BY <1>1, <1>3, PTL

-----------------------------------------------------------------------------
(* The heap implements AbstractHeap.                                       *)

(* An allocated block starts where AbstractHeap lets blocks start. *)
LEMMA BlockOffsets == HeapType /\ HeapInv => DOMAIN hdr \subseteq Region \X Offset
<1> SUFFICES ASSUME HeapType, HeapInv, NEW p \in DOMAIN hdr
             PROVE  p \in Region \X Offset
  OBVIOUS
<1>1. p[1] \in Region /\ p = <<p[1], p[2]>>
  BY DEF HeapType, Ptr
<1>2. CASE IsLarge(p)
  <2>1. p[2] = MMapHeaderSize
    BY <1>2 DEF IsLarge
  <2> QED BY <1>1, <2>1 DEF Offset
<1>3. CASE IsSlot(p)
  <2> DEFINE l == chunk[p[1]].level
  <2>1. p[1] \in Chunks
    BY <1>3 DEF IsSlot
  <2>2. l \in Level /\ SlotsOf(p[1]) = 0 .. (TotalSlots(l) - 1)
    BY <2>1, SlotsAndPadding
  <2>3. PICK i \in 0 .. (TotalSlots(l) - 1) : p[2] = UserOffset(l, i)
    BY <1>3, <2>2 DEF IsSlot
  <2>4. p[2] \in {UserOffset(l, k) : k \in 0 .. (TotalSlots(l) - 1)}
    BY <2>3
  <2> HIDE DEF l
  <2>5. p[2] \in Offset
    BY <2>2, <2>4 DEF Offset
  <2> QED BY <1>1, <2>5
<1> QED BY <1>2, <1>3 DEF HeapInv, HeadersOK

AllocatedInOffsets == DOMAIN hdr \subseteq Region \X Offset

LEMMA OffsetsFromInv == IInv => AllocatedInOffsets
  BY BlockOffsets, Types DEF IInv, AllocatedInOffsets

LEMMA InitRefines == Init => Abstract!Init
  BY DEF Init, Abstract!Init

(* Handing a block to a caller of malloc is the abstract Malloc. *)
LEMMA ObtainRefines ==
    ASSUME IInv, IInv', NEW p \in Ptr, Allocates(p), Obtain(p), call.size > 0
    PROVE  Abstract!Next \/ UNCHANGED live
<1>1. CASE call.old # NULL
  BY <1>1 DEF Obtain
<1>2. CASE call.old = NULL
  <2>1. live' = Extend(live, p, [size |-> call.size, data |-> UNWRITTEN])
    BY <1>2 DEF Obtain
  <2>2. /\ p \notin DOMAIN live /\ p \in DOMAIN hdr'
        /\ call.size \in Sizes /\ call.size \in Nat
        /\ call.size <= OldSize(p)'
    BY CallTypes, Types DEF IInv, Allocates, LiveInv, CallInv
  <2>3. /\ p \in DOMAIN live' /\ live'[p].size = call.size
        /\ \A q \in DOMAIN live : q \in DOMAIN live' /\ live'[q] = live[q]
    BY <2>1, <2>2 DEF Extend
  <2>4. p \in Region \X Offset
    <3>1. AllocatedInOffsets'
      BY OffsetsFromInv, PTL
    <3> QED BY <2>2, <3>1 DEF AllocatedInOffsets
  <2>5. Abstract!Fresh(p, call.size)
    <3>1. BlocksDisjoint'
      BY DisjointFromInv, PTL
    <3> SUFFICES ASSUME NEW q \in DOMAIN live
                 PROVE  Abstract!Apart(p, call.size, q, live[q].size)
      BY <2>2 DEF Abstract!Fresh
    <3>2. q # p /\ p[2] \in Nat /\ q[2] \in Nat /\ live[q].size \in Nat
      BY <2>2, Types DEF IInv, CallerType, Ptr, Block
    <3>3. \/ p[1] # q[1]
          \/ p[2] + call.size <= q[2] - SlotHeaderSize
          \/ q[2] + live[q].size <= p[2] - SlotHeaderSize
      BY <2>3, <3>1, <3>2 DEF BlocksDisjoint
    <3> QED BY <2>2, <3>2, <3>3 DEF Abstract!Apart, SlotHeaderSize
  <2>6. Abstract!Malloc(p, call.size)
    BY <2>1, <2>5 DEF Abstract!Malloc, Abstract!Extend, Extend
  <2> QED BY <2>2, <2>4, <2>6 DEF Abstract!Next
<1> QED BY <1>1, <1>2

LEMMA FreeRefines ==
    ASSUME NEW p \in DOMAIN live, Free(p)
    PROVE  Abstract!Next
<1>1. Abstract!Free(p)
  BY DEF Free, Abstract!Free, Abstract!Without, Without
<1> QED BY <1>1 DEF Abstract!Next

LEMMA InPlaceRefines ==
    ASSUME IInv, NEW p \in DOMAIN live, NEW size \in Sizes, ReallocInPlace(p, size)
    PROVE  Abstract!Next
<1>0. HeapType /\ CallerType /\ HeapInv /\ LiveInv
  BY Types DEF IInv
<1>1. size \in Nat /\ size > 0 /\ size <= OldSize(p)
  BY HeapAssumption DEF ReallocInPlace
<1>2. ASSUME NEW q \in DOMAIN live \ {p}
      PROVE  Abstract!Apart(p, size, q, live[q].size)
  <2>1. /\ p \in DOMAIN hdr /\ q \in DOMAIN hdr /\ q # p
        /\ live[q].size <= OldSize(q) /\ live[q].size \in Nat
    BY <1>0 DEF LiveInv, CallerType, Block
  <2>2. /\ p[2] \in Nat /\ q[2] \in Nat
        /\ OldSize(p) \in Nat /\ OldSize(q) \in Nat
    BY <1>0, <2>1, BlockPlace
  <2>3. CASE p[1] = q[1]
    <3>1. \/ p[2] + OldSize(p) <= q[2] - SlotHeaderSize
          \/ q[2] + OldSize(q) <= p[2] - SlotHeaderSize
      BY <1>0, <2>1, <2>3, BlocksApart
    <3> QED BY <1>1, <2>1, <2>2, <3>1 DEF Abstract!Apart, SlotHeaderSize
  <2>4. CASE p[1] # q[1]
    BY <2>4 DEF Abstract!Apart
  <2> QED BY <2>3, <2>4
<1>3. Abstract!ReallocInPlace(p, size)
  BY <1>1, <1>2 DEF Abstract!ReallocInPlace, ReallocInPlace
<1> QED BY <1>3 DEF Abstract!Next

LEMMA MoveRefines ==
    ASSUME IInv, CopyAndFree
    PROVE  Abstract!Next
<1>0. HeapType /\ CallerType /\ HeapInv /\ CallInv /\ LiveInv
  BY Types DEF IInv
<1>1. PICK o, n : o = call.old /\ n = call.new
  OBVIOUS
<1>2. /\ o \in DOMAIN live /\ o \in DOMAIN hdr
      /\ n \in DOMAIN hdr /\ n \notin DOMAIN live
      /\ call.size > OldSize(o) /\ call.size <= OldSize(n)
      /\ \A q \in DOMAIN live : /\ q \in DOMAIN hdr /\ live[q].size <= OldSize(q)
                                /\ live[q].size \in Nat
  BY <1>0, <1>1 DEF CopyAndFree, CallInv, LiveInv, CallerType, Block
<1>3. call.size \in Sizes /\ call.size \in Nat /\ call.size > live[o].size
  <2>1. call.size \in Nat /\ OldSize(o) \in Nat
    BY <1>0, <1>2, CallTypes, BlockPlace
  <2>2. call.size > live[o].size /\ call.size > 0
    BY <1>2, <2>1
  <2> QED BY <1>0, <2>1, <2>2 DEF CallInv
<1>4. Abstract!Fresh(n, call.size)
  <2> SUFFICES ASSUME NEW q \in DOMAIN live
               PROVE  Abstract!Apart(n, call.size, q, live[q].size)
    BY <1>2 DEF Abstract!Fresh
  <2>1. q \in DOMAIN hdr /\ q # n /\ live[q].size <= OldSize(q) /\ live[q].size \in Nat
    BY <1>2
  <2>2. /\ n[2] \in Nat /\ q[2] \in Nat
        /\ OldSize(n) \in Nat /\ OldSize(q) \in Nat
    BY <1>0, <1>2, <2>1, BlockPlace
  <2>3. CASE n[1] = q[1]
    <3>1. \/ n[2] + OldSize(n) <= q[2] - SlotHeaderSize
          \/ q[2] + OldSize(q) <= n[2] - SlotHeaderSize
      BY <1>0, <1>2, <2>1, <2>3, BlocksApart
    <3> QED BY <1>2, <1>3, <2>1, <2>2, <3>1 DEF Abstract!Apart, SlotHeaderSize
  <2>4. CASE n[1] # q[1]
    BY <2>4 DEF Abstract!Apart
  <2> QED BY <2>3, <2>4
<1>5. n \in Region \X Offset
  BY <1>0, <1>2, BlockOffsets
<1>6. live' = Extend(Without(live, o), n, [size |-> call.size, data |-> live[o].data])
  BY <1>1, <1>2 DEF CopyAndFree, Copied
<1>7. Abstract!ReallocMove(o, n, call.size)
  BY <1>3, <1>4, <1>6
     DEF Abstract!ReallocMove, Abstract!Extend, Abstract!Without, Extend, Without
<1> QED BY <1>2, <1>3, <1>5, <1>7 DEF Abstract!Next

LEMMA NextRefines == IInv /\ IInv' /\ [Next]_vars => [Abstract!Next]_live
<1> SUFFICES ASSUME IInv, IInv', [Next]_vars
             PROVE  Abstract!Next \/ UNCHANGED live
  OBVIOUS
<1>0. HeapType /\ HeapInv /\ CallInv
  BY Types DEF IInv
<1>1. CASE MallocZero \/ MallocLargeFails \/ NewChunkFails \/ MallocSmall \/ NextChunk
  BY <1>1 DEF MallocZero, MallocLargeFails, NewChunkFails, ReturnNull, MallocSmall, NextChunk
<1>2. ASSUME NEW r \in Region, MallocLarge(r) PROVE Abstract!Next \/ UNCHANGED live
  <2>1. PICK p \in Ptr : p = <<r, MMapHeaderSize>> /\ Allocates(p)
    BY <1>0, <1>2, MallocLargeInv
  <2>2. call.size > 0
    BY <1>2, GeometryAssumption, CallTypes, Types DEF MallocLarge, IInv
  <2>3. Obtain(<<r, MMapHeaderSize>>)
    BY <1>2 DEF MallocLarge
  <2> QED BY <2>1, <2>2, <2>3, ObtainRefines
<1>3. ASSUME call.pc = "search" PROVE call.size > 0
  BY <1>0, <1>3 DEF CallInv, SearchOK
<1>4. ASSUME NEW i \in 0 .. (BITMAP_BITS - 1), TakeSlot(i)
      PROVE  Abstract!Next \/ UNCHANGED live
  <2>1. PICK p \in Ptr :
           /\ p = <<call.head, UserOffset(chunk[call.head].level, i)>>
           /\ Allocates(p)
    BY <1>0, <1>4, TakeSlotInv
  <2>2. /\ call.pc = "search"
        /\ Obtain(<<call.head, UserOffset(chunk[call.head].level, i)>>)
    BY <1>4 DEF TakeSlot
  <2> QED BY <1>3, <2>1, <2>2, ObtainRefines
<1>5. ASSUME NEW r \in Region, NewChunk(r) PROVE Abstract!Next \/ UNCHANGED live
  <2>1. PICK p \in Ptr :
           p = <<r, UserOffset(LevelOf(call.size), 0)>> /\ Allocates(p)
    BY <1>0, <1>5, NewChunkInv
  <2>2. call.pc = "search" /\ Obtain(<<r, UserOffset(LevelOf(call.size), 0)>>)
    BY <1>5 DEF NewChunk
  <2> QED BY <1>3, <2>1, <2>2, ObtainRefines
<1>6. CASE CopyAndFree
  BY <1>6, MoveRefines
<1>7. ASSUME NEW size \in Sizes, Malloc(size) PROVE UNCHANGED live
  BY <1>7 DEF Malloc
<1>8. ASSUME NEW p \in DOMAIN live, Free(p) PROVE Abstract!Next
  BY <1>8, FreeRefines
<1>9. ASSUME NEW p \in DOMAIN live, NEW size \in Sizes, ReallocInPlace(p, size)
      PROVE  Abstract!Next
  BY <1>9, InPlaceRefines
<1>10. ASSUME NEW p \in DOMAIN live, NEW size \in Sizes, ReallocMove(p, size)
       PROVE  UNCHANGED live
  BY <1>10 DEF ReallocMove
<1>11. ASSUME NEW p \in DOMAIN live, NEW d \in Data, Store(p, d)
       PROVE  Abstract!Next
  BY <1>11 DEF Store, Abstract!Store, Abstract!Next
<1>12. CASE UNCHANGED vars
  BY <1>12 DEF vars
<1> QED
  BY <1>1, <1>2, <1>4, <1>5, <1>6, <1>7, <1>8, <1>9, <1>10, <1>11, <1>12
     DEF Next, Internal

(* The heap implements AbstractHeap: its blocks are disjoint, realloc      *)
(* carries their contents along, and a call that fails changes none.       *)
THEOREM Refinement == Spec => AbstractSpec
  BY Invariance, InitRefines, NextRefines, PTL
     DEF Spec, AbstractSpec, Abstract!Spec
=============================================================================
