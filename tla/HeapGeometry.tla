---------------------------- MODULE HeapGeometry ----------------------------
(***************************************************************************)
(* The arithmetic of the slab heap of src/src/stdlib.cpp: which level a    *)
(* request belongs to, how large a slot and a chunk of a level are, and    *)
(* where the slots of a chunk lie.  Heap.tla is built from these           *)
(* operators; the literals of the source are parameters, so that TLC can   *)
(* check the heap with pages that hold two or three slots.                 *)
(***************************************************************************)
EXTENDS Integers

CONSTANTS
    PAGE_SIZE,           \* bytes in a page (4096)
    MIN_SLOT_PER_CHUNK,  \* a chunk holds at least this many slots (16)
    BITMAP_BITS,         \* bits in a chunk header's bitmap (8 * 64 = 512)
    SMALL_MAX            \* the largest request served from a slot (2048)

HeaderSize == 96         \* sizeof(chunk_header)
SlotHeaderSize == 16     \* sizeof(slot_header)
MMapHeaderSize == 16     \* sizeof(MMapHeader)

Level == 0 .. 9          \* the indices of chunk_heads

ASSUME GeometryAssumption ==
    /\ PAGE_SIZE \in Nat /\ PAGE_SIZE > HeaderSize
    /\ MIN_SLOT_PER_CHUNK \in Nat /\ MIN_SLOT_PER_CHUNK > 0
    /\ BITMAP_BITS \in Nat /\ BITMAP_BITS > 0
    /\ SMALL_MAX \in Nat /\ SMALL_MAX <= 8192

(* 1 << (level + 4): the bytes a slot of the level offers its user. *)
Capacity(level) ==
    <<16, 32, 64, 128, 256, 512, 1024, 2048, 4096, 8192>>[level + 1]

SlotSize(level) == Capacity(level) + SlotHeaderSize

(* malloc's level loop stops at the first level whose capacity suffices. *)
LevelOf(size) ==
    CHOOSE level \in Level : /\ size <= Capacity(level)
                             /\ \A m \in 0 .. (level - 1) : size > Capacity(m)

\* error: the chunk_header's own bytes are counted as slots.
SlotsInWhole(level, pages) == (PAGE_SIZE * pages) \div SlotSize(level)

(* alloc_new_chunk adds pages until the chunk holds enough slots. *)
SlotsIn(level, pages) == (PAGE_SIZE * pages - HeaderSize) \div SlotSize(level)

Enough(level, pages) == SlotsIn(level, pages) >= MIN_SLOT_PER_CHUNK

PageCount(level) ==
    CHOOSE n \in 1 .. (HeaderSize + MIN_SLOT_PER_CHUNK * SlotSize(level)) :
        Enough(level, n) /\ \A m \in 1 .. (n - 1) : ~ Enough(level, m)

TotalSlots(level) ==
    IF SlotsIn(level, PageCount(level)) > BITMAP_BITS
    THEN BITMAP_BITS
    ELSE SlotsIn(level, PageCount(level))

(* The bits a fresh chunk sets: those that stand for no slot. *)
Padding(level) == TotalSlots(level) .. (BITMAP_BITS - 1)

(* Offsets are from the base of the mapping.  A slot's header precedes the *)
(* bytes malloc returns; free finds the index back from the header.        *)
SlotOffset(level, index) == HeaderSize + index * SlotSize(level)

SlotIndex(level, offset) == (offset - HeaderSize) \div SlotSize(level)

UserOffset(level, index) == SlotOffset(level, index) + SlotHeaderSize
=============================================================================
