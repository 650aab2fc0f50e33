-------------------------------- MODULE Heap --------------------------------
(***************************************************************************)
(* malloc, free and realloc of src/src/stdlib.cpp: chunks of equal slots,  *)
(* one doubly linked list of chunks per level, and a mapping of its own    *)
(* for every large request.                                                *)
(*                                                                         *)
(* Memory is a set of regions, each the base of one mapping the kernel may *)
(* hand out; a pointer is <<region, offset>>.  A call of the library is    *)
(* several steps, because malloc walks a list: between them nothing else   *)
(* runs (the library is single threaded), so `call' is the program         *)
(* counter and the locals of the one call in progress.                     *)
(***************************************************************************)
EXTENDS HeapGeometry, FiniteSets

CONSTANTS
    Region,    \* where a mapping can start
    NULL,      \* the null pointer
    MMAP_MARK, \* ~0, the marker in the header of a large block
    Sizes,     \* the sizes callers ask for
    SIZE_MOD,  \* size_t counts modulo this (2^64)
    Data,      \* what callers store in a block
    UNWRITTEN  \* the contents of a block its owner has not stored to

Ptr == Region \X Nat
RegionOrNull == Region \cup {NULL}
PtrOrNull == Ptr \cup {NULL}

ASSUME HeapAssumption ==
    /\ NULL \notin Region /\ NULL \notin Ptr
    /\ MMAP_MARK \notin Region
    /\ SIZE_MOD \in Nat
    /\ Sizes \subseteq Nat
    \* No caller asks for so much that the size of the mapping wraps to 0.
    /\ \A size \in Sizes : size + MMapHeaderSize < SIZE_MOD
    /\ UNWRITTEN \notin Data

VARIABLES
    chunk_heads, \* the first chunk of each level's list
    chunk,       \* the chunk_header at the base of a region
    hdr,         \* the header in front of each allocated block
    maplen,      \* the kernel's: the length mapped at a region, 0 if none
    live,        \* the callers': the blocks they own, each [size, data]
    call         \* the call in progress

heap == <<chunk_heads, chunk, hdr, maplen>>
vars == <<chunk_heads, chunk, hdr, maplen, live, call>>

ChunkHeader ==
    [next : RegionOrNull, prev : RegionOrNull, level : Level,
     total_slots : Nat, used_count : Nat, page_count : Nat,
     bitmap : SUBSET (0 .. (BITMAP_BITS - 1))]

(* What stands at the base of a region that holds no chunk: the kernel     *)
(* zeroes the pages it maps.                                               *)
NoChunk ==
    [next |-> NULL, prev |-> NULL, level |-> 0, total_slots |-> 0,
     used_count |-> 0, page_count |-> 0, bitmap |-> {}]

Chunks == {r \in Region : chunk[r].total_slots > 0}

(* A slot_header and an MMapHeader are the same two words. *)
BlockHeader == [chunk_ptr : Region \cup {MMAP_MARK}, reserved : Nat]

Block == [size : Nat, data : Data \cup {UNWRITTEN}]

Call ==
    [pc : {"idle", "malloc", "search", "copy"}, size : Nat,
     head : RegionOrNull, old : PtrOrNull, new : PtrOrNull]

Idle == [pc |-> "idle", size |-> 0, head |-> NULL, old |-> NULL, new |-> NULL]

Extend(f, x, v) == [y \in DOMAIN f \cup {x} |-> IF y = x THEN v ELSE f[y]]
Without(f, x) == [y \in DOMAIN f \ {x} |-> f[y]]

Init ==
    /\ chunk_heads = [l \in Level |-> NULL]
    /\ chunk = [r \in Region |-> NoChunk]
    /\ hdr = [p \in {} |-> NoChunk]
    /\ maplen = [r \in Region |-> 0]
    /\ live = [p \in {} |-> NoChunk]
    /\ call = Idle

-----------------------------------------------------------------------------
(* The kernel's mmap and munmap.                                           *)

Mmap(r, len) == maplen[r] = 0 /\ maplen' = [maplen EXCEPT ![r] = len]

(* What a length that is not the mapped one leaves is not 0. *)
Munmap(r, len) == maplen' = [maplen EXCEPT ![r] = @ - len]

-----------------------------------------------------------------------------
(* malloc.  It hands its block to the caller, or to realloc, which called  *)
(* it with the old block still in hand.                                    *)

Obtain(p) ==
    IF call.old = NULL
    THEN /\ live' = Extend(live, p, [size |-> call.size, data |-> UNWRITTEN])
         /\ call' = Idle
    ELSE /\ call' = [call EXCEPT !.pc = "copy", !.head = NULL, !.new = p]
         /\ UNCHANGED live

ReturnNull == call' = Idle /\ UNCHANGED <<heap, live>>

Malloc(size) ==
    /\ call.pc = "idle"
    /\ call' = [Idle EXCEPT !.pc = "malloc", !.size = size]
    /\ UNCHANGED <<heap, live>>

MallocZero == call.pc = "malloc" /\ call.size = 0 /\ ReturnNull

LargeTotal(size) == (size + MMapHeaderSize) % SIZE_MOD

MallocLarge(r) ==
    /\ call.pc = "malloc"
    /\ call.size > SMALL_MAX
    /\ Mmap(r, LargeTotal(call.size))
    /\ hdr' = Extend(hdr, <<r, MMapHeaderSize>>,
                     [chunk_ptr |-> MMAP_MARK, reserved |-> LargeTotal(call.size)])
    /\ Obtain(<<r, MMapHeaderSize>>)
    /\ UNCHANGED <<chunk_heads, chunk>>

MallocLargeFails ==
    call.pc = "malloc" /\ call.size > SMALL_MAX /\ ReturnNull

MallocSmall ==
    /\ call.pc = "malloc"
    /\ call.size \in 1 .. SMALL_MAX
    /\ call' = [call EXCEPT !.pc = "search",
                            !.head = chunk_heads[LevelOf(call.size)]]
    /\ UNCHANGED <<heap, live>>

FreeBits(r) == (0 .. (BITMAP_BITS - 1)) \ chunk[r].bitmap

SlotHeader(r) == [chunk_ptr |-> r, reserved |-> 0]

(* The lowest clear bit of the chunk the search has reached. *)
TakeSlot(i) ==
    LET head == call.head
        p == <<head, UserOffset(chunk[head].level, i)>>
    IN  /\ call.pc = "search" /\ head # NULL
        /\ i \in FreeBits(head)
        /\ \A j \in FreeBits(head) : i <= j
        /\ chunk' = [chunk EXCEPT ![head].bitmap = @ \cup {i},
                                  ![head].used_count = @ + 1]
        /\ hdr' = Extend(hdr, p, SlotHeader(head))
        /\ Obtain(p)
        /\ UNCHANGED <<chunk_heads, maplen>>

\* error: the search looks at the same chunk again.
NextChunkStays ==
    /\ call.pc = "search" /\ call.head # NULL
    /\ FreeBits(call.head) = {}
    /\ UNCHANGED vars

NextChunk ==
    /\ call.pc = "search" /\ call.head # NULL
    /\ FreeBits(call.head) = {}
    /\ call' = [call EXCEPT !.head = chunk[call.head].next]
    /\ UNCHANGED <<heap, live>>

\* error: the header says one page, however many were mapped.
FreshChunkOnePage(level) ==
    [next |-> NULL, prev |-> NULL, level |-> level,
     total_slots |-> TotalSlots(level), used_count |-> 0,
     page_count |-> 1, bitmap |-> Padding(level)]

(* alloc_new_chunk, before malloc links the chunk in and takes slot 0. *)
FreshChunk(level) ==
    [next |-> NULL, prev |-> NULL, level |-> level,
     total_slots |-> TotalSlots(level), used_count |-> 0,
     page_count |-> PageCount(level), bitmap |-> Padding(level)]

NewChunk(r) ==
    LET level == LevelOf(call.size)
        first == chunk_heads[level]
        p == <<r, UserOffset(level, 0)>>
    IN  /\ call.pc = "search" /\ call.head = NULL
        /\ Mmap(r, PAGE_SIZE * PageCount(level))
        /\ chunk' = [c \in Region |->
                       IF c = r
                       THEN [FreshChunk(level) EXCEPT
                               !.next = first, !.bitmap = @ \cup {0},
                               !.used_count = 1]
                       ELSE IF c = first THEN [chunk[c] EXCEPT !.prev = r]
                       ELSE chunk[c]]
        /\ chunk_heads' = [chunk_heads EXCEPT ![level] = r]
        /\ hdr' = Extend(hdr, p, SlotHeader(r))
        /\ Obtain(p)

NewChunkFails == call.pc = "search" /\ call.head = NULL /\ ReturnNull

-----------------------------------------------------------------------------
(* free.  Release(p) is its effect on the heap; realloc ends with it too.  *)

\* error: the length forgets that it includes the header already.
ReleaseLargeLonger(p) ==
    /\ hdr[p].chunk_ptr = MMAP_MARK
    /\ Munmap(p[1], hdr[p].reserved + MMapHeaderSize)
    /\ UNCHANGED <<chunk_heads, chunk>>

ReleaseLarge(p) ==
    /\ hdr[p].chunk_ptr = MMAP_MARK
    /\ Munmap(p[1], hdr[p].reserved)
    /\ UNCHANGED <<chunk_heads, chunk>>

ClearedBit(p) ==
    SlotIndex(chunk[hdr[p].chunk_ptr].level, p[2] - SlotHeaderSize)

(* An empty chunk is kept only if it is alone in its list. *)
GivesBack(head) ==
    /\ chunk[head].used_count - 1 = 0
    /\ chunk[head].next # NULL \/ chunk[head].prev # NULL

ReleaseSlot(p) ==
    LET head == hdr[p].chunk_ptr
    IN  /\ head # MMAP_MARK
        /\ ~ GivesBack(head)
        /\ chunk' = [chunk EXCEPT ![head].bitmap = @ \ {ClearedBit(p)},
                                  ![head].used_count = @ - 1]
        /\ UNCHANGED <<chunk_heads, maplen>>

\* error: the successor keeps pointing back at the unmapped chunk.
UnlinkedForward(c, head) ==
    [chunk[c] EXCEPT
       !.next = IF c = chunk[head].prev THEN chunk[head].next ELSE @]

(* The header of another chunk, once head is out of the list. *)
Unlinked(c, head) ==
    [chunk[c] EXCEPT
       !.next = IF c = chunk[head].prev THEN chunk[head].next ELSE @,
       !.prev = IF c = chunk[head].next THEN chunk[head].prev ELSE @]

ReleaseChunk(p) ==
    LET head == hdr[p].chunk_ptr
        level == chunk[head].level
    IN  /\ head # MMAP_MARK
        /\ GivesBack(head)
        /\ chunk' = [c \in Region |->
                       IF c = head THEN NoChunk ELSE Unlinked(c, head)]
        /\ chunk_heads' = [chunk_heads EXCEPT
                             ![level] = IF @ = head THEN chunk[head].next ELSE @]
        /\ Munmap(head, chunk[head].page_count * PAGE_SIZE)

Release(p) ==
    /\ ReleaseLarge(p) \/ ReleaseSlot(p) \/ ReleaseChunk(p)
    /\ hdr' = Without(hdr, p)

(* free(nullptr) changes nothing. *)
Free(p) ==
    /\ call.pc = "idle"
    /\ Release(p)
    /\ live' = Without(live, p)
    /\ UNCHANGED call

-----------------------------------------------------------------------------
(* realloc.  realloc(nullptr, size) is Malloc(size) and realloc(p, 0) is   *)
(* Free(p).                                                                *)

OldSize(p) ==
    IF hdr[p].chunk_ptr = MMAP_MARK
    THEN hdr[p].reserved - MMapHeaderSize
    ELSE Capacity(chunk[hdr[p].chunk_ptr].level)

ReallocInPlace(p, size) ==
    /\ call.pc = "idle"
    /\ size > 0 /\ size <= OldSize(p)
    /\ live' = [live EXCEPT ![p].size = size]
    /\ UNCHANGED <<heap, call>>

ReallocMove(p, size) ==
    /\ call.pc = "idle"
    /\ size > 0 /\ size > OldSize(p)
    /\ call' = [Idle EXCEPT !.pc = "malloc", !.size = size, !.old = p]
    /\ UNCHANGED <<heap, live>>

\* error: the contents stay behind.
CopiedNothing(p) == UNWRITTEN

(* What the new block holds after memcpy(newptr, ptr, old_size): the old   *)
(* block's contents if old_size covered all its owner had asked for.       *)
Copied(p) ==
    IF live[p].size <= OldSize(p) THEN live[p].data ELSE UNWRITTEN

CopyAndFree ==
    /\ call.pc = "copy"
    /\ Release(call.old)
    /\ live' = Extend(Without(live, call.old), call.new,
                      [size |-> call.size, data |-> Copied(call.old)])
    /\ call' = Idle

-----------------------------------------------------------------------------
(* The owner of a block fills it. *)
Store(p, d) ==
    /\ call.pc = "idle"
    /\ live' = [live EXCEPT ![p].data = d]
    /\ UNCHANGED <<heap, call>>

(* The steps inside a call: the library takes them without its caller. *)
Internal ==
    \/ MallocZero
    \/ \E r \in Region : MallocLarge(r)
    \/ MallocLargeFails
    \/ MallocSmall
    \/ \E i \in 0 .. (BITMAP_BITS - 1) : TakeSlot(i)
    \/ NextChunk
    \/ \E r \in Region : NewChunk(r)
    \/ NewChunkFails
    \/ CopyAndFree

Next ==
    \/ Internal
    \/ \E size \in Sizes : Malloc(size)
    \/ \E p \in DOMAIN live : Free(p)
    \/ \E p \in DOMAIN live, size \in Sizes : ReallocInPlace(p, size)
    \/ \E p \in DOMAIN live, size \in Sizes : ReallocMove(p, size)
    \/ \E p \in DOMAIN live, d \in Data : Store(p, d)

Spec == Init /\ [][Next]_vars

(* A call that has begun keeps running. *)
FairSpec == Spec /\ WF_vars(Internal)

-----------------------------------------------------------------------------
(* Properties: what makes the heap correct. *)

(* The type of every variable of the heap (stdlib.cpp:84-109). *)
TypeOK ==
    /\ chunk_heads \in [Level -> RegionOrNull]
    /\ chunk \in [Region -> ChunkHeader]
    /\ DOMAIN hdr \subseteq Ptr /\ hdr \in [DOMAIN hdr -> BlockHeader]
    /\ maplen \in [Region -> Nat]
    /\ DOMAIN live \subseteq Ptr /\ live \in [DOMAIN live -> Block]
    /\ call \in Call

(* A block and its header share no byte with another block or its header:  *)
(* no sequence of malloc, free and realloc gives two owners one slot, and  *)
(* no store of an owner reaches the header free will read.                 *)
BlocksDisjoint ==
    \A p, q \in DOMAIN live :
        \/ p = q \/ p[1] # q[1]
        \/ p[2] + live[p].size <= q[2] - SlotHeaderSize
        \/ q[2] + live[q].size <= p[2] - SlotHeaderSize

(* Every byte of a block is mapped, and lies behind the chunk_header when  *)
(* the block is a slot: neither munmap of an emptied chunk (free) nor      *)
(* the rounding of alloc_new_chunk takes memory somebody still owns.       *)
BlocksMapped ==
    \A p \in DOMAIN live :
        /\ p[2] + live[p].size <= maplen[p[1]]
        /\ p[1] \in Chunks => p[2] >= HeaderSize + SlotHeaderSize

(* A bit of a chunk's bitmap stands for exactly one allocated slot, and    *)
(* used_count, which decides when the chunk goes back to the kernel,       *)
(* counts these bits: the bit free computes by a division is the bit       *)
(* malloc set.                                                             *)
SlotsOf(r) == 0 .. (chunk[r].total_slots - 1)

BitmapMatchesBlocks ==
    \A r \in Chunks :
        /\ \A i \in SlotsOf(r) :
             i \in chunk[r].bitmap
                 <=> <<r, UserOffset(chunk[r].level, i)>> \in DOMAIN hdr
        /\ chunk[r].used_count = Cardinality(chunk[r].bitmap \cap SlotsOf(r))

(* next and prev of two chunks are each other's inverse, a list holds the  *)
(* chunks of one level, and a chunk without prev is the head malloc starts *)
(* its search from: inserting at the head and unlinking anywhere keep it.  *)
ListsLinked ==
    /\ \A l \in Level :
         chunk_heads[l] # NULL =>
             /\ chunk_heads[l] \in Chunks
             /\ chunk[chunk_heads[l]].level = l
             /\ chunk[chunk_heads[l]].prev = NULL
    /\ \A r \in Chunks :
         /\ chunk[r].prev = NULL => chunk_heads[chunk[r].level] = r
         /\ chunk[r].next # NULL =>
              /\ chunk[r].next \in Chunks
              /\ chunk[chunk[r].next].prev = r
              /\ chunk[chunk[r].next].level = chunk[r].level
         /\ chunk[r].prev # NULL =>
              /\ chunk[r].prev \in Chunks
              /\ chunk[chunk[r].prev].next = r
              /\ chunk[chunk[r].prev].level = chunk[r].level

(* A level keeps at most one chunk without a used slot, and then no other  *)
(* (stdlib.cpp:215): the memory a program gave back is not hoarded, and    *)
(* one malloc and free in turn do not map and unmap a chunk each time.     *)
EmptyChunkIsAlone ==
    \A r \in Chunks :
        chunk[r].used_count = 0 =>
            /\ chunk[r].next = NULL /\ chunk[r].prev = NULL
            /\ chunk_heads[chunk[r].level] = r

(* The heap is well formed: all of these at once.  Blocks handed out lie   *)
(* apart and in mapped memory, and bitmaps, counts and lists tell of them  *)
(* what is so, after every malloc, free and realloc (stdlib.cpp:140-245).  *)
WellFormed ==
    BlocksDisjoint /\ BlocksMapped /\ BitmapMatchesBlocks /\ ListsLinked /\ EmptyChunkIsAlone

(* The chunks a search of the level's list comes past: those that are in   *)
(* every set that holds the head of the list and, with a chunk, the next.  *)
Follows(S, level) ==
    /\ chunk_heads[level] # NULL => chunk_heads[level] \in S
    /\ \A r \in S : chunk[r].next # NULL => chunk[r].next \in S
Reached(level) == {r \in Region : \A S \in SUBSET Region : Follows(S, level) => r \in S}

(* Every mapping is accounted for, to the byte: it is a chunk that malloc  *)
(* will find again, or a large block somebody owns.  free and realloc      *)
(* unmap with the very length they mapped.                                 *)
NothingLeaks ==
    \A r \in Region : maplen[r] # 0 =>
        \/ /\ r \in Reached(chunk[r].level)
           /\ maplen[r] = PAGE_SIZE * chunk[r].page_count
        \/ /\ <<r, MMapHeaderSize>> \in DOMAIN hdr
           /\ maplen[r] = hdr[<<r, MMapHeaderSize>>].reserved

(* The heap keeps the promises of AbstractHeap: blocks are disjoint and    *)
(* realloc carries the contents along, whether or not memory is found.     *)
Offset ==
    {MMapHeaderSize} \cup
    UNION {{UserOffset(l, i) : i \in 0 .. (TotalSlots(l) - 1)} : l \in Level}

Abstract == INSTANCE AbstractHeap WITH Ptr <- Region \X Offset
AbstractSpec == Abstract!Spec

(* Every call returns: the walk through a level's list ends. *)
CallReturns == (call.pc # "idle") ~> (call.pc = "idle")
=============================================================================
