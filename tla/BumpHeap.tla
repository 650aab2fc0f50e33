------------------------------- MODULE BumpHeap ------------------------------
(***************************************************************************)
(* Memory straight from the kernel, with sizes as wide as a register:      *)
(* _malloc (src/src/stdlib.cpp:48-81), which moves the program break, and  *)
(* the path of malloc for large blocks (145-152), which Heap.tla models    *)
(* only for sizes that do not wrap.                                        *)
(***************************************************************************)
EXTENDS Integers, FiniteSets

CONSTANTS
    WORD,            \* 2^64: one more than the largest size
    MMAP_THRESHOLD,  \* 128 KiB
    BASE, LIMIT,     \* where the kernel puts the break, and how far it may go
    Sizes,           \* the sizes asked for
    MaxCalls         \* bound: the calls of either function

BumpAssumption ==
    /\ {WORD, MMAP_THRESHOLD, BASE, LIMIT, MaxCalls} \subseteq Nat
    /\ WORD % 8 = 0 /\ MMAP_THRESHOLD % 8 = 0 /\ BASE % 8 = 0
    /\ 0 < BASE /\ BASE < LIMIT /\ LIMIT < WORD /\ MMAP_THRESHOLD < WORD
    /\ Sizes \subseteq 0 .. WORD - 1

VARIABLES
    heap_curr,  \* stdlib.cpp:48
    brk,        \* the kernel's program break
    blocks,     \* what was answered: [from, asked, room], from = 0 for null
    calls

vars == <<heap_curr, brk, blocks, calls>>

FAILED == WORD - 1
HEADER == 16

(* stdlib.cpp:54 *)
Rounded(size) == (((size + 7) % WORD) \div 8) * 8

(* stdlib.cpp:10-20: the break moves to bottom, or stays; 0 asks for it.   *)
Brk(bottom) == IF bottom = 0 THEN {brk} ELSE {FAILED} \cup (IF bottom \in BASE .. LIMIT THEN {bottom} ELSE {})

Answer(asked, from, room) ==
    /\ blocks' = blocks \cup {[call |-> calls, asked |-> asked, from |-> from, room |-> room]}
    /\ calls' = calls + 1

(* A mapping lies outside the heap, apart from all others; its place is -1. *)
Mmap(asked, size, header) ==
    /\ \E from \in {-1, 0} : Answer(asked, from, IF from = 0 THEN 0 ELSE size - header)
    /\ UNCHANGED <<heap_curr, brk>>

\* error: heap_curr moves before the kernel has agreed
MovesFirst(asked, size) ==
    \E ret \in Brk(brk + size) :
        /\ heap_curr' = brk + size
        /\ brk' = IF ret = FAILED THEN brk ELSE ret
        /\ Answer(asked, IF ret = FAILED THEN 0 ELSE brk, IF ret = FAILED THEN 0 ELSE size)

(* stdlib.cpp:64-80; the first brk may fail too.                           *)
FromBreak(asked, size) ==
    \/ heap_curr = 0 /\ Answer(asked, 0, 0) /\ UNCHANGED <<heap_curr, brk>>
    \/ LET result == IF heap_curr = 0 THEN brk ELSE heap_curr
       IN  \E ret \in Brk(result + size) :
             /\ brk' = IF ret = FAILED THEN brk ELSE ret
             /\ heap_curr' = IF ret = FAILED THEN result ELSE result + size
             /\ Answer(asked, IF ret = FAILED THEN 0 ELSE result, IF ret = FAILED THEN 0 ELSE size)

(* stdlib.cpp:50-81 *)
_malloc(asked) ==
    LET size == Rounded(asked)
    IN  CASE asked = 0                                 -> Answer(asked, 0, 0) /\ UNCHANGED <<heap_curr, brk>>
          [] asked # 0 /\ size >= MMAP_THRESHOLD       -> Mmap(asked, size, 0)
          [] asked # 0 /\ ~ (size >= MMAP_THRESHOLD)   -> FromBreak(asked, size)

(* stdlib.cpp:145 *)
Total(asked) == (asked + HEADER) % WORD

(* stdlib.cpp:144-152 *)
mallocLarge(asked) == asked > 2048 /\ Mmap(asked, Total(asked), HEADER)

Init == heap_curr = 0 /\ brk = BASE /\ blocks = {} /\ calls = 0

Next == calls < MaxCalls /\ \E asked \in Sizes : _malloc(asked) \/ mallocLarge(asked)

Spec == Init /\ [][Next]_vars

-----------------------------------------------------------------------------
(* Properties. *)

(* heap_curr is where the kernel has the break, after a refused brk too    *)
(* (stdlib.cpp:75-79).                                                     *)
FollowsBreak == heap_curr \in {0, brk}

(* Blocks of the heap are aligned, apart from each other and below the     *)
(* break, those of no room left out.                                       *)
BlocksApart ==
    \A a \in blocks : a.from > 0 =>
        /\ a.from % 8 = 0 /\ BASE <= a.from /\ a.from + a.room <= brk
        /\ \A b \in blocks \ {a} : b.from > 0 => a.from + a.room <= b.from \/ b.from + b.room <= a.from

(* Every answer has room for what was asked, except for sizes so large     *)
(* that rounding (stdlib.cpp:54: the last seven) or the header (:145: the  *)
(* last sixteen) wraps: these get an address and no room.                  *)
RoomForSize ==
    \A b \in blocks : b.from # 0 /\ b.asked <= WORD - HEADER - 1 => b.asked <= b.room
===============================================================================
