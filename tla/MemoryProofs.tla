----------------------------- MODULE MemoryProofs -----------------------------
(***************************************************************************)
(* What is proved of Memory: the shape of chunks, the answers of _malloc   *)
(* and of operator new, for all sizes, memories and handlers, that vector  *)
(* and string implement sequences, and that sort and rotate arrange        *)
(* ranges of every length.                                                 *)
(***************************************************************************)
EXTENDS Memory, FiniteSetTheorems, SequenceTheorems, WellFoundedInduction, TLAPS

-----------------------------------------------------------------------------
(* ChunksShaped (stdlib.cpp:111-136, 154-156, 210): whatever the size of a *)
(* page, the least number of slots and the requests, the loops find the    *)
(* level, the pages and the bitmap that HeapGeometry gives in closed form, *)
(* and the slots tile the chunk.                                           *)
THEOREM Chunks == Spec => []ChunksShaped
<1>1. Sizing!SizingAssumption
  BY MemoryAssumption
<1>2. Init => Sizing!Init
  BY DEF Init
<1>3. [Next]_vars => [Sizing!Next]_(Sizing!vars)
  BY DEF Next, SizingStep, KernelStep, NewProgram, NewStep, StringStep, VectorStep, SortStep, vars, sizing, Sizing!vars
<1>4. Sizing!LoopsAgree /\ Sizing!SlotsTile => ChunksShaped
  BY DEF ChunksShaped
<1>5. Sizing!SizingAssumption /\ Sizing!Init /\ [][Sizing!Next]_(Sizing!vars) => [](Sizing!LoopsAgree /\ Sizing!SlotsTile)
  BY Sizing!Shaped, MemoryAssumption
<1> QED
  BY <1>1, <1>2, <1>3, <1>4, <1>5, PTL DEF Spec

-----------------------------------------------------------------------------
(* _malloc: the break, the blocks below it, and the room of every block,   *)
(* for every word size, threshold, place of the heap and set of sizes.     *)

(* What was answered: a place, -1 for one outside of the heap.             *)
Answered == [call : Nat, asked : 0 .. WORD - 1, from : Int, room : Int]

(* The break is aligned and in its limits, and every block of the heap     *)
(* lies below it.  Only then does the next one, which begins there, lie    *)
(* apart from all before.                                                  *)
KernelInv ==
    /\ Kernel!BumpAssumption
    /\ heap_curr \in Nat /\ brk \in BASE .. LIMIT /\ brk % 8 = 0
    /\ calls \in Nat
    /\ answers \subseteq Answered
    /\ \A q \in answers : q.call < calls /\ (q.from > 0 => q.room >= 0)
    /\ Kernel!FollowsBreak /\ Kernel!BlocksApart /\ Kernel!RoomForSize

-----------------------------------------------------------------------------
(* A number below the word's size is not changed by taking it modulo that. *)
LEMMA ModuloSmall ==
    ASSUME NEW n \in Nat, NEW w \in Nat, n < w
    PROVE  n % w = n
<1> DEFINE q == n \div w  r == n % w
<1>1. n = q * w + r /\ r \in 0 .. w - 1 /\ q \in Int
  BY Z3
<1>2. q = 0
  BY <1>1, Z3
<1> QED BY <1>1, <1>2

(* What rounding answers is a multiple of eight, and at least what was     *)
(* asked for, but for the last seven sizes (stdlib.cpp:54).                *)
LEMMA RoundedUp ==
    ASSUME Kernel!BumpAssumption, NEW asked \in 0 .. WORD - 1
    PROVE  /\ Kernel!Rounded(asked) \in Nat /\ Kernel!Rounded(asked) % 8 = 0
           /\ asked + 7 < WORD => asked <= Kernel!Rounded(asked)
<1> DEFINE r == (asked + 7) % WORD
<1>1. WORD \in Nat /\ WORD > 0 /\ asked \in Nat
  BY DEF Kernel!BumpAssumption
<1>2. r \in Nat
  BY <1>1
<1>3. (r \div 8) * 8 \in Nat /\ ((r \div 8) * 8) % 8 = 0 /\ r - 7 <= (r \div 8) * 8
  BY <1>2, Z3
<1>4. asked + 7 < WORD => r = asked + 7
  BY <1>1, ModuloSmall
<1> HIDE DEF r
<1> QED BY <1>1, <1>2, <1>3, <1>4 DEF Kernel!Rounded, r

(* An answer that leaves the break alone, null or a mapping, keeps the     *)
(* invariant if a mapping has room; _malloc may have asked for the break.  *)
LEMMA AnswerInv ==
    ASSUME KernelInv, NEW asked \in 0 .. WORD - 1, NEW from \in {-1, 0}, NEW room \in Int,
           Kernel!Answer(asked, from, room), brk' = brk, heap_curr' \in {heap_curr, brk},
           from = -1 /\ asked <= WORD - Kernel!HEADER - 1 => asked <= room
    PROVE  KernelInv'
<1> DEFINE answer == [call |-> calls, asked |-> asked, from |-> from, room |-> room]
<1>1. answers' = answers \cup {answer} /\ calls' = calls + 1
  BY DEF Kernel!Answer
<1>2. answer \in Answered /\ ~ (answer.from > 0)
  BY DEF KernelInv, Answered
<1>3. calls' \in Nat /\ answers' \subseteq Answered
  BY <1>1, <1>2 DEF KernelInv
<1>4. \A q \in answers' : q.call < calls' /\ (q.from > 0 => q.room >= 0)
  <2> SUFFICES ASSUME NEW q \in answers' PROVE q.call < calls' /\ (q.from > 0 => q.room >= 0)
    OBVIOUS
  <2>1. CASE q \in answers
    BY <2>1, <1>1, <1>3 DEF KernelInv, Answered
  <2>2. CASE q = answer
    BY <2>2, <1>1, <1>2 DEF KernelInv
  <2> QED BY <2>1, <2>2, <1>1
<1>5. Kernel!BlocksApart'
  BY <1>1, <1>2 DEF KernelInv, Kernel!BlocksApart
<1>6. Kernel!RoomForSize'
  BY <1>1, <1>2 DEF KernelInv, Kernel!RoomForSize, Kernel!HEADER
<1> QED BY <1>3, <1>4, <1>5, <1>6 DEF KernelInv, Kernel!FollowsBreak, Kernel!BumpAssumption

(* A block taken from the break begins where the blocks before it end.     *)
LEMMA TakenInv ==
    ASSUME KernelInv, NEW asked \in 0 .. WORD - 1, NEW n \in Nat, n % 8 = 0,
           asked + 7 < WORD => asked <= n,
           brk + n \in BASE .. LIMIT,
           heap_curr' = brk + n, brk' = brk + n, Kernel!Answer(asked, brk, n)
    PROVE  KernelInv'
<1> DEFINE answer == [call |-> calls, asked |-> asked, from |-> brk, room |-> n]
<1>1. answers' = answers \cup {answer} /\ calls' = calls + 1
  BY DEF Kernel!Answer
<1>2. answer \in Answered /\ brk \in Nat /\ brk > 0 /\ BASE <= brk /\ brk % 8 = 0
  BY DEF KernelInv, Answered, Kernel!BumpAssumption
<1>3. calls' \in Nat /\ answers' \subseteq Answered
  BY <1>1, <1>2 DEF KernelInv
<1>4. \A q \in answers' : q.call < calls' /\ (q.from > 0 => q.room >= 0)
  <2> SUFFICES ASSUME NEW q \in answers' PROVE q.call < calls' /\ (q.from > 0 => q.room >= 0)
    OBVIOUS
  <2>1. CASE q \in answers
    BY <2>1, <1>1, <1>3 DEF KernelInv, Answered
  <2>2. CASE q = answer
    BY <2>2, <1>1, <1>2 DEF KernelInv
  <2> QED BY <2>1, <2>2, <1>1
<1>5. Kernel!BlocksApart'
  <2>1. \A q \in answers : q.from > 0 => q.from + q.room <= brk /\ q.from % 8 = 0 /\ BASE <= q.from
    BY DEF KernelInv, Kernel!BlocksApart
  <2>2. \A q \in answers : q.from \in Int /\ q.room \in Int
    BY DEF KernelInv, Answered
  <2>3. \A p, q \in answers : p.from > 0 /\ q.from > 0 /\ p # q
          => p.from + p.room <= q.from \/ q.from + q.room <= p.from
    BY DEF KernelInv, Kernel!BlocksApart
  <2>4. ASSUME NEW p \in answers', p.from > 0
        PROVE  p.from % 8 = 0 /\ BASE <= p.from /\ p.from + p.room <= brk'
    <3>1. CASE p \in answers
      BY <2>1, <2>2, <2>4, <3>1, <1>2 DEF KernelInv, Kernel!BumpAssumption
    <3>2. CASE p = answer
      BY <3>2, <1>2
    <3> QED BY <3>1, <3>2, <1>1
  <2>5. ASSUME NEW p \in answers', NEW q \in answers', p # q, p.from > 0, q.from > 0
        PROVE  p.from + p.room <= q.from \/ q.from + q.room <= p.from
    <3>1. CASE p \in answers /\ q \in answers
      BY <2>3, <2>5, <3>1
    <3>2. CASE p = answer
      BY <2>1, <2>5, <3>2, <1>1
    <3>3. CASE q = answer
      BY <2>1, <2>5, <3>3, <1>1
    <3> QED BY <3>1, <3>2, <3>3, <1>1
  <2> QED BY <2>4, <2>5 DEF Kernel!BlocksApart
<1>6. Kernel!RoomForSize'
  BY <1>1 DEF KernelInv, Kernel!RoomForSize, Kernel!HEADER, Kernel!BumpAssumption
<1>7. (brk + n) % 8 = 0
  BY <1>2, Z3
<1> QED BY <1>2, <1>3, <1>4, <1>5, <1>6, <1>7 DEF KernelInv, Kernel!FollowsBreak, Kernel!BumpAssumption

(* A mapping for a large block of _malloc or of malloc.                    *)
LEMMA MmapInv ==
    ASSUME KernelInv, NEW asked \in 0 .. WORD - 1, NEW n \in Nat, NEW header \in Nat,
           Kernel!Mmap(asked, n, header),
           asked <= WORD - Kernel!HEADER - 1 => asked <= n - header
    PROVE  KernelInv'
<1>1. PICK from \in {-1, 0} : Kernel!Answer(asked, from, IF from = 0 THEN 0 ELSE n - header)
  BY DEF Kernel!Mmap
<1>2. (IF from = 0 THEN 0 ELSE n - header) \in Int
  OBVIOUS
<1>3. brk' = brk /\ heap_curr' = heap_curr
  BY DEF Kernel!Mmap
<1> QED BY <1>1, <1>2, <1>3, AnswerInv

(* _malloc, with its four ways out (stdlib.cpp:51, 59, 67, 77).            *)
LEMMA MallocInv ==
    ASSUME KernelInv, NEW asked \in 0 .. WORD - 1, Kernel!_malloc(asked)
    PROVE  KernelInv'
<1> DEFINE n == Kernel!Rounded(asked)
<1>0. Kernel!BumpAssumption
  BY DEF KernelInv
<1>1. n \in Nat /\ n % 8 = 0 /\ (asked + 7 < WORD => asked <= n)
  BY <1>0, RoundedUp
<1>a. WORD \in Nat /\ asked \in Nat
  BY <1>0 DEF Kernel!BumpAssumption
<1>2. ASSUME Kernel!Answer(asked, 0, 0), brk' = brk, heap_curr' \in {heap_curr, brk} PROVE KernelInv'
  BY <1>2, AnswerInv
<1>3. CASE asked = 0
  BY <1>2, <1>3 DEF Kernel!_malloc
<1>4. CASE asked # 0 /\ n >= MMAP_THRESHOLD
  <2>1. Kernel!Mmap(asked, n, 0)
    BY <1>4 DEF Kernel!_malloc
  <2>2. asked <= WORD - Kernel!HEADER - 1 => asked <= n - 0
    BY <1>1, <1>a DEF Kernel!HEADER
  <2> HIDE DEF n
  <2> QED BY <1>1, <2>1, <2>2, MmapInv
<1>5. CASE asked # 0 /\ ~ (n >= MMAP_THRESHOLD)
  <2>1. Kernel!FromBreak(asked, n)
    BY <1>5 DEF Kernel!_malloc
  <2> HIDE DEF n
  <2>2. CASE heap_curr = 0 /\ Kernel!Answer(asked, 0, 0) /\ UNCHANGED <<heap_curr, brk>>
    BY <1>2, <2>2
  <2> DEFINE result == IF heap_curr = 0 THEN brk ELSE heap_curr
  <2>3. result = brk
    BY DEF KernelInv, Kernel!FollowsBreak
  <2>4. ASSUME NEW ret \in Kernel!Brk(result + n),
               brk' = (IF ret = Kernel!FAILED THEN brk ELSE ret),
               heap_curr' = (IF ret = Kernel!FAILED THEN result ELSE result + n),
               Kernel!Answer(asked, IF ret = Kernel!FAILED THEN 0 ELSE result, IF ret = Kernel!FAILED THEN 0 ELSE n)
        PROVE  KernelInv'
    <3>1. brk \in Nat /\ brk > 0 /\ brk + n # 0
      BY <1>0, <1>1 DEF KernelInv, Kernel!BumpAssumption
    <3>2. ret = Kernel!FAILED \/ (ret = brk + n /\ brk + n \in BASE .. LIMIT)
      BY <2>3, <2>4, <3>1 DEF Kernel!Brk
    <3>3. CASE ret = Kernel!FAILED
      <4>1. brk' = brk /\ heap_curr' = brk /\ Kernel!Answer(asked, 0, 0)
        BY <2>3, <2>4, <3>3
      <4> QED BY <4>1, <1>2
    <3>4. CASE ret # Kernel!FAILED
      BY <1>1, <2>3, <2>4, <3>2, <3>4, TakenInv
    <3> QED BY <3>3, <3>4
  <2> QED BY <2>1, <2>2, <2>4 DEF Kernel!FromBreak
<1> QED BY <1>3, <1>4, <1>5

(* malloc for more than 2048 bytes (stdlib.cpp:144-152).                   *)
LEMMA MallocLargeInv ==
    ASSUME KernelInv, NEW asked \in 0 .. WORD - 1, Kernel!mallocLarge(asked)
    PROVE  KernelInv'
<1>1. WORD \in Nat /\ WORD > 0 /\ asked \in Nat
  BY DEF KernelInv, Kernel!BumpAssumption
<1>2. Kernel!Total(asked) \in Nat
  BY <1>1 DEF Kernel!Total, Kernel!HEADER
<1>3. asked <= WORD - Kernel!HEADER - 1 => Kernel!Total(asked) = asked + Kernel!HEADER
  BY <1>1, ModuloSmall DEF Kernel!Total, Kernel!HEADER
<1>4. Kernel!HEADER \in Nat /\ Kernel!Mmap(asked, Kernel!Total(asked), Kernel!HEADER)
  BY DEF Kernel!mallocLarge, Kernel!HEADER
<1>5. asked <= WORD - Kernel!HEADER - 1 => asked <= Kernel!Total(asked) - Kernel!HEADER
  BY <1>1, <1>3 DEF Kernel!HEADER
<1> QED BY <1>2, <1>4, <1>5, MmapInv

LEMMA KernelStarts == Kernel!BumpAssumption /\ Kernel!Init => KernelInv
  BY DEF Kernel!BumpAssumption, Kernel!Init, KernelInv, Kernel!FollowsBreak, Kernel!BlocksApart, Kernel!RoomForSize

LEMMA KernelSteps == KernelInv /\ [Kernel!Next]_(Kernel!vars) => KernelInv'
<1> SUFFICES ASSUME KernelInv, [Kernel!Next]_(Kernel!vars) PROVE KernelInv'
  OBVIOUS
<1>1. CASE UNCHANGED Kernel!vars
  BY <1>1 DEF KernelInv, Kernel!vars, Kernel!BumpAssumption, Kernel!FollowsBreak, Kernel!BlocksApart, Kernel!RoomForSize
<1>2. CASE Kernel!Next
  <2>1. PICK asked \in KernelSizes : Kernel!_malloc(asked) \/ Kernel!mallocLarge(asked)
    BY <1>2 DEF Kernel!Next
  <2>2. asked \in 0 .. WORD - 1
    BY DEF KernelInv, Kernel!BumpAssumption
  <2> QED BY <2>1, <2>2, MallocInv, MallocLargeInv
<1> QED BY <1>1, <1>2

LEMMA KernelHolds == Spec => []KernelInv
<1>1. Init => KernelInv
  BY KernelStarts, MemoryAssumption DEF Init
<1>2. [Next]_vars => [Kernel!Next]_(Kernel!vars)
  BY DEF Next, SizingStep, KernelStep, NewProgram, NewStep, StringStep, VectorStep, SortStep, vars, kernel, Kernel!vars
<1> QED
  BY <1>1, <1>2, KernelSteps, PTL DEF Spec

(* heap_curr is where the kernel has the break, whenever it is set, also   *)
(* after the kernel refused to move it (stdlib.cpp:75-79).                 *)
THEOREM Break == Spec => []Kernel!FollowsBreak
<1>1. KernelInv => Kernel!FollowsBreak
  BY DEF KernelInv
<1> QED
  BY <1>1, KernelHolds, PTL

(* The blocks of _malloc that lie in the heap are aligned and share no     *)
(* byte, however often the kernel refuses (stdlib.cpp:71-80).              *)
THEOREM Apart == Spec => []Kernel!BlocksApart
<1>1. KernelInv => Kernel!BlocksApart
  BY DEF KernelInv
<1> QED
  BY <1>1, KernelHolds, PTL

(* Every block has the room asked for, unless the size was one of the last *)
(* sixteen of the word (stdlib.cpp:54, 145).                               *)
THEOREM Room == Spec => []Kernel!RoomForSize
<1>1. KernelInv => Kernel!RoomForSize
  BY DEF KernelInv
<1> QED
  BY <1>1, KernelHolds, PTL

-----------------------------------------------------------------------------
(* operator new asks again only after its handler, and the handler it      *)
(* began with, if that releases in the end, is gone only when nothing is   *)
(* left to release.                                                        *)

Releasing == {"releases", "installs"}
Installable == Handlers \cup {"null", "releases"}
NewInv ==
    /\ blocks \subseteq SUBSET Bytes
    /\ call \in [size : Nat, began : Installable, pc : {"idle", "malloc", "failed", "handler"}]
    /\ call.pc = "failed" => call.size > New!Cardinality(New!Free)
    /\ call.pc # "idle" =>
         /\ call.size > 0
         /\ call.began \in Releasing => \/ __new_handler \in Releasing
                                        \/ __new_handler = "null" /\ blocks = {} /\ call.pc # "handler"
    /\ __new_handler \in Installable
    /\ New!NullOnlyWhenFull /\ New!ReleasesFirst

(* Instances have operators of their own for what a set counts.            *)
LEMMA SameCount == \A S : New!Cardinality(S) = Cardinality(S)
  BY DEF New!Cardinality, Cardinality

LEMMA FreeBytes ==
    /\ IsFiniteSet(Bytes) /\ New!Cardinality(Bytes) \in Nat
    /\ New!Cardinality(New!Free) \in Nat /\ (blocks = {} => New!Free = Bytes)
<1>1. IsFiniteSet(Bytes)
  BY MemoryAssumption DEF New!NewAssumption, New!IsFiniteSet, IsFiniteSet
<1>2. New!Free \subseteq Bytes /\ (blocks = {} => New!Free = Bytes)
  BY DEF New!Free
<1> QED
  BY <1>1, <1>2, FS_Subset, FS_CardinalityType, SameCount

LEMMA IdleCall ==
    New!Idle.pc = "idle" /\ New!Idle \in [size : Nat, began : Installable, pc : {"idle", "malloc", "failed", "handler"}]
  BY DEF New!Idle, Installable

LEMMA NewStarts == New!Init => NewInv
<1> SUFFICES ASSUME New!Init PROVE NewInv
  OBVIOUS
<1>1. __new_handler = "null" /\ blocks = {} /\ call = New!Idle /\ gaveUp = {}
  BY DEF New!Init
<1> QED
  BY <1>1, IdleCall DEF NewInv, New!NullOnlyWhenFull, New!ReleasesFirst, Installable

LEMMA NewAsks ==
    ASSUME NewInv, NEW n \in NewSizes, New!New(n) PROVE NewInv'
<1>1. n \in Nat
  <2>1. New!NewAssumption
    BY MemoryAssumption
  <2> QED
    BY <2>1 DEF New!NewAssumption
<1>2. New!Asked(n) \in Nat /\ New!Asked(n) > 0
  BY <1>1 DEF New!Asked
<1> DEFINE asked == New!Asked(n)
<1>3. call' = [size |-> asked, began |-> __new_handler, pc |-> "malloc"] /\ UNCHANGED <<__new_handler, blocks, gaveUp>>
  BY DEF New!New
<1>4. asked \in Nat /\ asked > 0
  BY <1>2
<1> HIDE DEF asked
<1> QED
  BY <1>3, <1>4 DEF NewInv, New!NullOnlyWhenFull, New!ReleasesFirst, Releasing

LEMMA NewMallocs ==
    ASSUME NewInv, New!Malloc PROVE NewInv'
<1>1. call.pc = "malloc" /\ UNCHANGED <<__new_handler, gaveUp>> /\ call.size \in Nat /\ call.size > 0 /\ call.began \in Installable
  BY DEF New!Malloc, New!At, NewInv
<1>2. CASE call.size <= New!Cardinality(New!Free)
  <2>1. PICK b \in SUBSET New!Free : blocks' = blocks \cup {b} /\ call' = New!Idle
    BY <1>1, <1>2 DEF New!Malloc
  <2>2. call'.pc = "idle" /\ call' \in [size : Nat, began : Installable, pc : {"idle", "malloc", "failed", "handler"}]
    BY <2>1, IdleCall
  <2>3. b \subseteq Bytes
    BY <2>1 DEF New!Free
  <2> QED
    BY <1>1, <2>1, <2>2, <2>3 DEF NewInv, New!NullOnlyWhenFull, New!ReleasesFirst
<1>3. CASE ~ call.size <= New!Cardinality(New!Free)
  <2>1. call' = [call EXCEPT !.pc = "failed"] /\ UNCHANGED blocks
    BY <1>1, <1>3 DEF New!Malloc, New!GoTo
  <2>2. call'.pc = "failed" /\ call'.size = call.size /\ call'.began = call.began
        /\ call' \in [size : Nat, began : Installable, pc : {"idle", "malloc", "failed", "handler"}]
    BY <2>1 DEF NewInv
  <2>3. call.size > New!Cardinality(New!Free)
    BY <1>1, <1>3, FreeBytes
  <2>4. New!Free' = New!Free
    BY <2>1 DEF New!Free
  <2> QED
    BY <1>1, <2>1, <2>2, <2>3, <2>4 DEF NewInv, New!NullOnlyWhenFull, New!ReleasesFirst
<1> QED
  BY <1>2, <1>3

LEMMA NewFails ==
    ASSUME NewInv, New!Failed PROVE NewInv'
<1>1. /\ call.pc = "failed" /\ call.size \in Nat /\ call.size > New!Cardinality(New!Free)
      /\ call.began \in Releasing => __new_handler \in Releasing \/ blocks = {}
  BY DEF New!Failed, New!At, NewInv
<1>2. CASE __new_handler = "null"
  <2> DEFINE g == [size |-> call.size, began |-> call.began, free |-> New!Cardinality(New!Free)]
  <2>1. call' = New!Idle /\ gaveUp' = {g} /\ UNCHANGED <<__new_handler, blocks>>
    BY <1>2 DEF New!Failed, New!Installed, New!GiveUp
  <2>2. call'.pc = "idle" /\ call' \in [size : Nat, began : Installable, pc : {"idle", "malloc", "failed", "handler"}]
    BY <2>1, IdleCall
  <2>3. g.size > g.free
    BY <1>1
  <2>4. g.began \in {"releases", "installs"} => g.size > New!Cardinality(Bytes)
    BY <1>1, <1>2, FreeBytes DEF Releasing
  <2> HIDE DEF g
  <2>5. New!NullOnlyWhenFull' /\ New!ReleasesFirst'
    BY <2>1, <2>3, <2>4 DEF New!NullOnlyWhenFull, New!ReleasesFirst
  <2> QED
    BY <2>1, <2>2, <2>5 DEF NewInv
<1>3. CASE __new_handler # "null"
  <2>1. call' = [call EXCEPT !.pc = "handler"] /\ UNCHANGED <<__new_handler, blocks, gaveUp>>
    BY <1>3 DEF New!Failed, New!Installed, New!GoTo
  <2>2. call'.pc = "handler" /\ call'.size = call.size /\ call'.began = call.began
        /\ call' \in [size : Nat, began : Installable, pc : {"idle", "malloc", "failed", "handler"}]
    BY <2>1 DEF NewInv
  <2> QED
    BY <1>1, <1>3, <2>1, <2>2 DEF NewInv, New!NullOnlyWhenFull, New!ReleasesFirst
<1> QED
  BY <1>2, <1>3

LEMMA NewHandles ==
    ASSUME NewInv, New!Handler PROVE NewInv'
<1>1. call.pc = "handler" /\ call' = [call EXCEPT !.pc = "malloc"] /\ UNCHANGED gaveUp /\ New!Does(__new_handler)
  BY DEF New!Handler, New!At, New!GoTo, New!Installed
<1>2. call'.pc = "malloc" /\ call'.size = call.size /\ call'.began = call.began
      /\ call' \in [size : Nat, began : Installable, pc : {"idle", "malloc", "failed", "handler"}]
  BY <1>1 DEF NewInv
<1>3. /\ blocks' \subseteq blocks /\ __new_handler' \in {__new_handler, "null", "releases"}
      /\ __new_handler \in Releasing => \/ __new_handler' \in Releasing
                                        \/ __new_handler' = "null" /\ blocks' = {}
  BY <1>1 DEF New!Does, New!Delete, Releasing
<1>4. call.size > 0 /\ (call.began \in Releasing => __new_handler \in Releasing)
  BY <1>1 DEF NewInv
<1>5. __new_handler' \in Installable /\ blocks' \subseteq SUBSET Bytes
  BY <1>3 DEF NewInv, Installable
<1> QED
  BY <1>1, <1>2, <1>3, <1>4, <1>5 DEF NewInv, New!NullOnlyWhenFull, New!ReleasesFirst

LEMMA NewProgrammed ==
    ASSUME NewInv, New!Program PROVE NewInv'
<1>1. CASE \E n \in NewSizes : New!New(n)
  BY <1>1, NewAsks
<1>2. CASE \E b \in blocks : New!At("idle") /\ New!Delete(b) /\ UNCHANGED <<__new_handler, call, gaveUp>>
  <2>1. call.pc = "idle" /\ blocks' \subseteq blocks /\ UNCHANGED <<__new_handler, call, gaveUp>>
    BY <1>2 DEF New!At, New!Delete
  <2> QED
    BY <2>1 DEF NewInv, New!NullOnlyWhenFull, New!ReleasesFirst
<1>3. CASE \E h \in Handlers \cup {"null"} : New!set_new_handler(h)
  <2>1. PICK h \in Handlers \cup {"null"} : call.pc = "idle" /\ __new_handler' = h /\ UNCHANGED <<blocks, call, gaveUp>>
    BY <1>3 DEF New!set_new_handler, New!At
  <2>2. h \in Installable
    BY <2>1 DEF Installable
  <2> QED
    BY <2>1, <2>2 DEF NewInv, New!NullOnlyWhenFull, New!ReleasesFirst
<1> QED
  BY <1>1, <1>2, <1>3 DEF New!Program

(* RoomAnswered (stdlib.cpp:48-81, 144-152, new.cpp:4-29): for any memory, *)
(* sizes that wrap included, and any handlers, what is answered has room   *)
(* and lies apart, and null comes only when there is none, after all that  *)
(* a releasing handler can give back.                                      *)
THEOREM Rooms == Spec => []RoomAnswered
<1>1. Init => NewInv
  BY NewStarts DEF Init
<1>2. NewInv /\ [Next]_vars => NewInv'
  <2> SUFFICES ASSUME NewInv, [Next]_vars PROVE NewInv'
    OBVIOUS
  <2>1. CASE UNCHANGED new
    BY <2>1 DEF new, NewInv, New!Free, New!NullOnlyWhenFull, New!ReleasesFirst
  <2>2. CASE NewProgram
    BY <2>2, NewProgrammed DEF NewProgram
  <2>3. CASE NewStep
    BY <2>3, NewMallocs, NewFails, NewHandles DEF NewStep, New!Step
  <2> QED
    BY <2>1, <2>2, <2>3 DEF Next, SizingStep, KernelStep, StringStep, VectorStep, SortStep, vars
<1>3. NewInv /\ KernelInv => RoomAnswered
  BY DEF NewInv, KernelInv, RoomAnswered
<1> QED
  BY <1>1, <1>2, <1>3, KernelHolds, PTL DEF Spec

-----------------------------------------------------------------------------
(***************************************************************************)
(* Vectors: the elements below size live, each slot above them is raw.     *)
(***************************************************************************)
(* Sets of numbers have a least member.                                    *)
LEMMA LeastOf ==
    ASSUME NEW S \in SUBSET Nat, S # {}
    PROVE  \E x \in S : \A y \in S : x <= y
<1>1. \E x \in S : \A y \in S : <<y, x>> \notin OpToRel(<, Nat)
  BY NatLessThanWellFounded, WFMin
<1>2. PICK x \in S : \A y \in S : ~ (y < x)
  BY <1>1 DEF OpToRel
<1> QED BY <1>2

Element == Values \cup {Vectors!DEFAULT}
Slots(e, n) == [k \in 1 .. n |-> IF k <= Len(e) THEN e[k] ELSE Vectors!RAW]
Vec(d, m, n, f) == [data |-> d, size |-> m, capacity |-> n, faults |-> f]
VecOf(e, n, f) == Vec(Slots(e, n), Len(e), n, f)

LEMMA RawIsNoElement == Vectors!RAW \notin Element /\ Element \subseteq Nat
BY MemoryAssumption DEF Vectors!VectorAssumption, Element, Vectors!RAW, Vectors!DEFAULT

LEMMA ElementsOf ==
    ASSUME NEW e \in Seq(Element), NEW n \in Nat, Len(e) <= n, NEW f
    PROVE  Vectors!Elements(VecOf(e, n, f)) = e
BY DEF Vectors!Elements, VecOf, Vec, Slots

LEMMA SlotsHold ==
    ASSUME NEW e \in Seq(Element), NEW n \in Nat, Len(e) <= n, NEW k \in 1 .. n
    PROVE  Slots(e, n)[k] # Vectors!RAW <=> k <= Len(e)
BY RawIsNoElement DEF Slots

(* The faults, and one more.                                               *)
Unmade(f) == f \cup {"assigned raw"}

(* Filling slots that held no element, or emptying slots that held one.    *)
LEMMA FilledVec ==
    ASSUME NEW d, NEW m, NEW n, NEW f, NEW fill
    PROVE  Vectors!Filled(Vec(d, m, n, f), fill) = Vec(Vectors!Over(d, fill), m, n, f)
BY DEF Vectors!Filled, Vec

LEMMA MadeRaw ==
    ASSUME NEW d, NEW m, NEW n, NEW f, NEW fill, \A k \in DOMAIN fill : d[k] = Vectors!RAW
    PROVE  Vectors!Make(Vec(d, m, n, f), fill) = Vec(Vectors!Over(d, fill), m, n, f)
<1>1. ~ \E k \in DOMAIN fill : Vec(d, m, n, f).data[k] # Vectors!RAW
  BY DEF Vec
<1> QED BY <1>1, FilledVec DEF Vectors!Make, Vectors!Blame

LEMMA AssignedRaw ==
    ASSUME NEW d, NEW m, NEW n, NEW f, NEW fill, \E k \in DOMAIN fill : d[k] = Vectors!RAW
    PROVE  Vectors!Assign(Vec(d, m, n, f), fill) = Vec(Vectors!Over(d, fill), m, n, Unmade(f))
<1>1. \E q \in DOMAIN fill : Vec(d, m, n, f).data[q] = Vectors!RAW
  BY DEF Vec
<1>2. [Vec(d, m, n, f) EXCEPT !.faults = @ \cup {"assigned raw"}] = Vec(d, m, n, Unmade(f))
  <2>1. \A g : [Vec(d, m, n, f) EXCEPT !.faults = g] = Vec(d, m, n, g)
    BY DEF Vec
  <2>2. Vec(d, m, n, f).faults = f
    BY DEF Vec
  <2> QED BY <2>1, <2>2 DEF Unmade
<1>3. Vectors!Assign(Vec(d, m, n, f), fill) = Vectors!Filled(Vec(d, m, n, Unmade(f)), fill)
  BY <1>1, <1>2 DEF Vectors!Assign, Vectors!Blame
<1> QED BY <1>3, FilledVec

LEMMA NoneFilled ==
    ASSUME NEW e, NEW m, NEW n, NEW f, NEW fill, DOMAIN fill = {}
    PROVE  /\ Vectors!Make(Vec(Slots(e, n), m, n, f), fill) = Vec(Slots(e, n), m, n, f)
           /\ Vectors!Assign(Vec(Slots(e, n), m, n, f), fill) = Vec(Slots(e, n), m, n, f)
<1>1. Vectors!Over(Slots(e, n), fill) = Slots(e, n)
  BY DEF Vectors!Over, Slots
<1> QED BY <1>1, FilledVec DEF Vectors!Make, Vectors!Assign, Vectors!Blame

LEMMA EmptiedVec ==
    ASSUME NEW d, NEW m, NEW n, NEW f, NEW gone, \A k \in gone : d[k] # Vectors!RAW
    PROVE  Vectors!Unmake(Vec(d, m, n, f), gone) = Vec(Vectors!Over(d, [k \in gone |-> Vectors!RAW]), m, n, f)
<1>1. ~ \E k \in gone : Vec(d, m, n, f).data[k] = Vectors!RAW
  BY DEF Vec
<1>2. Vectors!Unmake(Vec(d, m, n, f), gone) = Vectors!Filled(Vec(d, m, n, f), [k \in gone |-> Vectors!RAW])
  BY <1>1 DEF Vectors!Unmake, Vectors!Blame
<1> QED BY <1>2 DEF Vectors!Filled, Vec

LEMMA UnmadeVec ==
    ASSUME NEW e \in Seq(Element), NEW n \in Nat, Len(e) <= n, NEW f, NEW m \in 0 .. Len(e)
    PROVE  Vectors!Unmake(VecOf(e, n, f), m + 1 .. Len(e)) = Vec(Slots(SubSeq(e, 1, m), n), Len(e), n, f)
<1> DEFINE gone == m + 1 .. Len(e)
<1>1. \A k \in gone : Slots(e, n)[k] # Vectors!RAW
  BY SlotsHold
<1>2. SubSeq(e, 1, m) \in Seq(Element) /\ Len(SubSeq(e, 1, m)) = m /\ \A k \in 1 .. m : SubSeq(e, 1, m)[k] = e[k]
  BY SubSeqProperties
<1>3. Vectors!Over(Slots(e, n), [k \in gone |-> Vectors!RAW]) = Slots(SubSeq(e, 1, m), n)
  BY <1>2 DEF Vectors!Over, Slots
<1> QED BY <1>1, <1>3, EmptiedVec DEF VecOf

LEMMA MovedVec ==
    ASSUME NEW e \in Seq(Element), NEW n \in Nat, Len(e) <= n, NEW f, NEW m \in Nat, Len(e) <= m
    PROVE  Vectors!Moved(VecOf(e, n, f), m) = VecOf(e, m, f)
<1> DEFINE o == VecOf(e, n, f)  gone == Vectors!Unmake(o, 1 .. o.size)
<1>0. o.size = Len(e) /\ o.data = Slots(e, n)
  BY DEF VecOf, Vec
<1>1. gone = Vec(Slots(<<>>, n), Len(e), n, f)
  <2>1. SubSeq(e, 1, 0) = <<>>
    BY SubSeqEmpty
  <2>2. Vectors!Unmake(o, 0 + 1 .. Len(e)) = Vec(Slots(SubSeq(e, 1, 0), n), Len(e), n, f)
    BY UnmadeVec
  <2>3. 1 .. o.size = 0 + 1 .. Len(e)
    BY <1>0
  <2> HIDE DEF o
  <2> QED BY <2>1, <2>2, <2>3
<1>2. gone.data = Slots(<<>>, n) /\ gone.faults = f
  BY <1>1 DEF Vec
<1>3. Vectors!Freed(gone).faults = f
  BY <1>1, <1>2 DEF Vectors!Freed, Vectors!Blame, Slots, Vec
<1>4. [k \in 1 .. m |-> IF k <= o.size THEN o.data[k] ELSE Vectors!RAW] = Slots(e, m)
  BY <1>0 DEF Slots
<1> HIDE DEF o, gone
<1> QED BY <1>0, <1>3, <1>4 DEF Vectors!Moved, Vectors!Taken, VecOf, Vec, o, gone

(* The powers of two that a capacity is looked for among.                  *)
Powers == {2^k : k \in 0 .. 16}
Positive == Nat \ {0}

LEMMA EachPower ==
    ASSUME NEW N,
           2^0 \in N, 2^1 \in N, 2^2 \in N, 2^3 \in N, 2^4 \in N, 2^5 \in N, 2^6 \in N, 2^7 \in N, 2^8 \in N,
           2^9 \in N, 2^10 \in N, 2^11 \in N, 2^12 \in N, 2^13 \in N, 2^14 \in N, 2^15 \in N, 2^16 \in N
    PROVE  Powers \subseteq N
<1>1. \A k \in 0 .. 16 : k = 0 \/ k = 1 \/ k = 2 \/ k = 3 \/ k = 4 \/ k = 5 \/ k = 6 \/ k = 7 \/ k = 8
        \/ k = 9 \/ k = 10 \/ k = 11 \/ k = 12 \/ k = 13 \/ k = 14 \/ k = 15 \/ k = 16
  BY ONLY TRUE
<1> QED BY <1>1, Zenon DEF Powers

LEMMA PositiveIs == \A p \in Positive : p \in Nat /\ p - 1 \in Nat
  BY DEF Positive

LEMMA PowersOf == Powers \subseteq Positive /\ 65536 \in Powers
<1>1. /\ 2^0 \in Positive /\ 2^1 \in Positive /\ 2^2 \in Positive /\ 2^3 \in Positive /\ 2^4 \in Positive /\ 2^5 \in Positive
      /\ 2^6 \in Positive /\ 2^7 \in Positive /\ 2^8 \in Positive /\ 2^9 \in Positive /\ 2^10 \in Positive /\ 2^11 \in Positive
      /\ 2^12 \in Positive /\ 2^13 \in Positive /\ 2^14 \in Positive /\ 2^15 \in Positive /\ 2^16 \in Positive
  BY DEF Positive
<1>2. Powers \subseteq Positive
  BY <1>1, EachPower
<1>3. 2^16 \in Powers
  <2>1. 16 \in 0 .. 16
    OBVIOUS
  <2> QED BY <2>1, Zenon DEF Powers
<1>4. 2^16 = 65536
  OBVIOUS
<1>5. 65536 \in Powers
  BY <1>3, <1>4
<1> QED BY <1>2, <1>5

LEMMA VectorBound == MaxVector \in Nat /\ MaxVector <= 65536
BY MemoryAssumption DEF Vectors!VectorAssumption

LEMMA ReservedVec ==
    ASSUME NEW e \in Seq(Element), NEW n \in Nat, Len(e) <= n, NEW f, NEW m \in 0 .. MaxVector
    PROVE  \E c \in Nat : c >= m /\ c >= n /\ Vectors!Reserved(VecOf(e, n, f), m) = VecOf(e, c, f)
<1> DEFINE o == VecOf(e, n, f)  d == Vectors!Doubled(n)  S == {c \in {d * p : p \in Powers} : c >= m}
<1>0. o.capacity = n
  BY DEF VecOf, Vec
<1>1. CASE n >= m
  BY <1>1, <1>0 DEF Vectors!Reserved
<1>2. CASE n < m
  <2>1. d \in Nat /\ d > n /\ d >= 1
    BY DEF Vectors!Doubled
  <2>2. Vectors!Reserved(o, m) = Vectors!Moved(o, Vectors!Min(S))
    <3>1. Vectors!Reserved(o, m) = Vectors!Moved(o, Vectors!Min({c \in {Vectors!Doubled(o.capacity) * 2^k : k \in 0 .. 16} : c >= m}))
      BY <1>2, <1>0 DEF Vectors!Reserved
    <3>2. {d * 2^k : k \in 0 .. 16} = {d * p : p \in Powers}
      BY Zenon DEF Powers
    <3> HIDE DEF d, o
    <3> QED BY <1>0, <3>1, <3>2 DEF d
  <2> HIDE DEF d
  <2>4. \A c \in S : c \in Nat /\ c >= d
    <3>1. \A p \in Positive : d * p \in Nat /\ d * p >= d
      <4> TAKE p \in Positive
      <4>1. p - 1 \in Nat /\ p \in Nat
        BY ONLY p \in Positive, PositiveIs
      <4>2. d * (p - 1) \in Nat /\ d * p = d * (p - 1) + d
        BY <2>1, <4>1
      <4> QED BY <2>1, <4>2
    <3> QED BY <3>1, PowersOf
  <2>5. S # {}
    <3>1. m <= 65536
      BY MemoryAssumption DEF Vectors!VectorAssumption
    <3>2. d * 65536 >= m
      BY <2>1, <3>1
    <3> QED BY <3>2, PowersOf
  <2>6. \E c \in S : \A b \in S : c <= b
    <3> HIDE DEF S
    <3> QED BY <2>4, <2>5, LeastOf
  <2>7. Vectors!Min(S) \in S
    <3> HIDE DEF S
    <3> QED BY <2>6 DEF Vectors!Min
  <2>9. Vectors!Min(S) >= m
    BY <2>7
  <2> HIDE DEF S
  <2>10. Vectors!Min(S) \in Nat /\ Vectors!Min(S) >= n
    BY <2>7, <2>4, <2>1
  <2> QED BY <2>2, <2>9, <2>10, MovedVec
<1> QED BY <1>1, <1>2

LEMMA VecType ==
    ASSUME NEW e \in Seq(Element), NEW n \in Nat, NEW f
    PROVE  /\ VecOf(e, n, f).data = Slots(e, n) /\ VecOf(e, n, f).size = Len(e)
           /\ VecOf(e, n, f).capacity = n /\ VecOf(e, n, f).faults = f
BY DEF VecOf, Vec

(* The slots from the size on filled: g is e with more elements.           *)
LEMMA MadeVec ==
    ASSUME NEW e \in Seq(Element), NEW g \in Seq(Element), Len(e) <= Len(g), \A k \in 1 .. Len(e) : g[k] = e[k],
           NEW n \in Nat, Len(g) <= n, NEW fill, DOMAIN fill = Len(e) + 1 .. Len(g), \A k \in DOMAIN fill : fill[k] = g[k],
           NEW m, NEW f
    PROVE  /\ Vectors!Make(Vec(Slots(e, n), m, n, f), fill) = Vec(Slots(g, n), m, n, f)
           /\ Len(g) > Len(e) => Vectors!Assign(Vec(Slots(e, n), m, n, f), fill) = Vec(Slots(g, n), m, n, Unmade(f))
<1>1. \A k \in DOMAIN fill : Slots(e, n)[k] = Vectors!RAW
  BY DEF Slots
<1>2. Vectors!Over(Slots(e, n), fill) = Slots(g, n)
  BY DEF Vectors!Over, Slots
<1>3. Len(g) > Len(e) => Len(g) \in DOMAIN fill
  OBVIOUS
<1>4. Vectors!Make(Vec(Slots(e, n), m, n, f), fill) = Vec(Slots(g, n), m, n, f)
  BY ONLY <1>1, <1>2, MadeRaw
<1>5. ASSUME Len(g) > Len(e)
      PROVE  Vectors!Assign(Vec(Slots(e, n), m, n, f), fill) = Vec(Slots(g, n), m, n, Unmade(f))
  <2>1. \E k \in DOMAIN fill : Slots(e, n)[k] = Vectors!RAW
    BY <1>1, <1>3, <1>5
  <2> QED BY ONLY <2>1, <1>2, AssignedRaw
<1> QED BY <1>4, <1>5

(* vector:18, 28 *)
LEMMA CopiedVec ==
    ASSUME NEW e \in Seq(Element), NEW n \in Nat, Len(e) <= n, Len(e) <= MaxVector, NEW f, NEW m \in Nat, NEW g
    PROVE  \E c \in Nat : c >= Len(e) /\ Vectors!CopiedFrom(VecOf(<<>>, m, f), VecOf(e, n, g)) = VecOf(e, c, f)
<1> DEFINE none == <<>>
<1>1. Len(e) \in 0 .. MaxVector /\ none \in Seq(Element) /\ Len(none) = 0 /\ Len(e) \in Nat
  BY VectorBound
<1> HIDE DEF none
<1>2. PICK c \in Nat : c >= Len(e) /\ Vectors!Reserved(VecOf(none, m, f), Len(e)) = VecOf(none, c, f)
  <2>1. Len(none) <= m
    BY <1>1
  <2> QED BY ONLY <1>1, <2>1, m \in Nat, ReservedVec
<1>3. DOMAIN e = Len(none) + 1 .. Len(e) /\ (\A k \in 1 .. Len(none) : e[k] = none[k])
  BY <1>1
<1>4. Vectors!Make(Vec(Slots(none, c), Len(none), c, f), e) = Vec(Slots(e, c), Len(none), c, f)
  <2>1. \A k \in DOMAIN e : Slots(none, c)[k] = Vectors!RAW
    BY <1>1, <1>2, <1>3 DEF Slots
  <2>2. Vectors!Over(Slots(none, c), e) = Slots(e, c)
    BY <1>1, <1>2, <1>3 DEF Slots, Vectors!Over
  <2> QED BY <2>1, <2>2, MadeRaw
<1>5. Vectors!Elements(VecOf(e, n, g)) = e /\ VecOf(e, n, g).size = Len(e)
  BY ElementsOf, VecType
<1>6. Vectors!CopiedFrom(VecOf(none, m, f), VecOf(e, n, g)) = [Vec(Slots(e, c), Len(none), c, f) EXCEPT !.size = Len(e)]
  BY <1>1, <1>2, <1>4, <1>5 DEF Vectors!CopiedFrom, VecOf
<1>7. [Vec(Slots(e, c), Len(none), c, f) EXCEPT !.size = Len(e)] = VecOf(e, c, f)
  BY DEF VecOf, Vec
<1> QED BY <1>2, <1>6, <1>7 DEF none

(* What resizing leaves: the first elements, and then those of x.          *)
Fitted(e, m, x) == [k \in 1 .. m |-> IF k <= Len(e) THEN e[k] ELSE x[k]]

(* What comes into the slots behind the elements.                          *)
Fill(e, m, x) == DOMAIN x = Len(e) + 1 .. m /\ \A k \in DOMAIN x : x[k] \in Element

LEMMA FittedSeq ==
    ASSUME NEW e \in Seq(Element), NEW m \in Nat, NEW x, Fill(e, m, x)
    PROVE  /\ Fitted(e, m, x) \in Seq(Element) /\ Len(Fitted(e, m, x)) = m
           /\ \A k \in 1 .. m : Fitted(e, m, x)[k] = IF k <= Len(e) THEN e[k] ELSE x[k]
           /\ m <= Len(e) => Fitted(e, m, x) = SubSeq(e, 1, m)
<1>1. ASSUME NEW k \in 1 .. m
      PROVE  (IF k <= Len(e) THEN e[k] ELSE x[k]) \in Element
  BY DEF Fill
<1> QED BY <1>1 DEF Fitted

LEMMA FillAlike ==
    ASSUME NEW e \in Seq(Element), NEW n \in Nat, NEW f, NEW m \in Nat, NEW v \in Element
    PROVE  Fill(e, m, Vectors!Alike(VecOf(e, n, f), m, v))
BY VecType DEF Fill, Vectors!Alike

(* vector:107-134 *)
LEMMA ShrunkVec ==
    ASSUME NEW e \in Seq(Element), NEW n \in Nat, Len(e) <= n, NEW f, NEW m \in 0 .. MaxVector, m <= Len(e),
           NEW fill, Fill(e, m, fill), NEW made \in BOOLEAN
    PROVE  \E c \in Nat : c >= m /\ Vectors!Resized(VecOf(e, n, f), m, fill, made) = VecOf(Fitted(e, m, fill), c, f)
<1> DEFINE r == Fitted(e, m, fill)
<1>1. m \in 0 .. Len(e) /\ m \in Nat
  BY VectorBound
<1>2. PICK c \in Nat : c >= m /\ c >= n /\ Vectors!Reserved(VecOf(e, n, f), m) = VecOf(e, c, f)
  BY ReservedVec
<1>3. DOMAIN fill = {}
  BY DEF Fill
<1> HIDE DEF r
<1>4. Vectors!Put(VecOf(e, c, f), fill, made) = VecOf(e, c, f)
  BY <1>3, NoneFilled DEF Vectors!Put, VecOf
<1>5. r = SubSeq(e, 1, m) /\ Len(r) = m
  BY ONLY <1>1, e \in Seq(Element), Fill(e, m, fill), FittedSeq DEF r
<1>6. Vectors!Unmake(VecOf(e, c, f), m + 1 .. Len(e)) = Vec(Slots(r, c), Len(e), c, f)
  <2>1. Len(e) <= c
    BY <1>2
  <2> QED BY ONLY <1>1, <1>2, <1>5, <2>1, e \in Seq(Element), UnmadeVec
<1>7. [Vec(Slots(r, c), Len(e), c, f) EXCEPT !.size = m] = VecOf(r, c, f)
  BY <1>5 DEF Vec, VecOf
<1>8. VecOf(e, n, f).size = Len(e)
  BY VecType
<1> QED BY <1>2, <1>4, <1>6, <1>7, <1>8 DEF Vectors!Resized, r

LEMMA GrownVec ==
    ASSUME NEW e \in Seq(Element), NEW n \in Nat, Len(e) <= n, NEW f, NEW m \in 0 .. MaxVector, m > Len(e),
           NEW fill, Fill(e, m, fill)
    PROVE  \E c \in Nat : c >= m /\ \A made \in BOOLEAN : \E h \in {f, Unmade(f)} :
             Vectors!Resized(VecOf(e, n, f), m, fill, made) = VecOf(Fitted(e, m, fill), c, h)
<1> DEFINE r == Fitted(e, m, fill)
<1>1. PICK c \in Nat : c >= m /\ c >= n /\ Vectors!Reserved(VecOf(e, n, f), m) = VecOf(e, c, f)
  BY ReservedVec
<1>0. m \in Nat
  BY VectorBound
<1>2. r \in Seq(Element) /\ Len(r) = m /\ \A k \in 1 .. m : r[k] = IF k <= Len(e) THEN e[k] ELSE fill[k]
  BY ONLY <1>0, e \in Seq(Element), Fill(e, m, fill), FittedSeq
<1> HIDE DEF r
<1>3. DOMAIN fill = Len(e) + 1 .. Len(r) /\ (\A k \in DOMAIN fill : fill[k] = r[k]) /\ \A k \in 1 .. Len(e) : r[k] = e[k]
  BY SMTT(30), <1>2 DEF Fill
<1>4. /\ Vectors!Make(Vec(Slots(e, c), Len(e), c, f), fill) = Vec(Slots(r, c), Len(e), c, f)
      /\ Vectors!Assign(Vec(Slots(e, c), Len(e), c, f), fill) = Vec(Slots(r, c), Len(e), c, Unmade(f))
  <2>1. Len(e) <= Len(r) /\ Len(r) <= c /\ c \in Nat /\ Len(r) > Len(e)
    BY <1>1, <1>2, VectorBound
  <2> QED BY ONLY <1>2, <1>3, <2>1, e \in Seq(Element), MadeVec
<1>5. ASSUME NEW h
      PROVE  [Vectors!Unmake(Vec(Slots(r, c), Len(e), c, h), m + 1 .. Len(e)) EXCEPT !.size = m] = VecOf(r, c, h)
  <2> DEFINE none == m + 1 .. Len(e)
  <2>1. none = {}
    BY VectorBound
  <2> HIDE DEF none
  <2>2. Vectors!Over(Slots(r, c), [k \in none |-> Vectors!RAW]) = Slots(r, c)
    BY <2>1 DEF Vectors!Over, Slots
  <2>3. Vectors!Unmake(Vec(Slots(r, c), Len(e), c, h), none) = Vec(Slots(r, c), Len(e), c, h)
    <3>1. \A k \in none : Slots(r, c)[k] # Vectors!RAW
      BY <2>1
    <3> QED BY <2>2, <3>1, EmptiedVec
  <2>4. [Vec(Slots(r, c), Len(e), c, h) EXCEPT !.size = m] = VecOf(r, c, h)
    BY <1>2 DEF Vec, VecOf
  <2> QED BY <2>3, <2>4 DEF none
<1>6. VecOf(e, n, f).size = Len(e)
  BY VecType
<1>7. \A made \in BOOLEAN : Vectors!Resized(VecOf(e, n, f), m, fill, made)
        = [Vectors!Unmake(Vectors!Put(VecOf(e, c, f), fill, made), m + 1 .. Len(e)) EXCEPT !.size = m]
  BY <1>1, <1>6 DEF Vectors!Resized
<1>8. ASSUME NEW made \in BOOLEAN
      PROVE  \E h \in {f, Unmade(f)} : Vectors!Put(VecOf(e, c, f), fill, made) = Vec(Slots(r, c), Len(e), c, h)
  BY <1>4 DEF Vectors!Put, VecOf
<1>9. ASSUME NEW made \in BOOLEAN
      PROVE  \E h \in {f, Unmade(f)} : Vectors!Resized(VecOf(e, n, f), m, fill, made) = VecOf(r, c, h)
  BY <1>5, <1>7, <1>8
<1> QED BY <1>1, <1>9 DEF r

(* vector:34, 42-45 *)
LEMMA VecEmptied ==
    ASSUME NEW e \in Seq(Element), NEW n \in Nat, Len(e) <= n, NEW f
    PROVE  Vectors!Emptied(VecOf(e, n, f)) = VecOf(<<>>, n, f)
<1> DEFINE none == SubSeq(e, 1, 0)
<1>1. none = <<>> /\ Len(none) = 0
  OBVIOUS
<1>2. Vectors!Unmake(VecOf(e, n, f), 0 + 1 .. Len(e)) = Vec(Slots(none, n), Len(e), n, f)
  BY UnmadeVec
<1>3. VecOf(e, n, f).size = Len(e)
  BY VecType
<1> HIDE DEF none
<1>4. [Vec(Slots(none, n), Len(e), n, f) EXCEPT !.size = 0] = VecOf(none, n, f)
  BY <1>1 DEF Vec, VecOf
<1>5. Vectors!Emptied(VecOf(e, n, f)) = [Vec(Slots(none, n), Len(e), n, f) EXCEPT !.size = 0]
  <2>1. Vectors!Emptied(VecOf(e, n, f)) = [Vectors!Unmake(VecOf(e, n, f), 1 .. Len(e)) EXCEPT !.size = 0]
    BY <1>3 DEF Vectors!Emptied
  <2> QED BY <1>2, <2>1
<1> QED BY <1>1, <1>4, <1>5

(* vector:41-49 *)
LEMMA VecFreed ==
    ASSUME NEW n \in Nat, NEW f, NEW none, none = <<>>
    PROVE  /\ Vectors!Freed(VecOf(none, n, f)).faults = f
           /\ [Vectors!Freed(VecOf(none, n, f)) EXCEPT !.capacity = 0] = VecOf(none, 0, f)
<1>1. \A k \in 1 .. n : Slots(none, n)[k] = Vectors!RAW
  BY DEF Slots
<1>2. Vectors!Freed(VecOf(none, n, f)) = [VecOf(none, n, f) EXCEPT !.data = <<>>]
  BY <1>1 DEF Vectors!Freed, Vectors!Blame, Slots, VecOf, Vec
<1>3. [VecOf(none, n, f) EXCEPT !.data = <<>>] = Vec(<<>>, Len(none), n, f)
  BY DEF VecOf, Vec
<1>4. Slots(none, 0) = <<>>
  BY DEF Slots
<1>5. [Vec(<<>>, Len(none), n, f) EXCEPT !.capacity = 0] = Vec(<<>>, Len(none), 0, f)
  BY DEF Vec
<1>6. Vec(<<>>, Len(none), n, f).faults = f
  BY DEF Vec
<1> QED BY <1>2, <1>3, <1>4, <1>5, <1>6 DEF VecOf

(* vector:50-57 *)
LEMMA VecCleared ==
    ASSUME NEW n \in Nat, NEW f, NEW none, none = <<>>
    PROVE  Vectors!Grow([VecOf(none, n, f) EXCEPT !.capacity = 0]) = VecOf(none, 1, f)
<1> DEFINE o == Vec(Slots(none, n), Len(none), 0, f)
<1>1. [VecOf(none, n, f) EXCEPT !.capacity = 0] = o
  BY DEF VecOf, Vec
<1>2. o.size = 0 /\ o.capacity = 0 /\ o.data = Slots(none, n)
  BY DEF Vec
<1>3. \A k \in 1 .. n : Slots(none, n)[k] = Vectors!RAW
  BY DEF Slots
<1> DEFINE gone == 1 .. o.size
<1>4. gone = {}
  BY <1>2
<1> HIDE DEF gone
<1>5. Vectors!Over(Slots(none, n), [k \in gone |-> Vectors!RAW]) = Slots(none, n)
  BY <1>4 DEF Vectors!Over, Slots
<1>6. Vectors!Unmake(o, gone) = o
  <2>1. \A k \in gone : Slots(none, n)[k] # Vectors!RAW
    BY <1>4
  <2> QED BY <1>5, <2>1, EmptiedVec
<1>7. Vectors!Freed(o).faults = f
  BY <1>3 DEF Vectors!Freed, Vectors!Blame, Slots, Vec
<1>8. Vectors!Taken(o, o, 1) = VecOf(none, 1, f)
  BY <1>2, <1>7 DEF Vectors!Taken, VecOf, Vec, Slots
<1>9. Vectors!Grow(o) = Vectors!Moved(o, 1)
  BY <1>2 DEF Vectors!Grow, Vectors!Doubled
<1> HIDE DEF o
<1> QED BY <1>1, <1>6, <1>8, <1>9 DEF Vectors!Moved, gone

(* vector:58-64 *)
Freed(f) == f \cup {"read freed"}

LEMMA BlamedVec ==
    ASSUME NEW e, NEW n, NEW f
    PROVE  Vectors!ReadFreed(VecOf(e, n, f)) = VecOf(e, n, Freed(f))
<1>1. \A q : [VecOf(e, n, f) EXCEPT !.faults = q] = VecOf(e, n, q)
  BY DEF VecOf, Vec
<1>2. VecOf(e, n, f).faults = f
  BY DEF VecOf, Vec
<1> QED BY <1>1, <1>2 DEF Vectors!ReadFreed, Vectors!Blame, Freed

LEMMA VecPushed ==
    ASSUME NEW e \in Seq(Element), NEW n \in Nat, Len(e) <= n, NEW f, NEW v \in Element
    PROVE  \E c \in Nat : c >= Len(e) + 1 /\ Vectors!Pushed(VecOf(e, n, f), v) = VecOf(Append(e, v), c, f)
<1> DEFINE o == VecOf(e, n, f)  full == o.size = o.capacity  g == Append(e, v)
           room == IF full THEN Vectors!Grow(o) ELSE o
           fill == [k \in {o.size + 1} |-> v]
<1>0. o.size = Len(e) /\ o.capacity = n
  BY VecType
<1>1. PICK c \in Nat : c >= Len(e) + 1 /\ room = VecOf(e, c, f)
  <2>1. CASE full
    <3>1. Vectors!Doubled(n) \in Nat /\ Vectors!Doubled(n) >= Len(e) + 1
      BY <1>0, <2>1 DEF Vectors!Doubled
    <3> HIDE DEF o
    <3>2. Vectors!Grow(o) = Vectors!Moved(o, Vectors!Doubled(n))
      BY <1>0 DEF Vectors!Grow
    <3>3. Vectors!Moved(o, Vectors!Doubled(n)) = VecOf(e, Vectors!Doubled(n), f)
      BY <3>1, MovedVec DEF o
    <3> QED BY <2>1, <3>1, <3>2, <3>3
  <2>2. CASE ~ full
    BY <1>0, <2>2
  <2> QED BY <2>1, <2>2
<1>3. g \in Seq(Element) /\ Len(g) = Len(e) + 1 /\ g[Len(g)] = v /\ \A k \in 1 .. Len(e) : g[k] = e[k]
  OBVIOUS
<1>4. fill = [k \in {Len(e) + 1} |-> v]
  BY <1>0
<1> HIDE DEF fill, g
<1>5. (\A k \in DOMAIN fill : Slots(e, c)[k] = Vectors!RAW) /\ Vectors!Over(Slots(e, c), fill) = Slots(g, c)
  BY <1>1, <1>3, <1>4 DEF Slots, Vectors!Over
<1>6. Vectors!Make(VecOf(e, c, f), fill) = Vec(Slots(g, c), Len(e), c, f)
  BY <1>5, MadeRaw DEF VecOf
<1>7. [Vec(Slots(g, c), Len(e), c, f) EXCEPT !.size = @ + 1] = VecOf(g, c, f)
  BY <1>3 DEF Vec, VecOf
<1>8. Vectors!Pushed(o, v) = [Vectors!Make(VecOf(e, c, f), fill) EXCEPT !.size = @ + 1]
  BY <1>1 DEF Vectors!Pushed, fill
<1> HIDE DEF o
<1>9. Vectors!Pushed(o, v) = VecOf(g, c, f)
  BY <1>6, <1>7, <1>8
<1> QED BY <1>1, <1>9 DEF g, o

(* vector:79-88 *)
LEMMA VecErased ==
    ASSUME NEW e \in Seq(Element), NEW n \in Nat, Len(e) <= n, NEW f, NEW p \in 1 .. Len(e)
    PROVE  Vectors!Erased(VecOf(e, n, f), p) = VecOf(SubSeq(e, 1, p - 1) \o SubSeq(e, p + 1, Len(e)), n, f)
<1> DEFINE o == VecOf(e, n, f)  kept == SubSeq(e, 1, p - 1)  g == kept \o SubSeq(e, p + 1, Len(e))
           fill == [k \in p .. Len(e) - 1 |-> Slots(e, n)[k + 1]]
<1>0. o.size = Len(e) /\ o.data = Slots(e, n)
  BY VecType
<1>1. kept \in Seq(Element) /\ Len(kept) = p - 1 /\ p - 1 \in 0 .. Len(e) /\ \A k \in 1 .. p - 1 : kept[k] = e[k]
  OBVIOUS
<1> HIDE DEF kept
<1>2. g \in Seq(Element) /\ Len(g) = Len(e) - 1 /\ \A k \in 1 .. Len(e) - 1 : g[k] = IF k < p THEN e[k] ELSE e[k + 1]
  <2> DEFINE rest == SubSeq(e, p + 1, Len(e))
  <2>1. rest \in Seq(Element) /\ Len(rest) = Len(e) - p /\ \A k \in 1 .. Len(e) - p : rest[k] = e[k + p]
    OBVIOUS
  <2> HIDE DEF rest
  <2>2. g = kept \o rest
    BY DEF rest
  <2> HIDE DEF g
  <2>3. g \in Seq(Element) /\ Len(g) = Len(e) - 1
    BY <1>1, <2>1, <2>2
  <2>4. \A k \in 1 .. Len(e) - 1 : g[k] = IF k <= p - 1 THEN kept[k] ELSE rest[k - (p - 1)]
    BY <1>1, <2>1, <2>2
  <2> QED BY SMTT(30), <1>1, <2>1, <2>3, <2>4
<1> HIDE DEF g
<1>3. Vectors!Unmake(o, p .. Len(e)) = Vec(Slots(kept, n), Len(e), n, f)
  <2>1. Vectors!Unmake(VecOf(e, n, f), (p - 1) + 1 .. Len(e)) = Vec(Slots(SubSeq(e, 1, p - 1), n), Len(e), n, f)
    BY <1>1, UnmadeVec
  <2>2. (p - 1) + 1 = p
    OBVIOUS
  <2> QED BY <2>1, <2>2 DEF kept
<1>4. /\ \A k \in DOMAIN fill : Slots(kept, n)[k] = Vectors!RAW
      /\ Vectors!Over(Slots(kept, n), fill) = Slots(g, n)
  BY SMTT(30), <1>1, <1>2 DEF Slots, Vectors!Over
<1>5. fill = [k \in p .. o.size - 1 |-> o.data[k + 1]]
  BY <1>0
<1> HIDE DEF fill
<1>6. Vectors!Make(Vec(Slots(kept, n), Len(e), n, f), fill) = Vec(Slots(g, n), Len(e), n, f)
  BY <1>4, MadeRaw
<1>7. [Vec(Slots(g, n), Len(e), n, f) EXCEPT !.size = @ - 1] = VecOf(g, n, f)
  BY <1>2 DEF Vec, VecOf
<1>8. Vectors!Erased(o, p) = [Vectors!Make(Vectors!Unmake(o, p .. Len(e)), fill) EXCEPT !.size = @ - 1]
  BY <1>0, <1>5 DEF Vectors!Erased
<1> QED BY <1>3, <1>6, <1>7, <1>8 DEF g, kept

(***************************************************************************)
(* Every vector is the array of its elements, whatever the program does.   *)
(***************************************************************************)
IsVec(o) == \E e \in Seq(Element), n \in Nat : Len(e) <= n /\ Len(e) <= MaxVector /\ o = VecOf(e, n, {})

VectorInv ==
    /\ vectors \subseteq VectorNames
    /\ vec = [s \in VectorNames |-> vec[s]] /\ \A s \in VectorNames : IsVec(vec[s])
    /\ \A s \in VectorNames \ vectors : vec[s] = Vectors!Nothing
    /\ Vectors!LivesOnce

(* The elements of each: what AbstractVector sees.                         *)
Contents == [s \in VectorNames |-> Vectors!Elements(vec[s])]

Faults == {"assigned raw", "read freed"}

LEMMA NothingVec == Vectors!Nothing = VecOf(<<>>, 0, {}) /\ IsVec(Vectors!Nothing)
<1>1. Vectors!Nothing = VecOf(<<>>, 0, {})
  BY DEF Vectors!Nothing, VecOf, Vec, Slots
<1> DEFINE none == <<>>
<1>2. none \in Seq(Element) /\ Len(none) = 0 /\ Len(none) \in Nat /\ Len(none) <= Len(none) /\ Len(none) <= MaxVector
  BY VectorBound
<1> HIDE DEF none
<1>3. IsVec(VecOf(none, Len(none), {}))
  BY <1>2 DEF IsVec
<1> QED BY <1>1, <1>2, <1>3 DEF none

LEMMA BecomeVec ==
    ASSUME VectorInv, NEW s \in VectorNames, NEW e \in Seq(Element), NEW n \in Nat, Len(e) <= n, NEW h,
           Vectors!Become(s, VecOf(e, n, h))
    PROVE  /\ vec' = [q \in VectorNames |-> vec'[q]] /\ \A q \in VectorNames : IsVec(vec'[q])
           /\ \A q \in VectorNames \ {s} : vec'[q] = vec[q]
           /\ vec'[s] = VecOf(e, n, {}) /\ undone' = h
           /\ Contents' = [Contents EXCEPT ![s] = e]
<1>1. VecOf(e, n, h).size = Len(e) /\ VecOf(e, n, h).faults = h
  BY VecType
<1>2. [VecOf(e, n, h) EXCEPT !.faults = {}] = VecOf(e, n, {})
  <2>1. \A q : [VecOf(e, n, h) EXCEPT !.faults = q] = VecOf(e, n, q)
    BY DEF VecOf, Vec
  <2> QED BY <2>1
<1>3. Len(e) <= MaxVector /\ vec' = [vec EXCEPT ![s] = VecOf(e, n, {})] /\ undone' = h
  BY <1>1, <1>2 DEF Vectors!Become
<1>4. /\ vec' = [q \in VectorNames |-> vec'[q]] /\ vec'[s] = VecOf(e, n, {})
      /\ \A q \in VectorNames \ {s} : vec'[q] = vec[q]
  BY <1>3 DEF VectorInv
<1>5. \A q \in VectorNames : IsVec(vec'[q])
  <2>1. IsVec(VecOf(e, n, {}))
    BY <1>3 DEF IsVec
  <2> QED BY <1>4, <2>1 DEF VectorInv
<1>6. Contents' = [Contents EXCEPT ![s] = e]
  <2>1. Vectors!Elements(VecOf(e, n, {})) = e
    BY ElementsOf
  <2>2. Contents' = [q \in VectorNames |-> Vectors!Elements(vec'[q])]
    BY DEF Contents, Vectors!Elements
  <2> QED BY <1>4, <2>1, <2>2 DEF Contents
<1> QED BY <1>3, <1>4, <1>5, <1>6

(* What is known of a vector.                                              *)
LEMMA VecIs ==
    ASSUME VectorInv, NEW s \in VectorNames
    PROVE  \E e \in Seq(Element), n \in Nat : Len(e) <= n /\ Len(e) <= MaxVector /\ vec[s] = VecOf(e, n, {}) /\ Contents[s] = e
<1>1. PICK e \in Seq(Element), n \in Nat : Len(e) <= n /\ Len(e) <= MaxVector /\ vec[s] = VecOf(e, n, {})
  BY DEF VectorInv, IsVec
<1> QED BY <1>1, ElementsOf DEF Contents

(* The fault of a call that broke nothing.                                 *)
Plain == {"assigned raw"}

LEMMA PlainFaults ==
    ASSUME NEW h \in SUBSET Plain
    PROVE  h \in SUBSET Faults /\ Freed(h) \in SUBSET Faults /\ "read freed" \notin h /\ "read freed" \in Freed(h)
BY DEF Plain, Faults, Freed

Resizes(o, e, m, x) ==
    \E c \in Nat, h \in SUBSET Plain : c >= m /\ (m <= Len(e) => h = {}) /\ o = VecOf(Fitted(e, m, x), c, h)

LEMMA VecResized ==
    ASSUME NEW e \in Seq(Element), NEW n \in Nat, Len(e) <= n, NEW m \in 0 .. MaxVector, NEW x, Fill(e, m, x),
           NEW made \in BOOLEAN
    PROVE  Resizes(Vectors!Resized(VecOf(e, n, {}), m, x, made), e, m, x)
<1> DEFINE f == {}
<1>1. CASE m <= Len(e)
  <2>1. f \in SUBSET Plain
    OBVIOUS
  <2> HIDE DEF f
  <2>2. \E c \in Nat : c >= m /\ Vectors!Resized(VecOf(e, n, f), m, x, made) = VecOf(Fitted(e, m, x), c, f)
    BY <1>1, ShrunkVec
  <2> QED BY <2>1, <2>2 DEF f, Resizes
<1>2. CASE m > Len(e)
  <2>1. f \in SUBSET Plain /\ Unmade(f) \in SUBSET Plain
    BY DEF Unmade, Plain
  <2> HIDE DEF f
  <2>2. \E c \in Nat : c >= m /\ \E h \in {f, Unmade(f)} : Vectors!Resized(VecOf(e, n, f), m, x, made) = VecOf(Fitted(e, m, x), c, h)
    BY <1>2, GrownVec
  <2>3. ~ m <= Len(e)
    BY <1>2
  <2> QED BY <2>1, <2>2, <2>3 DEF f, Resizes
<1>3. m \in Int
  OBVIOUS
<1> QED BY <1>1, <1>2, <1>3

(* What FaultsFrom says of a step.                                         *)
Blames ==
    /\ undone' # {} => \E s \in vectors' : vec'[s].size > vec[s].size
    /\ Vectors!Broken' =>
         \E s \in vectors : vec[s].size \in 1 .. vec'[s].size - 1 /\ vec[s].capacity < vec'[s].size

(* A call that broke nothing.                                              *)
Whole == Blames /\ Vectors!Broken' = FALSE

LEMMA NoneBlamed == undone' = {} => Whole
BY DEF Whole, Blames, Vectors!Broken

LEMMA NotMember == \A h, x : x \notin h => (x \in h) = FALSE
<1> TAKE h, x
<1>1. (x \in h) \in BOOLEAN
  OBVIOUS
<1> QED BY <1>1

LEMMA PlainBlamed ==
    ASSUME NEW h \in SUBSET Plain, undone' = h, NEW s \in vectors', h # {} => vec'[s].size > vec[s].size
    PROVE  Whole
<1>1. "read freed" \notin h
  BY ONLY PlainFaults, h \in SUBSET Plain
<1>2. ("read freed" \in undone') = FALSE
  <2>1. "read freed" \notin undone'
    BY <1>1
  <2> QED BY ONLY <2>1, NotMember
<1>3. Vectors!Broken' = FALSE
  BY <1>2, Zenon DEF Vectors!Broken
<1> QED BY <1>3 DEF Whole, Blames

LEMMA VectorStarts == Vectors!Init => VectorInv /\ Vectors!Abstract!Init
<1> SUFFICES ASSUME Vectors!Init PROVE VectorInv /\ Vectors!Abstract!Init
  OBVIOUS
<1>1. vectors = {} /\ vec = [s \in VectorNames |-> Vectors!Nothing] /\ undone = {}
  BY DEF Vectors!Init
<1>2. VectorInv
  BY <1>1, NothingVec DEF VectorInv, Vectors!LivesOnce
<1>4. Vectors!Broken = FALSE
  BY <1>1 DEF Vectors!Broken
<1>3. Contents = [s \in VectorNames |-> <<>>]
  BY <1>1, NothingVec, ElementsOf DEF Contents, Vectors!Elements, Vectors!Nothing
<1> QED BY <1>1, <1>2, <1>3, <1>4 DEF Vectors!Abstract!Init, Contents

LEMMA VectorKept ==
    ASSUME VectorInv, NEW s \in VectorNames, NEW e \in Seq(Element), NEW n \in Nat, Len(e) <= n, NEW h \in SUBSET Faults,
           Vectors!Become(s, VecOf(e, n, h)),
           \/ vectors' = vectors /\ s \in vectors
           \/ vectors' = vectors \cup {s}
           \/ vectors' = vectors \ {s} /\ VecOf(e, n, {}) = Vectors!Nothing
    PROVE  VectorInv' /\ Contents' = [Contents EXCEPT ![s] = e] /\ vec'[s] = VecOf(e, n, {}) /\ undone' = h
<1>1. /\ vec' = [q \in VectorNames |-> vec'[q]] /\ \A q \in VectorNames : IsVec(vec'[q])
      /\ \A q \in VectorNames \ {s} : vec'[q] = vec[q]
      /\ vec'[s] = VecOf(e, n, {}) /\ undone' = h
      /\ Contents' = [Contents EXCEPT ![s] = e]
  BY BecomeVec
<1>2. vectors' \subseteq VectorNames /\ \A q \in VectorNames \ vectors' : vec'[q] = Vectors!Nothing
  BY <1>1 DEF VectorInv
<1>3. Vectors!LivesOnce'
  BY <1>1 DEF Vectors!LivesOnce, Faults
<1> QED BY <1>1, <1>2, <1>3 DEF VectorInv

LEMMA ConstructMeant ==
    ASSUME VectorInv, NEW s \in VectorNames, Vectors!Construct(s)
    PROVE  VectorInv' /\ Vectors!Abstract!Make(s) /\ Blames
<1> DEFINE none == <<>>  zero == 0  clean == {}  made == FALSE
<1>1. /\ Vectors!Nothing = VecOf(none, zero, clean) /\ none \in Seq(Element) /\ Len(none) = 0 /\ Len(none) <= zero
      /\ zero \in Nat /\ clean \in SUBSET Faults /\ clean = {} /\ made \in BOOLEAN
  BY NothingVec
<1>2. s \notin vectors /\ vectors' = vectors \cup {s}
  BY DEF Vectors!Construct
<1> HIDE DEF none, zero, clean, made
<1>3. SUFFICES VectorInv' /\ Whole
                /\ (\/ \E n \in 0 .. MaxVector, x \in Element : Contents' = [Contents EXCEPT ![s] = [k \in 1 .. n |-> x]]
                   \/ \E t \in vectors : Contents' = [Contents EXCEPT ![s] = Contents[t]])
  BY <1>2 DEF Vectors!Abstract!Make, Vectors!Abstract!Become, Contents, Element, Vectors!DEFAULT, Vectors!Abstract!DEFAULT,
       Vectors!Abstract!Element, Vectors!Abstract!Alike, Whole
<1>4. CASE Vectors!Become(s, Vectors!Nothing)
  <2>1. VectorInv' /\ Contents' = [Contents EXCEPT ![s] = none] /\ Whole
    BY <1>1, <1>2, <1>4, VectorKept, NoneBlamed
  <2>2. none = [k \in 1 .. 0 |-> 0] /\ 0 \in 0 .. MaxVector /\ 0 \in Element
    BY VectorBound DEF none, Element, Vectors!DEFAULT
  <2> QED BY <2>1, <2>2
<1>5. ASSUME NEW m \in 0 .. MaxVector, NEW v \in Element,
             Vectors!Become(s, Vectors!Resized(Vectors!Nothing, m, Vectors!Alike(Vectors!Nothing, m, v), made))
      PROVE  VectorInv' /\ Whole /\ Contents' = [Contents EXCEPT ![s] = [k \in 1 .. m |-> v]]
  <2> DEFINE x == Vectors!Alike(Vectors!Nothing, m, v)  g == Fitted(none, m, x)
  <2>0. m \in Nat
    BY VectorBound
  <2>1. Fill(none, m, x)
    BY <1>1, <2>0, FillAlike
  <2>2. g \in Seq(Element) /\ Len(g) = m
    BY ONLY <1>1, <2>0, <2>1, FittedSeq
  <2>3. g = [k \in 1 .. m |-> v]
    <3>0. Vectors!Nothing.size = 0
      BY DEF Vectors!Nothing
    <3>1. DOMAIN x = 1 .. m /\ \A k \in 1 .. m : x[k] = v
      BY ONLY <2>0, <3>0 DEF Vectors!Alike
    <3> HIDE DEF x
    <3> QED BY <1>1, <2>0, <3>1 DEF Fitted
  <2> HIDE DEF x
  <2>4. PICK c \in Nat, h \in SUBSET Plain :
          /\ c >= m /\ (m <= Len(none) => h = {})
          /\ Vectors!Resized(Vectors!Nothing, m, x, made) = VecOf(g, c, h)
    <3>1. Resizes(Vectors!Resized(VecOf(none, zero, {}), m, x, made), none, m, x)
      BY ONLY <1>1, <2>1, m \in 0 .. MaxVector, VecResized
    <3> QED BY <1>1, <3>1 DEF Resizes
  <2> HIDE DEF g
  <2>5. VectorInv' /\ Contents' = [Contents EXCEPT ![s] = g] /\ vec'[s] = VecOf(g, c, {}) /\ undone' = h
    <3>1. Len(g) <= c /\ h \in SUBSET Faults
      BY <2>2, <2>4, PlainFaults
    <3>2. Vectors!Become(s, VecOf(g, c, h))
      BY <1>5, <2>4 DEF x
    <3> QED BY <1>2, <2>2, <3>1, <3>2, VectorKept
  <2>6. Whole
    <3>1. vec'[s].size = m
      BY <2>2, <2>5, VecType
    <3>2. vec[s].size = 0
      BY <1>2 DEF VectorInv, Vectors!Nothing
    <3>3. h # {} => m > 0
      BY <1>1, <2>0, <2>4
    <3> QED BY <1>2, <2>5, <3>1, <3>2, <3>3, PlainBlamed
  <2> QED BY <2>3, <2>5, <2>6
<1>6. ASSUME NEW t \in vectors, Vectors!Become(s, Vectors!CopiedFrom(Vectors!Nothing, vec[t]))
      PROVE  VectorInv' /\ Whole /\ Contents' = [Contents EXCEPT ![s] = Contents[t]]
  <2>1. PICK e \in Seq(Element), n \in Nat : Len(e) <= n /\ Len(e) <= MaxVector /\ vec[t] = VecOf(e, n, {}) /\ Contents[t] = e
    BY VecIs DEF VectorInv
  <2>2. PICK c \in Nat : c >= Len(e) /\ Vectors!CopiedFrom(Vectors!Nothing, vec[t]) = VecOf(e, c, {})
    BY <1>1, <2>1, CopiedVec DEF none
  <2>3. VectorInv' /\ Contents' = [Contents EXCEPT ![s] = e] /\ Whole
    BY <1>1, <1>2, <1>6, <2>2, VectorKept, NoneBlamed
  <2> QED BY <2>1, <2>3
<1>7. \/ Vectors!Become(s, Vectors!Nothing)
      \/ \E m \in 0 .. MaxVector, v \in Element :
            Vectors!Become(s, Vectors!Resized(Vectors!Nothing, m, Vectors!Alike(Vectors!Nothing, m, v), made))
      \/ \E t \in vectors : Vectors!Become(s, Vectors!CopiedFrom(Vectors!Nothing, vec[t]))
  BY DEF Vectors!Construct, Element, Vectors!Element, made
<1>8. CASE \E m \in 0 .. MaxVector, v \in Element :
                 Vectors!Become(s, Vectors!Resized(Vectors!Nothing, m, Vectors!Alike(Vectors!Nothing, m, v), made))
  BY <1>5, <1>8
<1>9. CASE \E t \in vectors : Vectors!Become(s, Vectors!CopiedFrom(Vectors!Nothing, vec[t]))
  BY <1>6, <1>9
<1> QED BY <1>4, <1>7, <1>8, <1>9


LEMMA MovedMeant ==
    ASSUME VectorInv, NEW s \in VectorNames, NEW t \in vectors, s # t,
           vec' = [vec EXCEPT ![s] = vec[t], ![t] = Vectors!Nothing], vectors' = vectors \cup {s}, undone' = {}
    PROVE  VectorInv' /\ Contents' = [Contents EXCEPT ![s] = Contents[t], ![t] = <<>>] /\ Whole
<1>1. t \in VectorNames
  BY DEF VectorInv
<1>2. vec' = [q \in VectorNames |-> IF q = t THEN Vectors!Nothing ELSE IF q = s THEN vec[t] ELSE vec[q]]
  BY <1>1 DEF VectorInv
<1>3. VectorInv'
  BY <1>1, <1>2, NothingVec DEF VectorInv, Vectors!LivesOnce, Faults
<1>4. Vectors!Elements(Vectors!Nothing) = <<>>
  BY DEF Vectors!Elements, Vectors!Nothing
<1>5. Contents' = [q \in VectorNames |-> Vectors!Elements(vec'[q])]
  BY DEF Contents, Vectors!Elements
<1>6. Contents' = [q \in VectorNames |-> IF q = t THEN <<>> ELSE IF q = s THEN Contents[t] ELSE Contents[q]]
  BY <1>1, <1>2, <1>4, <1>5 DEF Contents
<1>7. [Contents EXCEPT ![s] = Contents[t], ![t] = <<>>]
        = [q \in VectorNames |-> IF q = t THEN <<>> ELSE IF q = s THEN Contents[t] ELSE Contents[q]]
  BY <1>1 DEF Contents
<1> QED BY <1>3, <1>6, <1>7, NoneBlamed

LEMMA MoveConstructMeant ==
    ASSUME VectorInv, NEW s \in VectorNames, NEW t \in VectorNames, Vectors!MoveConstruct(s, t)
    PROVE  VectorInv' /\ Vectors!Abstract!Make(s) /\ Blames
<1>1. /\ s \notin vectors /\ t \in vectors /\ vectors' = vectors \cup {s} /\ s # t /\ undone' = {}
      /\ vec' = [vec EXCEPT ![s] = vec[t], ![t] = Vectors!Nothing]
  BY DEF Vectors!MoveConstruct
<1>2. VectorInv' /\ Contents' = [Contents EXCEPT ![s] = Contents[t], ![t] = <<>>] /\ Whole
  BY <1>1, MovedMeant
<1> QED BY <1>1, <1>2 DEF Vectors!Abstract!Make, Contents, Whole

LEMMA DestroyMeant ==
    ASSUME VectorInv, NEW s \in VectorNames, Vectors!Destroy(s)
    PROVE  VectorInv' /\ Vectors!Abstract!Destroy(s) /\ Blames
<1> DEFINE none == <<>>  clean == {}
<1>1. s \in vectors /\ vectors' = vectors \ {s}
  BY DEF Vectors!Destroy
<1>2. PICK e \in Seq(Element), n \in Nat : Len(e) <= n /\ Len(e) <= MaxVector /\ vec[s] = VecOf(e, n, {}) /\ Contents[s] = e
  BY VecIs
<1>3. Vectors!Emptied(vec[s]) = VecOf(none, n, clean)
  BY <1>2, VecEmptied
<1>4. /\ VecOf(none, 0, clean) = Vectors!Nothing /\ none = <<>> /\ none \in Seq(Element) /\ Len(none) = 0
      /\ clean \in SUBSET Faults /\ clean = {}
  BY NothingVec
<1> HIDE DEF none, clean
<1>5. [Vectors!Freed(VecOf(none, n, clean)) EXCEPT !.capacity = 0] = VecOf(none, 0, clean)
  BY <1>4, VecFreed
<1> DEFINE zero == 0
<1>6. Vectors!Become(s, VecOf(none, zero, clean)) /\ zero \in Nat /\ Len(none) <= zero /\ VecOf(none, zero, {}) = Vectors!Nothing
  BY <1>3, <1>4, <1>5 DEF Vectors!Destroy
<1> HIDE DEF zero
<1>7. VectorInv' /\ Contents' = [Contents EXCEPT ![s] = none] /\ undone' = {}
  BY <1>1, <1>4, <1>6, VectorKept
<1> QED BY <1>1, <1>7, <1>4, NoneBlamed DEF Vectors!Abstract!Destroy, Vectors!Abstract!Become, Contents, Whole

(* A vector as it is is one resized to its size.                           *)
LEMMA SameChange ==
    ASSUME VectorInv, NEW s \in vectors, vectors' = vectors, Contents' = Contents, undone' = {}
    PROVE  Vectors!Abstract!Change(s) /\ Blames
<1>1. PICK e \in Seq(Element), n \in Nat : Len(e) <= n /\ Len(e) <= MaxVector /\ vec[s] = VecOf(e, n, {}) /\ Contents[s] = e
  BY VecIs DEF VectorInv
<1> DEFINE k == Len(e)  x == Vectors!Abstract!DEFAULT
<1>2. k \in 0 .. MaxVector /\ x \in Vectors!Abstract!Element
  BY <1>1, VectorBound DEF Vectors!Abstract!Element
<1>3. Vectors!Abstract!Resized(Contents[s], k, Vectors!Abstract!Alike(k, x)) = e
  BY <1>1 DEF Vectors!Abstract!Resized
<1>4. Contents' = [Contents EXCEPT ![s] = e]
  BY <1>1 DEF Contents, VectorInv
<1>5. Vectors!Abstract!Become(s, Vectors!Abstract!Resized(Contents[s], k, Vectors!Abstract!Alike(k, x)))
  BY <1>3, <1>4 DEF Vectors!Abstract!Become, Contents
<1> HIDE DEF k, x
<1>6. Whole
  BY NoneBlamed
<1> QED BY <1>2, <1>5, <1>6 DEF Vectors!Abstract!Change, Contents, Whole

(* A vector as it is, or one that holds the same.                          *)
LEMMA SameMeant ==
    ASSUME VectorInv, NEW s \in vectors, vectors' = vectors, NEW n \in Nat, NEW e \in Seq(Element), Contents[s] = e, Len(e) <= n,
           Vectors!Become(s, VecOf(e, n, {}))
    PROVE  VectorInv' /\ Vectors!Abstract!Change(s) /\ Blames
<1> DEFINE clean == {}
<1>1. s \in VectorNames /\ clean \in SUBSET Faults
  BY DEF VectorInv
<1> HIDE DEF clean
<1>2. VectorInv' /\ Contents' = [Contents EXCEPT ![s] = e] /\ undone' = clean
  BY <1>1, VectorKept DEF clean
<1>3. [Contents EXCEPT ![s] = e] = Contents
  BY <1>1 DEF Contents
<1> QED BY <1>2, <1>3, SameChange DEF clean

LEMMA CopyAssignMeant ==
    ASSUME VectorInv, NEW s \in VectorNames, NEW t \in VectorNames, Vectors!CopyAssign(s, t)
    PROVE  s \in vectors /\ VectorInv' /\ Vectors!Abstract!Change(s) /\ Blames
<1>1. s \in vectors /\ t \in vectors /\ vectors' = vectors
  BY DEF Vectors!CopyAssign
<1>2. PICK e \in Seq(Element), n \in Nat : Len(e) <= n /\ Len(e) <= MaxVector /\ vec[s] = VecOf(e, n, {}) /\ Contents[s] = e
  BY VecIs
<1>3. CASE s = t
  <2>1. Vectors!Become(s, VecOf(e, n, {}))
    BY <1>2, <1>3 DEF Vectors!CopyAssign
  <2>2. VectorInv' /\ Vectors!Abstract!Change(s) /\ Blames
    BY ONLY VectorInv, <1>1, <1>2, <2>1, SameMeant
  <2> QED BY ONLY <1>1, <2>2
<1>4. CASE s # t
  <2> DEFINE clean == {}
  <2>1. clean \in SUBSET Faults
    OBVIOUS
  <2>2. PICK g \in Seq(Element), m \in Nat : Len(g) <= m /\ Len(g) <= MaxVector /\ vec[t] = VecOf(g, m, clean) /\ Contents[t] = g
    BY VecIs
  <2>3. Vectors!Emptied(vec[s]) = VecOf(<<>>, n, clean)
    BY <1>2, VecEmptied
  <2> HIDE DEF clean
  <2>4. PICK c \in Nat : c >= Len(g) /\ Vectors!CopiedFrom(VecOf(<<>>, n, clean), vec[t]) = VecOf(g, c, clean)
    BY <2>2, CopiedVec
  <2>5. Vectors!Become(s, VecOf(g, c, clean)) /\ Len(g) <= c
    BY <1>4, <2>3, <2>4 DEF Vectors!CopyAssign
  <2>6. VectorInv' /\ Contents' = [Contents EXCEPT ![s] = g] /\ undone' = {}
    BY <1>1, <2>1, <2>5, VectorKept DEF clean
  <2>7. Whole
    BY <2>6, NoneBlamed
  <2>8. Vectors!Abstract!Change(s)
    BY <1>1, <1>4, <2>2, <2>6, <2>7 DEF Vectors!Abstract!Change, Vectors!Abstract!Become, Contents, Whole
  <2>9. Blames
    BY ONLY <2>7 DEF Whole
  <2> QED BY ONLY <1>1, <2>6, <2>8, <2>9
<1> QED BY ONLY <1>3, <1>4

LEMMA MoveAssignMeant ==
    ASSUME VectorInv, NEW s \in VectorNames, NEW t \in VectorNames, Vectors!MoveAssign(s, t)
    PROVE  s \in vectors /\ VectorInv' /\ Vectors!Abstract!Change(s) /\ Blames
<1>1. s \in vectors /\ t \in vectors /\ vectors' = vectors
  BY DEF Vectors!MoveAssign
<1>2. CASE s = t
  <2>1. vec' = vec /\ undone' = {}
    BY <1>2 DEF Vectors!MoveAssign
  <2>2. VectorInv' /\ Contents' = Contents
    BY <1>1, <2>1 DEF VectorInv, Vectors!LivesOnce, Contents, Vectors!Elements, IsVec
  <2>3. Vectors!Abstract!Change(s) /\ Blames
    BY ONLY VectorInv, <1>1, <2>1, <2>2, SameChange
  <2> QED BY ONLY <1>1, <2>2, <2>3
<1>3. CASE s # t
  <2> DEFINE none == <<>>  clean == {}
  <2>1. PICK e \in Seq(Element), n \in Nat : Len(e) <= n /\ Len(e) <= MaxVector /\ vec[s] = VecOf(e, n, clean) /\ Contents[s] = e
    BY VecIs
  <2>2. Vectors!Emptied(vec[s]) = VecOf(none, n, clean) /\ none = <<>>
    BY <2>1, VecEmptied
  <2> HIDE DEF none, clean
  <2>4. Vectors!Freed(VecOf(none, n, clean)).faults = clean
    BY <2>2, VecFreed
  <2>5. undone' = clean /\ vec' = [vec EXCEPT ![s] = vec[t], ![t] = Vectors!Nothing] /\ vectors' = vectors \cup {s}
    BY <1>1, <1>3, <2>2, <2>4 DEF Vectors!MoveAssign
  <2>6. VectorInv' /\ Contents' = [Contents EXCEPT ![s] = Contents[t], ![t] = <<>>] /\ Whole
    BY <1>1, <1>3, <2>5, MovedMeant DEF clean
  <2>7. Vectors!Abstract!Change(s)
    BY <1>1, <1>3, <2>6 DEF Vectors!Abstract!Change, Contents, Whole
  <2>8. Blames
    BY ONLY <2>6 DEF Whole
  <2> QED BY ONLY <1>1, <2>6, <2>7, <2>8
<1> QED BY ONLY <1>2, <1>3

(* A change of one vector's elements, and of nothing else.                 *)
LEMMA ChangedMeant ==
    ASSUME VectorInv, NEW s \in vectors, vectors' = vectors, NEW e \in Seq(Element), NEW n \in Nat, Len(e) <= n,
           NEW h \in SUBSET Plain, h # {} => Len(e) > Len(Contents[s]), Vectors!Become(s, VecOf(e, n, h))
    PROVE  VectorInv' /\ Vectors!Abstract!Become(s, e) /\ Whole
<1>1. s \in VectorNames /\ h \in SUBSET Faults
  BY PlainFaults DEF VectorInv
<1>2. VectorInv' /\ Contents' = [Contents EXCEPT ![s] = e] /\ vec'[s] = VecOf(e, n, {}) /\ undone' = h
  BY <1>1, VectorKept
<1>3. vec'[s].size = Len(e) /\ vec[s].size = Len(Contents[s])
  BY <1>1, <1>2, VecIs, VecType
<1>4. Whole
  BY <1>2, <1>3, PlainBlamed
<1> QED BY <1>2, <1>4 DEF Vectors!Abstract!Become, Contents

LEMMA ClearMeant ==
    ASSUME VectorInv, NEW s \in vectors, vectors' = vectors, Vectors!clear(s)
    PROVE  VectorInv' /\ Vectors!Abstract!Change(s) /\ Blames
<1> DEFINE none == <<>>  clean == {}  one == 1
<1>1. s \in VectorNames /\ clean \in SUBSET Plain /\ none \in Seq(Element) /\ Len(none) <= one /\ one \in Nat
  BY DEF VectorInv
<1>2. PICK e \in Seq(Element), n \in Nat : Len(e) <= n /\ Len(e) <= MaxVector /\ vec[s] = VecOf(e, n, clean) /\ Contents[s] = e
  BY <1>1, VecIs
<1>3. Vectors!Emptied(vec[s]) = VecOf(none, n, clean) /\ none = <<>> /\ clean = {}
  BY <1>2, VecEmptied
<1> HIDE DEF clean, none
<1>4. Vectors!Grow([VecOf(none, n, clean) EXCEPT !.capacity = 0]) = VecOf(none, one, clean)
  BY <1>3, VecCleared
<1> HIDE DEF one
<1>5. Vectors!Become(s, VecOf(none, one, clean))
  BY <1>3, <1>4 DEF Vectors!clear
<1>6. VectorInv' /\ Vectors!Abstract!Become(s, none) /\ Whole
  BY <1>1, <1>3, <1>5, ChangedMeant
<1> QED BY <1>3, <1>6 DEF Vectors!Abstract!Change, Whole

LEMMA PushMeant ==
    ASSUME VectorInv, NEW s \in vectors, vectors' = vectors, Vectors!push_back(s)
    PROVE  VectorInv' /\ Vectors!Abstract!Change(s) /\ Blames
<1> DEFINE clean == {}
<1>1. s \in VectorNames /\ clean \in SUBSET Plain /\ clean = {}
  BY DEF VectorInv
<1>2. PICK e \in Seq(Element), n \in Nat : Len(e) <= n /\ Len(e) <= MaxVector /\ vec[s] = VecOf(e, n, clean) /\ Contents[s] = e
  BY <1>1, VecIs
<1> HIDE DEF clean
<1>3. PICK v \in Values : Vectors!Become(s, Vectors!Pushed(vec[s], v))
  BY DEF Vectors!push_back
<1> DEFINE g == Append(e, v)
<1>4. v \in Element
  BY DEF Element
<1>5. PICK c \in Nat : c >= Len(e) + 1 /\ Vectors!Pushed(VecOf(e, n, clean), v) = VecOf(g, c, clean)
  BY <1>2, <1>4, VecPushed
<1>6. g \in Seq(Element) /\ Len(g) <= c
  BY <1>4, <1>5
<1> HIDE DEF g
<1>7. Vectors!Become(s, VecOf(g, c, clean))
  BY <1>2, <1>3, <1>5
<1>8. VectorInv' /\ Vectors!Abstract!Become(s, g) /\ Whole
  BY <1>1, <1>6, <1>7, ChangedMeant
<1>9. v \in Values \cup {Contents[s][k] : k \in DOMAIN Contents[s]}
  OBVIOUS
<1> QED BY <1>2, <1>8, <1>9 DEF Vectors!Abstract!Change, Contents, Whole, g

(* A vector that the call itself made longer than its array, while it had  *)
(* an element.                                                             *)
LEMMA BreakMeant ==
    ASSUME VectorInv, NEW s \in vectors, vectors' = vectors, NEW e \in Seq(Element), NEW n \in Nat, Len(e) <= n,
           Len(e) <= MaxVector, vec[s] = VecOf(e, n, {}), Contents[s] = e, e # <<>>,
           NEW m \in 0 .. MaxVector, m > n, NEW x \in [Len(e) + 1 .. m -> Element], NEW c \in Nat, c >= m,
           NEW h \in SUBSET Plain, Vectors!Become(s, VecOf(Fitted(e, m, x), c, Freed(h)))
    PROVE  VectorInv' /\ Vectors!Abstract!Break(s) /\ Blames
<1> DEFINE g == Fitted(e, m, x)
<1>0. m \in Nat
  BY VectorBound
<1>1. g \in Seq(Element) /\ Len(g) = m
  <2>1. Fill(e, m, x)
    BY DEF Fill
  <2> QED BY ONLY <1>0, <2>1, e \in Seq(Element), FittedSeq
<1>2. s \in VectorNames /\ Freed(h) \in SUBSET Faults
  BY PlainFaults DEF VectorInv
<1>3. g = Vectors!Abstract!Resized(Contents[s], m, x)
  BY DEF Fitted, Vectors!Abstract!Resized
<1> HIDE DEF g
<1>4. VectorInv' /\ Contents' = [Contents EXCEPT ![s] = g] /\ vec'[s] = VecOf(g, c, {}) /\ undone' = Freed(h)
  <2>1. Len(g) <= c
    BY <1>1
  <2>2. Vectors!Become(s, VecOf(g, c, Freed(h)))
    BY DEF g
  <2> QED BY <1>1, <1>2, <2>1, <2>2, VectorKept
<1>5. vec'[s].size = m /\ vec[s].size = Len(e) /\ vec[s].capacity = n /\ Len(e) \in Nat /\ Len(e) # 0
  BY <1>1, <1>4, VecType
<1>6. Blames
  <2>1. vec[s].size \in 1 .. vec'[s].size - 1 /\ vec[s].capacity < vec'[s].size /\ vec'[s].size > vec[s].size
    BY <1>0, <1>5
  <2> QED BY <2>1 DEF Blames
<1>7. Vectors!Broken' = TRUE
  BY <1>4, PlainFaults DEF Vectors!Broken
<1>8. m \in Len(Contents[s]) + 1 .. MaxVector /\ x \in [Len(Contents[s]) + 1 .. m -> Vectors!Abstract!Element]
  BY <1>0, <1>5, VectorBound DEF Vectors!Abstract!Element, Element, Vectors!Abstract!DEFAULT, Vectors!DEFAULT
<1>9. Vectors!Abstract!Become(s, Vectors!Abstract!Resized(Contents[s], m, x))
  BY <1>3, <1>4 DEF Vectors!Abstract!Become, Contents
<1> QED BY <1>4, <1>6, <1>7, <1>8, <1>9 DEF Vectors!Abstract!Break, Contents

LEMMA PushOwnMeant ==
    ASSUME VectorInv, NEW s \in vectors, vectors' = vectors, Vectors!pushOwn(s)
    PROVE  VectorInv' /\ (Vectors!Abstract!Change(s) \/ Vectors!Abstract!Break(s)) /\ Blames
<1> DEFINE clean == {}
<1>1. s \in VectorNames /\ clean \in SUBSET Plain /\ clean = {}
  BY DEF VectorInv
<1>2. PICK e \in Seq(Element), n \in Nat : Len(e) <= n /\ Len(e) <= MaxVector /\ vec[s] = VecOf(e, n, clean) /\ Contents[s] = e
  BY <1>1, VecIs
<1>3. vec[s].size = Len(e) /\ vec[s].capacity = n /\ vec[s].data = Slots(e, n)
  BY <1>2, VecType
<1> HIDE DEF clean
<1>4. PICK k \in 1 .. Len(e) :
        IF Len(e) # n THEN Vectors!Become(s, Vectors!Pushed(vec[s], vec[s].data[k]))
        ELSE \E seen \in Element : Vectors!Become(s, Vectors!ReadFreed(Vectors!Pushed(vec[s], seen)))
  BY <1>3 DEF Vectors!pushOwn, Element, Vectors!Element
<1>5. Len(e) \in Nat
  OBVIOUS
<1>6. CASE Len(e) # n
  <2>1. vec[s].data[k] = e[k] /\ k \in DOMAIN e /\ e[k] \in Element
    BY <1>2, <1>3 DEF Slots
  <2> DEFINE v == e[k]  g == Append(e, v)
  <2>2. PICK c \in Nat : c >= Len(e) + 1 /\ Vectors!Pushed(VecOf(e, n, clean), v) = VecOf(g, c, clean)
    BY <1>2, <2>1, VecPushed
  <2>3. g \in Seq(Element) /\ Len(g) <= c
    BY <2>1, <2>2
  <2> HIDE DEF g
  <2>4. Vectors!Become(s, VecOf(g, c, clean))
    BY <1>2, <1>4, <1>6, <2>1, <2>2
  <2>5. VectorInv' /\ Vectors!Abstract!Become(s, g) /\ Whole
    BY <1>1, <2>3, <2>4, ChangedMeant
  <2>6. v \in Values \cup {Contents[s][q] : q \in DOMAIN Contents[s]}
    BY <1>2, <2>1
  <2> QED BY <1>2, <2>5, <2>6 DEF Vectors!Abstract!Change, Contents, Whole, g
<1>7. CASE Len(e) = n
  <2>1. PICK v \in Element : Vectors!Become(s, Vectors!ReadFreed(Vectors!Pushed(vec[s], v)))
    BY <1>4, <1>7
  <2> DEFINE g == Append(e, v)  m == Len(e) + 1  x == [q \in Len(e) + 1 .. m |-> v]
  <2>2. PICK c \in Nat : c >= m /\ Vectors!Pushed(VecOf(e, n, clean), v) = VecOf(g, c, clean)
    BY <1>2, VecPushed
  <2>3. g = Fitted(e, m, x)
    <3>1. x[m] = v
      BY <1>5
    <3> HIDE DEF x
    <3>4. g \in Seq(Element) /\ Len(g) = m
      BY <1>5
    <3>5. \A q \in 1 .. m : g[q] = IF q <= Len(e) THEN e[q] ELSE v
      BY <1>5
    <3> HIDE DEF g
    <3>2. Len(g) = m /\ g = [q \in 1 .. m |-> g[q]] /\ \A q \in 1 .. m : g[q] = IF q <= Len(e) THEN e[q] ELSE v
      BY ONLY <3>4, <3>5
    <3>3. \A q \in 1 .. m : g[q] = IF q <= Len(e) THEN e[q] ELSE x[q]
      BY <1>5, <3>1, <3>2
    <3> HIDE DEF g, m
    <3> QED BY <3>2, <3>3 DEF Fitted
  <2> HIDE DEF g
  <2>4. Vectors!Become(s, VecOf(g, c, Freed(clean)))
    BY <1>2, <2>1, <2>2, BlamedVec
  <2>5. Len(g) = m /\ m <= MaxVector
    <3>1. Len(g) = m
      BY <1>5 DEF g
    <3> QED BY <2>4, <3>1, VecType DEF Vectors!Become, VecOf, Vec
  <2>6. m \in 0 .. MaxVector /\ m > n /\ x \in [Len(e) + 1 .. m -> Element] /\ e # <<>>
    BY <1>5, <1>7, <2>5, VectorBound
  <2>7. Vectors!Become(s, VecOf(Fitted(e, m, x), c, Freed(clean)))
    BY <2>3, <2>4
  <2> HIDE DEF m, x
  <2> QED BY <1>1, <1>2, <2>2, <2>6, <2>7, BreakMeant
<1> QED BY <1>6, <1>7

(* Resizing with values known.                                             *)
LEMMA ResizedMeant ==
    ASSUME VectorInv, NEW s \in vectors, vectors' = vectors, NEW m \in 0 .. MaxVector, NEW v \in Element, NEW made \in BOOLEAN,
           Vectors!Become(s, Vectors!Resized(vec[s], m, Vectors!Alike(vec[s], m, v), made))
    PROVE  VectorInv' /\ Vectors!Abstract!Change(s) /\ Blames
<1>1. s \in VectorNames /\ m \in Nat
  BY VectorBound DEF VectorInv
<1>2. PICK e \in Seq(Element), n \in Nat : Len(e) <= n /\ Len(e) <= MaxVector /\ vec[s] = VecOf(e, n, {}) /\ Contents[s] = e
  BY <1>1, VecIs
<1> DEFINE x == Vectors!Alike(vec[s], m, v)  g == Fitted(e, m, x)
<1>3. Fill(e, m, x)
  BY <1>1, <1>2, FillAlike
<1>4. g \in Seq(Element) /\ Len(g) = m
  BY ONLY <1>1, <1>2, <1>3, FittedSeq
<1>5. g = Vectors!Abstract!Resized(Contents[s], m, Vectors!Abstract!Alike(m, v))
  <2>1. DOMAIN x = Len(e) + 1 .. m /\ \A k \in DOMAIN x : x[k] = v
    BY <1>2, VecType DEF Vectors!Alike
  <2> HIDE DEF x
  <2> QED BY <1>1, <1>2, <2>1 DEF Fitted, Vectors!Abstract!Resized, Vectors!Abstract!Alike
<1> HIDE DEF x
<1>6. PICK c \in Nat, h \in SUBSET Plain :
        /\ c >= m /\ (m <= Len(e) => h = {})
        /\ Vectors!Resized(VecOf(e, n, {}), m, x, made) = VecOf(g, c, h)
  <2>1. Resizes(Vectors!Resized(VecOf(e, n, {}), m, x, made), e, m, x)
    BY ONLY <1>2, <1>3, m \in 0 .. MaxVector, made \in BOOLEAN, VecResized
  <2> QED BY <2>1 DEF Resizes
<1> HIDE DEF g
<1>7. Vectors!Become(s, VecOf(g, c, h)) /\ Len(g) <= c /\ (h # {} => Len(g) > Len(Contents[s]))
  BY <1>1, <1>2, <1>4, <1>6 DEF x
<1>8. VectorInv' /\ Vectors!Abstract!Become(s, g) /\ Whole
  BY <1>4, <1>7, ChangedMeant
<1>9. v \in Vectors!Abstract!Element
  BY DEF Vectors!Abstract!Element, Element, Vectors!DEFAULT, Vectors!Abstract!DEFAULT
<1> QED BY <1>5, <1>8, <1>9 DEF Vectors!Abstract!Change, Contents, Whole

LEMMA ResizeMeant ==
    ASSUME VectorInv, NEW s \in vectors, vectors' = vectors, Vectors!resize(s)
    PROVE  VectorInv' /\ Vectors!Abstract!Change(s) /\ Blames
<1>1. \E m \in 0 .. MaxVector, v \in Element, made \in BOOLEAN :
        Vectors!Become(s, Vectors!Resized(vec[s], m, Vectors!Alike(vec[s], m, v), made))
  BY DEF Vectors!resize, Element
<1> QED BY <1>1, ResizedMeant

LEMMA ResizeOwnMeant ==
    ASSUME VectorInv, NEW s \in vectors, vectors' = vectors, Vectors!resizeOwn(s)
    PROVE  VectorInv' /\ (Vectors!Abstract!Change(s) \/ Vectors!Abstract!Break(s)) /\ Blames
<1>1. s \in VectorNames
  BY DEF VectorInv
<1>2. PICK e \in Seq(Element), n \in Nat : Len(e) <= n /\ Len(e) <= MaxVector /\ vec[s] = VecOf(e, n, {}) /\ Contents[s] = e
  BY <1>1, VecIs
<1>3. vec[s].size = Len(e) /\ vec[s].capacity = n /\ vec[s].data = Slots(e, n)
  BY <1>2, VecType
<1>4. PICK m \in 0 .. MaxVector, k \in 1 .. Len(e) :
        IF m <= n THEN Vectors!Become(s, Vectors!Resized(vec[s], m, Vectors!Alike(vec[s], m, vec[s].data[k]), FALSE))
        ELSE \E seen \in [Len(e) + 1 .. m -> Element] :
               Vectors!Become(s, Vectors!ReadFreed(Vectors!Resized(vec[s], m, seen, FALSE)))
  BY <1>3 DEF Vectors!resizeOwn, Element, Vectors!Element
<1>5. CASE m <= n
  <2>1. vec[s].data[k] \in Element
    BY <1>2, <1>3 DEF Slots
  <2> DEFINE v == vec[s].data[k]  made == FALSE
  <2>2. Vectors!Become(s, Vectors!Resized(vec[s], m, Vectors!Alike(vec[s], m, v), made)) /\ made \in BOOLEAN /\ v \in Element
    BY <1>4, <1>5, <2>1
  <2> HIDE DEF v, made
  <2> QED BY <2>2, ResizedMeant
<1>6. CASE ~ m <= n
  <2> DEFINE made == FALSE
  <2>1. PICK x \in [Len(e) + 1 .. m -> Element] :
          Vectors!Become(s, Vectors!ReadFreed(Vectors!Resized(vec[s], m, x, made)))
    BY <1>4, <1>6
  <2>2. Fill(e, m, x) /\ made \in BOOLEAN
    BY DEF Fill
  <2> HIDE DEF made
  <2>3. PICK c \in Nat, h \in SUBSET Plain : c >= m /\ Vectors!Resized(VecOf(e, n, {}), m, x, made) = VecOf(Fitted(e, m, x), c, h)
    <3>1. Resizes(Vectors!Resized(VecOf(e, n, {}), m, x, made), e, m, x)
      BY ONLY <1>2, <2>2, m \in 0 .. MaxVector, VecResized
    <3> QED BY <3>1 DEF Resizes
  <2>4. Vectors!Become(s, VecOf(Fitted(e, m, x), c, Freed(h)))
    BY <1>2, <2>1, <2>3, BlamedVec
  <2>5. m > n /\ e # <<>>
    BY <1>6, VectorBound
  <2> QED BY <1>2, <2>3, <2>4, <2>5, BreakMeant
<1> QED BY <1>5, <1>6

LEMMA ReserveMeant ==
    ASSUME VectorInv, NEW s \in vectors, vectors' = vectors, Vectors!reserve(s)
    PROVE  VectorInv' /\ Vectors!Abstract!Change(s) /\ Blames
<1>1. s \in VectorNames
  BY DEF VectorInv
<1>2. PICK e \in Seq(Element), n \in Nat : Len(e) <= n /\ Len(e) <= MaxVector /\ vec[s] = VecOf(e, n, {}) /\ Contents[s] = e
  BY <1>1, VecIs
<1>3. PICK m \in 0 .. MaxVector : Vectors!Become(s, Vectors!Reserved(vec[s], m))
  BY DEF Vectors!reserve
<1>4. PICK c \in Nat : c >= m /\ c >= n /\ Vectors!Reserved(vec[s], m) = VecOf(e, c, {})
  BY <1>2, ReservedVec
<1>5. Len(e) <= c
  BY <1>2, <1>4
<1> QED BY <1>2, <1>3, <1>4, <1>5, SameMeant

LEMMA EraseMeant ==
    ASSUME VectorInv, NEW s \in vectors, vectors' = vectors, Vectors!erase(s)
    PROVE  VectorInv' /\ Vectors!Abstract!Change(s) /\ Blames
<1> DEFINE clean == {}
<1>1. s \in VectorNames /\ clean \in SUBSET Plain /\ clean = {}
  BY DEF VectorInv
<1>2. PICK e \in Seq(Element), n \in Nat : Len(e) <= n /\ Len(e) <= MaxVector /\ vec[s] = VecOf(e, n, clean) /\ Contents[s] = e
  BY <1>1, VecIs
<1> HIDE DEF clean
<1>3. PICK p \in 1 .. Len(e) : Vectors!Become(s, Vectors!Erased(vec[s], p))
  BY <1>2, VecType DEF Vectors!erase
<1> DEFINE g == SubSeq(e, 1, p - 1) \o SubSeq(e, p + 1, Len(e))
<1>4. Vectors!Become(s, VecOf(g, n, clean))
  BY <1>2, <1>3, VecErased
<1>5. g \in Seq(Element) /\ Len(g) <= n
  <2> DEFINE kept == SubSeq(e, 1, p - 1)  rest == SubSeq(e, p + 1, Len(e))
  <2>1. kept \in Seq(Element) /\ Len(kept) = p - 1 /\ rest \in Seq(Element) /\ Len(rest) = Len(e) - p
    OBVIOUS
  <2>2. g = kept \o rest
    OBVIOUS
  <2> HIDE DEF kept, rest, g
  <2> QED BY <1>2, <2>1, <2>2
<1>6. g = Vectors!Abstract!RemoveAt(Contents[s], p) /\ p \in DOMAIN Contents[s]
  BY <1>2 DEF Vectors!Abstract!RemoveAt
<1> HIDE DEF g
<1>7. VectorInv' /\ Vectors!Abstract!Become(s, g) /\ Whole
  BY <1>1, <1>4, <1>5, ChangedMeant
<1> QED BY <1>6, <1>7 DEF Vectors!Abstract!Change, Contents, Whole

(* Every operation keeps the invariant, is one of AbstractVector, and      *)
(* faults only where FaultsFrom says.                                      *)
LEMMA VectorMoves ==
    VectorInv /\ [Vectors!Next]_vector =>
        VectorInv' /\ ((Vectors!Abstract!Next /\ Blames) \/ UNCHANGED <<vectors, Contents, vec, undone>>)
<1> SUFFICES ASSUME VectorInv, [Vectors!Next]_vector
             PROVE  VectorInv' /\ ((Vectors!Abstract!Next /\ Blames) \/ UNCHANGED <<vectors, Contents, vec, undone>>)
  OBVIOUS
<1>1. CASE UNCHANGED vector
  BY <1>1 DEF vector, VectorInv, Vectors!LivesOnce, Contents, Vectors!Elements, IsVec
<1>2. ASSUME NEW s \in VectorNames, Vectors!Construct(s) \/ Vectors!Destroy(s) \/ \E t \in VectorNames : Vectors!MoveConstruct(s, t)
      PROVE  VectorInv' /\ Vectors!Abstract!Next /\ Blames
  <2>1. VectorInv' /\ (Vectors!Abstract!Make(s) \/ Vectors!Abstract!Destroy(s)) /\ Blames
    BY <1>2, ConstructMeant, DestroyMeant, MoveConstructMeant
  <2> QED BY <2>1 DEF Vectors!Abstract!Next
<1>3. ASSUME NEW s \in VectorNames, \E t \in VectorNames : Vectors!CopyAssign(s, t) \/ Vectors!MoveAssign(s, t)
      PROVE  VectorInv' /\ Vectors!Abstract!Change(s) /\ Blames
  BY <1>3, CopyAssignMeant, MoveAssignMeant
<1>4. ASSUME NEW s \in VectorNames, s \in vectors, vectors' = vectors,
             \/ Vectors!clear(s) \/ Vectors!push_back(s) \/ Vectors!resize(s) \/ Vectors!pushOwn(s) \/ Vectors!resizeOwn(s)
             \/ Vectors!reserve(s) \/ Vectors!erase(s)
      PROVE  VectorInv' /\ (Vectors!Abstract!Change(s) \/ Vectors!Abstract!Break(s)) /\ Blames
  BY <1>4, ClearMeant, PushMeant, ResizeMeant, PushOwnMeant, ResizeOwnMeant, ReserveMeant, EraseMeant
<1>5. \A s \in VectorNames : Vectors!Abstract!Change(s) \/ Vectors!Abstract!Break(s) => Vectors!Abstract!Next
  BY DEF Vectors!Abstract!Next
<1>6. CASE Vectors!Next
  <2>1. PICK s \in VectorNames :
          \/ Vectors!Construct(s) \/ Vectors!Destroy(s)
          \/ \E t \in VectorNames : Vectors!MoveConstruct(s, t) \/ Vectors!CopyAssign(s, t) \/ Vectors!MoveAssign(s, t)
          \/ /\ s \in vectors /\ vectors' = vectors
             /\ \/ Vectors!clear(s) \/ Vectors!push_back(s) \/ Vectors!resize(s) \/ Vectors!pushOwn(s) \/ Vectors!resizeOwn(s)
                \/ Vectors!reserve(s) \/ Vectors!erase(s)
    BY <1>6 DEF Vectors!Next
  <2> QED BY <1>2, <1>3, <1>4, <1>5, <2>1
<1> QED BY <1>1, <1>6

(* The elements are the slots below the size.                              *)
LEMMA VectorHolds == VectorInv => Vectors!LivesOnce /\ Vectors!SlotsMatchSize
<1> SUFFICES ASSUME VectorInv, NEW s \in VectorNames
             PROVE  LET o == vec[s] IN /\ Len(o.data) = o.capacity /\ o.size <= o.capacity
                                       /\ \A k \in DOMAIN o.data : o.data[k] # Vectors!RAW <=> k <= o.size
  BY DEF VectorInv, Vectors!SlotsMatchSize
<1>1. PICK e \in Seq(Element), n \in Nat : Len(e) <= n /\ vec[s] = VecOf(e, n, {})
  BY VecIs
<1>2. vec[s].data = Slots(e, n) /\ vec[s].size = Len(e) /\ vec[s].capacity = n
  BY <1>1, VecType
<1>3. Len(Slots(e, n)) = n /\ DOMAIN Slots(e, n) = 1 .. n
  BY DEF Slots
<1> QED BY <1>1, <1>2, <1>3, SlotsHold

-----------------------------------------------------------------------------
(***************************************************************************)
(* Strings: an array, and a text at its beginning.                         *)
(***************************************************************************)
Symbols == Chars \cup {Strings!NUL}
Texts == {t \in Seq(Symbols) : Len(t) <= MaxString}
Str(d, n, c) == [data |-> d, length |-> n, cap |-> c]

(* o has t in an array, with or without a 0 behind it.                     *)
Contains(o, t) ==
    /\ o = Str(o.data, Len(t), Len(o.data)) /\ o.data \in Seq(Int)
    /\ Len(t) <= Len(o.data) /\ \A k \in 1 .. Len(t) : o.data[k] = t[k]

Terminated(o, t) == Len(t) < Len(o.data) /\ o.data[Len(t) + 1] = Strings!NUL

IsStr(o, t) == Contains(o, t) /\ (o = Strings!NoObject \/ Terminated(o, t))

LEMMA StringBound == MaxString \in Nat /\ MaxString + 1 <= 65536 /\ Symbols \subseteq Int /\ Chars \subseteq Symbols
BY MemoryAssumption DEF Strings!StringAssumption, Symbols, Strings!NUL

LEMMA LiteralText ==
    ASSUME NEW text \in Literals
    PROVE  text \in Seq(Symbols) /\ Len(text) <= MaxString
<1>1. text \in Seq(Chars) /\ Len(text) <= MaxString
  BY MemoryAssumption DEF Strings!StringAssumption
<1>2. \A k \in 1 .. Len(text) : text[k] \in Symbols
  <2> SUFFICES ASSUME NEW k \in 1 .. Len(text) PROVE text[k] \in Symbols
    OBVIOUS
  <2>1. text[k] \in Chars
    BY ONLY <1>1
  <2>2. Chars \subseteq Symbols
    BY ONLY StringBound
  <2> QED BY ONLY <2>1, <2>2
<1>3. Len(text) \in Nat /\ text = [k \in 1 .. Len(text) |-> text[k]]
  BY <1>1
<1> HIDE DEF Symbols
<1> QED BY <1>1, <1>2, <1>3

LEMMA StrFields ==
    ASSUME NEW d, NEW n, NEW c
    PROVE  Str(d, n, c).data = d /\ Str(d, n, c).length = n /\ Str(d, n, c).cap = c
BY DEF Str

LEMMA ContainsOf ==
    ASSUME NEW d \in Seq(Int), NEW t, Len(t) <= Len(d), \A k \in 1 .. Len(t) : d[k] = t[k]
    PROVE  Contains(Str(d, Len(t), Len(d)), t)
<1> DEFINE o == Str(d, Len(t), Len(d))
<1>1. o.data = d /\ o = Str(d, Len(t), Len(d))
  BY StrFields
<1> HIDE DEF o
<1>2. Contains(o, t)
  BY <1>1 DEF Contains
<1> QED BY <1>2 DEF o

LEMMA IsStrOf ==
    ASSUME NEW d \in Seq(Int), NEW t \in Texts, Len(t) < Len(d), d[Len(t) + 1] = Strings!NUL, \A k \in 1 .. Len(t) : d[k] = t[k]
    PROVE  IsStr(Str(d, Len(t), Len(d)), t)
<1>1. Len(t) <= Len(d)
  BY DEF Texts
<1>2. Contains(Str(d, Len(t), Len(d)), t)
  BY <1>1, ContainsOf
<1>3. Str(d, Len(t), Len(d)).data = d
  BY StrFields
<1>4. Terminated(Str(d, Len(t), Len(d)), t)
  BY <1>3 DEF Terminated
<1> QED BY <1>2, <1>4 DEF IsStr

LEMMA CeilRoom ==
    ASSUME NEW n \in 0 .. MaxString
    PROVE  Strings!bit_ceil(n + 1) \in Nat /\ Strings!bit_ceil(n + 1) > n
<1> DEFINE x == n + 1  S == {p \in Powers : p >= x}
<1>0. x \in Nat /\ x <= 65536
  BY StringBound
<1> HIDE DEF x
<1>1. {2^k : k \in {q \in 0 .. 16 : 2^q >= x}} = S
  BY Zenon DEF Powers
<1>2. S # {} /\ S \in SUBSET Nat /\ \A p \in S : p >= x
  <2>1. Positive \subseteq Nat
    BY ONLY PositiveIs
  <2>2. 65536 \in S
    BY <1>0, PowersOf
  <2>3. \A p \in Powers : p \in Nat
    BY <2>1, PowersOf
  <2>4. S \in SUBSET Nat /\ \A p \in S : p >= x
    BY ONLY <2>3
  <2> QED BY <2>2, <2>4
<1>3. Strings!bit_ceil(x) = Strings!Min(S)
  BY <1>1 DEF Strings!bit_ceil
<1> HIDE DEF S
<1>4. Strings!Min(S) \in S
  BY <1>2, LeastOf DEF Strings!Min
<1>5. Strings!Min(S) \in Nat /\ Strings!Min(S) >= x
  BY <1>2, <1>4
<1>6. Strings!bit_ceil(x) \in Nat /\ Strings!bit_ceil(x) >= x
  BY <1>3, <1>5
<1>7. n \in Nat
  BY StringBound
<1> QED BY <1>6, <1>7 DEF x

Copied(w, to, base, source, n) ==
    /\ w \in Seq(Int) /\ Len(w) = Len(to)
    /\ \A k \in 1 .. Len(to) : w[k] =
         IF k \in base + 1 .. base + n THEN IF k - base <= Len(source) THEN source[k - base] ELSE Strings!Garbage ELSE to[k]

LEMMA CopyOf ==
    ASSUME NEW to \in Seq(Int), NEW base \in Nat, NEW source \in Seq(Int), NEW n \in Nat
    PROVE  Copied(Strings!Copy(to, base, source, n), to, base, source, n)
<1>1. Strings!Garbage \in Int
  BY DEF Strings!Garbage
<1> DEFINE r == Strings!Copy(to, base, source, n)
<1>2. r = [k \in 1 .. Len(to) |-> IF k \in base + 1 .. base + n
             THEN IF k - base \in DOMAIN source THEN source[k - base] ELSE Strings!Garbage ELSE to[k]]
  BY DEF Strings!Copy
<1> HIDE DEF r
<1>3. \A k \in 1 .. Len(to) : r[k] = IF k \in base + 1 .. base + n THEN IF k - base <= Len(source) THEN source[k - base] ELSE Strings!Garbage ELSE to[k]
  BY <1>2
<1>4. \A k \in 1 .. Len(to) : r[k] \in Int
  BY SMTT(30), <1>1, <1>3
<1>5. r = [k \in 1 .. Len(to) |-> r[k]]
  BY <1>2
<1>6. r \in Seq(Int) /\ Len(r) = Len(to)
  BY <1>4, <1>5
<1>7. Copied(r, to, base, source, n)
  BY <1>3, <1>6 DEF Copied
<1> QED BY <1>7 DEF r

LEMMA PutAt ==
    ASSUME NEW to \in Seq(Int), NEW base \in Nat, NEW c \in Int
    PROVE  /\ Strings!Put(to, base, c) \in Seq(Int) /\ Len(Strings!Put(to, base, c)) = Len(to)
           /\ \A k \in 1 .. Len(to) : Strings!Put(to, base, c)[k] = IF k = base + 1 THEN c ELSE to[k]
<1> DEFINE one == <<c>>  n == 1
<1>1. one \in Seq(Int) /\ Len(one) = 1 /\ one[1] = c /\ n \in Nat /\ n = 1
  OBVIOUS
<1> HIDE DEF one, n
<1>2. /\ Strings!Copy(to, base, one, n) \in Seq(Int) /\ Len(Strings!Copy(to, base, one, n)) = Len(to)
      /\ \A k \in 1 .. Len(to) : Strings!Copy(to, base, one, n)[k] =
           IF k \in base + 1 .. base + n THEN IF k - base <= Len(one) THEN one[k - base] ELSE Strings!Garbage ELSE to[k]
  <2>1. to \in Seq(Int) /\ base \in Nat /\ one \in Seq(Int) /\ n \in Nat
    BY <1>1
  <2>2. Copied(Strings!Copy(to, base, one, n), to, base, one, n)
    BY ONLY <2>1, CopyOf
  <2> QED BY ONLY <2>2 DEF Copied
<1>3. Strings!Put(to, base, c) = Strings!Copy(to, base, one, n)
  BY DEF Strings!Put, one, n
<1> DEFINE w == Strings!Copy(to, base, one, n)
<1>4. ASSUME NEW k \in 1 .. Len(to)
      PROVE  w[k] = IF k = base + 1 THEN c ELSE to[k]
  <2>1. CASE k = base + 1
    <3>1. k \in base + 1 .. base + n /\ k - base = 1 /\ 1 <= Len(one)
      BY <1>1, <2>1
    <3> QED BY <1>1, <1>2, <2>1, <3>1
  <2>2. CASE k # base + 1
    <3>1. k \notin base + 1 .. base + n
      BY <1>1, <2>2
    <3> QED BY <1>2, <2>2, <3>1
  <2> QED BY <2>1, <2>2
<1> HIDE DEF w
<1> QED BY <1>2, <1>3, <1>4 DEF w

LEMMA ArrayOf ==
    ASSUME NEW n \in Nat
    PROVE  Strings!Array(n) \in Seq(Int) /\ Len(Strings!Array(n)) = n
BY DEF Strings!Array, Strings!Garbage

(* string.cpp:90-92, 100-102, 112-114: there is room for n characters, and *)
(* a 0, and the text is kept.                                              *)
LEMMA GrownStr ==
    ASSUME NEW o, NEW t \in Texts, Contains(o, t), NEW n \in 0 .. MaxString, o = Strings!NoObject \/ Len(t) < Len(o.data)
    PROVE  \E d \in Seq(Int) : /\ Strings!Grown(o, n) = Str(d, n, Len(d)) /\ n < Len(d)
                               /\ \A k \in 1 .. Len(t) : k <= n => d[k] = t[k]
<1> DEFINE c == Strings!bit_ceil(n + 1)
<1>0. n \in Nat /\ t \in Seq(Symbols) /\ Len(t) \in Nat /\ Len(t) <= MaxString
  BY StringBound DEF Texts
<1>1. c \in Nat /\ c > n
  BY CeilRoom
<1>2. o.data \in Seq(Int) /\ o.cap = Len(o.data) /\ o.length = Len(t) /\ Len(o.data) \in Nat /\ o = Str(o.data, Len(t), Len(o.data))
  BY StrFields DEF Contains
<1> HIDE DEF c
<1>3. CASE n < o.cap
  <2>1. Strings!Grown(o, n) = [o EXCEPT !.length = n]
    BY <1>0, <1>2, <1>3 DEF Strings!Grown
  <2>2. [Str(o.data, Len(t), Len(o.data)) EXCEPT !.length = n] = Str(o.data, n, Len(o.data))
    BY DEF Str
  <2> QED BY <1>2, <1>3, <2>1, <2>2 DEF Contains
<1>4. CASE n >= o.cap
  <2> DEFINE copied == Strings!Copy(Strings!Array(c), 0, o.data, n)  d == Strings!Put(copied, n, Strings!NUL)  zero == 0
  <2>1. Strings!Grown(o, n) = Str(d, n, c)
    BY <1>0, <1>1, <1>2, <1>4 DEF Strings!Grown, Strings!Fitted, Str, c
  <2>2. Strings!Array(c) \in Seq(Int) /\ Len(Strings!Array(c)) = c
    BY <1>1, ArrayOf
  <2>3. zero \in Nat /\ zero = 0 /\ copied = Strings!Copy(Strings!Array(c), zero, o.data, n)
    OBVIOUS
  <2> HIDE DEF zero, copied
  <2>4. /\ copied \in Seq(Int) /\ Len(copied) = c
        /\ \A k \in 1 .. c : k <= n /\ k <= Len(o.data) => copied[k] = o.data[k]
    <3> DEFINE to == Strings!Array(c)  source == o.data
    <3>1. to \in Seq(Int) /\ Len(to) = c /\ source \in Seq(Int) /\ copied = Strings!Copy(to, zero, source, n)
      BY <1>2, <2>2, <2>3
    <3> HIDE DEF to, source
    <3>2. /\ Strings!Copy(to, zero, source, n) \in Seq(Int) /\ Len(Strings!Copy(to, zero, source, n)) = Len(to)
          /\ \A k \in 1 .. Len(to) : Strings!Copy(to, zero, source, n)[k] =
               IF k \in zero + 1 .. zero + n THEN IF k - zero <= Len(source) THEN source[k - zero] ELSE Strings!Garbage ELSE to[k]
      <4>1. n \in Nat /\ zero \in Nat
        BY <1>0, <2>3
      <4>2. Copied(Strings!Copy(to, zero, source, n), to, zero, source, n)
        BY ONLY <3>1, <4>1, CopyOf
      <4> QED BY ONLY <4>2 DEF Copied
    <3>3. \A k \in 1 .. c : k <= n /\ k <= Len(source) => copied[k] = source[k]
      <4> SUFFICES ASSUME NEW k \in 1 .. c, k <= n, k <= Len(source) PROVE copied[k] = source[k]
        OBVIOUS
      <4>1. k \in 1 .. Len(to) /\ k \in zero + 1 .. zero + n /\ k - zero = k
        BY <1>0, <1>1, <2>3, <3>1
      <4>2. Strings!Copy(to, zero, source, n)[k] = IF k - zero <= Len(source) THEN source[k - zero] ELSE Strings!Garbage
        BY <3>2, <4>1
      <4> QED BY <3>1, <4>1, <4>2
    <3> QED BY <3>1, <3>2, <3>3 DEF source
  <2>5. Strings!NUL \in Int
    BY DEF Strings!NUL
  <2>6. d \in Seq(Int) /\ Len(d) = c /\ \A k \in 1 .. c : d[k] = IF k = n + 1 THEN Strings!NUL ELSE copied[k]
    BY <1>0, <2>4, <2>5, PutAt
  <2> HIDE DEF d
  <2>7. \A k \in 1 .. Len(t) : k <= n => d[k] = t[k]
    <3> SUFFICES ASSUME NEW k \in 1 .. Len(t), k <= n PROVE d[k] = t[k]
      OBVIOUS
    <3>1. o.data[k] = t[k] /\ Len(t) <= Len(o.data)
      BY DEF Contains
    <3>2. k \in 1 .. c /\ k # n + 1 /\ k <= Len(o.data)
      BY <1>0, <1>1, <1>2, <3>1
    <3> QED BY <2>4, <2>6, <3>1, <3>2
  <2> QED BY <1>1, <2>1, <2>6, <2>7
<1>5. o.cap \in Nat
  BY <1>2
<1> QED BY <1>0, <1>3, <1>4, <1>5

(* A text written behind the first m characters, and a 0 behind it.        *)
LEMMA WrittenStr ==
    ASSUME NEW d \in Seq(Int), NEW t \in Texts, NEW u \in Seq(Int), NEW m \in Nat, NEW n \in Nat, m + n = Len(t), n <= Len(u),
           \A k \in 1 .. n : u[k] = t[m + k], \A k \in 1 .. m : d[k] = t[k], Len(t) < Len(d), NEW q
    PROVE  LET w == Strings!Put(Strings!Copy(d, m, u, n), Len(t), Strings!NUL)
           IN  /\ IsStr(Str(w, Len(t), Len(d)), t)
               /\ [Str(d, q, Len(d)) EXCEPT !.data = w] = Str(w, q, Len(d))
<1> DEFINE copied == Strings!Copy(d, m, u, n)  w == Strings!Put(copied, Len(t), Strings!NUL)
<1>1. /\ copied \in Seq(Int) /\ Len(copied) = Len(d)
      /\ \A k \in 1 .. Len(d) : copied[k] = IF k \in m + 1 .. m + n THEN IF k - m <= Len(u) THEN u[k - m] ELSE Strings!Garbage ELSE d[k]
  <2>1. Copied(copied, d, m, u, n)
    BY CopyOf
  <2> HIDE DEF copied
  <2> QED BY ONLY <2>1 DEF Copied
<1> HIDE DEF copied
<1>2. Strings!NUL \in Int /\ Len(t) \in Nat
  BY DEF Strings!NUL
<1>3. w \in Seq(Int) /\ Len(w) = Len(d) /\ \A k \in 1 .. Len(d) : w[k] = IF k = Len(t) + 1 THEN Strings!NUL ELSE copied[k]
  BY SMTT(30), <1>1, <1>2, PutAt
<1> HIDE DEF w
<1>4. \A k \in 1 .. Len(t) : w[k] = t[k]
  <2> TAKE k \in 1 .. Len(t)
  <2>1. CASE k <= m
    <3>1. k \in 1 .. Len(d) /\ k \notin m + 1 .. m + n /\ k # Len(t) + 1 /\ k \in 1 .. m
      BY SMTT(30), <2>1 DEF Texts
    <3> QED BY <3>1, <1>1, <1>3
  <2>2. CASE k > m
    <3>0. k \in Int /\ Len(d) \in Nat /\ Len(u) \in Nat
      OBVIOUS
    <3>1. k - m \in 1 .. n /\ k \in m + 1 .. m + n /\ k \in 1 .. Len(d) /\ k # Len(t) + 1 /\ k - m <= Len(u)
      BY SMTT(30), <2>2, <3>0
    <3>2. w[k] = u[k - m]
      BY <3>1, <1>1, <1>3
    <3>3. u[k - m] = t[m + (k - m)]
      BY <3>1
    <3>4. m + (k - m) = k
      BY <3>0
    <3> QED BY <3>2, <3>3, <3>4
  <2> QED BY <2>1, <2>2
<1>5. w[Len(t) + 1] = Strings!NUL /\ Len(t) <= Len(w) /\ Len(t) < Len(w)
  <2>1. Len(t) \in Nat /\ Len(d) \in Nat /\ Len(t) = m + n
    BY DEF Texts
  <2>2. Len(t) + 1 \in 1 .. Len(d) /\ Len(t) + 1 = m + n + 1
    BY <2>1
  <2> QED BY SMTT(30), <1>3, <2>1, <2>2
<1>6. IsStr(Str(w, Len(t), Len(d)), t)
  <2>1. Len(w) = Len(d)
    BY <1>3
  <2>2. IsStr(Str(w, Len(t), Len(w)), t)
    BY <1>3, <1>4, <1>5, IsStrOf
  <2> QED BY <2>1, <2>2
<1>7. [Str(d, q, Len(d)) EXCEPT !.data = w] = Str(w, q, Len(d))
  BY DEF Str
<1> QED BY <1>6, <1>7 DEF w, copied

LEMMA EndedStr ==
    ASSUME NEW d \in Seq(Int), NEW t \in Texts, \A k \in 1 .. Len(t) : d[k] = t[k], Len(t) < Len(d), NEW q
    PROVE  LET w == Strings!Put(d, Len(t), Strings!NUL)
           IN  /\ IsStr(Str(w, Len(t), Len(d)), t)
               /\ [Str(d, q, Len(d)) EXCEPT !.data = w] = Str(w, q, Len(d))
<1> DEFINE w == Strings!Put(d, Len(t), Strings!NUL)
<1>1. Strings!NUL \in Int /\ Len(t) \in Nat /\ Len(d) \in Nat
  BY DEF Strings!NUL, Texts
<1>2. w \in Seq(Int) /\ Len(w) = Len(d) /\ \A k \in 1 .. Len(d) : w[k] = IF k = Len(t) + 1 THEN Strings!NUL ELSE d[k]
  BY <1>1, PutAt
<1> HIDE DEF w
<1>3. Len(t) + 1 \in 1 .. Len(d) /\ \A k \in 1 .. Len(t) : k \in 1 .. Len(d) /\ k # Len(t) + 1
  BY <1>1
<1>4. w[Len(t) + 1] = Strings!NUL /\ \A k \in 1 .. Len(t) : w[k] = t[k]
  BY <1>2, <1>3
<1>5. IsStr(Str(w, Len(t), Len(d)), t)
  <2>1. Len(w) = Len(d) /\ Len(t) < Len(w)
    BY <1>2
  <2>2. IsStr(Str(w, Len(t), Len(w)), t)
    BY <1>2, <1>4, <2>1, IsStrOf
  <2> QED BY <2>1, <2>2
<1>6. [Str(d, q, Len(d)) EXCEPT !.data = w] = Str(w, q, Len(d))
  BY DEF Str
<1> QED BY <1>5, <1>6 DEF w

(* A text copied with the 0 behind it.                                     *)
LEMMA CopiedStr ==
    ASSUME NEW d \in Seq(Int), NEW o, NEW t \in Texts, Contains(o, t), Terminated(o, t), Len(t) < Len(d), NEW zero, zero = 0
    PROVE  IsStr(Str(Strings!Copy(d, zero, o.data, Len(t) + 1), Len(t), Len(d)), t)
<1> DEFINE n == Len(t) + 1  w == Strings!Copy(d, zero, o.data, n)
<1>1. o.data \in Seq(Int) /\ n \in Nat /\ zero \in Nat /\ Len(t) \in Nat /\ Len(d) \in Nat /\ n <= Len(d) /\ n <= Len(o.data)
  BY SMTT(30) DEF Contains, Texts, Terminated
<1>2. /\ w \in Seq(Int) /\ Len(w) = Len(d)
      /\ \A k \in 1 .. Len(d) : w[k] =
           IF k \in zero + 1 .. zero + n THEN IF k - zero <= Len(o.data) THEN o.data[k - zero] ELSE Strings!Garbage ELSE d[k]
  <2> DEFINE u == o.data
  <2>1. u \in Seq(Int) /\ d \in Seq(Int) /\ n \in Nat /\ zero \in Nat
    BY <1>1
  <2> HIDE DEF n, u
  <2>2. /\ Strings!Copy(d, zero, u, n) \in Seq(Int) /\ Len(Strings!Copy(d, zero, u, n)) = Len(d)
        /\ \A k \in 1 .. Len(d) : Strings!Copy(d, zero, u, n)[k] =
             IF k \in zero + 1 .. zero + n THEN IF k - zero <= Len(u) THEN u[k - zero] ELSE Strings!Garbage ELSE d[k]
    <3>1. Copied(Strings!Copy(d, zero, u, n), d, zero, u, n)
      BY ONLY <2>1, CopyOf
    <3> QED BY ONLY <3>1 DEF Copied
  <2> QED BY <2>2 DEF u
<1> HIDE DEF w
<1>3. \A k \in 1 .. n : w[k] = o.data[k]
  <2> HIDE DEF n
  <2> SUFFICES ASSUME NEW k \in 1 .. n PROVE w[k] = o.data[k]
    OBVIOUS
  <2>1. k \in 1 .. Len(d) /\ k \in zero + 1 .. zero + n /\ k - zero = k /\ k <= Len(o.data)
    BY <1>1
  <2> QED BY <1>2, <2>1
<1>4. w[Len(t) + 1] = Strings!NUL /\ \A k \in 1 .. Len(t) : w[k] = t[k]
  <2>1. Len(t) + 1 \in 1 .. n /\ \A k \in 1 .. Len(t) : k \in 1 .. n
    BY <1>1
  <2> HIDE DEF n
  <2>2. w[Len(t) + 1] = o.data[Len(t) + 1] /\ \A k \in 1 .. Len(t) : w[k] = o.data[k]
    BY <1>3, <2>1
  <2> QED BY <2>2 DEF Contains, Terminated
<1>5. IsStr(Str(w, Len(t), Len(d)), t)
  <2>1. Len(w) = Len(d) /\ Len(t) < Len(w)
    BY <1>2
  <2>2. IsStr(Str(w, Len(t), Len(w)), t)
    BY <1>2, <1>4, <2>1, IsStrOf
  <2> QED BY <2>1, <2>2
<1> QED BY <1>5 DEF w

(***************************************************************************)
(* Every string has a text; Said are the texts, which AbstractString sees. *)
(***************************************************************************)
Said == [s \in StringNames |-> SubSeq(str[s].data, 1, str[s].length)]

StringInv ==
    /\ strings \subseteq StringNames
    /\ str = [s \in StringNames |-> str[s]] /\ \A s \in StringNames : \E t \in Texts : IsStr(str[s], t)
    /\ \A s \in StringNames \ strings : str[s] = Strings!NoObject

(* What ends the program, when it ends.                                    *)
FaultStep ==
    bad' # bad =>
        LET o == str[bad'.name]
        IN  CASE bad'.kind = "null"  -> \E t \in strings : str[t] = Strings!NoObject
              [] bad'.kind = "freed" -> bad'.length = 2 * o.length /\ bad'.length >= o.cap
              [] bad'.kind = "past"  -> bad'.length > o.cap

(* The faults of a change of s to g are those that FaultStep names.        *)
Excused(s, g, faults) ==
    /\ faults \subseteq {"null", "freed", "past"}
    /\ "null" \in faults => \E t \in strings : str[t] = Strings!NoObject
    /\ "freed" \in faults => g.length = 2 * str[s].length /\ g.length >= str[s].cap
    /\ "past" \in faults => g.length > str[s].cap

LEMMA SubSeqText ==
    ASSUME NEW o, NEW t \in Texts, IsStr(o, t)
    PROVE  /\ SubSeq(o.data, 1, o.length) = t /\ o.length = Len(t) /\ o.cap = Len(o.data) /\ o.data \in Seq(Int)
           /\ Len(t) \in Nat /\ Len(t) \in 0 .. MaxString /\ Len(o.data) \in Nat /\ t \in Seq(Int)
<1>1. o.length = Len(t) /\ o.cap = Len(o.data) /\ o.data \in Seq(Int) /\ Len(t) <= Len(o.data) /\ \A k \in 1 .. Len(t) : o.data[k] = t[k]
  BY StrFields DEF IsStr, Contains
<1>2. t \in Seq(Symbols) /\ t \in Seq(Int) /\ Len(t) \in Nat /\ Len(t) <= MaxString
  <2>1. t \in Seq(Symbols) /\ Len(t) <= MaxString
    BY DEF Texts
  <2>2. t = [k \in 1 .. Len(t) |-> t[k]] /\ Len(t) \in Nat /\ \A k \in 1 .. Len(t) : t[k] \in Int
    BY <2>1, StringBound
  <2>3. t \in Seq(Int)
    BY <2>2
  <2> QED BY <2>1, <2>2, <2>3
<1> DEFINE d == o.data
<1>3. SubSeq(d, 1, Len(t)) = t
  <2>1. d \in Seq(Int) /\ Len(t) <= Len(d) /\ \A k \in 1 .. Len(t) : d[k] = t[k]
    BY <1>1
  <2> HIDE DEF d
  <2> QED BY <1>2, <2>1
<1> QED BY <1>1, <1>2, <1>3, StringBound

LEMMA SaidOf ==
    ASSUME StringInv, NEW s \in StringNames
    PROVE  Said[s] \in Texts /\ IsStr(str[s], Said[s])
<1>1. PICK t \in Texts : IsStr(str[s], t)
  BY DEF StringInv
<1>2. Said[s] = t
  BY <1>1, SubSeqText DEF Said
<1> QED BY <1>1, <1>2

LEMMA NoText == <<>> \in Texts /\ IsStr(Strings!NoObject, <<>>) /\ IsStr(Str(<<Strings!NUL>>, 0, 1), <<>>)
<1> DEFINE none == <<>>
<1>1. none \in Seq(Symbols) /\ Len(none) = 0 /\ none \in Texts /\ none \in Seq(Int)
  BY StringBound DEF Texts
<1>2. IsStr(Strings!NoObject, none)
  <2>1. Strings!NoObject = Str(none, Len(none), Len(none))
    BY <1>1 DEF Strings!NoObject, Strings!Null, Str
  <2> HIDE DEF none
  <2>2. Contains(Str(none, Len(none), Len(none)), none)
    <3>1. Len(none) <= Len(none) /\ \A k \in 1 .. Len(none) : none[k] = none[k]
      BY <1>1
    <3> QED BY <1>1, <3>1, ContainsOf
  <2> QED BY <2>1, <2>2 DEF IsStr
<1>3. IsStr(Str(<<Strings!NUL>>, 0, 1), none)
  <2> DEFINE d == <<Strings!NUL>>
  <2>1. d \in Seq(Int) /\ Len(d) = 1 /\ d[1] = Strings!NUL
    BY DEF Strings!NUL
  <2> HIDE DEF d, none
  <2>2. IsStr(Str(d, Len(none), Len(d)), none)
    <3>1. Len(none) < Len(d) /\ d[Len(none) + 1] = Strings!NUL /\ \A k \in 1 .. Len(none) : d[k] = none[k]
      BY <1>1, <2>1
    <3> QED BY <1>1, <2>1, <3>1, IsStrOf
  <2> QED BY <1>1, <2>1, <2>2 DEF d
<1> QED BY <1>1, <1>2, <1>3

LEMMA TextKept ==
    ASSUME StringInv, NEW s \in StringNames, NEW o, NEW t \in Texts, IsStr(o, t), str' = [str EXCEPT ![s] = o],
           \/ strings' = strings /\ s \in strings
           \/ strings' = strings \cup {s}
           \/ strings' = strings \ {s} /\ o = Strings!NoObject
    PROVE  StringInv' /\ Said' = [Said EXCEPT ![s] = t]
<1>1. str' = [q \in StringNames |-> IF q = s THEN o ELSE str[q]]
  BY DEF StringInv
<1>2. StringInv'
  BY <1>1 DEF StringInv
<1>3. SubSeq(o.data, 1, o.length) = t
  BY SubSeqText
<1>4. Said' = [q \in StringNames |-> SubSeq(str'[q].data, 1, str'[q].length)]
  BY DEF Said
<1>5. Said' = [Said EXCEPT ![s] = t]
  BY <1>1, <1>3, <1>4 DEF Said
<1> QED BY <1>2, <1>5

LEMMA DoMeant ==
    ASSUME NEW s, NEW g, NEW faults, Strings!Do(<<s, g>>, faults)
    PROVE  \/ bad' = bad /\ str' = [str EXCEPT ![s] = g] /\ faults \subseteq {"past"}
           \/ str' = str /\ \E kind \in faults : bad'.kind = kind /\ bad'.name = s /\ bad'.length = g.length
<1>1. <<s, g>>[1] = s /\ <<s, g>>[2] = g
  OBVIOUS
<1> DEFINE change == <<s, g>>
<1>2. change[1] = s /\ change[2] = g
  BY <1>1
<1> HIDE DEF change
<1>3. \/ faults \subseteq {"past"} /\ str' = [str EXCEPT ![change[1]] = change[2]] /\ bad' = bad
      \/ str' = str /\ \E kind \in faults : bad' = [kind |-> kind, name |-> change[1], length |-> change[2].length]
  BY DEF Strings!Do, change
<1> QED BY <1>2, <1>3

(* A change of one string, or the end of the program.                      *)
LEMMA ChangeMeant ==
    ASSUME StringInv, NEW s \in strings, strings' = strings, NEW g, NEW faults, Strings!Do(<<s, g>>, faults),
           Excused(s, g, faults), NEW t \in Texts, faults \subseteq {"past"} => IsStr(g, t)
    PROVE  StringInv' /\ FaultStep /\ (Strings!Abstract!Become(s, t) \/ UNCHANGED <<strings, Said>>)
<1>1. s \in StringNames
  BY DEF StringInv
<1>2. CASE bad' = bad /\ str' = [str EXCEPT ![s] = g] /\ faults \subseteq {"past"}
  <2>1. StringInv' /\ Said' = [Said EXCEPT ![s] = t]
    BY <1>1, <1>2, TextKept
  <2>2. Len(t) <= MaxString
    BY DEF Texts
  <2>3. Strings!Abstract!Become(s, t)
    BY <2>1, <2>2 DEF Strings!Abstract!Become, Said, Strings!Characters
  <2>4. FaultStep
    BY <1>2 DEF FaultStep
  <2> QED BY <2>1, <2>3, <2>4
<1>3. CASE str' = str /\ \E kind \in faults : bad'.kind = kind /\ bad'.name = s /\ bad'.length = g.length
  <2>1. StringInv' /\ UNCHANGED <<strings, Said>>
    BY <1>3 DEF StringInv, Said
  <2>2. FaultStep
    BY <1>3 DEF FaultStep, Excused
  <2> QED BY <2>1, <2>2
<1> QED BY <1>2, <1>3, DoMeant

LEMMA SaidIsVal == Strings!Characters = Said
BY DEF Strings!Characters, Said

LEMMA StringStarts == Strings!Init => StringInv /\ Strings!Abstract!Init
<1> SUFFICES ASSUME Strings!Init PROVE StringInv /\ Strings!Abstract!Init
  OBVIOUS
<1>1. strings = {} /\ str = [s \in StringNames |-> Strings!NoObject]
  BY DEF Strings!Init
<1>2. StringInv
  BY <1>1, NoText DEF StringInv
<1>3. SubSeq(Strings!NoObject.data, 1, Strings!NoObject.length) = <<>>
  BY NoText, SubSeqText
<1>4. Said = [s \in StringNames |-> <<>>]
  BY <1>1, <1>3 DEF Said
<1> QED BY <1>1, <1>2, <1>4 DEF Strings!Abstract!Init, Strings!Characters, Said

(* What a read of n characters may do.                                     *)
LEMMA ReadingOf ==
    ASSUME NEW o, NEW t \in Texts, IsStr(o, t), NEW n \in Nat
    PROVE  /\ Strings!Reading(o.data, n) \subseteq {"null", "past"}
           /\ "null" \in Strings!Reading(o.data, n) => o = Strings!NoObject
           /\ "past" \in Strings!Reading(o.data, n) => n > o.cap
           /\ n <= Len(o.data) => Strings!Reading(o.data, n) = {}
           /\ o = Strings!NoObject /\ n > 0 => Strings!Reading(o.data, n) = {"null"}
<1>1. o.length = Len(t) /\ o.cap = Len(o.data) /\ o.data \in Seq(Int) /\ Len(t) \in Nat /\ Len(o.data) \in Nat
  BY SubSeqText
<1>2. o = Strings!NoObject => o.data = Strings!Null /\ Len(o.data) = 0
  BY DEF Strings!NoObject, Strings!Null
<1>3. o.data = Strings!Null => o = Strings!NoObject
  <2> SUFFICES ASSUME o.data = Strings!Null PROVE o = Strings!NoObject
    OBVIOUS
  <2>1. Len(o.data) = 0
    BY DEF Strings!Null
  <2> QED BY <1>1, <2>1 DEF IsStr, Terminated
<1> QED BY <1>1, <1>2, <1>3 DEF Strings!Reading

LEMMA GrownExcused ==
    ASSUME StringInv, NEW s \in strings, NEW n \in 0 .. MaxString, NEW g, g.length = n
    PROVE  Excused(s, g, Strings!GrownReads(str[s], n))
<1>1. s \in StringNames /\ n \in Nat
  BY StringBound DEF StringInv
<1>2. Said[s] \in Texts /\ IsStr(str[s], Said[s])
  BY <1>1, SaidOf
<1>3. Strings!GrownReads(str[s], n) \in {{}, Strings!Reading(str[s].data, n)}
  BY DEF Strings!GrownReads, Strings!FittedReads
<1>4. /\ Strings!Reading(str[s].data, n) \subseteq {"null", "past"}
      /\ "null" \in Strings!Reading(str[s].data, n) => str[s] = Strings!NoObject
      /\ "past" \in Strings!Reading(str[s].data, n) => n > str[s].cap
  BY <1>1, <1>2, ReadingOf
<1> QED BY <1>3, <1>4 DEF Excused

(* string.cpp:76-85 *)
LEMMA ShrinkMeant ==
    ASSUME StringInv, NEW s \in StringNames, Strings!shrink_to_fit(s)
    PROVE  StringInv' /\ FaultStep /\ (Strings!Abstract!Next \/ UNCHANGED <<strings, Said>>)
<1> DEFINE o == str[s]  t == Said[s]  n == o.length  g == Strings!Fitted(o, n)  faults == Strings!FittedReads(o, n)
           c == Strings!bit_ceil(n + 1)
<1>1. s \in strings /\ strings' = strings /\ Strings!Do(<<s, g>>, faults)
  BY DEF Strings!shrink_to_fit
<1>2. t \in Texts /\ IsStr(o, t)
  BY SaidOf
<1> HIDE DEF o, t
<1>3. /\ o.length = Len(t) /\ o.cap = Len(o.data) /\ o.data \in Seq(Int) /\ t \in Seq(Int)
      /\ Len(t) \in Nat /\ Len(t) \in 0 .. MaxString /\ Len(o.data) \in Nat
  BY <1>2, SubSeqText
<1>4. c \in Nat /\ c > Len(t)
  BY <1>3, CeilRoom
<1>5. Contains(o, t)
  BY <1>2 DEF IsStr
<1>6. faults = {}
  <2>1. n <= Len(o.data)
    BY <1>3, <1>5 DEF Contains
  <2>2. Strings!Reading(o.data, n) = {}
    BY <1>2, <1>3, <2>1, ReadingOf
  <2> QED BY <2>2 DEF Strings!FittedReads
<1>7. IsStr(g, t)
  <2>1. CASE c = o.cap
    <3>1. g = [o EXCEPT !.length = n]
      BY <2>1 DEF Strings!Fitted
    <3>2. o = Str(o.data, Len(t), Len(o.data))
      BY <1>5 DEF Contains
    <3>3. [Str(o.data, Len(t), Len(o.data)) EXCEPT !.length = Len(t)] = Str(o.data, Len(t), Len(o.data))
      BY DEF Str
    <3> QED BY <1>2, <1>3, <3>1, <3>2, <3>3
  <2>2. CASE c # o.cap
    <3> DEFINE d == Strings!Array(c)  zero == 0  u == o.data  w == Strings!Put(Strings!Copy(d, zero, u, n), Len(t), Strings!NUL)
    <3>1. g = Str(w, Len(t), c)
      BY <1>3, <2>2 DEF Strings!Fitted, Str
    <3>2. d \in Seq(Int) /\ Len(d) = c
      BY <1>4, ArrayOf
    <3>3. zero \in Nat /\ zero + n = Len(t) /\ n \in Nat /\ n <= Len(u) /\ u \in Seq(Int) /\ Len(t) < Len(d)
      BY <1>3, <1>4, <1>5, <3>2 DEF Contains
    <3>4. (\A k \in 1 .. n : u[k] = t[zero + k]) /\ \A k \in 1 .. zero : d[k] = t[k]
      BY <1>3, <1>5 DEF Contains
    <3> HIDE DEF d, zero, u, n
    <3>5. IsStr(Str(w, Len(t), Len(d)), t)
      BY <1>2, <3>2, <3>3, <3>4, WrittenStr
    <3> QED BY <3>1, <3>2, <3>5
  <2> QED BY <2>1, <2>2
<1>8. Excused(s, g, faults)
  BY <1>6 DEF Excused
<1> HIDE DEF g, faults
<1>9. StringInv' /\ FaultStep /\ (Strings!Abstract!Become(s, t) \/ UNCHANGED <<strings, Said>>)
  BY <1>1, <1>2, <1>7, <1>8, ChangeMeant
<1>10. Strings!Abstract!Become(s, t) => UNCHANGED <<strings, Said>>
  <2>1. Strings!Abstract!Become(s, t) => Said' = [Said EXCEPT ![s] = t]
    BY DEF Strings!Abstract!Become, Said, Strings!Characters
  <2>2. [Said EXCEPT ![s] = t] = Said
    BY DEF Said, t
  <2> QED BY <1>1, <2>1, <2>2
<1> QED BY <1>9, <1>10

(* string.cpp:86-97 *)
LEMMA ResizeStr ==
    ASSUME StringInv, NEW s \in StringNames, NEW n \in 0 .. MaxString, NEW c \in Symbols, Strings!resize(s, n, c)
    PROVE  StringInv' /\ FaultStep /\ (Strings!Abstract!Next \/ UNCHANGED <<strings, Said>>)
<1> DEFINE o == str[s]  t == Said[s]  old == o.length  grown == Strings!Grown(o, n)
           fill == [k \in 1 .. n - old |-> c]
           filled == IF n > old THEN Strings!Copy(grown.data, old, fill, n - old) ELSE grown.data
           g == [grown EXCEPT !.data = Strings!Put(filled, n, Strings!NUL)]
           faults == Strings!GrownReads(o, n)
           r == Strings!Abstract!Resized(t, n, c)
<1>1. s \in strings /\ strings' = strings /\ Strings!Do(<<s, g>>, faults)
  BY DEF Strings!resize
<1>2. t \in Texts /\ IsStr(o, t)
  BY SaidOf
<1>0. n \in Nat /\ n <= MaxString
  BY StringBound
<1> HIDE DEF o, t
<1>3. /\ o.length = Len(t) /\ o.cap = Len(o.data) /\ o.data \in Seq(Int) /\ t \in Seq(Int)
      /\ Len(t) \in Nat /\ Len(t) \in 0 .. MaxString /\ Len(o.data) \in Nat
  BY <1>2, SubSeqText
<1>4. PICK d \in Seq(Int) : /\ grown = Str(d, n, Len(d)) /\ n < Len(d)
                            /\ \A k \in 1 .. Len(t) : k <= n => d[k] = t[k]
  <2>1. Contains(o, t) /\ (o = Strings!NoObject \/ Len(t) < Len(o.data))
    BY <1>2 DEF IsStr, Terminated
  <2> QED BY <1>2, <2>1, GrownStr
<1>5. grown.data = d
  BY <1>4, StrFields
<1>6. r \in Texts /\ Len(r) = n /\ \A k \in 1 .. n : r[k] = IF k <= Len(t) THEN t[k] ELSE c
  <2>1. r = [k \in 1 .. n |-> IF k <= Len(t) THEN t[k] ELSE c]
    BY DEF Strings!Abstract!Resized
  <2>2. t \in Seq(Symbols)
    BY <1>2 DEF Texts
  <2> QED BY <1>0, <2>1, <2>2 DEF Texts
<1> HIDE DEF grown, r, filled
<1>7. IsStr(g, r) /\ g.length = n
  <2>1. CASE n > old
    <3> DEFINE k0 == n - old
    <3>1. filled = Strings!Copy(d, old, fill, k0)
      BY <2>1, <1>5 DEF filled
    <3>2. fill \in Seq(Int) /\ Len(fill) = k0 /\ k0 \in Nat /\ old \in Nat /\ old + k0 = Len(r) /\ k0 <= Len(fill)
      BY <1>0, <1>3, <1>6, <2>1, StringBound
    <3>3. (\A k \in 1 .. k0 : fill[k] = r[old + k]) /\ \A k \in 1 .. old : d[k] = r[k]
      <4>1. ASSUME NEW k \in 1 .. k0 PROVE fill[k] = r[old + k]
        <5>1. old + k \in 1 .. n /\ ~ (old + k <= Len(t)) /\ fill[k] = c
          BY <1>0, <1>3, <2>1
        <5> HIDE DEF fill
        <5> QED BY <1>6, <5>1
      <4>2. ASSUME NEW k \in 1 .. old PROVE d[k] = r[k]
        <5>1. k \in 1 .. Len(t) /\ k <= n /\ k \in 1 .. n
          BY <1>0, <1>3, <2>1
        <5> QED BY SMTT(30), <1>4, <1>6, <5>1
      <4> QED BY <4>1, <4>2
    <3> HIDE DEF fill, k0, old
    <3>4. Len(r) < Len(d)
      BY <1>4, <1>6
    <3> DEFINE w == Strings!Put(Strings!Copy(d, old, fill, k0), Len(r), Strings!NUL)
    <3>5. IsStr(Str(w, Len(r), Len(d)), r) /\ [Str(d, n, Len(d)) EXCEPT !.data = w] = Str(w, n, Len(d))
      <4>1. d \in Seq(Int) /\ r \in Texts
        BY <1>6
      <4> HIDE DEF w
      <4>2. IsStr(Str(Strings!Put(Strings!Copy(d, old, fill, k0), Len(r), Strings!NUL), Len(r), Len(d)), r)
        BY ONLY <4>1, <3>2, <3>3, <3>4, WrittenStr
      <4>3. [Str(d, n, Len(d)) EXCEPT !.data = w] = Str(w, n, Len(d))
        BY DEF Str
      <4> QED BY <4>2, <4>3 DEF w
    <3>6. g = Str(w, n, Len(d))
      BY <1>4, <1>6, <3>1, <3>5
    <3> HIDE DEF g, w
    <3> QED BY <1>6, <3>5, <3>6, StrFields
  <2>2. CASE ~ (n > old)
    <3>1. filled = d
      BY <2>2, <1>5 DEF filled
    <3>2. Len(r) < Len(d) /\ \A k \in 1 .. Len(r) : d[k] = r[k]
      <4>1. ASSUME NEW k \in 1 .. Len(r) PROVE d[k] = r[k]
        <5>1. k \in 1 .. Len(t) /\ k <= n /\ k \in 1 .. n
          BY <1>0, <1>3, <1>6, <2>2
        <5> QED BY <1>4, <1>6, <5>1
      <4> QED BY <1>4, <1>6, <4>1
    <3> DEFINE w == Strings!Put(d, Len(r), Strings!NUL)
    <3>3. IsStr(Str(w, Len(r), Len(d)), r) /\ [Str(d, n, Len(d)) EXCEPT !.data = w] = Str(w, n, Len(d))
      BY <1>6, <3>2, EndedStr
    <3>4. g = Str(w, n, Len(d))
      BY <1>4, <1>6, <3>1, <3>3
    <3> HIDE DEF g, w
    <3> QED BY <1>6, <3>3, <3>4, StrFields
  <2> QED BY <2>1, <2>2
<1>8. Excused(s, g, faults)
  <2> HIDE DEF g
  <2> QED BY <1>1, <1>7, GrownExcused DEF o
<1> HIDE DEF g, faults
<1>9. StringInv' /\ FaultStep /\ (Strings!Abstract!Become(s, r) \/ UNCHANGED <<strings, Said>>)
  BY <1>1, <1>6, <1>7, <1>8, ChangeMeant
<1>10. Strings!Abstract!Become(s, r) => Strings!Abstract!Next
  BY <1>1 DEF Strings!Abstract!Next, r, t, Said, Strings!Characters, Symbols, Strings!NUL
<1> QED BY <1>9, <1>10

(* string.cpp:98-105 *)
LEMMA PushStr ==
    ASSUME StringInv, NEW s \in StringNames, NEW c \in Chars, Strings!push_back(s, c)
    PROVE  StringInv' /\ FaultStep /\ (Strings!Abstract!Next \/ UNCHANGED <<strings, Said>>)
<1> DEFINE o == str[s]  t == Said[s]  n == o.length + 1  grown == Strings!Grown(o, n)
           put == Strings!Put(grown.data, n - 1, c)
           g == [grown EXCEPT !.data = Strings!Put(put, n, Strings!NUL)]
           faults == Strings!GrownReads(o, n)
           r == Append(t, c)
<1>1. s \in strings /\ strings' = strings /\ Strings!Do(<<s, g>>, faults) /\ o.length < MaxString
  BY DEF Strings!push_back
<1>2. t \in Texts /\ IsStr(o, t)
  BY SaidOf
<1> HIDE DEF o, t
<1>3. /\ o.length = Len(t) /\ o.cap = Len(o.data) /\ o.data \in Seq(Int) /\ t \in Seq(Int)
      /\ Len(t) \in Nat /\ Len(t) \in 0 .. MaxString /\ Len(o.data) \in Nat
  BY <1>2, SubSeqText
<1>0. n \in Nat /\ n \in 0 .. MaxString /\ n - 1 = Len(t) /\ n - 1 \in Nat
  BY <1>1, <1>3, StringBound
<1>4. PICK d \in Seq(Int) : /\ grown = Str(d, n, Len(d)) /\ n < Len(d)
                            /\ \A k \in 1 .. Len(t) : k <= n => d[k] = t[k]
  <2>1. Contains(o, t) /\ (o = Strings!NoObject \/ Len(t) < Len(o.data))
    BY <1>2 DEF IsStr, Terminated
  <2> HIDE DEF n
  <2> QED BY <1>0, <1>2, <2>1, GrownStr
<1>5. grown.data = d
  BY <1>4, StrFields
<1>6. r \in Texts /\ Len(r) = n /\ \A k \in 1 .. n : r[k] = IF k <= Len(t) THEN t[k] ELSE c
  <2>1. t \in Seq(Symbols)
    BY <1>2 DEF Texts
  <2>4. c \in Symbols
    BY StringBound
  <2>2. r \in Seq(Symbols) /\ Len(r) = Len(t) + 1 /\ r[Len(t) + 1] = c /\ \A k \in 1 .. Len(t) : r[k] = t[k]
    BY ONLY <2>1, <2>4
  <2>3. Len(r) = n /\ n <= MaxString
    BY <1>0, <1>3, <2>2, StringBound
  <2> HIDE DEF r, n
  <2> QED BY <1>0, <1>3, <2>2, <2>3 DEF Texts
<1> HIDE DEF grown, r
<1>7. IsStr(g, r) /\ g.length = n
  <2>1. c \in Int
    BY StringBound
  <2>2. put \in Seq(Int) /\ Len(put) = Len(d) /\ \A k \in 1 .. Len(d) : put[k] = IF k = (n - 1) + 1 THEN c ELSE d[k]
    <3> DEFINE at0 == n - 1
    <3>1. at0 \in Nat /\ put = Strings!Put(d, at0, c)
      BY <1>0, <1>5
    <3> HIDE DEF put, at0
    <3>2. Strings!Put(d, at0, c) \in Seq(Int) /\ Len(Strings!Put(d, at0, c)) = Len(d)
          /\ \A k \in 1 .. Len(d) : Strings!Put(d, at0, c)[k] = IF k = at0 + 1 THEN c ELSE d[k]
      BY ONLY <3>1, <2>1, d \in Seq(Int), PutAt
    <3> QED BY <3>1, <3>2 DEF at0
  <2> HIDE DEF put
  <2>3. Len(r) < Len(put) /\ \A k \in 1 .. Len(r) : put[k] = r[k]
    <3>1. ASSUME NEW k \in 1 .. Len(r) PROVE put[k] = r[k]
      <4>1. k \in 1 .. n /\ k \in 1 .. Len(d) /\ (k # n => k <= Len(t) /\ k <= n /\ k \in 1 .. Len(t)) /\ (n - 1) + 1 = n
        BY SMTT(30), <1>0, <1>3, <1>4, <1>6
      <4>2. CASE k = n
        BY SMTT(30), <1>0, <1>3, <1>6, <2>2, <4>1, <4>2
      <4>3. CASE k # n
        BY <1>4, <1>6, <2>2, <4>1, <4>3
      <4> QED BY <4>2, <4>3
    <3> QED BY <1>4, <1>6, <2>2, <3>1
  <2> DEFINE w == Strings!Put(put, Len(r), Strings!NUL)
  <2>4. IsStr(Str(w, Len(r), Len(put)), r)
    BY <1>6, <2>2, <2>3, EndedStr
  <2>5. g = Str(w, n, Len(d))
    <3>1. [Str(d, n, Len(d)) EXCEPT !.data = w] = Str(w, n, Len(d))
      BY DEF Str
    <3> QED BY <1>4, <1>6, <3>1
  <2> HIDE DEF g, w, n
  <2> QED BY <1>6, <2>2, <2>4, <2>5, StrFields
<1>8. Excused(s, g, faults)
  <2> HIDE DEF g, n
  <2> QED BY <1>0, <1>1, <1>7, GrownExcused DEF o
<1> HIDE DEF g, faults
<1>9. StringInv' /\ FaultStep /\ (Strings!Abstract!Become(s, r) \/ UNCHANGED <<strings, Said>>)
  BY <1>1, <1>6, <1>7, <1>8, ChangeMeant
<1>10. Strings!Abstract!Become(s, r) => Strings!Abstract!Next
  BY <1>1 DEF Strings!Abstract!Next, r, t, Said, Strings!Characters
<1> QED BY <1>9, <1>10

LEMMA AppendIsNext ==
    ASSUME NEW s \in StringNames, s \in strings, NEW u \in Literals \cup {Said[q] : q \in strings}, Strings!Abstract!Become(s, Said[s] \o u)
    PROVE  Strings!Abstract!Next
<1> DEFINE val == Strings!Characters
<1>1. val = Said
  BY SaidIsVal
<1> HIDE DEF val
<1>2. \E v \in Literals \cup {val[q] : q \in strings} : Strings!Abstract!Become(s, val[s] \o v)
  BY <1>1
<1> QED BY <1>2, Zenon DEF Strings!Abstract!Next, val

(* string.cpp:106-122: u is the text whose characters source begins with.  *)
LEMMA AppendedStr ==
    ASSUME StringInv, NEW s \in StringNames, NEW u \in Texts, NEW source \in Seq(Int), NEW m, m = Len(u), m <= Len(source),
           \A k \in 1 .. m : source[k] = u[k], NEW more, more \subseteq {"freed"},
           "freed" \in more => m = str[s].length /\ 2 * m >= str[s].cap, Strings!Appended(s, source, m, more)
    PROVE  /\ StringInv' /\ FaultStep /\ s \in strings
           /\ Strings!Abstract!Become(s, Said[s] \o u) \/ UNCHANGED <<strings, Said>>
<1> DEFINE o == str[s]  t == Said[s]  old == o.length  n == old + m  grown == Strings!Grown(o, n)
           g == [grown EXCEPT !.data = Strings!Put(Strings!Copy(grown.data, old, source, m), n, Strings!NUL)]
           faults == Strings!GrownReads(o, n) \cup more
           r == t \o u
<1>1. s \in strings /\ strings' = strings /\ Strings!Do(<<s, g>>, faults) /\ n <= MaxString
  BY DEF Strings!Appended
<1>2. t \in Texts /\ IsStr(o, t)
  BY SaidOf
<1>a. o = str[s]
  OBVIOUS
<1> HIDE DEF o, t
<1>3. /\ o.length = Len(t) /\ o.cap = Len(o.data) /\ o.data \in Seq(Int) /\ t \in Seq(Int)
      /\ Len(t) \in Nat /\ Len(t) \in 0 .. MaxString /\ Len(o.data) \in Nat
  BY <1>2, SubSeqText
<1>4. u \in Seq(Symbols) /\ t \in Seq(Symbols) /\ m \in Nat
  BY <1>2 DEF Texts
<1>0. n \in Nat /\ n \in 0 .. MaxString /\ old \in Nat /\ n = Len(t) + m
  BY <1>1, <1>3, <1>4, StringBound
<1>5. PICK d \in Seq(Int) : /\ grown = Str(d, n, Len(d)) /\ n < Len(d)
                            /\ \A k \in 1 .. Len(t) : k <= n => d[k] = t[k]
  <2>1. Contains(o, t) /\ (o = Strings!NoObject \/ Len(t) < Len(o.data))
    BY <1>2 DEF IsStr, Terminated
  <2> HIDE DEF n
  <2> QED BY <1>0, <1>2, <2>1, GrownStr
<1>6. grown.data = d
  BY <1>5, StrFields
<1>7. /\ r \in Texts /\ Len(r) = n /\ \A k \in 1 .. Len(t) : r[k] = t[k]
      /\ \A k \in 1 .. m : r[Len(t) + k] = u[k]
  <2>1. r \in Seq(Symbols) /\ Len(r) = Len(t) + Len(u)
    BY <1>4
  <2>2. \A k \in 1 .. Len(t) + Len(u) : r[k] = IF k <= Len(t) THEN t[k] ELSE u[k - Len(t)]
    BY <1>4
  <2> HIDE DEF r
  <2>3. Len(r) = n /\ Len(r) <= MaxString
    BY <1>0, <2>1, StringBound
  <2>4. ASSUME NEW k \in 1 .. Len(t) PROVE r[k] = t[k]
    <3>1. k \in 1 .. Len(t) + Len(u) /\ k <= Len(t)
      BY <1>3, <1>4
    <3> QED BY <2>2, <3>1
  <2>5. ASSUME NEW k \in 1 .. m PROVE r[Len(t) + k] = u[k]
    <3>1. Len(t) + k \in 1 .. Len(t) + Len(u) /\ ~ (Len(t) + k <= Len(t)) /\ (Len(t) + k) - Len(t) = k
      BY SMTT(30), <1>3, <1>4
    <3> QED BY <2>2, <3>1
  <2> QED BY <2>1, <2>3, <2>4, <2>5 DEF Texts
<1> HIDE DEF grown, r
<1>8. IsStr(g, r) /\ g.length = n
  <2>1. /\ old + m = Len(r) /\ (\A k \in 1 .. m : source[k] = r[old + k]) /\ Len(r) < Len(d)
        /\ m \in Nat /\ old \in Nat /\ m <= Len(source) /\ source \in Seq(Int)
    BY <1>0, <1>3, <1>4, <1>5, <1>7
  <2>2. \A k \in 1 .. old : d[k] = r[k]
    <3> SUFFICES ASSUME NEW k \in 1 .. Len(t) PROVE d[k] = r[k]
      BY <1>3
    <3>1. k <= n
      BY <1>0, <1>3
    <3> QED BY <1>5, <1>7, <3>1
  <2>3. d \in Seq(Int) /\ r \in Texts
    BY <1>7
  <2> HIDE DEF old
  <2> DEFINE w == Strings!Put(Strings!Copy(d, old, source, m), Len(r), Strings!NUL)
  <2>4. IsStr(Str(w, Len(r), Len(d)), r)
    BY ONLY <2>1, <2>2, <2>3, WrittenStr
  <2>5. g = Str(w, n, Len(d))
    <3>1. [Str(d, n, Len(d)) EXCEPT !.data = w] = Str(w, n, Len(d))
      BY SMTT(30) DEF Str
    <3> QED BY <1>5, <1>6, <1>7, <3>1
  <2> HIDE DEF g, w, n
  <2> QED BY <1>7, <2>4, <2>5, StrFields
<1>9. Excused(s, g, faults)
  <2>1. Excused(s, g, Strings!GrownReads(o, n))
    <3> HIDE DEF g, n
    <3> QED BY <1>0, <1>1, <1>8, GrownExcused DEF o
  <2>2. "freed" \in more => g.length = 2 * o.length /\ g.length >= o.cap
    <3> SUFFICES ASSUME "freed" \in more PROVE g.length = 2 * o.length /\ g.length >= o.cap
      OBVIOUS
    <3>1. m = o.length /\ 2 * m >= o.cap
      BY <1>a
    <3>2. n = 2 * m
      BY <1>3, <1>4, <3>1
    <3> HIDE DEF g, n
    <3> QED BY <1>8, <3>1, <3>2
  <2> HIDE DEF g
  <2> QED BY <2>1, <2>2, <1>a DEF Excused
<1> HIDE DEF g, faults
<1>10. StringInv' /\ FaultStep /\ (Strings!Abstract!Become(s, r) \/ UNCHANGED <<strings, Said>>)
  BY <1>1, <1>7, <1>8, <1>9, ChangeMeant
<1> QED BY <1>1, <1>10 DEF r, t

LEMMA AppendStr ==
    ASSUME StringInv, NEW s \in StringNames, NEW text \in Literals, Strings!append(s, text)
    PROVE  StringInv' /\ FaultStep /\ (Strings!Abstract!Next \/ UNCHANGED <<strings, Said>>)
<1> DEFINE none == {}
<1>1. text \in Seq(Symbols) /\ Len(text) <= MaxString
  BY LiteralText
<1>2. text \in Texts /\ text \in Seq(Int) /\ Len(text) <= Len(text)
  <2>1. text = [k \in 1 .. Len(text) |-> text[k]] /\ Len(text) \in Nat /\ \A k \in 1 .. Len(text) : text[k] \in Int
    BY <1>1, StringBound
  <2>2. text \in Seq(Int)
    BY <2>1
  <2> QED BY <1>1, <2>1, <2>2 DEF Texts
<1>3. Strings!Appended(s, text, Len(text), none) /\ none \subseteq {"freed"} /\ "freed" \notin none
  BY DEF Strings!append
<1> HIDE DEF none
<1>4. /\ StringInv' /\ FaultStep /\ s \in strings
      /\ Strings!Abstract!Become(s, Said[s] \o text) \/ UNCHANGED <<strings, Said>>
  <2> DEFINE m == Len(text)
  <2>1. m = Len(text) /\ m <= Len(text) /\ \A k \in 1 .. m : text[k] = text[k]
    BY <1>2
  <2>2. Strings!Appended(s, text, m, none)
    BY <1>3
  <2> HIDE DEF m
  <2> QED BY <1>2, <1>3, <2>1, <2>2, AppendedStr
<1> QED BY <1>4, AppendIsNext

LEMMA AppendStringStr ==
    ASSUME StringInv, NEW s \in StringNames, NEW p \in StringNames, Strings!AppendString(s, p)
    PROVE  StringInv' /\ FaultStep /\ (Strings!Abstract!Next \/ UNCHANGED <<strings, Said>>)
<1> DEFINE o == str[p]  u == Said[p]  m == o.length  source == o.data
           more == IF s = p /\ m > 0 /\ 2 * m >= str[s].cap THEN {"freed"} ELSE {}
<1>1. p \in strings /\ Strings!Appended(s, source, m, more)
  BY DEF Strings!AppendString
<1>2. u \in Texts /\ IsStr(o, u)
  BY SaidOf
<1>3. more \subseteq {"freed"} /\ ("freed" \in more => m = str[s].length /\ 2 * m >= str[s].cap)
  OBVIOUS
<1> HIDE DEF o, u, more
<1>4. m = Len(u) /\ source \in Seq(Int)
  BY <1>2, SubSeqText
<1>5. m <= Len(source) /\ \A k \in 1 .. m : source[k] = u[k]
  BY <1>2, <1>4 DEF IsStr, Contains
<1> HIDE DEF m, source
<1>6. /\ StringInv' /\ FaultStep /\ s \in strings
      /\ Strings!Abstract!Become(s, Said[s] \o u) \/ UNCHANGED <<strings, Said>>
  BY <1>1, <1>2, <1>3, <1>4, <1>5, AppendedStr
<1>7. u \in Literals \cup {Said[q] : q \in strings}
  BY <1>1 DEF u
<1> QED BY <1>6, <1>7, AppendIsNext

(* string.cpp:8-21 *)
LEMMA ConstructStr ==
    ASSUME StringInv, NEW s \in StringNames, NEW text \in Literals \cup {<<>>}, Strings!Construct(s, text)
    PROVE  StringInv' /\ FaultStep /\ Strings!Abstract!Next
<1> DEFINE n == Len(text)  c == Strings!bit_ceil(n + 1)  d == Strings!Array(c)  zero == 0  none == {}
           w == Strings!Put(Strings!Copy(d, zero, text, n), n, Strings!NUL)  g == Str(w, n, c)
<1>1. text \in Seq(Symbols) /\ n <= MaxString
  <2>1. CASE text = <<>>
    BY <2>1, StringBound
  <2>2. CASE text \in Literals
    BY <2>2, LiteralText
  <2> QED BY <2>1, <2>2
<1>2. text \in Texts /\ text \in Seq(Int) /\ n \in Nat /\ n \in 0 .. MaxString
  <2>1. text = [k \in 1 .. Len(text) |-> text[k]] /\ Len(text) \in Nat /\ \A k \in 1 .. Len(text) : text[k] \in Int
    BY <1>1, StringBound
  <2>2. text \in Seq(Int)
    BY <2>1
  <2> QED BY <1>1, <2>1, <2>2, StringBound DEF Texts
<1>3. c \in Nat /\ c > n
  <2> HIDE DEF n
  <2> QED BY <1>2, CeilRoom
<1>4. d \in Seq(Int) /\ Len(d) = c
  <2> HIDE DEF c
  <2> QED BY <1>3, ArrayOf
<1>5. Strings!Do(<<s, g>>, none) /\ s \notin strings /\ strings' = strings \cup {s}
  BY DEF Strings!Construct, Str
<1>6. IsStr(g, text)
  <2>1. /\ zero \in Nat /\ zero + n = Len(text) /\ n <= Len(text) /\ Len(text) < Len(d)
        /\ (\A k \in 1 .. n : text[k] = text[zero + k]) /\ \A k \in 1 .. zero : d[k] = text[k]
    BY <1>2, <1>3, <1>4
  <2>2. n = Len(text)
    OBVIOUS
  <2> HIDE DEF n, zero, d, c
  <2>3. IsStr(Str(Strings!Put(Strings!Copy(d, zero, text, n), Len(text), Strings!NUL), Len(text), Len(d)), text)
    BY ONLY <1>2, <1>4, <2>1, WrittenStr
  <2> QED BY <1>4, <2>2, <2>3
<1> HIDE DEF g, none
<1>7. bad' = bad /\ str' = [str EXCEPT ![s] = g]
  BY <1>5, DoMeant DEF none
<1>8. StringInv' /\ Said' = [Said EXCEPT ![s] = text]
  BY <1>2, <1>5, <1>6, <1>7, TextKept
<1>9. Strings!Abstract!Construct(s, text)
  BY <1>5, <1>8 DEF Strings!Abstract!Construct, Said, Strings!Characters
<1>10. Strings!Abstract!Next
  <2>1. \E v \in Literals \cup {<<>>} \cup {Strings!Characters[q] : q \in strings} : Strings!Abstract!Construct(s, v)
    BY <1>9
  <2> QED BY <2>1, Zenon DEF Strings!Abstract!Next
<1> QED BY <1>7, <1>8, <1>10 DEF FaultStep

(* string.cpp:23-26 *)
LEMMA CopyConstructStr ==
    ASSUME StringInv, NEW s \in StringNames, NEW p \in StringNames, Strings!CopyConstruct(s, p)
    PROVE  StringInv' /\ FaultStep /\ (Strings!Abstract!Next \/ UNCHANGED <<strings, Said>>)
<1> DEFINE o == str[p]  t == Said[p]  n == o.length + 1  faults == Strings!Reading(o.data, n)  d == Strings!Array(o.cap)
           zero == 0  w == Strings!Copy(d, zero, o.data, n)  g == [o EXCEPT !.data = w]
<1>1. s \notin strings /\ p \in strings /\ strings' = (IF faults = {} THEN strings \cup {s} ELSE strings) /\ Strings!Do(<<s, g>>, faults)
  BY DEF Strings!CopyConstruct
<1>2. t \in Texts /\ IsStr(o, t)
  BY SaidOf
<1>a. o = str[p] /\ t = Said[p]
  OBVIOUS
<1> HIDE DEF o, t
<1>3. /\ o.length = Len(t) /\ o.cap = Len(o.data) /\ o.data \in Seq(Int) /\ t \in Seq(Int)
      /\ Len(t) \in Nat /\ Len(t) \in 0 .. MaxString /\ Len(o.data) \in Nat
  BY <1>2, SubSeqText
<1>4. n \in Nat /\ n > 0 /\ n = Len(t) + 1
  BY <1>3
<1>5. CASE o = Strings!NoObject
  <2>1. faults = {"null"}
    <3> HIDE DEF n
    <3> QED BY <1>2, <1>4, <1>5, ReadingOf
  <2> HIDE DEF g, faults
  <2>2. str' = str /\ bad'.kind = "null" /\ bad'.name = s
    BY <1>1, <2>1, DoMeant
  <2>3. strings' = strings
    BY <1>1, <2>1
  <2> QED BY <2>2, <2>3, <1>1, <1>5, <1>a DEF StringInv, Said, FaultStep
<1>6. CASE o # Strings!NoObject
  <2>1. Contains(o, t) /\ Terminated(o, t) /\ o = Str(o.data, Len(t), Len(o.data))
    BY <1>2, <1>6 DEF IsStr, Contains
  <2>2. faults = {}
    <3>1. n <= Len(o.data)
      BY <1>3, <2>1 DEF Terminated
    <3> HIDE DEF n
    <3> QED BY <1>2, <1>4, <3>1, ReadingOf
  <2>3. d \in Seq(Int) /\ Len(d) = Len(o.data) /\ Len(t) < Len(d)
    <3>1. d \in Seq(Int) /\ Len(d) = Len(o.data)
      BY <1>3, ArrayOf
    <3> QED BY <2>1, <3>1 DEF Terminated
  <2>4. zero = 0
    OBVIOUS
  <2> HIDE DEF d, zero
  <2>5. IsStr(Str(Strings!Copy(d, zero, o.data, Len(t) + 1), Len(t), Len(d)), t)
    BY <1>2, <2>1, <2>3, <2>4, CopiedStr
  <2>6. g = Str(w, Len(t), Len(d))
    <3>1. \A q : [Str(o.data, Len(t), Len(o.data)) EXCEPT !.data = q] = Str(q, Len(t), Len(o.data))
      BY DEF Str
    <3> HIDE DEF w
    <3> QED BY <2>1, <2>3, <3>1
  <2>7. IsStr(g, t)
    BY <1>3, <2>5, <2>6
  <2> HIDE DEF g, faults
  <2>8. bad' = bad /\ str' = [str EXCEPT ![s] = g]
    BY <1>1, <2>2, DoMeant
  <2>9. strings' = strings \cup {s}
    BY <1>1, <2>2
  <2>10. StringInv' /\ Said' = [Said EXCEPT ![s] = t]
    BY <1>2, <2>7, <2>8, <2>9, TextKept
  <2>11. Strings!Abstract!Construct(s, t)
    BY <1>1, <2>9, <2>10 DEF Strings!Abstract!Construct, Said, Strings!Characters
  <2>12. Strings!Abstract!Next
    <3> DEFINE val == Strings!Characters
    <3>0. val = Said
      BY SaidIsVal
    <3> HIDE DEF val
    <3>1. \E v \in Literals \cup {<<>>} \cup {val[q] : q \in strings} : Strings!Abstract!Construct(s, v)
      BY <1>1, <1>a, <2>11, <3>0
    <3> QED BY <3>1, Zenon DEF Strings!Abstract!Next, val
  <2> QED BY <2>8, <2>10, <2>12 DEF FaultStep
<1> QED BY <1>5, <1>6

(* string.cpp:28-33, 59-69: s takes the array of p, which is left empty.   *)
LEMMA TakenStr ==
    ASSUME StringInv, NEW s \in StringNames, NEW p \in strings, s # p, strings' = strings \cup {s}, NEW left, IsStr(left, <<>>),
           str' = [str EXCEPT ![s] = str[p], ![p] = left], bad' = bad
    PROVE  StringInv' /\ FaultStep /\ Strings!Abstract!Next
<1>1. p \in StringNames
  BY DEF StringInv
<1>2. str' = [q \in StringNames |-> IF q = p THEN left ELSE IF q = s THEN str[p] ELSE str[q]]
  BY <1>1 DEF StringInv
<1>3. StringInv'
  BY <1>1, <1>2, NoText DEF StringInv
<1>4. SubSeq(left.data, 1, left.length) = <<>>
  BY NoText, SubSeqText
<1>5. Said' = [q \in StringNames |-> SubSeq(str'[q].data, 1, str'[q].length)]
  BY DEF Said
<1>6. Said' = [q \in StringNames |-> IF q = p THEN <<>> ELSE IF q = s THEN Said[p] ELSE Said[q]]
  BY <1>1, <1>2, <1>4, <1>5 DEF Said
<1>7. [Said EXCEPT ![s] = Said[p], ![p] = <<>>] = [q \in StringNames |-> IF q = p THEN <<>> ELSE IF q = s THEN Said[p] ELSE Said[q]]
  BY <1>1 DEF Said
<1>8. Strings!Abstract!Move(s, p)
  BY <1>6, <1>7 DEF Strings!Abstract!Move, Said, Strings!Characters
<1> QED BY <1>1, <1>3, <1>8 DEF Strings!Abstract!Next, FaultStep

(* string.cpp:35-43 *)
LEMMA DestroyStr ==
    ASSUME StringInv, NEW s \in StringNames, Strings!Destroy(s)
    PROVE  StringInv' /\ FaultStep /\ Strings!Abstract!Next
<1> DEFINE none == {}  nil == <<>>
<1>1. s \in strings /\ strings' = strings \ {s} /\ Strings!Do(<<s, Strings!NoObject>>, none)
  BY DEF Strings!Destroy
<1>2. bad' = bad /\ str' = [str EXCEPT ![s] = Strings!NoObject]
  <2>1. none = {}
    OBVIOUS
  <2> HIDE DEF none
  <2> QED BY <1>1, <2>1, DoMeant
<1>3. nil \in Texts /\ IsStr(Strings!NoObject, nil)
  BY NoText
<1> HIDE DEF nil
<1>4. StringInv' /\ Said' = [Said EXCEPT ![s] = nil]
  BY <1>1, <1>2, <1>3, TextKept
<1>5. Strings!Abstract!Destroy(s)
  BY <1>1, <1>4 DEF Strings!Abstract!Destroy, Said, Strings!Characters, nil
<1> QED BY <1>2, <1>4, <1>5 DEF Strings!Abstract!Next, FaultStep

(* string.cpp:44-58 *)
LEMMA AssignStr ==
    ASSUME StringInv, NEW s \in StringNames, NEW p \in StringNames, Strings!Assign(s, p)
    PROVE  StringInv' /\ FaultStep /\ (Strings!Abstract!Next \/ UNCHANGED <<strings, Said>>)
<1> DEFINE old == str[s]  o == str[p]  t == Said[p]  full == o.length >= old.cap
           to == IF full THEN Strings!Array(o.cap) ELSE old.data
           c == IF full THEN o.cap ELSE old.cap  zero == 0
           n == o.length + 1  w == Strings!Copy(to, zero, o.data, n)  g == Str(w, o.length, c)  faults == Strings!Reading(o.data, n)
<1>1. s # p /\ s \in strings /\ p \in strings /\ strings' = strings /\ Strings!Do(<<s, g>>, faults)
  BY DEF Strings!Assign, Str
<1>2. t \in Texts /\ IsStr(o, t) /\ Said[s] \in Texts /\ IsStr(old, Said[s])
  BY SaidOf
<1>a. o = str[p] /\ t = Said[p]
  OBVIOUS
<1> HIDE DEF o, t, old
<1>3. /\ o.length = Len(t) /\ o.cap = Len(o.data) /\ o.data \in Seq(Int) /\ t \in Seq(Int)
      /\ Len(t) \in Nat /\ Len(t) \in 0 .. MaxString /\ Len(o.data) \in Nat
      /\ old.cap = Len(old.data) /\ old.data \in Seq(Int) /\ Len(old.data) \in Nat
  BY <1>2, SubSeqText
<1>4. n \in Nat /\ n > 0 /\ n = Len(t) + 1
  BY <1>3
<1>5. Strings!Reading(o.data, n) \subseteq {"null", "past"} /\ ("null" \in faults => o = Strings!NoObject)
      /\ (n <= Len(o.data) => faults = {}) /\ (o = Strings!NoObject => faults = {"null"})
  <2> HIDE DEF n
  <2> QED BY <1>2, <1>4, ReadingOf
<1>6. o # Strings!NoObject => Contains(o, t) /\ Terminated(o, t) /\ n <= Len(o.data)
  BY <1>2, <1>3 DEF IsStr, Terminated
<1>7. Excused(s, g, faults)
  <2>1. faults \in {{}, {"null"}}
    BY <1>5, <1>6
  <2> HIDE DEF g, faults
  <2> QED BY <1>1, <1>5, <1>a, <2>1 DEF Excused
<1>8. ASSUME faults \subseteq {"past"} PROVE IsStr(g, t)
  <2>1. Contains(o, t) /\ Terminated(o, t)
    BY <1>5, <1>6, <1>8
  <2>2. to \in Seq(Int) /\ Len(to) = c /\ Len(t) < Len(to)
    <3>1. CASE full
      <4>1. Strings!Array(Len(o.data)) \in Seq(Int) /\ Len(Strings!Array(Len(o.data))) = Len(o.data)
        BY <1>3, ArrayOf
      <4> QED BY <3>1, <4>1, <1>3, <2>1 DEF Terminated
    <3>2. CASE ~ full
      BY <3>2, <1>3
    <3> QED BY <3>1, <3>2
  <2>3. zero = 0
    OBVIOUS
  <2> HIDE DEF to, zero, c
  <2>4. IsStr(Str(Strings!Copy(to, zero, o.data, Len(t) + 1), Len(t), Len(to)), t)
    BY <1>2, <2>1, <2>2, <2>3, CopiedStr
  <2> QED BY <1>3, <2>2, <2>4
<1> HIDE DEF g, faults
<1>9. StringInv' /\ FaultStep /\ (Strings!Abstract!Become(s, t) \/ UNCHANGED <<strings, Said>>)
  BY <1>1, <1>2, <1>7, <1>8, ChangeMeant
<1>10. Strings!Abstract!Become(s, t) => Strings!Abstract!Next
  <2> DEFINE val == Strings!Characters
  <2>0. val = Said
    BY SaidIsVal
  <2> HIDE DEF val
  <2>1. Strings!Abstract!Become(s, t) => Strings!Abstract!Become(s, val[p])
    BY <1>a, <2>0
  <2>2. Strings!Abstract!Become(s, val[p]) => Strings!Abstract!Assign(s, p)
    BY <1>1 DEF Strings!Abstract!Assign, val
  <2> QED BY <2>1, <2>2 DEF Strings!Abstract!Next
<1> QED BY <1>9, <1>10

(* Every operation keeps the invariant, is one of AbstractString or        *)
(* changes nothing that it sees, and faults only as FaultStep says.        *)
LEMMA StringMoves ==
    StringInv /\ [Strings!Next]_string => StringInv' /\ FaultStep /\ (Strings!Abstract!Next \/ UNCHANGED <<strings, Said>>)
<1> SUFFICES ASSUME StringInv, [Strings!Next]_string
             PROVE  StringInv' /\ FaultStep /\ (Strings!Abstract!Next \/ UNCHANGED <<strings, Said>>)
  OBVIOUS
<1>1. CASE UNCHANGED string
  BY <1>1 DEF string, StringInv, Said, FaultStep
<1>2. ASSUME NEW s \in StringNames, NEW p \in StringNames, Strings!MoveConstruct(s, p) \/ Strings!MoveAssign(s, p)
      PROVE  StringInv' /\ FaultStep /\ Strings!Abstract!Next
  <2>1. CASE Strings!MoveConstruct(s, p)
    <3> DEFINE left == [data |-> <<Strings!NUL>>, length |-> 0, cap |-> 1]
    <3>1. s \notin strings /\ p \in strings /\ strings' = strings \cup {s} /\ str' = [str EXCEPT ![s] = str[p], ![p] = left] /\ bad' = bad
      BY <2>1 DEF Strings!MoveConstruct
    <3>2. IsStr(left, <<>>)
      BY NoText DEF Str
    <3>3. s # p
      BY <3>1
    <3> HIDE DEF left
    <3> QED BY ONLY StringInv, s \in StringNames, <3>1, <3>2, <3>3, TakenStr
  <2>2. CASE Strings!MoveAssign(s, p)
    <3> DEFINE left == Strings!NoObject
    <3>1. s # p /\ p \in strings /\ strings' = strings \cup {s} /\ str' = [str EXCEPT ![s] = str[p], ![p] = left] /\ bad' = bad
      BY <2>2 DEF Strings!MoveAssign
    <3>2. IsStr(left, <<>>)
      BY NoText
    <3> HIDE DEF left
    <3> QED BY ONLY StringInv, s \in StringNames, <3>1, <3>2, TakenStr
  <2> QED BY <1>2, <2>1, <2>2
<1>3. CASE Strings!Next
  <2>1. PICK s \in StringNames :
        \/ \E text \in Literals \cup {<<>>} : Strings!Construct(s, text)
        \/ Strings!Destroy(s)
        \/ \E p \in StringNames : Strings!CopyConstruct(s, p) \/ Strings!MoveConstruct(s, p) \/ Strings!Assign(s, p)
                                  \/ Strings!MoveAssign(s, p) \/ Strings!AppendString(s, p)
        \/ Strings!shrink_to_fit(s)
        \/ \E n \in 0 .. MaxString, c \in Symbols : Strings!resize(s, n, c)
        \/ \E c \in Chars : Strings!push_back(s, c)
        \/ \E text \in Literals : Strings!append(s, text)
    BY <1>3 DEF Strings!Next, Symbols
  <2>2. CASE \E text \in Literals \cup {<<>>} : Strings!Construct(s, text)
    BY <2>2, ConstructStr
  <2>3. CASE Strings!Destroy(s)
    BY <2>3, DestroyStr
  <2>4. CASE \E p \in StringNames : Strings!CopyConstruct(s, p) \/ Strings!MoveConstruct(s, p) \/ Strings!Assign(s, p)
                                  \/ Strings!MoveAssign(s, p) \/ Strings!AppendString(s, p)
    BY <2>4, <1>2, CopyConstructStr, AssignStr, AppendStringStr
  <2>5. CASE Strings!shrink_to_fit(s)
    BY <2>5, ShrinkMeant
  <2>6. CASE \E n \in 0 .. MaxString, c \in Symbols : Strings!resize(s, n, c)
    BY <2>6, ResizeStr
  <2>7. CASE \E c \in Chars : Strings!push_back(s, c)
    BY <2>7, PushStr
  <2>8. CASE \E text \in Literals : Strings!append(s, text)
    BY <2>8, AppendStr
  <2> QED BY <2>1, <2>2, <2>3, <2>4, <2>5, <2>6, <2>7, <2>8
<1> QED BY <1>1, <1>3

(* Every string is ended within its array.                                 *)
LEMMA StringHolds == StringInv => Strings!Ended
<1> SUFFICES ASSUME StringInv, NEW s \in strings
             PROVE  LET o == str[s]
                    IN  \/ o = Strings!NoObject
                        \/ /\ Len(o.data) = o.cap /\ o.length < o.cap
                           /\ \A k \in 1 .. o.length : o.data[k] \in Symbols
                           /\ o.data[o.length + 1] = Strings!NUL
  BY DEF Strings!Ended, Symbols
<1>1. s \in StringNames
  BY DEF StringInv
<1>2. Said[s] \in Texts /\ IsStr(str[s], Said[s])
  BY <1>1, SaidOf
<1>3. str[s].length = Len(Said[s]) /\ str[s].cap = Len(str[s].data) /\ Said[s] \in Seq(Symbols)
  BY <1>2, SubSeqText DEF Texts
<1> QED BY SMTT(30), <1>2, <1>3 DEF IsStr, Contains, Terminated

(***************************************************************************)
(* Refinement.                                                             *)
(***************************************************************************)
(* A string's operations are those of a sequence of characters, whatever   *)
(* array they keep it in (src/string.cpp).                                 *)
THEOREM StringImplements == Spec => Strings!AbstractSpec
<1>1. Init => StringInv /\ Strings!Abstract!Init
  BY StringStarts DEF Init
<1>2. [Next]_vars => [Strings!Next]_string
  BY DEF Next, vars, string, SizingStep, KernelStep, NewProgram, NewStep, StringStep, VectorStep, SortStep
<1>3. StringInv /\ [Next]_vars => StringInv' /\ [Strings!Abstract!Next]_<<strings, Strings!Characters>>
  <2>1. UNCHANGED <<strings, Said>> => UNCHANGED <<strings, Strings!Characters>>
    BY DEF Said, Strings!Characters
  <2> QED BY <1>2, <2>1, StringMoves
<1>4. Spec => []StringInv
  BY <1>1, <1>3, PTL DEF Spec
<1> QED BY <1>1, <1>3, <1>4, PTL DEF Spec, Strings!AbstractSpec, Strings!Abstract!Spec, Strings!Abstract!vars

(* A string reads a null array only when one was emptied by move           *)
(* assignment, a freed one only when appended to itself, and past one only *)
(* when it grows beyond it by more than a character (string.cpp:66-120).   *)
THEOREM StringFaults == Spec => Strings!FaultsFrom
<1>1. Init => StringInv
  BY StringStarts DEF Init
<1>2. [Next]_vars => [Strings!Next]_string
  BY DEF Next, vars, string, SizingStep, KernelStep, NewProgram, NewStep, StringStep, VectorStep, SortStep
<1>3. StringInv /\ [Next]_vars => StringInv' /\ FaultStep
  BY <1>2, StringMoves
<1>4. Spec => []StringInv
  BY <1>1, <1>3, PTL DEF Spec
<1> QED BY <1>1, <1>3, <1>4, PTL DEF Spec, Strings!FaultsFrom, FaultStep, Strings!vars

(* A vector's operations are those of a sequence of elements, through its  *)
(* growth, moves and destructors; only a call that broke may add elements  *)
(* other than those it was given (src/include/vector).                     *)
THEOREM VectorImplements == Spec => Vectors!AbstractSpec
<1>1. Init => VectorInv /\ Vectors!Abstract!Init
  BY VectorStarts DEF Init
<1>2. [Next]_vars => [Vectors!Next]_vector
  BY DEF Next, vars, vector, SizingStep, KernelStep, NewProgram, NewStep, StringStep, VectorStep, SortStep
<1>3. VectorInv /\ [Next]_vars => VectorInv' /\ [Vectors!Abstract!Next]_<<vectors, Contents, Vectors!Broken>>
  BY <1>2, VectorMoves DEF Vectors!Broken
<1>4. Spec => []VectorInv
  BY <1>1, <1>3, PTL DEF Spec
<1> QED BY <1>1, <1>3, <1>4, PTL DEF Spec, Vectors!AbstractSpec, Vectors!Abstract!Spec, Contents

(* An element that is gone is read only by a call with an own element that *)
(* replaces the array, and elements never made are assigned to only by one *)
(* that makes the vector longer (vector:59-62, 122-128).                   *)
THEOREM VectorFaults == Spec => Vectors!FaultsFrom
<1>1. Init => VectorInv
  BY VectorStarts DEF Init
<1>2. [Next]_vars => [Vectors!Next]_vector
  BY DEF Next, vars, vector, SizingStep, KernelStep, NewProgram, NewStep, StringStep, VectorStep, SortStep
<1>3. VectorInv /\ [Next]_vars => VectorInv' /\ [Blames]_(Vectors!vars)
  BY <1>2, VectorMoves DEF Vectors!vars
<1>4. Spec => []VectorInv
  BY <1>1, <1>3, PTL DEF Spec
<1> QED BY <1>1, <1>3, <1>4, PTL DEF Spec, Vectors!FaultsFrom, Blames, Vectors!vars

(* ContainersImplement: both refinements, and where faults come from.      *)
THEOREM Implement == Spec => ContainersImplement
BY StringImplements, StringFaults, VectorImplements, VectorFaults DEF ContainersImplement

-----------------------------------------------------------------------------
(***************************************************************************)
(* sort.                                                                   *)
(***************************************************************************)
Item == [key : Int, id : Int]
Segment == [first : Int, last : Int]
Holds(c, k) == c.first <= k /\ k < c.last

(* Two positions that one open call still has to sort.                     *)
Together(calling, k, m) == \E q \in DOMAIN calling : Holds(calling[q], k) /\ Holds(calling[q], m)

AlgTypes ==
    /\ input \in Seq(Item) /\ a \in Seq(Item) /\ Len(a) = Len(input)
    /\ open \in Seq(Segment) /\ i \in Int /\ j \in Int /\ pivot \in Item

From(s, t) == \A k \in DOMAIN s : s[k] = t[s[k].id]
Kept == Sorting!Ids(a) = Sorting!Ids(input) /\ From(a, input)

Within(calling, n) ==
    \A q \in DOMAIN calling : 1 <= calling[q].first /\ calling[q].first <= calling[q].last /\ calling[q].last <= n + 1
Disjoint(calling) ==
    \A p, q \in DOMAIN calling : p # q => calling[p].last <= calling[q].first \/ calling[q].last <= calling[p].first
InOrder(s, calling) == \A k, m \in DOMAIN s : k < m => Together(calling, k, m) \/ s[k].key <= s[m].key
Deep(calling, n) ==
    n > 0 => \A q \in DOMAIN calling : 2 ^ (q - 1) <= n /\ Sorting!Length(calling[q]) * 2 ^ (q - 1) <= n

(* The partition: what is left of i is at most the pivot, what is right of *)
(* j at least, and each scan meets an element that stops it.               *)
Parting ==
    LET c == Sorting!Top
    IN  at \in {"scan", "swap"} =>
          /\ open # <<>> /\ Sorting!Length(c) > SMALL /\ i \in c.first .. c.last /\ j \in c.first - 1 .. c.last - 1
          /\ \A k \in c.first .. i - 1 : a[k].key <= pivot.key
          /\ \A k \in j + 1 .. c.last - 1 : a[k].key >= pivot.key
          /\ at = "scan" /\ i <= j =>
               /\ \E k \in i .. c.last - 1 : a[k].key >= pivot.key
               /\ \E k \in c.first .. j : a[k].key <= pivot.key
          /\ at = "swap" =>
               /\ i \in c.first .. c.last - 1 /\ j \in c.first .. c.last - 1
               /\ a[i].key >= pivot.key /\ a[j].key <= pivot.key

Inserting ==
    LET c == Sorting!Top
    IN  at = "insert" =>
          open # <<>> /\ i > c.first /\ \A k, m \in c.first .. c.last - 1 : k < m /\ m < i => a[k].key <= a[m].key

SortInv ==
    /\ at \in {"sort", "scan", "swap", "insert"}
    /\ AlgTypes /\ Kept /\ Within(open, Len(a)) /\ Disjoint(open) /\ InOrder(a, open) /\ Deep(open, Len(a))
    /\ Parting /\ Inserting

(***************************************************************************)
(* rotate.                                                                 *)
(***************************************************************************)
Size == Len(input)

(* What rotate has to leave at k, counted from the middle it was given.    *)
Turned(k) == IF k + given - 1 <= Size THEN input[k + given - 1] ELSE input[k + given - 1 - Size]

(* Where it is now: what follows next, then what lies between middle and   *)
(* next, then what lies between first and middle.                          *)
SourceOf(k, f, m, x, n) ==
    IF k < f THEN k
    ELSE IF k - f < n + 1 - x THEN x + (k - f)
    ELSE IF k - f < n + 1 - m THEN m + (k - f) - (n + 1 - x)
    ELSE f + (k - f) - (n + 1 - m)

Divisors(x, y) == {d \in 1 .. Size : x % d = 0 /\ y % d = 0}

Turning ==
    /\ 1 <= first /\ first <= middle /\ middle <= next /\ next <= Size /\ (first = middle => first = next)
    /\ \A k \in 1 .. Size : a[SourceOf(k, first, middle, next, Size)] = Turned(k)
    /\ Divisors(next - first, Size + 1 - middle) = Divisors(given - 1, Size)

RotateInv ==
    /\ at \in {"rotate", "rotated"}
    /\ input \in Seq(Item) /\ a \in Seq(Item) /\ Len(a) = Len(input) /\ Len(open) = 1
    /\ first \in Int /\ middle \in Int /\ next \in Int /\ given \in 1 .. Size + 1
    /\ at = "rotate" => IF given \in {1, Size + 1} THEN a = input ELSE Turning
    /\ at = "rotated" => Sorting!Rotates

AlgorithmInv == part = "algorithm" => SortInv \/ RotateInv

(* Powers of two, by the subsets there are.                                *)
LEMMA PowerDoubles ==
    ASSUME NEW n \in Nat
    PROVE  2 ^ n \in Nat /\ 2 ^ (n + 1) = 2 ^ n + 2 ^ n
<1> DEFINE S == 1 .. n  T == 1 .. n + 1  N == {u \cup {n + 1} : u \in SUBSET S}  f == [u \in SUBSET S |-> u \cup {n + 1}]
<1>1. IsFiniteSet(S) /\ Cardinality(S) = n /\ IsFiniteSet(T) /\ Cardinality(T) = n + 1
  <2>1. \A p \in Int : IsFiniteSet(1 .. p) /\ Cardinality(1 .. p) = IF 1 > p THEN 0 ELSE p - 1 + 1
    BY FS_Interval
  <2> QED BY <2>1
<1>2. IsFiniteSet(SUBSET S) /\ Cardinality(SUBSET S) = 2 ^ n
  BY <1>1, FS_SUBSET
<1>3. Cardinality(SUBSET T) = 2 ^ (n + 1)
  <2>1. Cardinality(SUBSET T) = 2 ^ Cardinality(T)
    BY <1>1, FS_SUBSET
  <2> QED BY <1>1, <2>1
<1>4. f \in Bijection(SUBSET S, N)
  <2>1. \A u \in SUBSET S : n + 1 \notin u
    OBVIOUS
  <2>2. f \in [SUBSET S -> N] /\ \A y \in N : \E u \in SUBSET S : f[u] = y
    OBVIOUS
  <2>3. ASSUME NEW u \in SUBSET S, NEW v \in SUBSET S, f[u] = f[v] PROVE u = v
    <3>1. u = (u \cup {n + 1}) \ {n + 1} /\ v = (v \cup {n + 1}) \ {n + 1}
      BY <2>1
    <3> QED BY <2>3, <3>1
  <2> HIDE DEF f, N
  <2> DEFINE D == SUBSET S
  <2>4. f \in [D -> N] /\ (\A y \in N : \E u \in D : f[u] = y) /\ \A u, v \in D : f[u] = f[v] => u = v
    BY <2>2, <2>3
  <2> HIDE DEF D
  <2>5. f \in Injection(D, N) /\ f \in Surjection(D, N)
    BY <2>4 DEF Injection, Surjection, IsInjective
  <2> QED BY <2>5 DEF Bijection, D
<1>5. IsFiniteSet(N) /\ Cardinality(N) = 2 ^ n
  BY <1>2, <1>4, FS_Bijection DEF ExistsBijection
<1>6. (SUBSET T) = (SUBSET S) \cup N
  <2>1. T = S \cup {n + 1}
    OBVIOUS
  <2>2. ASSUME NEW u \in SUBSET T PROVE u \in (SUBSET S) \/ u \in N
    <3>1. CASE n + 1 \in u
      <4>1. u \ {n + 1} \in SUBSET S /\ u = (u \ {n + 1}) \cup {n + 1}
        BY <2>1, <3>1
      <4> QED BY <4>1
    <3>2. CASE n + 1 \notin u
      BY <2>1, <3>2
    <3> QED BY <3>1, <3>2
  <2>3. (SUBSET S) \subseteq (SUBSET T) /\ N \subseteq (SUBSET T)
    BY <2>1
  <2> QED BY <2>2, <2>3
<1>7. (SUBSET S) \cap N = {}
  OBVIOUS
<1>8. Cardinality(SUBSET T) = 2 ^ n + 2 ^ n - 0
  <2>1. Cardinality({}) = 0
    BY FS_EmptySet
  <2> HIDE DEF S, T, N
  <2> QED BY <1>2, <1>5, <1>6, <1>7, <2>1, FS_Union
<1>9. 2 ^ n \in Nat
  BY <1>2, FS_CardinalityType
<1> QED BY <1>3, <1>8, <1>9

LEMMA PowerZero == 2 ^ 0 = 1
OBVIOUS

(* Sets of numbers that have a bound have a greatest member.               *)
LEMMA GreatestOf ==
    ASSUME NEW S \in SUBSET Int, S # {}, NEW b \in Int, \A x \in S : x <= b
    PROVE  \E x \in S : \A y \in S : y <= x
<1> DEFINE T == {b - x : x \in S}
<1>1. T \in SUBSET Nat /\ T # {}
  <2>1. \A x \in S : b - x \in Nat
    OBVIOUS
  <2> QED BY <2>1
<1>2. PICK y \in T : \A z \in T : y <= z
  <2> HIDE DEF T
  <2> QED BY <1>1, LeastOf
<1>3. PICK x \in S : y = b - x
  OBVIOUS
<1>4. \A z \in S : b - x <= b - z
  BY <1>2, <1>3
<1> QED BY <1>4

LEMMA SmallestOf ==
    ASSUME NEW S \in SUBSET Int, S # {}, NEW b \in Int, \A x \in S : x >= b
    PROVE  \E x \in S : \A y \in S : x <= y
<1> DEFINE T == {x - b : x \in S}
<1>1. T \in SUBSET Nat /\ T # {}
  <2>1. \A x \in S : x - b \in Nat
    OBVIOUS
  <2> QED BY <2>1
<1>2. PICK y \in T : \A z \in T : y <= z
  <2> HIDE DEF T
  <2> QED BY <1>1, LeastOf
<1>3. PICK x \in S : y = x - b
  OBVIOUS
<1>4. \A z \in S : x - b <= z - b
  BY <1>2, <1>3
<1> QED BY <1>4

LEMMA MaxMinOf ==
    ASSUME NEW S \in SUBSET Int, S # {}, NEW b \in Int
    PROVE  /\ (\A x \in S : x <= b) => Sorting!Max(S) \in S /\ \A x \in S : x <= Sorting!Max(S)
           /\ (\A x \in S : x >= b) => Sorting!Min(S) \in S /\ \A x \in S : Sorting!Min(S) <= x
<1>1. ASSUME \A x \in S : x <= b
      PROVE  Sorting!Max(S) \in S /\ \A x \in S : x <= Sorting!Max(S)
  BY <1>1, GreatestOf DEF Sorting!Max
<1>2. ASSUME \A x \in S : x >= b
      PROVE  Sorting!Min(S) \in S /\ \A x \in S : Sorting!Min(S) <= x
  BY <1>2, SmallestOf DEF Sorting!Min
<1> QED BY <1>1, <1>2

(***************************************************************************)
(* Rearranging a part of a sequence: each of its elements stays in it.     *)
(***************************************************************************)
Rearranged(s, t, f, l) ==
    /\ t \in Seq(Item) /\ Len(t) = Len(s)
    /\ \A k \in 1 .. Len(s) : ~ (f <= k /\ k < l) => t[k] = s[k]
    /\ \A k \in f .. l - 1 : \E m \in f .. l - 1 : t[k] = s[m]
    /\ \A m \in f .. l - 1 : \E k \in f .. l - 1 : t[k] = s[m]

Exchanged(t, s, p, q) ==
    /\ t \in Seq(Item) /\ Len(t) = Len(s)
    /\ \A k \in 1 .. Len(s) : t[k] = IF k = q THEN s[p] ELSE IF k = p THEN s[q] ELSE s[k]

LEMMA SwappedAt ==
    ASSUME NEW s \in Seq(Item), NEW p \in 1 .. Len(s), NEW q \in 1 .. Len(s)
    PROVE  Exchanged(Sorting!Swapped(s, p, q), s, p, q)
<1> DEFINE t == Sorting!Swapped(s, p, q)
<1>1. t = [k \in 1 .. Len(s) |-> IF k = q THEN s[p] ELSE IF k = p THEN s[q] ELSE s[k]]
  BY DEF Sorting!Swapped
<1> HIDE DEF t
<1>2. \A k \in 1 .. Len(s) : t[k] \in Item
  BY <1>1
<1>3. t = [k \in 1 .. Len(s) |-> t[k]]
  BY <1>1
<1>4. t \in Seq(Item) /\ Len(t) = Len(s)
  BY <1>2, <1>3
<1>5. Exchanged(t, s, p, q)
  BY <1>1, <1>4 DEF Exchanged
<1> QED BY <1>5 DEF t

LEMMA SwapRearranges ==
    ASSUME NEW s \in Seq(Item), NEW f \in Int, NEW l \in Int, 1 <= f, l <= Len(s) + 1, NEW p \in f .. l - 1, NEW q \in f .. l - 1
    PROVE  Rearranged(s, Sorting!Swapped(s, p, q), f, l)
<1> DEFINE t == Sorting!Swapped(s, p, q)
<1>1. p \in 1 .. Len(s) /\ q \in 1 .. Len(s) /\ \A k \in f .. l - 1 : k \in 1 .. Len(s)
  OBVIOUS
<1>2. t \in Seq(Item) /\ Len(t) = Len(s) /\ \A k \in 1 .. Len(s) : t[k] = IF k = q THEN s[p] ELSE IF k = p THEN s[q] ELSE s[k]
  <2> HIDE DEF t
  <2>1. Exchanged(t, s, p, q)
    BY ONLY s \in Seq(Item), <1>1, SwappedAt DEF t
  <2> QED BY ONLY <2>1 DEF Exchanged
<1> HIDE DEF t
<1>3. \A k \in f .. l - 1 : \E m \in f .. l - 1 : t[k] = s[m]
  BY <1>1, <1>2
<1>4. ASSUME NEW m \in f .. l - 1 PROVE \E k \in f .. l - 1 : t[k] = s[m]
  <2>1. CASE m = p
    BY <2>1, <1>1, <1>2
  <2>2. CASE m = q
    BY <2>2, <1>1, <1>2
  <2>3. CASE m # p /\ m # q
    BY <2>3, <1>1, <1>2
  <2> QED BY <2>1, <2>2, <2>3
<1>5. \A k \in 1 .. Len(s) : ~ (f <= k /\ k < l) => t[k] = s[k]
  BY <1>2
<1> QED BY <1>2, <1>3, <1>4, <1>5 DEF Rearranged, t

LEMMA SameRearranges ==
    ASSUME NEW s \in Seq(Item), NEW f, NEW l
    PROVE  Rearranged(s, s, f, l)
BY DEF Rearranged

LEMMA RearrangesThen ==
    ASSUME NEW s, NEW t, NEW u, NEW f, NEW l, Rearranged(s, t, f, l), Rearranged(t, u, f, l)
    PROVE  Rearranged(s, u, f, l)
BY DEF Rearranged

LEMMA SwapIfRearranges ==
    ASSUME NEW s \in Seq(Item), NEW f \in Int, NEW l \in Int, 1 <= f, l <= Len(s) + 1, NEW p \in f .. l - 1, NEW q \in f .. l - 1
    PROVE  Rearranged(s, Sorting!SwapIf(s, p, q), f, l)
BY SwapRearranges, SameRearranges DEF Sorting!SwapIf

(* A rearrangement keeps the elements.                                     *)
LEMMA RearrangedKept ==
    ASSUME NEW s \in Seq(Item), NEW t, NEW f \in Int, NEW l \in Int, 1 <= f, l <= Len(s) + 1, Rearranged(s, t, f, l), NEW u, From(s, u)
    PROVE  Sorting!Ids(t) = Sorting!Ids(s) /\ From(t, u)
<1>1. DOMAIN t = 1 .. Len(s) /\ DOMAIN s = 1 .. Len(s) /\ Len(s) \in Nat
  BY DEF Rearranged
<1>2. ASSUME NEW k \in 1 .. Len(s) PROVE (\E m \in 1 .. Len(s) : t[k] = s[m]) /\ (\E m \in 1 .. Len(s) : t[m] = s[k])
  <2>1. CASE k \in f .. l - 1
    BY <2>1, <1>1 DEF Rearranged
  <2>2. CASE k \notin f .. l - 1
    BY <2>2, <1>1 DEF Rearranged
  <2> QED BY <2>1, <2>2
<1>3. Sorting!Ids(t) = Sorting!Ids(s)
  <2>1. Sorting!Ids(t) = {t[k].id : k \in 1 .. Len(s)} /\ Sorting!Ids(s) = {s[k].id : k \in 1 .. Len(s)}
    BY <1>1 DEF Sorting!Ids
  <2> DEFINE D == 1 .. Len(s)
  <2>2. \A k \in D : t[k].id \in {s[m].id : m \in D}
    BY <1>2
  <2>3. \A k \in D : s[k].id \in {t[m].id : m \in D}
    BY <1>2
  <2> HIDE DEF D
  <2>4. {t[k].id : k \in D} = {s[k].id : k \in D}
    BY <2>2, <2>3
  <2> QED BY <2>1, <2>4 DEF D
<1> QED BY <1>1, <1>2, <1>3 DEF From

(* What the order asks does not change when the last call rearranges.      *)
LEMMA RearrangedOrder ==
    ASSUME NEW s \in Seq(Item), NEW t, NEW c \in Seq(Segment), c # <<>>, Within(c, Len(s)), Disjoint(c),
           Rearranged(s, t, c[Len(c)].first, c[Len(c)].last), InOrder(s, c)
    PROVE  InOrder(t, c)
<1> DEFINE top == c[Len(c)]  f == top.first  l == top.last
<1>1. /\ Len(c) \in DOMAIN c /\ f \in Int /\ l \in Int /\ 1 <= f /\ f <= l /\ l <= Len(s) + 1
      /\ DOMAIN s = 1 .. Len(s) /\ DOMAIN t = 1 .. Len(s) /\ Len(s) \in Nat
  <2>1. Len(c) \in DOMAIN c /\ top \in Segment
    OBVIOUS
  <2>2. DOMAIN s = 1 .. Len(s) /\ DOMAIN t = 1 .. Len(s) /\ Len(s) \in Nat
    BY DEF Rearranged
  <2> QED BY <2>1, <2>2 DEF Within, Segment
<1>2. SUFFICES ASSUME NEW k \in 1 .. Len(s), NEW m \in 1 .. Len(s), k < m, ~ Together(c, k, m)
               PROVE  t[k].key <= t[m].key
  BY <1>1 DEF InOrder
<1>3. ~ (Holds(top, k) /\ Holds(top, m))
  BY <1>1, <1>2 DEF Together
<1>4. ASSUME NEW p \in 1 .. Len(s), NEW q \in 1 .. Len(s), p < q, ~ Together(c, p, q)
      PROVE  s[p].key <= s[q].key
  BY <1>1, <1>4 DEF InOrder
<1>5. ASSUME NEW p \in 1 .. Len(s), NEW q \in 1 .. Len(s), Holds(top, p), ~ Holds(top, q)
      PROVE  ~ Together(c, p, q) /\ ~ Together(c, q, p)
  <2> SUFFICES ASSUME NEW x \in DOMAIN c, Holds(c[x], p), Holds(c[x], q) PROVE FALSE
    BY DEF Together
  <2>1. x # Len(c) /\ c[x] \in Segment
    BY <1>5
  <2>2. c[x].last <= f \/ l <= c[x].first
    BY <1>1, <2>1 DEF Disjoint
  <2> QED BY SMTT(30), <1>1, <1>5, <2>1, <2>2 DEF Holds, Segment
<1>a. /\ \A p \in 1 .. Len(s) : ~ (f <= p /\ p < l) => t[p] = s[p]
      /\ \A p \in f .. l - 1 : \E q \in f .. l - 1 : t[p] = s[q]
  BY DEF Rearranged
<1>b. \A p \in Int : Holds(top, p) <=> f <= p /\ p < l
  BY DEF Holds
<1> HIDE DEF f, l, top
<1>6. CASE Holds(top, k)
  <2>1. ~ Holds(top, m) /\ t[m] = s[m]
    BY <1>3, <1>6, <1>a, <1>b
  <2>2. PICK p \in f .. l - 1 : t[k] = s[p]
    BY SMTT(30), <1>1, <1>6, <1>a, <1>b
  <2>3. p \in 1 .. Len(s) /\ Holds(top, p) /\ p < m
    BY <1>1, <1>2, <1>6, <1>b, <2>1, <2>2
  <2> QED BY <1>4, <1>5, <2>1, <2>2, <2>3
<1>7. CASE ~ Holds(top, k) /\ Holds(top, m)
  <2>1. t[k] = s[k]
    BY <1>7, <1>a, <1>b
  <2>2. PICK p \in f .. l - 1 : t[m] = s[p]
    BY <1>1, <1>7, <1>a, <1>b
  <2>3. p \in 1 .. Len(s) /\ Holds(top, p) /\ k < p
    BY <1>1, <1>2, <1>7, <1>b, <2>1, <2>2
  <2> QED BY <1>4, <1>5, <1>7, <2>1, <2>2, <2>3
<1>8. CASE ~ Holds(top, k) /\ ~ Holds(top, m)
  <2>1. t[k] = s[k] /\ t[m] = s[m]
    BY <1>8, <1>a, <1>b
  <2> QED BY <1>2, <1>4, <2>1
<1> QED BY <1>6, <1>7, <1>8

(* The calls without the last, and with two in its place.                  *)
LEMMA FrontOf ==
    ASSUME NEW c \in Seq(Segment), c # <<>>
    PROVE  /\ Sorting!Front(c) \in Seq(Segment) /\ Len(Sorting!Front(c)) = Len(c) - 1 /\ Len(c) \in Nat \ {0}
           /\ \A q \in 1 .. Len(c) - 1 : Sorting!Front(c)[q] = c[q]
<1>1. Len(c) \in Nat \ {0} /\ Len(c) - 1 \in 0 .. Len(c) /\ 1 \in 1 .. Len(c) + 1
  OBVIOUS
<1>2. /\ SubSeq(c, 1, Len(c) - 1) \in Seq(Segment) /\ Len(SubSeq(c, 1, Len(c) - 1)) = Len(c) - 1
      /\ \A q \in 1 .. Len(c) - 1 : SubSeq(c, 1, Len(c) - 1)[q] = c[q]
  <2> DEFINE n == Len(c) - 1
  <2>1. n \in Nat /\ n <= Len(c)
    BY <1>1
  <2> HIDE DEF n
  <2>2. SubSeq(c, 1, n) \in Seq(Segment) /\ Len(SubSeq(c, 1, n)) = n /\ \A q \in 1 .. n : SubSeq(c, 1, n)[q] = c[q]
    BY <2>1
  <2> QED BY <2>2 DEF n
<1> QED BY <1>1, <1>2 DEF Sorting!Front

LEMMA SplitOf ==
    ASSUME NEW c \in Seq(Segment), c # <<>>, NEW x \in Segment, NEW y \in Segment
    PROVE  LET d == Sorting!Front(c) \o <<x, y>>
           IN  /\ d \in Seq(Segment) /\ Len(d) = Len(c) + 1 /\ d[Len(c)] = x /\ d[Len(c) + 1] = y
               /\ \A q \in 1 .. Len(c) - 1 : d[q] = c[q]
<1> DEFINE front == Sorting!Front(c)  two == <<x, y>>  d == front \o two
<1>1. /\ front \in Seq(Segment) /\ Len(front) = Len(c) - 1 /\ Len(c) \in Nat \ {0}
      /\ \A q \in 1 .. Len(c) - 1 : front[q] = c[q]
  BY FrontOf
<1>2. two \in Seq(Segment) /\ Len(two) = 2 /\ two[1] = x /\ two[2] = y
  OBVIOUS
<1> HIDE DEF front, two
<1>a. d = front \o two
  OBVIOUS
<1> HIDE DEF d
<1>b. front \in Seq(Segment) /\ two \in Seq(Segment)
  BY <1>1, <1>2
<1>c. /\ d \in Seq(Segment) /\ Len(d) = Len(front) + Len(two)
      /\ \A q \in 1 .. Len(front) + Len(two) : d[q] = IF q <= Len(front) THEN front[q] ELSE two[q - Len(front)]
  BY ONLY <1>a, <1>b, ConcatProperties
<1>3. d \in Seq(Segment) /\ Len(d) = Len(c) + 1
  BY <1>1, <1>2, <1>c
<1>4. \A q \in 1 .. Len(front) + Len(two) : d[q] = IF q <= Len(front) THEN front[q] ELSE two[q - Len(front)]
  BY <1>c
<1>5. d[Len(c)] = x /\ d[Len(c) + 1] = y
  <2>1. /\ Len(c) \in 1 .. Len(front) + Len(two) /\ ~ (Len(c) <= Len(front)) /\ Len(c) - Len(front) = 1
        /\ Len(c) + 1 \in 1 .. Len(front) + Len(two) /\ ~ (Len(c) + 1 <= Len(front)) /\ (Len(c) + 1) - Len(front) = 2
    BY <1>1, <1>2
  <2> QED BY <1>2, <1>4, <2>1
<1>6. \A q \in 1 .. Len(c) - 1 : d[q] = c[q]
  <2> SUFFICES ASSUME NEW q \in 1 .. Len(c) - 1 PROVE d[q] = c[q]
    OBVIOUS
  <2>1. q \in 1 .. Len(front) + Len(two) /\ q <= Len(front)
    BY <1>1, <1>2
  <2> QED BY <1>1, <1>4, <2>1
<1> QED BY <1>3, <1>5, <1>6 DEF d, front, two

(* Products of numbers.                                                    *)
LEMMA TimesGrows ==
    ASSUME NEW x \in Nat, NEW y \in Nat, NEW p \in Nat, x <= y
    PROVE  x * p <= y * p /\ x * p \in Nat /\ (x + x) * p = x * (p + p)
<1>1. PICK d \in Nat : y = x + d
  <2>1. y - x \in Nat /\ y = x + (y - x)
    OBVIOUS
  <2> QED BY <2>1
<1>2. y * p = x * p + d * p /\ d * p \in Nat /\ x * p \in Nat
  BY <1>1
<1>3. (x + x) * p = x * (p + p)
  OBVIOUS
<1> QED BY <1>2, <1>3

(* The last call gives way to two, x and y, for parts of its range that    *)
(* leave out only pairs that are in order, y for at most half of it.       *)
LEMMA SplitKeeps ==
    ASSUME NEW s \in Seq(Item), NEW c \in Seq(Segment), c # <<>>, Within(c, Len(s)), Disjoint(c), InOrder(s, c), Deep(c, Len(s)),
           NEW x \in Segment, NEW y \in Segment, NEW f, NEW l, f = c[Len(c)].first, l = c[Len(c)].last, l - f >= 2,
           f <= x.first, x.first <= x.last, x.last <= l, f <= y.first, y.first <= y.last, y.last <= l,
           x.last <= y.first \/ y.last <= x.first, 2 * (y.last - y.first) <= l - f,
           \A k, m \in f .. l - 1 : k < m => (Holds(x, k) /\ Holds(x, m)) \/ (Holds(y, k) /\ Holds(y, m)) \/ s[k].key <= s[m].key
    PROVE  LET d == Sorting!Front(c) \o <<x, y>>
           IN  d \in Seq(Segment) /\ Within(d, Len(s)) /\ Disjoint(d) /\ InOrder(s, d) /\ Deep(d, Len(s))
<1> DEFINE d == Sorting!Front(c) \o <<x, y>>  K == Len(c)  n == Len(s)
<1>1. /\ d \in Seq(Segment) /\ Len(d) = K + 1 /\ d[K] = x /\ d[K + 1] = y /\ \A q \in 1 .. K - 1 : d[q] = c[q]
  BY SplitOf
<1>2. K \in Nat /\ K >= 1 /\ n \in Nat /\ DOMAIN c = 1 .. K /\ DOMAIN s = 1 .. n /\ DOMAIN d = 1 .. K + 1
  BY <1>1
<1>a. K \in Int /\ K >= 1 /\ n \in Int /\ n >= 0
  BY <1>2
<1>b. \A q \in 1 .. K : c[q] \in Segment
  BY <1>2
<1>c. f = c[K].first /\ l = c[K].last
  OBVIOUS
<1>w. \A q \in 1 .. K : 1 <= c[q].first /\ c[q].first <= c[q].last /\ c[q].last <= n + 1
  BY <1>2 DEF Within
<1>p. \A p, q \in 1 .. K : p # q => c[p].last <= c[q].first \/ c[q].last <= c[p].first
  BY <1>2 DEF Disjoint
<1>o. \A k, m \in 1 .. n : k < m => Together(c, k, m) \/ s[k].key <= s[m].key
  BY <1>2 DEF InOrder
<1>g. n > 0 => \A q \in 1 .. K : 2 ^ (q - 1) <= n /\ Sorting!Length(c[q]) * 2 ^ (q - 1) <= n
  BY <1>2 DEF Deep
<1> HIDE DEF d, K, n
<1>4. /\ \A q \in 1 .. K + 1 : q \in 1 .. K - 1 \/ q = K \/ q = K + 1
      /\ \A q \in 1 .. K - 1 : q \in 1 .. K /\ q # K
      /\ \A q \in 1 .. K : q = K \/ (q \in 1 .. K - 1 /\ q \in 1 .. K + 1)
      /\ K \in 1 .. K /\ K \in 1 .. K + 1 /\ K + 1 \in 1 .. K + 1
  BY ONLY <1>a
<1>3. /\ f \in Int /\ l \in Int /\ 1 <= f /\ f <= l /\ l <= n + 1
      /\ x.first \in Int /\ x.last \in Int /\ y.first \in Int /\ y.last \in Int
      /\ \A q \in 1 .. K : c[q].first \in Int /\ c[q].last \in Int
  <2>1. c[K] \in Segment /\ 1 <= c[K].first /\ c[K].first <= c[K].last /\ c[K].last <= n + 1
    BY ONLY <1>4, <1>b, <1>w
  <2>2. f \in Int /\ l \in Int
    BY ONLY <1>c, <2>1 DEF Segment
  <2>3. x.first \in Int /\ x.last \in Int /\ y.first \in Int /\ y.last \in Int
    BY ONLY x \in Segment, y \in Segment DEF Segment
  <2>4. \A q \in 1 .. K : c[q].first \in Int /\ c[q].last \in Int
    BY ONLY <1>b DEF Segment
  <2>5. 1 <= f /\ f <= l /\ l <= n + 1
    BY ONLY <1>c, <2>1
  <2> QED BY ONLY <2>2, <2>3, <2>4, <2>5
<1>e. /\ l - f >= 2 /\ f <= x.first /\ x.first <= x.last /\ x.last <= l /\ f <= y.first /\ y.first <= y.last /\ y.last <= l
      /\ (x.last <= y.first \/ y.last <= x.first) /\ 2 * (y.last - y.first) <= l - f
  OBVIOUS
<1>5. Within(d, n)
  <2> SUFFICES ASSUME NEW q \in 1 .. K + 1 PROVE 1 <= d[q].first /\ d[q].first <= d[q].last /\ d[q].last <= n + 1
    BY <1>2 DEF Within
  <2>1. CASE q \in 1 .. K - 1
    <3>1. q \in 1 .. K
      BY ONLY <1>4, <2>1
    <3>2. d[q] = c[q] /\ 1 <= c[q].first /\ c[q].first <= c[q].last /\ c[q].last <= n + 1
      BY ONLY <1>1, <2>1, <3>1, <1>w
    <3> QED BY <3>2
  <2>2. CASE q = K
    <3>1. d[q] = x
      BY ONLY <1>1, <2>2
    <3>2. 1 <= x.first /\ x.first <= x.last /\ x.last <= n + 1
      BY ONLY SMTT(30), <1>a, <1>3, <1>e
    <3> QED BY ONLY <3>1, <3>2
  <2>3. CASE q = K + 1
    <3>1. d[q] = y
      BY ONLY <1>1, <2>3
    <3>2. 1 <= y.first /\ y.first <= y.last /\ y.last <= n + 1
      BY ONLY SMTT(30), <1>a, <1>3, <1>e
    <3> QED BY ONLY <3>1, <3>2
  <2> QED BY <1>4, <2>1, <2>2, <2>3
<1>6. ASSUME NEW q \in 1 .. K - 1, NEW z \in {x, y} PROVE c[q].last <= z.first \/ z.last <= c[q].first
  <2>1. q \in 1 .. K /\ K \in 1 .. K /\ q # K
    BY ONLY <1>4, q \in 1 .. K - 1
  <2>2. c[q].last <= f \/ l <= c[q].first
    BY ONLY <1>p, <1>c, <2>1
  <2>3. f <= z.first /\ z.last <= l /\ z.first \in Int /\ z.last \in Int
    BY ONLY <1>3, <1>e, z \in {x, y}
  <2>4. c[q].first \in Int /\ c[q].last \in Int /\ f \in Int /\ l \in Int
    BY ONLY <1>3, <2>1
  <2> QED BY ONLY <2>2, <2>3, <2>4
<1>7. Disjoint(d)
  <2> SUFFICES ASSUME NEW p \in 1 .. K + 1, NEW q \in 1 .. K + 1, p # q PROVE d[p].last <= d[q].first \/ d[q].last <= d[p].first
    BY <1>2 DEF Disjoint
  <2>1. CASE p \in 1 .. K - 1 /\ q \in 1 .. K - 1
    <3>1. p \in 1 .. K /\ q \in 1 .. K
      BY <1>2, <2>1
    <3>2. c[p].last <= c[q].first \/ c[q].last <= c[p].first
      BY <1>2, <3>1 DEF Disjoint
    <3> QED BY <1>1, <2>1, <3>2
  <2>2. CASE p \in 1 .. K - 1 /\ q \in {K, K + 1}
    <3>1. d[p] = c[p] /\ d[q] \in {x, y}
      BY <1>1, <2>2
    <3> QED BY <1>6, <2>2, <3>1
  <2>3. CASE q \in 1 .. K - 1 /\ p \in {K, K + 1}
    <3>1. d[q] = c[q] /\ d[p] \in {x, y}
      BY <1>1, <2>3
    <3> QED BY <1>6, <2>3, <3>1
  <2>4. CASE p \in {K, K + 1} /\ q \in {K, K + 1}
    BY <1>1, <2>4
  <2> QED BY <1>4, <2>1, <2>2, <2>3, <2>4
<1>8. InOrder(s, d)
  <2> SUFFICES ASSUME NEW k \in 1 .. n, NEW m \in 1 .. n, k < m PROVE Together(d, k, m) \/ s[k].key <= s[m].key
    BY <1>2 DEF InOrder
  <2>1. CASE ~ Together(c, k, m)
    BY <1>2, <2>1 DEF InOrder
  <2>2. ASSUME NEW q \in 1 .. K, Holds(c[q], k), Holds(c[q], m) PROVE Together(d, k, m) \/ s[k].key <= s[m].key
    <3>1. CASE q # K
      <4>1. q \in 1 .. K - 1 /\ q \in DOMAIN d
        BY ONLY <1>2, <1>4, <3>1, q \in 1 .. K
      <4> QED BY <1>1, <2>2, <4>1 DEF Together
    <3>2. CASE q = K
      <4>1. k \in f .. l - 1 /\ m \in f .. l - 1
        <5>1. Holds(c[K], k) /\ Holds(c[K], m)
          BY ONLY <2>2, <3>2
        <5>2. k \in Int /\ m \in Int
          BY <1>a
        <5> QED BY ONLY SMTT(30), <1>3, <1>c, <5>1, <5>2 DEF Holds
      <4>2. (Holds(x, k) /\ Holds(x, m)) \/ (Holds(y, k) /\ Holds(y, m)) \/ s[k].key <= s[m].key
        BY <4>1
      <4>3. K \in DOMAIN d /\ K + 1 \in DOMAIN d
        BY <1>2
      <4> QED BY <1>1, <4>2, <4>3 DEF Together
    <3> QED BY <3>1, <3>2
  <2> QED BY <1>2, <2>1, <2>2 DEF Together
<1>9. Deep(d, n)
  <2> SUFFICES ASSUME n > 0, NEW q \in 1 .. K + 1
               PROVE  2 ^ (q - 1) <= n /\ Sorting!Length(d[q]) * 2 ^ (q - 1) <= n
    BY <1>2 DEF Deep
  <2>1. \A r \in 1 .. K : 2 ^ (r - 1) <= n /\ Sorting!Length(c[r]) * 2 ^ (r - 1) <= n
    BY <1>g
  <2>2. CASE q \in 1 .. K - 1
    <3>1. q \in 1 .. K /\ d[q] = c[q]
      BY <1>1, <1>2, <2>2
    <3> QED BY <2>1, <3>1
  <2> DEFINE w == 2 ^ (K - 1)  L == l - f  X == x.last - x.first  Y == y.last - y.first
  <2>3. w \in Nat /\ w <= n /\ L * w <= n /\ 2 ^ K = w + w
    <3>1. K - 1 \in Nat /\ (K - 1) + 1 = K /\ K \in 1 .. K
      BY <1>2
    <3>2. 2 ^ (K - 1) \in Nat /\ 2 ^ ((K - 1) + 1) = 2 ^ (K - 1) + 2 ^ (K - 1)
      BY <3>1, PowerDoubles
    <3>3. Sorting!Length(c[K]) = L
      BY <1>c DEF Sorting!Length
    <3> QED BY <2>1, <3>1, <3>2, <3>3
  <2>4. X \in Nat /\ Y \in Nat /\ L \in Nat /\ X <= L /\ Y + Y <= L /\ L >= 2
    <3>1. X \in Int /\ Y \in Int /\ L \in Int /\ X >= 0 /\ Y >= 0 /\ X <= L /\ L >= 2
      <4>1. f \in Int /\ l \in Int /\ x.first \in Int /\ x.last \in Int /\ y.first \in Int /\ y.last \in Int
        BY ONLY <1>3
      <4>2. \A p1, p2, q1, q2, u, v \in Int :
               /\ v - u >= 2 /\ u <= p1 /\ p1 <= p2 /\ p2 <= v /\ u <= q1 /\ q1 <= q2
               => p2 - p1 \in Int /\ q2 - q1 \in Int /\ v - u \in Int /\ p2 - p1 >= 0 /\ q2 - q1 >= 0 /\ p2 - p1 <= v - u
        OBVIOUS
      <4>3. x.last - x.first \in Int /\ y.last - y.first \in Int /\ l - f \in Int
            /\ x.last - x.first >= 0 /\ y.last - y.first >= 0 /\ x.last - x.first <= l - f
        BY ONLY <4>1, <4>2, <1>e, Zenon
      <4> QED BY ONLY <1>e, <4>3 DEF X, Y, L
    <3>2. 2 * Y <= L
      BY ONLY <1>e DEF Y, L
    <3> HIDE DEF X, Y, L
    <3> QED BY ONLY <3>1, <3>2
  <2>5. Sorting!Length(x) = X /\ Sorting!Length(y) = Y
    BY DEF Sorting!Length
  <2> HIDE DEF w, L, X, Y
  <2>6. X * w <= n
    <3>1. X * w <= L * w /\ X * w \in Nat /\ L * w \in Int
      BY <2>3, <2>4, TimesGrows
    <3> QED BY <1>2, <2>3, <3>1
  <2>7. Y * (w + w) <= n
    <3>1. (Y + Y) * w <= L * w /\ (Y + Y) * w \in Nat
      <4>1. Y + Y \in Nat
        BY <2>4
      <4> QED BY <2>3, <2>4, <4>1, TimesGrows
    <3>2. (Y + Y) * w = Y * (w + w)
      BY <2>3, <2>4, TimesGrows
    <3>3. L * w \in Int
      BY <2>3, <2>4
    <3> QED BY <1>2, <2>3, <3>1, <3>2, <3>3
  <2>8. w + w <= n
    <3> DEFINE two == 2  one == 1
    <3>1. two * w <= L * w
      <4>1. two \in Nat /\ two <= L
        BY <2>4
      <4> HIDE DEF two
      <4> QED BY <2>3, <2>4, <4>1, TimesGrows
    <3>2. L * w \in Int /\ two * w = w + w
      BY <2>3, <2>4
    <3> QED BY <1>2, <2>3, <3>1, <3>2
  <2>9. CASE q = K
    BY <1>1, <2>3, <2>5, <2>6, <2>9 DEF w
  <2>10. CASE q = K + 1
    <3>1. (K + 1) - 1 = K
      BY <1>2
    <3> QED BY <1>1, <2>3, <2>5, <2>7, <2>8, <2>10, <3>1
  <2> QED BY <1>4, <2>2, <2>9, <2>10
<1> QED BY <1>1, <1>5, <1>7, <1>8, <1>9 DEF d, n

(* The last call returns, its range in order.                              *)
LEMMA ReturnKeeps ==
    ASSUME NEW s \in Seq(Item), NEW c \in Seq(Segment), c # <<>>, Within(c, Len(s)), Disjoint(c), InOrder(s, c), Deep(c, Len(s)),
           NEW f, NEW l, f = c[Len(c)].first, l = c[Len(c)].last,
           \A k, m \in f .. l - 1 : k < m => s[k].key <= s[m].key
    PROVE  LET d == Sorting!Front(c)
           IN  d \in Seq(Segment) /\ Within(d, Len(s)) /\ Disjoint(d) /\ InOrder(s, d) /\ Deep(d, Len(s))
<1> DEFINE d == Sorting!Front(c)  K == Len(c)  n == Len(s)
<1>1. /\ d \in Seq(Segment) /\ Len(d) = K - 1 /\ K \in Nat \ {0} /\ \A q \in 1 .. K - 1 : d[q] = c[q]
  BY FrontOf
<1>2. n \in Nat /\ DOMAIN c = 1 .. K /\ DOMAIN s = 1 .. n /\ DOMAIN d = 1 .. K - 1 /\ \A q \in 1 .. K - 1 : q \in 1 .. K
  BY <1>1
<1> HIDE DEF d
<1>3. f \in Int /\ l \in Int
  <2>1. c[K] \in Segment
    BY <1>1
  <2> QED BY <2>1 DEF Segment
<1>4. Within(d, n)
  BY <1>1, <1>2 DEF Within
<1>5. Disjoint(d)
  BY <1>1, <1>2 DEF Disjoint
<1>6. Deep(d, n)
  BY <1>1, <1>2 DEF Deep
<1>7. InOrder(s, d)
  <2> SUFFICES ASSUME NEW k \in 1 .. n, NEW m \in 1 .. n, k < m PROVE Together(d, k, m) \/ s[k].key <= s[m].key
    BY <1>2 DEF InOrder
  <2>1. CASE ~ Together(c, k, m)
    BY <1>2, <2>1 DEF InOrder
  <2>2. ASSUME NEW q \in 1 .. K, Holds(c[q], k), Holds(c[q], m) PROVE Together(d, k, m) \/ s[k].key <= s[m].key
    <3>1. CASE q # K
      <4>1. q \in 1 .. K - 1 /\ q \in DOMAIN d
        BY SMTT(30), <1>1, <1>2, <3>1
      <4> QED BY <1>1, <2>2, <4>1 DEF Together
    <3>2. CASE q = K
      <4>1. k \in f .. l - 1 /\ m \in f .. l - 1
        BY <1>3, <2>2, <3>2 DEF Holds
      <4> QED BY <4>1
    <3> QED BY <3>1, <3>2
  <2> QED BY <1>2, <2>1, <2>2 DEF Together
<1> QED BY <1>1, <1>4, <1>5, <1>6, <1>7 DEF d

(* The sorted front of a range grows by the element inserted.              *)
LEMMA InsertedDown ==
    ASSUME NEW s \in Seq(Item), NEW f \in Int, NEW l \in Int, NEW k \in Int, 1 <= f, f < k, k < l, l <= Len(s) + 1,
           \A p, q \in f .. l - 1 : p < q /\ q < k => s[p].key <= s[q].key
    PROVE  LET t == Sorting!InsertDown(s, f, k)
           IN  Rearranged(s, t, f, l) /\ \A p, q \in f .. l - 1 : p < q /\ q < k + 1 => t[p].key <= t[q].key
<1> DEFINE R == {f} \cup {p \in f + 1 .. k : ~ Sorting!comp(s[k], s[p - 1])}  to == Sorting!Max(R)
           t == Sorting!InsertDown(s, f, k)
<1>1. R \in SUBSET Int /\ R # {} /\ \A x \in R : x <= k
  OBVIOUS
<1>2. to \in R /\ \A x \in R : x <= to
  <2> HIDE DEF R
  <2> QED BY <1>1, MaxMinOf
<1>3. \A p \in 1 .. Len(s) : s[p] \in Item /\ s[p].key \in Int
  <2>1. \A p \in 1 .. Len(s) : s[p] \in Item
    OBVIOUS
  <2> QED BY ONLY <2>1 DEF Item
<1>4. t = [p \in DOMAIN s |-> IF p = to THEN s[k] ELSE IF p \in to + 1 .. k THEN s[p - 1] ELSE s[p]]
  BY DEF Sorting!InsertDown
<1> HIDE DEF t
<1>5. /\ to \in f .. k /\ (to = f \/ ~ (s[k].key < s[to - 1].key))
      /\ \A p \in to + 1 .. k : s[k].key < s[p - 1].key
  <2> HIDE DEF to
  <2>1. to \in f .. k /\ (to = f \/ ~ (s[k].key < s[to - 1].key))
    BY <1>2 DEF Sorting!comp
  <2>2. ASSUME NEW p \in to + 1 .. k, ~ (s[k].key < s[p - 1].key) PROVE FALSE
    <3>1. p \in f + 1 .. k /\ ~ (p <= to)
      BY <2>1, <2>2
    <3>2. p \in R
      BY <2>2, <3>1 DEF Sorting!comp
    <3> QED BY <1>2, <3>1, <3>2
  <2> QED BY <2>1, <2>2
<1> HIDE DEF R, to
<1>6. Len(s) \in Nat /\ DOMAIN s = 1 .. Len(s) /\ to \in Int /\ f <= to /\ to <= k
  BY <1>5
<1>7. t = [p \in 1 .. Len(s) |-> IF p = to THEN s[k] ELSE IF to < p /\ p <= k THEN s[p - 1] ELSE s[p]]
  BY <1>4, <1>6
<1>8. \A p \in 1 .. Len(s) : t[p] = IF p = to THEN s[k] ELSE IF to < p /\ p <= k THEN s[p - 1] ELSE s[p]
  BY <1>7
<1>9. \A p \in 1 .. Len(s) : t[p] \in Item
  BY <1>3, <1>6, <1>8
<1>10. t \in Seq(Item) /\ Len(t) = Len(s)
  <2>1. t = [p \in 1 .. Len(s) |-> t[p]]
    BY <1>7
  <2> QED BY <1>6, <1>9, <2>1
<1>11. \A p \in f .. l - 1 : p \in 1 .. Len(s)
  BY <1>6
<1>12. \A p \in f .. l - 1 : \E m \in f .. l - 1 : t[p] = s[m]
  <2> SUFFICES ASSUME NEW p \in f .. l - 1 PROVE \E m \in f .. l - 1 : t[p] = s[m]
    OBVIOUS
  <2>1. p \in 1 .. Len(s) /\ k \in f .. l - 1
    BY <1>11
  <2>2. to < p => p - 1 \in f .. l - 1
    BY <1>6
  <2> QED BY <1>8, <2>1, <2>2
<1>13. \A m \in f .. l - 1 : \E p \in f .. l - 1 : t[p] = s[m]
  <2> SUFFICES ASSUME NEW m \in f .. l - 1 PROVE \E p \in f .. l - 1 : t[p] = s[m]
    OBVIOUS
  <2>1. CASE m = k
    <3>1. to \in f .. l - 1 /\ to \in 1 .. Len(s)
      BY <1>6
    <3> QED BY <1>8, <2>1, <3>1
  <2>2. CASE m # k /\ to <= m /\ m < k
    <3>1. m + 1 \in f .. l - 1 /\ m + 1 \in 1 .. Len(s) /\ m + 1 # to /\ to < m + 1 /\ m + 1 <= k /\ (m + 1) - 1 = m
      BY <1>6, <2>2
    <3>2. t[m + 1] = s[(m + 1) - 1]
      BY <1>8, <3>1
    <3> QED BY <3>1, <3>2
  <2>3. CASE m # k /\ ~ (to <= m /\ m < k)
    <3>1. m \in 1 .. Len(s) /\ m # to /\ ~ (to < m /\ m <= k)
      BY <1>6, <2>3
    <3> QED BY <1>8, <3>1
  <2> QED BY <2>1, <2>2, <2>3
<1>14. \A p \in 1 .. Len(s) : ~ (f <= p /\ p < l) => t[p] = s[p]
  BY <1>6, <1>8
<1>15. ASSUME NEW p \in f .. l - 1, NEW q \in f .. l - 1, p < q, q < k + 1 PROVE t[p].key <= t[q].key
  <2>s. \A x, y \in f .. l - 1 : x < y /\ y < k => s[x].key <= s[y].key
    OBVIOUS
  <2>t. \A x \in f .. l - 1 : s[x].key \in Int
    BY <1>3, <1>11
  <2>p. p \in 1 .. Len(s) /\ q \in 1 .. Len(s) /\ p \in Int /\ q \in Int /\ k \in f .. l - 1
    BY <1>11
  <2>1. CASE q < to
    <3>1. t[p] = s[p] /\ t[q] = s[q] /\ q < k
      BY <1>6, <1>8, <1>15, <2>1, <2>p
    <3> QED BY <1>15, <2>s, <3>1
  <2>2. CASE q = to
    <3>1. t[q] = s[k] /\ t[p] = s[p] /\ to # f /\ to - 1 \in f .. l - 1 /\ to - 1 < k /\ (p = to - 1 \/ p < to - 1)
      BY <1>6, <1>8, <1>15, <2>2, <2>p
    <3>2. s[to - 1].key <= s[k].key
      <4>1. s[to - 1].key \in Int /\ s[k].key \in Int
        BY <2>t, <2>p, <3>1
      <4> QED BY SMTT(30), <1>5, <3>1, <4>1
    <3>3. s[p].key <= s[to - 1].key
      <4>1. p < to - 1 => s[p].key <= s[to - 1].key
        BY <2>s, <3>1
      <4>2. s[p].key \in Int
        BY <2>t
      <4> QED BY <3>1, <4>1, <4>2
    <3>4. s[to - 1].key \in Int /\ s[k].key \in Int /\ s[p].key \in Int
      BY <2>t, <2>p, <3>1
    <3> QED BY ONLY SMTT(30), <3>1, <3>2, <3>3, <3>4
  <2>3. CASE to < q
    <3>1. t[q] = s[q - 1] /\ q - 1 \in f .. l - 1 /\ q - 1 < k /\ q \in to + 1 .. k
      BY <1>6, <1>8, <1>15, <2>3, <2>p
    <3>2. s[k].key < s[q - 1].key
      BY <1>5, <3>1
    <3>3. s[q - 1].key \in Int /\ s[k].key \in Int
      BY <2>t, <2>p, <3>1
    <3>4. CASE p = to
      <4>1. t[p] = s[k]
        BY <1>8, <2>p, <3>4
      <4> QED BY SMTT(30), <3>1, <3>2, <3>3, <4>1
    <3>5. CASE p < to
      <4>1. t[p] = s[p] /\ p < q - 1
        BY <1>6, <1>8, <2>3, <2>p, <3>5
      <4> QED BY <2>s, <3>1, <4>1
    <3>6. CASE to < p
      <4>1. t[p] = s[p - 1] /\ p - 1 < q - 1 /\ p - 1 \in f .. l - 1
        BY <1>6, <1>8, <1>15, <2>p, <3>6
      <4> QED BY <2>s, <3>1, <4>1
    <3> QED BY <1>6, <2>p, <3>4, <3>5, <3>6
  <2> QED BY <1>6, <2>p, <2>1, <2>2, <2>3
<1>16. Rearranged(s, t, f, l)
  BY <1>10, <1>12, <1>13, <1>14 DEF Rearranged
<1> QED BY <1>15, <1>16 DEF t

(***************************************************************************)
(* The steps of sort.                                                      *)
(***************************************************************************)
LEMMA TopIs ==
    ASSUME AlgTypes, Within(open, Len(a)), open # <<>>
    PROVE  /\ Sorting!Top = open[Len(open)] /\ Sorting!Top.first \in Int /\ Sorting!Top.last \in Int /\ Len(a) \in Nat
           /\ 1 <= Sorting!Top.first /\ Sorting!Top.first <= Sorting!Top.last /\ Sorting!Top.last <= Len(a) + 1
           /\ Sorting!Length(Sorting!Top) = Sorting!Top.last - Sorting!Top.first
<1>1. Sorting!Top = open[Len(open)] /\ Len(open) \in DOMAIN open /\ open[Len(open)] \in Segment /\ Len(a) \in Nat
  BY DEF AlgTypes, Sorting!Top
<1>2. 1 <= open[Len(open)].first /\ open[Len(open)].first <= open[Len(open)].last /\ open[Len(open)].last <= Len(a) + 1
  BY <1>1 DEF Within
<1>3. open[Len(open)].first \in Int /\ open[Len(open)].last \in Int
  BY ONLY <1>1 DEF Segment
<1> QED BY ONLY <1>1, <1>2, <1>3 DEF Sorting!Length

LEMMA ItemAt ==
    ASSUME NEW s \in Seq(Item)
    PROVE  \A k \in 1 .. Len(s) : s[k] \in Item /\ s[k].key \in Int
<1>1. \A k \in 1 .. Len(s) : s[k] \in Item
  OBVIOUS
<1> QED BY ONLY <1>1 DEF Item

(* A step that rearranges the last call's range.                           *)
LEMMA RearrangingKeeps ==
    ASSUME SortInv, open # <<>>, Rearranged(a, a', Sorting!Top.first, Sorting!Top.last), UNCHANGED <<input, open>>,
           i' \in Int, j' \in Int, pivot' \in Item, at' \in {"sort", "scan", "swap", "insert"}, Parting', Inserting'
    PROVE  SortInv'
<1> DEFINE c == Sorting!Top  t == a'
<1>1. AlgTypes /\ Kept /\ Within(open, Len(a)) /\ Disjoint(open) /\ InOrder(a, open) /\ Deep(open, Len(a))
  BY DEF SortInv
<1>2. /\ c = open[Len(open)] /\ c.first \in Int /\ c.last \in Int /\ Len(a) \in Nat
      /\ 1 <= c.first /\ c.first <= c.last /\ c.last <= Len(a) + 1
  BY <1>1, TopIs
<1>3. /\ a \in Seq(Item) /\ input \in Seq(Item) /\ open \in Seq(Segment) /\ Len(a) = Len(input)
      /\ Sorting!Ids(a) = Sorting!Ids(input) /\ From(a, input)
  BY <1>1 DEF AlgTypes, Kept
<1>4. Rearranged(a, t, c.first, c.last) /\ Rearranged(a, t, open[Len(open)].first, open[Len(open)].last)
  BY <1>2
<1> HIDE DEF c, t
<1>5. Sorting!Ids(t) = Sorting!Ids(a) /\ From(t, input)
  BY ONLY <1>2, <1>3, <1>4, RearrangedKept
<1>6. InOrder(t, open)
  BY ONLY <1>1, <1>3, <1>4, open # <<>>, RearrangedOrder
<1>7. t \in Seq(Item) /\ Len(t) = Len(a)
  BY ONLY <1>4 DEF Rearranged
<1>8. AlgTypes'
  BY <1>3, <1>7 DEF AlgTypes, t
<1>9. Kept'
  <2>1. Sorting!Ids(a)' = Sorting!Ids(t) /\ Sorting!Ids(input)' = Sorting!Ids(input)
    BY DEF Sorting!Ids, t
  <2>2. From(a, input)'
    BY <1>5 DEF From, t
  <2> QED BY <1>3, <1>5, <2>1, <2>2 DEF Kept
<1>10. Within(open, Len(a))' /\ Disjoint(open)' /\ Deep(open, Len(a))'
  BY <1>1, <1>7 DEF t, Within, Disjoint, Deep, Sorting!Length
<1>11. InOrder(a, open)'
  BY <1>6 DEF t, InOrder, Together, Holds
<1> QED BY <1>8, <1>9, <1>10, <1>11 DEF SortInv

(* algorithm:33-40: three elements of the range change places; the pivot   *)
(* is one of the range's own, which stops both scans.                      *)
LEMMA ChooseKeeps ==
    ASSUME SortInv, Sorting!Choose, Sorting!AlgorithmAssumption
    PROVE  SortInv'
<1> DEFINE c == Sorting!Top  f == c.first  l == c.last  mid == f + Sorting!Length(c) \div 2  end == l - 1
           low == Sorting!SwapIf(a, mid, f)  swapped == Sorting!Swapped(low, end, mid)
           high == IF Sorting!comp(low[end], low[mid]) THEN Sorting!SwapIf(swapped, mid, f) ELSE low
<1>1. /\ at = "sort" /\ open # <<>> /\ Sorting!Length(c) > SMALL /\ SMALL \in Nat \ {0}
      /\ a' = high /\ pivot' = high[mid] /\ i' = f /\ j' = l - 1 /\ at' = "scan" /\ UNCHANGED <<input, open>>
  BY DEF Sorting!Choose, Sorting!AlgorithmAssumption
<1>2. AlgTypes /\ Within(open, Len(a)) /\ a \in Seq(Item)
  BY DEF SortInv, AlgTypes
<1>3. /\ f \in Int /\ l \in Int /\ Len(a) \in Nat /\ 1 <= f /\ f <= l /\ l <= Len(a) + 1 /\ Sorting!Length(c) = l - f
  BY <1>1, <1>2, TopIs
<1> HIDE DEF c, f, l
<1>4. mid \in f .. l - 1 /\ end \in f .. l - 1 /\ f \in f .. l - 1 /\ l - f >= 2
  <2> DEFINE half == (l - f) \div 2
  <2>1. l - f \in Nat /\ l - f >= 2
    BY <1>1, <1>3
  <2>2. half \in Nat /\ half < l - f
    BY <2>1, <1>3
  <2>3. mid = f + half
    BY <1>3
  <2> HIDE DEF half, mid
  <2> QED BY <1>3, <2>1, <2>2, <2>3
<1> HIDE DEF mid, end
<1>5. Rearranged(a, low, f, l)
  <2> HIDE DEF low
  <2> QED BY <1>2, <1>3, <1>4, SwapIfRearranges DEF low
<1>6. low \in Seq(Item) /\ Len(low) = Len(a)
  BY ONLY <1>5 DEF Rearranged
<1> HIDE DEF low
<1>7. Rearranged(low, swapped, f, l)
  <2> HIDE DEF swapped
  <2> QED BY <1>3, <1>4, <1>6, SwapRearranges DEF swapped
<1>8. swapped \in Seq(Item) /\ Len(swapped) = Len(a)
  BY ONLY <1>6, <1>7 DEF Rearranged
<1> HIDE DEF swapped
<1>9. Rearranged(swapped, Sorting!SwapIf(swapped, mid, f), f, l)
  BY <1>3, <1>4, <1>8, SwapIfRearranges
<1>10. Rearranged(a, high, f, l)
  <2>1. Rearranged(a, swapped, f, l)
    BY ONLY <1>5, <1>7, RearrangesThen
  <2>2. Rearranged(a, Sorting!SwapIf(swapped, mid, f), f, l)
    BY ONLY <1>9, <2>1, RearrangesThen
  <2> QED BY <1>5, <2>2
<1> HIDE DEF high
<1>11. high \in Seq(Item) /\ Len(high) = Len(a) /\ mid \in 1 .. Len(a) /\ high[mid] \in Item /\ high[mid].key \in Int
  <2>1. high \in Seq(Item) /\ Len(high) = Len(a)
    BY ONLY <1>10 DEF Rearranged
  <2>2. mid \in 1 .. Len(a)
    BY <1>3, <1>4
  <2> QED BY <2>1, <2>2, ItemAt
<1>12. Sorting!Top' = c
  BY <1>1 DEF Sorting!Top, c
<1>13. Parting'
  <2>1. /\ f \in f .. l /\ l - 1 \in f - 1 .. l - 1 /\ \A k \in f .. f - 1 : FALSE
        /\ \A k \in (l - 1) + 1 .. l - 1 : FALSE
    BY <1>3, <1>4
  <2>2. mid \in f .. l - 1 /\ high[mid].key >= high[mid].key /\ high[mid].key <= high[mid].key
    BY <1>4, <1>11
  <2>3. Sorting!Length(Sorting!Top)' = Sorting!Length(c)
    BY <1>12 DEF Sorting!Length
  <2> QED BY <1>1, <1>12, <2>1, <2>2, <2>3 DEF Parting, f, l
<1>14. Inserting'
  BY <1>1 DEF Inserting
<1> QED BY <1>1, <1>3, <1>10, <1>11, <1>13, <1>14, RearrangingKeeps DEF c, f, l

(* algorithm:42-43: both scans stop inside the range.                      *)
LEMMA ScanKeeps ==
    ASSUME SortInv, Sorting!Scan
    PROVE  SortInv'
<1> DEFINE c == Sorting!Top  f == c.first  l == c.last  p == pivot.key
           up == {k \in i .. Len(a) : ~ Sorting!comp(a[k], pivot)} \cup {Len(a) + 1}
           down == {k \in 1 .. j : ~ Sorting!comp(pivot, a[k])} \cup {0}
           x == Sorting!Min(up)  y == Sorting!Max(down)
<1>1. at = "scan" /\ i <= j /\ i' = x /\ j' = y /\ at' = "swap" /\ UNCHANGED <<input, a, open, pivot>>
  BY DEF Sorting!Scan
<1>2. AlgTypes /\ Within(open, Len(a)) /\ a \in Seq(Item) /\ i \in Int /\ j \in Int /\ p \in Int /\ pivot \in Item
  BY DEF SortInv, AlgTypes, Item
<1>3. /\ open # <<>> /\ Sorting!Length(c) > SMALL /\ i \in f .. l /\ j \in f - 1 .. l - 1
      /\ \A k \in f .. i - 1 : a[k].key <= p
      /\ \A k \in j + 1 .. l - 1 : a[k].key >= p
      /\ \E k \in i .. l - 1 : a[k].key >= p
      /\ \E k \in f .. j : a[k].key <= p
  BY <1>1 DEF SortInv, Parting
<1>4. /\ f \in Int /\ l \in Int /\ Len(a) \in Nat /\ 1 <= f /\ f <= l /\ l <= Len(a) + 1
  BY <1>2, <1>3, TopIs
<1>k. \A k \in 1 .. Len(a) : a[k].key \in Int
  BY <1>2, ItemAt
<1>5. up \in SUBSET Int /\ up # {} /\ (\A k \in up : k >= i) /\ down \in SUBSET Int /\ down # {} /\ (\A k \in down : k <= Len(a) + 1)
  BY SMTT(30), <1>2, <1>3, <1>4
<1>6. x \in up /\ (\A k \in up : x <= k) /\ y \in down /\ (\A k \in down : k <= y)
  <2>1. i \in Int /\ Len(a) + 1 \in Int
    BY <1>2, <1>4
  <2> HIDE DEF up, down
  <2>2. x \in up /\ (\A k \in up : x <= k)
    BY <1>5, <2>1, MaxMinOf
  <2>3. y \in down /\ (\A k \in down : k <= y)
    BY <1>5, <2>1, MaxMinOf
  <2> QED BY <2>2, <2>3
<1> HIDE DEF x, y, c, f, l, p
<1>c. \A k \in 1 .. Len(a) : (~ Sorting!comp(a[k], pivot) <=> a[k].key >= p) /\ (~ Sorting!comp(pivot, a[k]) <=> a[k].key <= p)
  BY <1>2, <1>k DEF Sorting!comp, p
<1>7. /\ x \in i .. l - 1 /\ a[x].key >= p /\ \A k \in i .. x - 1 : a[k].key <= p
  <2>1. PICK k \in i .. l - 1 : a[k].key >= p
    BY <1>3
  <2>2. k \in 1 .. Len(a) /\ k \in i .. Len(a)
    BY <1>2, <1>3, <1>4
  <2>3. k \in up
    BY <1>c, <2>1, <2>2
  <2>4. x <= k /\ x # Len(a) + 1 /\ x \in i .. l - 1 /\ x \in 1 .. Len(a)
    BY <1>2, <1>3, <1>4, <1>6, <2>1, <2>3
  <2>5. a[x].key >= p
    BY <1>6, <1>c, <2>4
  <2>6. ASSUME NEW m \in i .. x - 1 PROVE a[m].key <= p
    <3>1. m \in 1 .. Len(a) /\ m \in i .. Len(a) /\ ~ (x <= m)
      BY <1>2, <1>3, <1>4, <2>4
    <3>2. Sorting!comp(a[m], pivot)
      BY <1>6, <3>1
    <3> QED BY <1>2, <1>k, <1>c, <3>1, <3>2
  <2> QED BY <2>4, <2>5, <2>6
<1>8. /\ y \in f .. j /\ a[y].key <= p /\ \A k \in y + 1 .. j : a[k].key >= p
  <2>1. PICK k \in f .. j : a[k].key <= p
    BY <1>3
  <2>2. k \in 1 .. Len(a) /\ k \in 1 .. j
    BY <1>2, <1>3, <1>4
  <2>3. k \in down
    BY <1>c, <2>1, <2>2
  <2>4. k <= y /\ y # 0 /\ y \in f .. j /\ y \in 1 .. Len(a)
    BY <1>2, <1>3, <1>4, <1>6, <2>1, <2>3
  <2>5. a[y].key <= p
    BY <1>6, <1>c, <2>4
  <2>6. ASSUME NEW m \in y + 1 .. j PROVE a[m].key >= p
    <3>1. m \in 1 .. Len(a) /\ m \in 1 .. j /\ ~ (m <= y)
      BY SMTT(30), <1>2, <1>3, <1>4, <2>4
    <3>2. Sorting!comp(pivot, a[m])
      BY <1>6, <3>1
    <3> QED BY SMTT(30), <1>2, <1>k, <1>c, <3>1, <3>2
  <2> QED BY <2>4, <2>5, <2>6
<1>9. \A k \in f .. x - 1 : a[k].key <= p
  <2> SUFFICES ASSUME NEW k \in f .. x - 1 PROVE a[k].key <= p
    OBVIOUS
  <2>1. k \in f .. i - 1 \/ k \in i .. x - 1
    BY <1>2, <1>4, <1>7
  <2> QED BY <1>3, <1>7, <2>1
<1>10. \A k \in y + 1 .. l - 1 : a[k].key >= p
  <2> SUFFICES ASSUME NEW k \in y + 1 .. l - 1 PROVE a[k].key >= p
    OBVIOUS
  <2>1. k \in j + 1 .. l - 1 \/ k \in y + 1 .. j
    BY <1>2, <1>4, <1>8
  <2> QED BY <1>3, <1>8, <2>1
<1>11. x \in f .. l - 1 /\ y \in f .. l - 1 /\ x \in f .. l /\ y \in f - 1 .. l - 1 /\ x \in Int /\ y \in Int
  BY SMTT(30), <1>2, <1>3, <1>4, <1>7, <1>8
<1>12. Sorting!Top' = c /\ Sorting!Length(Sorting!Top)' = Sorting!Length(c) /\ pivot.key' = p
  BY <1>1 DEF Sorting!Top, Sorting!Length, c, p
<1>13. Parting'
  BY <1>1, <1>3, <1>7, <1>8, <1>9, <1>10, <1>11, <1>12 DEF Parting, f, l
<1>14. Inserting'
  BY <1>1 DEF Inserting
<1>15. Rearranged(a, a', f, l)
  BY <1>1, <1>2, SameRearranges
<1> QED BY <1>1, <1>2, <1>3, <1>11, <1>13, <1>14, <1>15, RearrangingKeeps DEF c, f, l

(* algorithm:44: what is exchanged stops the next scans.                   *)
LEMMA ExchangeKeeps ==
    ASSUME SortInv, Sorting!Exchange
    PROVE  SortInv'
<1> DEFINE c == Sorting!Top  f == c.first  l == c.last  p == pivot.key  t == Sorting!Swapped(a, i, j)
<1>1. /\ at = "swap" /\ at' = "scan" /\ UNCHANGED <<input, open, pivot>>
      /\ IF i <= j THEN a' = t /\ i' = i + 1 /\ j' = j - 1 ELSE UNCHANGED <<a, i, j>>
  BY DEF Sorting!Exchange
<1>2. AlgTypes /\ Within(open, Len(a)) /\ a \in Seq(Item) /\ i \in Int /\ j \in Int /\ p \in Int /\ pivot \in Item
  BY DEF SortInv, AlgTypes, Item
<1>3. /\ open # <<>> /\ Sorting!Length(c) > SMALL /\ i \in f .. l - 1 /\ j \in f .. l - 1
      /\ \A k \in f .. i - 1 : a[k].key <= p
      /\ \A k \in j + 1 .. l - 1 : a[k].key >= p
      /\ a[i].key >= p /\ a[j].key <= p
  BY <1>1 DEF SortInv, Parting
<1>4. /\ f \in Int /\ l \in Int /\ Len(a) \in Nat /\ 1 <= f /\ f <= l /\ l <= Len(a) + 1
  BY <1>2, <1>3, TopIs
<1> HIDE DEF c, f, l, p, t
<1>5. i \in 1 .. Len(a) /\ j \in 1 .. Len(a)
  BY <1>3, <1>4
<1>6. Rearranged(a, t, f, l) /\ Rearranged(a, a, f, l)
  BY <1>2, <1>3, <1>4, SwapRearranges, SameRearranges DEF t
<1>7. \A k \in 1 .. Len(a) : t[k] = IF k = j THEN a[i] ELSE IF k = i THEN a[j] ELSE a[k]
  <2>1. Exchanged(t, a, i, j)
    BY ONLY <1>2, <1>5, SwappedAt DEF t
  <2> QED BY ONLY <2>1 DEF Exchanged
<1>8. Sorting!Top' = c /\ Sorting!Length(Sorting!Top)' = Sorting!Length(c) /\ pivot.key' = p
  BY <1>1 DEF Sorting!Top, Sorting!Length, c, p
<1>9. i' \in Int /\ j' \in Int /\ pivot' \in Item /\ Inserting' /\ Rearranged(a, a', f, l)
  BY <1>1, <1>2, <1>6 DEF Inserting
<1>10. Parting'
  <2>1. CASE i <= j
    <3>1. a' = t /\ i' = i + 1 /\ j' = j - 1
      BY <1>1, <2>1
    <3>2. i + 1 \in f .. l /\ j - 1 \in f - 1 .. l - 1
      BY SMTT(30), <1>3, <1>4
    <3>3. \A k \in f .. (i + 1) - 1 : t[k].key <= p
      <4> SUFFICES ASSUME NEW k \in f .. (i + 1) - 1 PROVE t[k].key <= p
        OBVIOUS
      <4>1. k \in 1 .. Len(a) /\ (k = i \/ (k \in f .. i - 1 /\ k # j /\ k # i))
        BY <1>2, <1>3, <1>4, <2>1
      <4>2. CASE k = i /\ i = j
        BY <1>3, <1>7, <4>1, <4>2
      <4>3. CASE k = i /\ i # j
        BY <1>3, <1>7, <4>1, <4>3
      <4>4. CASE k # i
        BY <1>3, <1>7, <4>1, <4>4
      <4> QED BY <4>2, <4>3, <4>4
    <3>4. \A k \in (j - 1) + 1 .. l - 1 : t[k].key >= p
      <4> SUFFICES ASSUME NEW k \in (j - 1) + 1 .. l - 1 PROVE t[k].key >= p
        OBVIOUS
      <4>1. k \in 1 .. Len(a) /\ (k = j \/ (k \in j + 1 .. l - 1 /\ k # j /\ k # i))
        BY <1>2, <1>3, <1>4, <2>1
      <4>2. CASE k = j
        BY <1>3, <1>7, <4>1, <4>2
      <4>3. CASE k # j
        BY <1>3, <1>7, <4>1, <4>3
      <4> QED BY <4>2, <4>3
    <3>5. i + 1 <= j - 1 => (\E k \in i + 1 .. l - 1 : t[k].key >= p) /\ (\E k \in f .. j - 1 : t[k].key <= p)
      <4> SUFFICES ASSUME i + 1 <= j - 1 PROVE (\E k \in i + 1 .. l - 1 : t[k].key >= p) /\ (\E k \in f .. j - 1 : t[k].key <= p)
        OBVIOUS
      <4>1. j \in i + 1 .. l - 1 /\ i \in f .. j - 1 /\ i # j
        BY <1>3, <1>4
      <4>2. t[j].key >= p /\ t[i].key <= p
        BY <1>3, <1>5, <1>7, <4>1
      <4> QED BY <4>1, <4>2
    <3> QED BY <1>1, <1>3, <1>8, <3>1, <3>2, <3>3, <3>4, <3>5 DEF Parting, f, l
  <2>2. CASE ~ (i <= j)
    <3>1. a' = a /\ i' = i /\ j' = j
      BY <1>1, <2>2
    <3>2. i \in f .. l /\ j \in f - 1 .. l - 1
      BY <1>3, <1>4
    <3> QED BY <1>1, <1>3, <1>8, <2>2, <3>1, <3>2 DEF Parting, f, l
  <2> QED BY <2>1, <2>2
<1> QED BY <1>1, <1>3, <1>9, <1>10, RearrangingKeeps DEF c, f, l

(* A step that changes the calls.                                          *)
LEMMA CallsKeep ==
    ASSUME SortInv, UNCHANGED <<input, a, i, j, pivot>>, at' = "sort", open' \in Seq(Segment),
           Within(open', Len(a)), Disjoint(open'), InOrder(a, open'), Deep(open', Len(a))
    PROVE  SortInv'
<1>1. AlgTypes' /\ Kept'
  <2>1. AlgTypes'
    BY DEF SortInv, AlgTypes
  <2>2. Sorting!Ids(a)' = Sorting!Ids(a) /\ Sorting!Ids(input)' = Sorting!Ids(input)
    BY DEF Sorting!Ids
  <2>3. From(a, input)'
    BY DEF SortInv, Kept, From
  <2> QED BY <2>1, <2>2, <2>3 DEF SortInv, Kept
<1>a. Parting' /\ Inserting'
  BY DEF Parting, Inserting
<1>2. Within(open, Len(a))' /\ Disjoint(open)' /\ Deep(open, Len(a))'
  BY DEF Within, Disjoint, Deep, Sorting!Length
<1>3. InOrder(a, open)'
  BY DEF InOrder, Together, Holds
<1> QED BY <1>1, <1>a, <1>2, <1>3 DEF SortInv

(* algorithm:46-47: what lies between the parts is in its place.           *)
LEMMA SplitStepKeeps ==
    ASSUME SortInv, Sorting!Split, Sorting!AlgorithmAssumption
    PROVE  SortInv'
<1> DEFINE c == Sorting!Top  f == c.first  l == c.last  p == pivot.key
           left == Sorting!Part(f, j + 1)  right == Sorting!Part(i, l)
           shorter == j - f < l - i
           x == IF shorter THEN right ELSE left  y == IF shorter THEN left ELSE right
<1>1. /\ at = "scan" /\ i > j /\ at' = "sort" /\ UNCHANGED <<input, a, i, j, pivot>> /\ SMALL \in Nat \ {0}
      /\ open' = Sorting!Front(open) \o <<x, y>>
  BY DEF Sorting!Split, Sorting!AlgorithmAssumption, Sorting!sorting, Sorting!rotating
<1>2. /\ AlgTypes /\ Within(open, Len(a)) /\ a \in Seq(Item) /\ i \in Int /\ j \in Int /\ p \in Int /\ open \in Seq(Segment)
      /\ Disjoint(open) /\ InOrder(a, open) /\ Deep(open, Len(a))
  BY DEF SortInv, AlgTypes, Item
<1>3. /\ open # <<>> /\ Sorting!Length(c) > SMALL /\ i \in f .. l /\ j \in f - 1 .. l - 1
      /\ \A k \in f .. i - 1 : a[k].key <= p
      /\ \A k \in j + 1 .. l - 1 : a[k].key >= p
  BY <1>1 DEF SortInv, Parting
<1>4. /\ f \in Int /\ l \in Int /\ Len(a) \in Nat /\ 1 <= f /\ f <= l /\ l <= Len(a) + 1
      /\ c = open[Len(open)] /\ Sorting!Length(c) = l - f
  BY <1>2, <1>3, TopIs
<1>5. left = [first |-> f, last |-> j + 1] /\ right = [first |-> i, last |-> l]
  BY DEF Sorting!Part
<1>c. f = open[Len(open)].first /\ l = open[Len(open)].last
  BY <1>4
<1> HIDE DEF c, f, l, p, left, right
<1>6. left \in Segment /\ right \in Segment /\ left.first = f /\ left.last = j + 1 /\ right.first = i /\ right.last = l
  BY <1>2, <1>4, <1>5 DEF Segment
<1>7. l - f >= 2 /\ l - f \in Int
  BY SMTT(30), <1>1, <1>3, <1>4
<1>8. x \in Segment /\ y \in Segment /\ ((x = left /\ y = right) \/ (x = right /\ y = left))
  BY <1>6
<1>9. /\ f <= x.first /\ x.first <= x.last /\ x.last <= l /\ f <= y.first /\ y.first <= y.last /\ y.last <= l
      /\ (x.last <= y.first \/ y.last <= x.first)
  <2> HIDE DEF x, y
  <2> QED BY ONLY SMTT(30), <1>1, <1>2, <1>3, <1>4, <1>6, <1>8
<1>10. 2 * (y.last - y.first) <= l - f
  <2>1. CASE shorter
    <3>1. y.first = f /\ y.last = j + 1
      BY <1>6, <2>1
    <3>2. 2 * ((j + 1) - f) <= l - f
      BY <1>1, <1>2, <1>3, <1>4, <2>1
    <3> QED BY <3>1, <3>2
  <2>2. CASE ~ shorter
    <3>1. y.first = i /\ y.last = l
      BY <1>6, <2>2
    <3>2. 2 * (l - i) <= l - f
      BY <1>1, <1>2, <1>3, <1>4, <2>2
    <3> QED BY <3>1, <3>2
  <2> QED BY <2>1, <2>2
<1>k. \A k \in 1 .. Len(a) : a[k].key \in Int
  BY <1>2, ItemAt
<1>11. \A k, m \in f .. l - 1 : k < m => (Holds(x, k) /\ Holds(x, m)) \/ (Holds(y, k) /\ Holds(y, m)) \/ a[k].key <= a[m].key
  <2> SUFFICES ASSUME NEW k \in f .. l - 1, NEW m \in f .. l - 1, k < m
               PROVE  (Holds(left, k) /\ Holds(left, m)) \/ (Holds(right, k) /\ Holds(right, m)) \/ a[k].key <= a[m].key
    BY <1>8
  <2>1. CASE m <= j
    BY SMTT(30), <1>2, <1>4, <1>6, <2>1 DEF Holds
  <2>2. CASE k >= i
    BY <1>2, <1>4, <1>6, <2>2 DEF Holds
  <2>3. CASE m > j /\ k < i
    <3>1. m \in j + 1 .. l - 1 /\ k \in f .. i - 1 /\ k \in 1 .. Len(a) /\ m \in 1 .. Len(a)
      BY <1>2, <1>4, <2>3
    <3>2. a[k].key <= p /\ a[m].key >= p /\ a[k].key \in Int /\ a[m].key \in Int /\ p \in Int
      BY <1>2, <1>3, <1>k, <3>1
    <3> QED BY <3>2
  <2> QED BY <1>2, <2>1, <2>2, <2>3
<1> HIDE DEF x, y, shorter
<1> DEFINE d == Sorting!Front(open) \o <<x, y>>
<1>12. d \in Seq(Segment) /\ Within(d, Len(a)) /\ Disjoint(d) /\ InOrder(a, d) /\ Deep(d, Len(a))
  BY <1>2, <1>3, <1>c, <1>7, <1>8, <1>9, <1>10, <1>11, SplitKeeps
<1> QED BY <1>1, <1>12, CallsKeep

(* algorithm:49-50: insertion begins.                                      *)
LEMMA FewKeeps ==
    ASSUME SortInv, Sorting!Few
    PROVE  SortInv'
<1> DEFINE c == Sorting!Top  f == c.first  l == c.last
<1>1. /\ at = "sort" /\ open # <<>> /\ i' = f + 1 /\ at' = "insert" /\ UNCHANGED <<input, a, open, j, pivot>>
  BY DEF Sorting!Few
<1>2. AlgTypes /\ Within(open, Len(a)) /\ a \in Seq(Item) /\ i \in Int /\ j \in Int /\ pivot \in Item
  BY DEF SortInv, AlgTypes
<1>3. f \in Int /\ l \in Int /\ Len(a) \in Nat
  BY <1>1, <1>2, TopIs
<1>4. Sorting!Top' = c
  BY <1>1 DEF Sorting!Top
<1> HIDE DEF c, f, l
<1>5. Parting' /\ f + 1 > f /\ f + 1 \in Int
  BY <1>1, <1>3 DEF Parting
<1>6. \A k, m \in f .. l - 1 : ~ (k < m /\ m < f + 1)
  BY <1>3
<1>7. Inserting'
  BY <1>1, <1>4, <1>5, <1>6 DEF Inserting, f, l
<1> QED BY <1>1, <1>2, <1>5, <1>7, RearrangingKeeps, SameRearranges DEF c, f, l

(* algorithm:51-54: one element inserted.                                  *)
LEMMA InsertKeeps ==
    ASSUME SortInv, Sorting!Insert
    PROVE  SortInv'
<1> DEFINE c == Sorting!Top  f == c.first  l == c.last  t == Sorting!InsertDown(a, f, i)
<1>1. /\ at = "insert" /\ i < l /\ a' = t /\ i' = i + 1 /\ UNCHANGED <<input, open, at, j, pivot>>
  BY DEF Sorting!Insert, Sorting!rotating
<1>2. AlgTypes /\ Within(open, Len(a)) /\ a \in Seq(Item) /\ i \in Int /\ j \in Int /\ pivot \in Item
  BY DEF SortInv, AlgTypes
<1>3. open # <<>> /\ i > f /\ \A k, m \in f .. l - 1 : k < m /\ m < i => a[k].key <= a[m].key
  BY <1>1 DEF SortInv, Inserting
<1>4. /\ f \in Int /\ l \in Int /\ Len(a) \in Nat /\ 1 <= f /\ f <= l /\ l <= Len(a) + 1
  BY <1>2, <1>3, TopIs
<1>5. Sorting!Top' = c
  BY <1>1 DEF Sorting!Top
<1> HIDE DEF c, f, l, t
<1>6. f < i
  BY <1>2, <1>3, <1>4
<1>7. Rearranged(a, t, f, l) /\ \A k, m \in f .. l - 1 : k < m /\ m < i + 1 => t[k].key <= t[m].key
  BY <1>1, <1>2, <1>3, <1>4, <1>6, InsertedDown DEF t
<1>8. i + 1 > f /\ i + 1 \in Int
  BY <1>2, <1>4, <1>6
<1>9. Inserting'
  BY <1>1, <1>3, <1>5, <1>7, <1>8 DEF Inserting, f, l
<1>10. Parting' /\ at' \in {"sort", "scan", "swap", "insert"}
  BY <1>1 DEF Parting
<1> QED BY <1>1, <1>2, <1>3, <1>7, <1>8, <1>9, <1>10, RearrangingKeeps DEF c, f, l

(* algorithm:56: the range of the call that returns is in order.           *)
LEMMA ReturnStepKeeps ==
    ASSUME SortInv, Sorting!Return
    PROVE  SortInv'
<1> DEFINE c == Sorting!Top  f == c.first  l == c.last
<1>1. /\ at = "insert" /\ i >= l /\ at' = "sort" /\ open' = Sorting!Front(open) /\ UNCHANGED <<input, a, i, j, pivot>>
  BY DEF Sorting!Return
<1>2. /\ AlgTypes /\ Within(open, Len(a)) /\ a \in Seq(Item) /\ i \in Int /\ open \in Seq(Segment)
      /\ Disjoint(open) /\ InOrder(a, open) /\ Deep(open, Len(a))
  BY DEF SortInv, AlgTypes
<1>3. open # <<>> /\ \A k, m \in f .. l - 1 : k < m /\ m < i => a[k].key <= a[m].key
  BY <1>1 DEF SortInv, Inserting
<1>4. f \in Int /\ l \in Int /\ f = open[Len(open)].first /\ l = open[Len(open)].last
  BY <1>2, <1>3, TopIs
<1> HIDE DEF c, f, l
<1>5. \A k, m \in f .. l - 1 : k < m => a[k].key <= a[m].key
  BY <1>1, <1>2, <1>3, <1>4
<1> DEFINE d == Sorting!Front(open)
<1>6. d \in Seq(Segment) /\ Within(d, Len(a)) /\ Disjoint(d) /\ InOrder(a, d) /\ Deep(d, Len(a))
  BY <1>2, <1>3, <1>4, <1>5, ReturnKeeps
<1> QED BY <1>1, <1>6, CallsKeep

(* The invariant of sort says what ContainersSound says of it.             *)
LEMMA SortHolds ==
    ASSUME SortInv
    PROVE  Sorting!SortsAll /\ Sorting!ScansInside /\ Sorting!DepthLogarithmic /\ Sorting!Rotates
<1>1. /\ a \in Seq(Item) /\ open \in Seq(Segment) /\ Len(a) \in Nat /\ DOMAIN a = 1 .. Len(a)
      /\ at \in {"sort", "scan", "swap", "insert"}
  BY DEF SortInv, AlgTypes
<1>2. Sorting!SortsAll
  <2> SUFFICES ASSUME open = <<>> PROVE Sorting!Ids(a) = Sorting!Ids(input) /\ From(a, input)
                                        /\ \A k \in 1 .. Len(a) - 1 : ~ Sorting!comp(a[k + 1], a[k])
    BY DEF Sorting!SortsAll, From
  <2>1. ASSUME NEW k \in 1 .. Len(a) - 1 PROVE ~ Sorting!comp(a[k + 1], a[k])
    <3>1. k \in 1 .. Len(a) /\ k + 1 \in 1 .. Len(a) /\ k < k + 1
      BY <1>1
    <3>2. ~ Together(open, k, k + 1)
      <4>1. DOMAIN open = {}
        BY <1>1
      <4> QED BY <4>1 DEF Together
    <3>3. a[k].key <= a[k + 1].key
      BY <1>1, <3>1, <3>2 DEF SortInv, InOrder
    <3>4. a[k].key \in Int /\ a[k + 1].key \in Int
      BY <1>1, <3>1, ItemAt
    <3> QED BY <3>3, <3>4 DEF Sorting!comp
  <2> QED BY <2>1 DEF SortInv, Kept
<1>3. Sorting!ScansInside
  BY DEF Sorting!ScansInside, SortInv, Parting
<1>4. Sorting!DepthLogarithmic
  <2> SUFFICES ASSUME open # <<>>, Len(a) > 0 PROVE 2 ^ (Len(open) - 1) <= Len(a)
    BY DEF Sorting!DepthLogarithmic
  <2>1. Len(open) \in DOMAIN open
    BY <1>1
  <2> QED BY <2>1 DEF SortInv, Deep
<1>5. Sorting!Rotates
  BY <1>1 DEF Sorting!Rotates
<1> QED BY <1>2, <1>3, <1>4, <1>5

(***************************************************************************)
(* The steps of rotate.                                                    *)
(***************************************************************************)
LEMMA ModZero ==
    ASSUME NEW x \in Int, NEW d \in Nat \ {0}
    PROVE  x % d = 0 <=> \E q \in Int : x = q * d
<1>1. x = d * (x \div d) + (x % d) /\ x \div d \in Int
  OBVIOUS
<1>2. ASSUME NEW q \in Int, x = q * d PROVE x % d = 0
  BY <1>2
<1>3. x % d = 0 => x = (x \div d) * d
  BY <1>1
<1> QED BY <1>1, <1>2, <1>3

LEMMA ModSum ==
    ASSUME NEW x \in Int, NEW y \in Int, NEW d \in Nat \ {0}, y % d = 0
    PROVE  x % d = 0 <=> (x + y) % d = 0
<1>1. PICK r \in Int : y = r * d
  BY ModZero
<1>2. ASSUME x % d = 0 PROVE (x + y) % d = 0
  <2>1. PICK q \in Int : x = q * d
    BY <1>2, ModZero
  <2>2. x + y = (q + r) * d /\ q + r \in Int /\ x + y \in Int
    BY <1>1, <2>1
  <2> QED BY <2>2, ModZero
<1>3. ASSUME (x + y) % d = 0 PROVE x % d = 0
  <2>1. PICK q \in Int : x + y = q * d
    BY <1>3, ModZero
  <2>2. x = (q - r) * d /\ q - r \in Int
    BY <1>1, <2>1
  <2> QED BY <2>2, ModZero
<1> QED BY <1>2, <1>3

LEMMA DivisorsSum ==
    ASSUME NEW x \in Int, NEW y \in Int, Size \in Nat
    PROVE  Divisors(x + y, y) = Divisors(x, y) /\ Divisors(x, x + y) = Divisors(x, y)
<1>1. \A d \in 1 .. Size : d \in Nat \ {0}
  OBVIOUS
<1>2. ASSUME NEW d \in 1 .. Size
      PROVE  /\ ((x + y) % d = 0 /\ y % d = 0) <=> (x % d = 0 /\ y % d = 0)
             /\ (x % d = 0 /\ (x + y) % d = 0) <=> (x % d = 0 /\ y % d = 0)
  <2>1. y % d = 0 => (x % d = 0 <=> (x + y) % d = 0)
    BY <1>1, ModSum
  <2>2. x % d = 0 => (y % d = 0 <=> (y + x) % d = 0)
    BY <1>1, ModSum
  <2>3. y + x = x + y
    OBVIOUS
  <2> QED BY <2>1, <2>2, <2>3
<1> QED BY <1>2 DEF Divisors

LEMMA DivisorsOfOne ==
    ASSUME NEW y \in 1 .. Size, Size \in Nat
    PROVE  Sorting!Max(Divisors(0, y)) = y
<1>1. y \in Divisors(0, y)
  <2>1. 0 = 0 * y /\ y = 1 * y /\ y \in Nat \ {0}
    OBVIOUS
  <2>2. 0 % y = 0 /\ y % y = 0
    <3>1. (\E q \in Int : 0 = q * y) /\ (\E q \in Int : y = q * y)
      BY <2>1
    <3> QED BY <2>1, <3>1, ModZero
  <2> QED BY <2>2 DEF Divisors
<1>2. ASSUME NEW d \in Divisors(0, y) PROVE d <= y /\ d \in Int
  <2>1. d \in Nat \ {0} /\ y % d = 0 /\ y \in Nat /\ y > 0
    BY DEF Divisors
  <2>2. PICK q \in Int : y = q * d
    BY <2>1, ModZero
  <2>3. q > 0
    <3>1. SUFFICES ASSUME ~ (q > 0) PROVE FALSE
      OBVIOUS
    <3>2. 0 - q \in Nat /\ (0 - q) * d \in Nat /\ (0 - q) * d = 0 - (q * d)
      BY <2>1, <3>1
    <3> QED BY <2>1, <2>2, <3>2
  <2>4. q - 1 \in Nat /\ (q - 1) * d \in Nat /\ q * d = (q - 1) * d + d
    BY <2>1, <2>3
  <2> QED BY <2>1, <2>2, <2>4
<1> DEFINE D == Divisors(0, y)
<1>3. D \in SUBSET Int /\ D # {} /\ (\A d \in D : d <= y) /\ y \in Int /\ y \in D
  BY <1>1, <1>2
<1> HIDE DEF D
<1>4. Sorting!Max(D) \in D /\ \A d \in D : d <= Sorting!Max(D)
  BY <1>3, MaxMinOf
<1>5. Sorting!Max(D) <= y /\ y <= Sorting!Max(D) /\ Sorting!Max(D) \in Int
  BY <1>3, <1>4
<1>6. Sorting!Max(D) = y
  BY ONLY <1>3, <1>5
<1> QED BY <1>6 DEF D

(* Where everything is, before and after one exchange.                     *)
Turns(f, m, x, n, f2, m2, x2) ==
    /\ f \in Int /\ m \in Int /\ x \in Int /\ n \in Int /\ 1 <= f /\ f < m /\ m <= x /\ x <= n /\ f2 = f + 1
    /\ IF x + 1 = n + 1 THEN x2 = m /\ m2 = m ELSE x2 = x + 1 /\ m2 = IF f + 1 = m THEN x + 1 ELSE m

LEMMA TurnedSource ==
    ASSUME NEW f, NEW m, NEW x, NEW n, NEW f2, NEW m2, NEW x2, Turns(f, m, x, n, f2, m2, x2), NEW k \in 1 .. n
    PROVE  LET was == SourceOf(k, f, m, x, n)  now == SourceOf(k, f2, m2, x2, n)
           IN  /\ was \in 1 .. n /\ now \in 1 .. n
               /\ (was = x => now = f) /\ (was = f => now = x) /\ (was # x /\ was # f => now = was)
<1>a. /\ f \in Int /\ m \in Int /\ x \in Int /\ n \in Int /\ 1 <= f /\ f < m /\ m <= x /\ x <= n /\ f2 = f + 1
      /\ IF x + 1 = n + 1 THEN x2 = m /\ m2 = m ELSE x2 = x + 1 /\ m2 = IF f + 1 = m THEN x + 1 ELSE m
  BY DEF Turns
<1>1. CASE x = n
  <2>1. x2 = m /\ m2 = m /\ f2 = f + 1
    BY <1>1, <1>a
  <2> QED BY ONLY <1>1, <2>1, <1>a, k \in 1 .. n DEF SourceOf
<1>2. CASE x # n /\ f + 1 = m
  <2>1. x2 = x + 1 /\ m2 = x + 1 /\ f2 = f + 1
    BY <1>2, <1>a
  <2> QED BY ONLY <1>2, <2>1, <1>a, k \in 1 .. n DEF SourceOf
<1>3. CASE x # n /\ f + 1 # m
  <2>1. x2 = x + 1 /\ m2 = m /\ f2 = f + 1
    BY <1>3, <1>a
  <2> QED BY ONLY <1>3, <2>1, <1>a, k \in 1 .. n DEF SourceOf
<1> QED BY <1>1, <1>2, <1>3

(* What rotate has to leave, as a sequence.                                *)
LEMMA TurnedSequence ==
    ASSUME input \in Seq(Item), a \in Seq(Item), Len(a) = Len(input), given \in 1 .. Size + 1,
           \A k \in 1 .. Size : a[k] = Turned(k)
    PROVE  a = SubSeq(input, given, Len(a)) \o SubSeq(input, 1, given - 1)
<1> DEFINE n == Len(input)  g == given  back == SubSeq(input, g, n)  front == SubSeq(input, 1, g - 1)  d == back \o front
<1>1. n \in Nat /\ g \in 1 .. n + 1 /\ Len(a) = n /\ \A k \in 1 .. n : a[k] = Turned(k)
  BY DEF Size
<1>2. \A k \in 1 .. n : input[k] \in Item
  OBVIOUS
<1> HIDE DEF n, g
<1>3. back \in Seq(Item) /\ Len(back) = (n + 1) - g /\ \A k \in 1 .. (n + 1) - g : back[k] = input[k + g - 1]
  <2>1. g \in Int /\ n \in Int /\ \A k \in g .. n : input[k] \in Item
    BY <1>1, <1>2
  <2>2. /\ back \in Seq(Item) /\ Len(back) = IF g <= n THEN n - g + 1 ELSE 0
        /\ \A k \in 1 .. n - g + 1 : back[k] = input[g + k - 1]
    BY ONLY <2>1, SubSeqProperties
  <2>3. (n + 1) - g = n - g + 1 /\ (~ (g <= n) => n - g + 1 = 0) /\ \A k \in Int : g + k - 1 = k + g - 1
    BY <1>1
  <2> HIDE DEF back
  <2>4. Len(back) = n - g + 1
    BY <2>2, <2>3
  <2>5. \A k \in 1 .. n - g + 1 : back[k] = input[k + g - 1]
    <3> SUFFICES ASSUME NEW k \in 1 .. n - g + 1 PROVE back[k] = input[k + g - 1]
      OBVIOUS
    <3>1. k \in Int /\ g + k - 1 = k + g - 1
      BY <2>3
    <3> QED BY <2>2, <3>1
  <2> QED BY <2>2, <2>3, <2>4, <2>5
<1>4. front \in Seq(Item) /\ Len(front) = g - 1 /\ \A k \in 1 .. g - 1 : front[k] = input[k]
  <2>1. 1 \in Int /\ g - 1 \in Int /\ \A k \in 1 .. g - 1 : input[k] \in Item
    BY <1>1, <1>2
  <2>2. /\ front \in Seq(Item) /\ Len(front) = IF 1 <= g - 1 THEN g - 1 - 1 + 1 ELSE 0
        /\ \A k \in 1 .. g - 1 - 1 + 1 : front[k] = input[1 + k - 1]
    BY ONLY <2>1, SubSeqProperties
  <2>3. g - 1 - 1 + 1 = g - 1 /\ (~ (1 <= g - 1) => g - 1 = 0) /\ \A k \in Int : 1 + k - 1 = k
    BY <1>1
  <2> HIDE DEF front
  <2> QED BY <2>2, <2>3
<1> HIDE DEF back, front
<1>a. d = back \o front
  OBVIOUS
<1> HIDE DEF d
<1>b. back \in Seq(Item) /\ front \in Seq(Item)
  BY <1>3, <1>4
<1>c. /\ d \in Seq(Item) /\ Len(d) = Len(back) + Len(front)
      /\ \A k \in 1 .. Len(back) + Len(front) : d[k] = IF k <= Len(back) THEN back[k] ELSE front[k - Len(back)]
  BY ONLY <1>a, <1>b, ConcatProperties
<1>5. Len(d) = n /\ Len(back) + Len(front) = n
  BY <1>1, <1>3, <1>4, <1>c
<1>6. ASSUME NEW k \in 1 .. n PROVE a[k] = d[k]
  <2>1. d[k] = IF k <= Len(back) THEN back[k] ELSE front[k - Len(back)]
    BY <1>5, <1>c
  <2>2. CASE k <= Len(back)
    <3>1. k \in 1 .. (n + 1) - g /\ k + g - 1 <= n
      BY <1>1, <1>3, <2>2
    <3>2. Turned(k) = input[k + g - 1]
      BY <3>1 DEF Turned, Size, n, g
    <3> QED BY <1>1, <1>3, <2>1, <2>2, <3>1, <3>2
  <2>3. CASE ~ (k <= Len(back))
    <3>1. k - Len(back) \in 1 .. g - 1 /\ ~ (k + g - 1 <= n) /\ k - Len(back) = k + g - 1 - n
      BY SMTT(30), <1>1, <1>3, <2>3
    <3>2. Turned(k) = input[k + g - 1 - n]
      BY <3>1 DEF Turned, Size, n, g
    <3>3. front[k - Len(back)] = input[k - Len(back)]
      BY <1>4, <3>1
    <3> QED BY <1>1, <2>1, <2>3, <3>1, <3>2, <3>3
  <2> QED BY <2>2, <2>3
<1>7. a \in Seq(Item) /\ Len(a) = Len(d)
  BY <1>1, <1>5
<1>8. \A k \in 1 .. Len(a) : a[k] = d[k]
  BY <1>1, <1>6
<1>9. a = d
  BY ONLY <1>7, <1>8, <1>c, SeqEqual
<1>10. a = SubSeq(input, given, n) \o SubSeq(input, 1, given - 1)
  BY <1>9 DEF d, back, front, g
<1> QED BY <1>1, <1>10

(* algorithm:23-27: every exchange brings the next element to its place.   *)
LEMMA TurnKeeps ==
    ASSUME RotateInv, Sorting!Turn
    PROVE  RotateInv'
<1> DEFINE n == Size
<1>1. /\ at = "rotate" /\ given \notin {1, n + 1} /\ first # next
      /\ input \in Seq(Item) /\ a \in Seq(Item) /\ Len(a) = n /\ n \in Nat /\ Len(input) = n /\ Len(open) = 1
      /\ first \in Int /\ middle \in Int /\ next \in Int /\ given \in 1 .. n + 1
  BY DEF RotateInv, Sorting!Turn, Sorting!End, Size
<1>2. /\ a' = Sorting!Swapped(a, first, next) /\ first' = first + 1
      /\ IF next + 1 = n + 1 THEN next' = middle /\ middle' = middle
         ELSE next' = next + 1 /\ middle' = IF first + 1 = middle THEN next + 1 ELSE middle
      /\ UNCHANGED <<input, at, open, given>>
  BY <1>1 DEF Sorting!Turn, Sorting!End, Sorting!sorting
<1>3. Turning
  BY <1>1 DEF RotateInv
<1>4. 1 <= first /\ first < middle /\ middle <= next /\ next <= n
  BY <1>1, <1>3 DEF Turning
<1>5. n' = n /\ \A k : Turned(k)' = Turned(k)
  BY <1>2 DEF Size, Turned
<1>6. /\ first' \in Int /\ middle' \in Int /\ next' \in Int /\ 1 <= first' /\ first' <= middle' /\ middle' <= next' /\ next' <= n
      /\ (first' = middle' => first' = next')
  <2> HIDE DEF n
  <2> QED BY <1>1, <1>2, <1>4
<1>7. first \in 1 .. n /\ next \in 1 .. n /\ first # next
  BY <1>1, <1>4
<1>8. /\ a' \in Seq(Item) /\ Len(a') = n
      /\ \A k \in 1 .. n : a'[k] = IF k = next THEN a[first] ELSE IF k = first THEN a[next] ELSE a[k]
  <2> DEFINE t == Sorting!Swapped(a, first, next)
  <2>1. first \in 1 .. Len(a) /\ next \in 1 .. Len(a) /\ a \in Seq(Item)
    BY <1>1, <1>7
  <2> HIDE DEF t
  <2>2. /\ t \in Seq(Item) /\ Len(t) = Len(a)
        /\ \A k \in 1 .. Len(a) : t[k] = IF k = next THEN a[first] ELSE IF k = first THEN a[next] ELSE a[k]
    <3>1. Exchanged(t, a, first, next)
      BY ONLY <2>1, SwappedAt DEF t
    <3> QED BY ONLY <3>1 DEF Exchanged
  <2> QED BY <1>1, <1>2, <2>2 DEF t
<1>9. \A k \in 1 .. n : a'[SourceOf(k, first', middle', next', n)] = Turned(k)
  <2> SUFFICES ASSUME NEW k \in 1 .. n PROVE a'[SourceOf(k, first', middle', next', n)] = Turned(k)
    OBVIOUS
  <2> DEFINE was == SourceOf(k, first, middle, next, n)  now == SourceOf(k, first', middle', next', n)
  <2>1. /\ was \in 1 .. n /\ now \in 1 .. n
        /\ (was = next => now = first) /\ (was = first => now = next) /\ (was # next /\ was # first => now = was)
    <3> DEFINE f2 == first'  m2 == middle'  x2 == next'
    <3>1. Turns(first, middle, next, n, f2, m2, x2) /\ k \in 1 .. n
      BY <1>1, <1>2, <1>4, <1>6 DEF Turns
    <3>2. was = SourceOf(k, first, middle, next, n) /\ now = SourceOf(k, f2, m2, x2, n)
      OBVIOUS
    <3> HIDE DEF n, f2, m2, x2, was, now
    <3> QED BY ONLY <3>1, <3>2, TurnedSource
  <2>2. a[was] = Turned(k)
    BY <1>3 DEF Turning
  <2> HIDE DEF was, now
  <2>3. a'[now] = a[was]
    BY <1>7, <1>8, <2>1
  <2> QED BY <2>2, <2>3 DEF now
<1>10. Divisors(next' - first', n + 1 - middle') = Divisors(given - 1, n)
  <2>1. Divisors(next - first, n + 1 - middle) = Divisors(given - 1, n)
    BY <1>3 DEF Turning
  <2> HIDE DEF n
  <2>n. Size \in Nat
    BY <1>1 DEF n
  <2>2. CASE next = n
    <3> DEFINE x == middle - (first + 1)  y == n + 1 - middle
    <3>1. x \in Int /\ y \in Int /\ next - first = x + y
      BY <1>1, <1>4, <2>2
    <3>2. next' - first' = x /\ n + 1 - middle' = y
      BY <1>2, <2>2
    <3> HIDE DEF x, y
    <3>3. Divisors(x + y, y) = Divisors(x, y)
      BY <2>n, <3>1, DivisorsSum
    <3>4. n + 1 - middle = y
      BY DEF y
    <3> QED BY <2>1, <3>1, <3>2, <3>3, <3>4
  <2>3. CASE next # n /\ first + 1 = middle
    <3> DEFINE x == next - first  y == n - next
    <3>1. x \in Int /\ y \in Int /\ n + 1 - middle = x + y
      BY <1>1, <1>4, <2>3
    <3>2. next' - first' = x /\ n + 1 - middle' = y
      BY <1>1, <1>2, <2>3
    <3> HIDE DEF x, y
    <3>3. Divisors(x, x + y) = Divisors(x, y)
      BY <2>n, <3>1, DivisorsSum
    <3>4. next - first = x
      BY DEF x
    <3> QED BY <2>1, <3>1, <3>2, <3>3, <3>4
  <2>4. CASE next # n /\ first + 1 # middle
    <3>1. next' - first' = next - first /\ middle' = middle
      BY <1>1, <1>2, <2>4
    <3> QED BY <2>1, <3>1
  <2> QED BY <2>2, <2>3, <2>4
<1>11. Turning'
  <2>1. \A x, y : Divisors(x, y)' = Divisors(x', y')
    BY <1>5 DEF Divisors
  <2> QED BY <1>2, <1>5, <1>6, <1>9, <1>10 DEF Turning, Divisors
<1> QED BY <1>1, <1>2, <1>5, <1>6, <1>8, <1>11 DEF RotateInv, Sorting!Rotates

(* algorithm:28: when first meets next all the rest is in its place.       *)
LEMMA DoneKeeps ==
    ASSUME RotateInv, Sorting!Done
    PROVE  RotateInv'
<1> DEFINE n == Size
<1>1. /\ at = "rotate" /\ given \notin {1, n + 1} /\ first = next /\ at' = "rotated"
      /\ input \in Seq(Item) /\ a \in Seq(Item) /\ Len(a) = n /\ n \in Nat /\ Len(input) = n /\ Len(open) = 1
      /\ first \in Int /\ middle \in Int /\ next \in Int /\ given \in 1 .. n + 1
      /\ UNCHANGED <<input, a, open, first, middle, next, given>>
  BY DEF RotateInv, Sorting!Done, Sorting!End, Size, Sorting!sorting, Sorting!rotating
<1>2. Turning
  BY <1>1 DEF RotateInv
<1>3. 1 <= first /\ first <= n /\ middle = first /\ next = first
  BY <1>1, <1>2 DEF Turning
<1>4. \A k \in 1 .. n : a[k] = Turned(k)
  <2> SUFFICES ASSUME NEW k \in 1 .. n PROVE a[k] = Turned(k)
    OBVIOUS
  <2>1. a[SourceOf(k, first, middle, next, n)] = Turned(k)
    BY <1>2 DEF Turning
  <2> HIDE DEF n
  <2>2. SourceOf(k, first, middle, next, n) = k
    BY <1>1, <1>3 DEF SourceOf
  <2> QED BY <2>1, <2>2
<1>5. a = SubSeq(input, given, Len(a)) \o SubSeq(input, 1, given - 1)
  BY <1>1, <1>4, TurnedSequence
<1>6. Sorting!Max(Divisors(given - 1, n)) = n + 1 - first
  <2> DEFINE y == n + 1 - first
  <2>1. Divisors(next - first, n + 1 - middle) = Divisors(given - 1, n)
    BY <1>2 DEF Turning
  <2>2. next - first = 0 /\ n + 1 - middle = y /\ y \in 1 .. n
    <3> HIDE DEF n
    <3> QED BY <1>1, <1>3
  <2>3. Sorting!Max(Divisors(0, y)) = y
    <3> HIDE DEF y
    <3> QED BY <1>1, <2>2, DivisorsOfOne
  <2> HIDE DEF y, n
  <2> QED BY <2>1, <2>2, <2>3 DEF y
<1> DEFINE D == Sorting!CommonDivisors
<1>7. first = (Len(a) + 1) - Sorting!Max(D)
  <2>1. Divisors(given - 1, n) = D
    BY <1>1 DEF Divisors, Sorting!CommonDivisors
  <2> HIDE DEF n, D
  <2>2. Sorting!Max(D) = n + 1 - first
    BY <1>6, <2>1
  <2> QED BY <1>1, <2>2
<1>8. Sorting!Rotates'
  <2>1. D' = D /\ Sorting!Max(D)' = Sorting!Max(D)
    <3>1. D' = D
      BY <1>1 DEF Sorting!CommonDivisors
    <3>2. Sorting!Max(D)' = Sorting!Max(D')
      BY DEF Sorting!Max
    <3> HIDE DEF D
    <3> QED BY <3>1, <3>2
  <2>2. (first = (Len(a) + 1) - Sorting!Max(D))'
    <3> HIDE DEF D
    <3> QED BY <1>1, <1>7, <2>1
  <2>3. (a = SubSeq(input, given, Len(a)) \o SubSeq(input, 1, given - 1))'
    BY <1>1, <1>5
  <2>4. given' # 1 /\ (given # Len(a) + 1)'
    BY <1>1
  <2> HIDE DEF D
  <2>5. (first = IF given = 1 THEN Sorting!End ELSE IF given = Len(a) + 1 THEN 1 ELSE Sorting!End - Sorting!Max(D))'
    <3>1. Sorting!End' = (Len(a) + 1)'
      BY DEF Sorting!End
    <3>2. (first = Sorting!End - Sorting!Max(D))'
      BY <2>2 DEF Sorting!End
    <3>3. ~ (given = 1)' /\ ~ (given = Len(a) + 1)'
      BY ONLY <2>4
    <3> QED BY ONLY <3>2, <3>3
  <2>6. (a = SubSeq(input, given, Len(a)) \o SubSeq(input, 1, given - 1)
         /\ first = IF given = 1 THEN Sorting!End ELSE IF given = Len(a) + 1 THEN 1 ELSE Sorting!End - Sorting!Max(D))'
    BY <2>3, <2>5
  <2> QED BY ONLY <2>6 DEF Sorting!Rotates, D
<1> QED BY <1>1, <1>8 DEF RotateInv, Size

(* algorithm:19-20: nothing to do when one of the parts is empty.          *)
LEMMA EarlyKeeps ==
    ASSUME RotateInv, Sorting!Early
    PROVE  RotateInv'
<1> DEFINE n == Size
<1>1. /\ at = "rotate" /\ given \in {1, n + 1} /\ first' = (IF given = 1 THEN n + 1 ELSE 1) /\ at' = "rotated"
      /\ input \in Seq(Item) /\ a \in Seq(Item) /\ Len(a) = n /\ n \in Nat /\ Len(input) = n /\ Len(open) = 1
      /\ first \in Int /\ middle \in Int /\ next \in Int /\ given \in 1 .. n + 1
      /\ UNCHANGED <<input, a, open, middle, next, given>>
  BY DEF RotateInv, Sorting!Early, Sorting!End, Size, Sorting!sorting
<1>2. a = input
  BY <1>1 DEF RotateInv
<1>3. \A k \in 1 .. n : a[k] = Turned(k)
  <2> SUFFICES ASSUME NEW k \in 1 .. n PROVE a[k] = Turned(k)
    OBVIOUS
  <2> HIDE DEF n
  <2>1. CASE given = 1
    <3>1. k + given - 1 = k /\ k + given - 1 <= n
      BY <1>1, <2>1
    <3> QED BY <1>2, <3>1 DEF Turned, n
  <2>2. CASE given = n + 1
    <3>1. k + given - 1 - n = k /\ ~ (k + given - 1 <= n)
      BY <1>1, <2>2
    <3> QED BY <1>2, <3>1 DEF Turned, n
  <2> QED BY <1>1, <2>1, <2>2
<1>4. a = SubSeq(input, given, Len(a)) \o SubSeq(input, 1, given - 1)
  BY <1>1, <1>3, TurnedSequence
<1>5. Sorting!Rotates'
  <2> HIDE DEF n
  <2> QED BY <1>1, <1>4 DEF Sorting!Rotates, Sorting!End
<1> QED BY <1>1, <1>5 DEF RotateInv, Size

(***************************************************************************)
(* sort and rotate as they start, and as they go on.                       *)
(***************************************************************************)
LEMMA AlgorithmStarts ==
    ASSUME Sorting!Init
    PROVE  SortInv \/ RotateInv
<1>1. PICK n \in 0 .. MaxInput : \E keys \in [1 .. n -> Keys] :
         /\ input = [k \in 1 .. n |-> [key |-> keys[k], id |-> k]]
         /\ \/ at = "sort" /\ middle = 1
            \/ at = "rotate" /\ Sorting!Cardinality(Keys) >= 2 /\ (\A k \in 1 .. n : keys[k] = Sorting!Min(Keys)) /\ middle \in 1 .. n + 1
  BY DEF Sorting!Init
<1>2. PICK keys \in [1 .. n -> Keys] :
         /\ input = [k \in 1 .. n |-> [key |-> keys[k], id |-> k]]
         /\ (at = "sort" /\ middle = 1) \/ (at = "rotate" /\ middle \in 1 .. n + 1)
  BY <1>1
<1>3. /\ a = input /\ open = <<[first |-> 1, last |-> Len(a) + 1]>>
      /\ i = 1 /\ j = 1 /\ pivot = [key |-> 0, id |-> 0] /\ first = 1 /\ next = middle /\ given = middle
  BY DEF Sorting!Init
<1>4. n \in Nat /\ Keys \subseteq Int
  BY <1>1, MemoryAssumption DEF Sorting!AlgorithmAssumption
<1>5. \A k \in 1 .. n : input[k] \in Item /\ input[k].id = k
  <2> SUFFICES ASSUME NEW k \in 1 .. n PROVE input[k] \in Item /\ input[k].id = k
    OBVIOUS
  <2>1. input[k] = [key |-> keys[k], id |-> k] /\ keys[k] \in Int /\ k \in Int
    <3>1. input = [m \in 1 .. n |-> [key |-> keys[m], id |-> m]] /\ keys \in [1 .. n -> Keys]
      BY <1>2
    <3>2. input[k] = [key |-> keys[k], id |-> k] /\ keys[k] \in Keys
      BY ONLY <3>1, k \in 1 .. n
    <3>3. keys[k] \in Keys /\ Keys \subseteq Int /\ k \in 1 .. n
      BY <1>4, <3>2
    <3> DEFINE v == keys[k]
    <3>4. v \in Keys /\ Keys \subseteq Int
      BY <3>3
    <3>5. k \in Int /\ n \in Nat
      BY <1>4
    <3> HIDE DEF v
    <3>6. v \in Int
      BY ONLY <3>4
    <3> QED BY <3>2, <3>5, <3>6 DEF v
  <2> QED BY ONLY <2>1 DEF Item
<1>6. input \in Seq(Item) /\ Len(input) = n
  <2>1. input = [k \in 1 .. n |-> input[k]]
    BY <1>2
  <2> QED BY <1>4, <1>5, <2>1
<1>7. a \in Seq(Item) /\ Len(a) = n /\ DOMAIN a = 1 .. n /\ pivot \in Item
  <2>1. pivot \in Item
    BY <1>3 DEF Item
  <2> QED BY <1>3, <1>6, <2>1
<1> DEFINE c == [first |-> 1, last |-> n + 1]
<1>8. open = <<c>> /\ c \in Segment /\ c.first = 1 /\ c.last = n + 1
  BY <1>3, <1>4, <1>7 DEF Segment
<1> HIDE DEF c
<1>9. open \in Seq(Segment) /\ Len(open) = 1 /\ DOMAIN open = {1} /\ open[1] = c
  BY <1>8
<1>10. CASE at = "sort"
  <2>1. AlgTypes
    BY <1>3, <1>6, <1>7, <1>9 DEF AlgTypes
  <2>2. Kept
    BY <1>3, <1>5, <1>7 DEF Kept, From
  <2>3. Within(open, Len(a)) /\ Disjoint(open)
    BY <1>4, <1>7, <1>8, <1>9 DEF Within, Disjoint
  <2>4. InOrder(a, open)
    BY <1>4, <1>7, <1>8, <1>9 DEF InOrder, Together, Holds
  <2>5. Deep(open, Len(a))
    <3>1. 2 ^ (1 - 1) = 1
      <4>1. 1 - 1 = 0
        OBVIOUS
      <4> QED BY <4>1, PowerZero
    <3>2. Sorting!Length(c) = n
      BY <1>4, <1>8 DEF Sorting!Length
    <3> QED BY <1>4, <1>7, <1>9, <3>1, <3>2 DEF Deep
  <2>6. Parting /\ Inserting
    BY <1>10 DEF Parting, Inserting
  <2> QED BY <1>10, <2>1, <2>2, <2>3, <2>4, <2>5, <2>6 DEF SortInv
<1>11. CASE at = "rotate"
  <2>1. middle \in 1 .. n + 1 /\ middle \in Int /\ Size = n
    BY <1>2, <1>6, <1>11 DEF Size
  <2>2. ASSUME given \notin {1, n + 1} PROVE Turning
    <3>1. 1 <= first /\ first <= middle /\ middle <= next /\ next <= Size /\ (first = middle => first = next)
      BY <1>3, <1>4, <2>1, <2>2
    <3>2. \A k \in 1 .. n : a[SourceOf(k, first, middle, next, n)] = Turned(k)
      <4> SUFFICES ASSUME NEW k \in 1 .. n PROVE a[SourceOf(k, first, middle, next, n)] = Turned(k)
        OBVIOUS
      <4>1. SourceOf(k, 1, middle, middle, n) = IF k + middle - 1 <= n THEN k + middle - 1 ELSE k + middle - 1 - n
        BY <1>4, <2>1 DEF SourceOf
      <4>2. Turned(k) = IF k + middle - 1 <= n THEN input[k + middle - 1] ELSE input[k + middle - 1 - n]
        BY <1>3, <2>1 DEF Turned
      <4> QED BY <1>3, <4>1, <4>2
    <3>3. Divisors(next - first, Size + 1 - middle) = Divisors(given - 1, Size)
      <4> DEFINE x == middle - 1  y == n + 1 - middle
      <4>1. x \in Int /\ y \in Int /\ x + y = n /\ Size \in Nat
        BY <1>4, <2>1
      <4>2. next - first = x /\ Size + 1 - middle = y /\ given - 1 = x
        BY <1>3, <2>1
      <4> HIDE DEF x, y
      <4>3. Divisors(x, x + y) = Divisors(x, y)
        BY <4>1, DivisorsSum
      <4> QED BY <2>1, <4>1, <4>2, <4>3
    <3> QED BY <2>1, <3>1, <3>2, <3>3 DEF Turning
  <2>3. Sorting!Rotates
    BY <1>11 DEF Sorting!Rotates
  <2> QED BY <1>3, <1>6, <1>7, <1>9, <1>11, <2>1, <2>2, <2>3 DEF RotateInv
<1> QED BY <1>2, <1>10, <1>11

LEMMA AlgorithmMoves ==
    ASSUME SortInv \/ RotateInv, [Sorting!Next]_algorithm
    PROVE  (SortInv \/ RotateInv)'
<1>s. Sorting!AlgorithmAssumption
  BY MemoryAssumption
<1>1. CASE UNCHANGED algorithm
  <2>1. UNCHANGED <<input, a, at, open, i, j, pivot, first, middle, next, given>>
    BY <1>1 DEF algorithm
  <2>2. CASE SortInv
    <3>1. AlgTypes' /\ Within(open, Len(a))' /\ Disjoint(open)' /\ Deep(open, Len(a))'
      BY <2>1, <2>2 DEF SortInv, AlgTypes, Within, Disjoint, Deep, Sorting!Length
    <3>2. Kept'
      <4>1. Sorting!Ids(a)' = Sorting!Ids(a) /\ Sorting!Ids(input)' = Sorting!Ids(input)
        BY <2>1 DEF Sorting!Ids
      <4>2. From(a, input)'
        BY <2>1, <2>2 DEF SortInv, Kept, From
      <4> QED BY <2>2, <4>1, <4>2 DEF SortInv, Kept
    <3>3. InOrder(a, open)'
      BY <2>1, <2>2 DEF SortInv, InOrder, Together, Holds
    <3>4. Parting' /\ Inserting'
      BY <2>1, <2>2 DEF SortInv, Parting, Inserting, Sorting!Top, Sorting!Length
    <3> QED BY <2>1, <2>2, <3>1, <3>2, <3>3, <3>4 DEF SortInv
  <2>3. CASE RotateInv
    <3>1. Sorting!Rotates => Sorting!Rotates'
      <4>1. Sorting!CommonDivisors' = Sorting!CommonDivisors
        BY <2>1 DEF Sorting!CommonDivisors
      <4>2. Sorting!Max(Sorting!CommonDivisors)' = Sorting!Max(Sorting!CommonDivisors)
        <5>1. Sorting!Max(Sorting!CommonDivisors)' = Sorting!Max(Sorting!CommonDivisors')
          BY DEF Sorting!Max
        <5> QED BY <4>1, <5>1
      <4>3. Sorting!End' = Sorting!End
        BY <2>1 DEF Sorting!End
      <4> QED BY <2>1, <4>2, <4>3 DEF Sorting!Rotates
    <3>2. Turning => Turning'
      BY <2>1 DEF Turning, Divisors, Turned, Size, SourceOf
    <3> QED BY <2>1, <2>3, <3>1, <3>2 DEF RotateInv, Size
  <2> QED BY <2>2, <2>3
<1>2. CASE Sorting!Next /\ SortInv
  <2>1. at \in {"sort", "scan", "swap", "insert"}
    BY <1>2 DEF SortInv
  <2>2. ~ Sorting!Early /\ ~ Sorting!Turn /\ ~ Sorting!Done
    BY <2>1 DEF Sorting!Early, Sorting!Turn, Sorting!Done
  <2>3. UNCHANGED Sorting!vars => UNCHANGED algorithm
    BY DEF Sorting!vars, algorithm
  <2> QED BY <1>s, <1>1, <1>2, <2>2, <2>3, ChooseKeeps, ScanKeeps, ExchangeKeeps, SplitStepKeeps, FewKeeps, InsertKeeps,
             ReturnStepKeeps DEF Sorting!Next
<1>3. CASE Sorting!Next /\ RotateInv
  <2>1. at \in {"rotate", "rotated"}
    BY <1>3 DEF RotateInv
  <2>2. /\ ~ Sorting!Choose /\ ~ Sorting!Scan /\ ~ Sorting!Exchange /\ ~ Sorting!Split /\ ~ Sorting!Few
        /\ ~ Sorting!Insert /\ ~ Sorting!Return
    BY <2>1 DEF Sorting!Choose, Sorting!Scan, Sorting!Exchange, Sorting!Split, Sorting!Few, Sorting!Insert, Sorting!Return
  <2>3. UNCHANGED Sorting!vars => UNCHANGED algorithm
    BY DEF Sorting!vars, algorithm
  <2> QED BY <1>1, <1>3, <2>2, <2>3, EarlyKeeps, TurnKeeps, DoneKeeps DEF Sorting!Next
<1> QED BY <1>1, <1>2, <1>3

LEMMA RotateHolds ==
    ASSUME RotateInv
    PROVE  Sorting!SortsAll /\ Sorting!ScansInside /\ Sorting!DepthLogarithmic /\ Sorting!Rotates
<1>1. at \in {"rotate", "rotated"} /\ Len(open) = 1 /\ Len(a) \in Nat
  BY DEF RotateInv
<1>2. Sorting!SortsAll /\ Sorting!ScansInside
  BY <1>1 DEF Sorting!SortsAll, Sorting!ScansInside
<1>3. Sorting!DepthLogarithmic
  <2>1. Len(open) - 1 = 0
    BY <1>1
  <2>2. 2 ^ (Len(open) - 1) = 1
    BY <2>1, PowerZero
  <2> QED BY <1>1, <2>2 DEF Sorting!DepthLogarithmic
<1>4. Sorting!Rotates
  BY <1>1 DEF RotateInv, Sorting!Rotates
<1> QED BY <1>2, <1>3, <1>4

(* Containers: whatever calls are made, every string is ended within its   *)
(* array, every element of a vector lives once and in a slot below its     *)
(* size, sort puts a permutation in order with scans that stay in their    *)
(* range and calls as deep as the logarithm, and rotate turns the range    *)
(* (src/string.cpp, src/include/vector, src/include/algorithm).            *)
THEOREM Containers == Spec => []ContainersSound
<1>1. Init => StringInv /\ VectorInv /\ AlgorithmInv
  <2>1. Init => (part = "algorithm" => Sorting!Init)
    BY DEF Init
  <2> QED BY <2>1, StringStarts, VectorStarts, AlgorithmStarts DEF Init, AlgorithmInv
<1>2. StringInv /\ VectorInv /\ AlgorithmInv /\ [Next]_vars => (StringInv /\ VectorInv /\ AlgorithmInv)'
  <2> SUFFICES ASSUME StringInv, VectorInv, AlgorithmInv, [Next]_vars PROVE (StringInv /\ VectorInv /\ AlgorithmInv)'
    OBVIOUS
  <2>1. [Strings!Next]_string /\ [Vectors!Next]_vector /\ [Sorting!Next]_algorithm /\ part' = part
    BY DEF Next, vars, string, vector, algorithm, SizingStep, KernelStep, NewProgram, NewStep, StringStep, VectorStep, SortStep
  <2>2. AlgorithmInv'
    BY <2>1, AlgorithmMoves DEF AlgorithmInv
  <2> QED BY <2>1, <2>2, StringMoves, VectorMoves
<1>3. StringInv /\ VectorInv /\ AlgorithmInv => ContainersSound
  BY StringHolds, VectorHolds, SortHolds, RotateHolds DEF ContainersSound, AlgorithmInv
<1> QED BY <1>1, <1>2, <1>3, PTL DEF Spec
===============================================================================
