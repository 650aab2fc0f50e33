------------------------------- MODULE Memory --------------------------------
(***************************************************************************)
(* What allocates, and what is built on allocation: ChunkSizing, BumpHeap, *)
(* OperatorNew, String, Vector and Algorithm side by side.  They share no  *)
(* state, so a behaviour runs one of them, `part`, and the others keep     *)
(* their initial state: the states add up, and do not multiply.            *)
(***************************************************************************)
EXTENDS Integers, Sequences

CONSTANTS
    PAGE_SIZE, MIN_SLOT_PER_CHUNK, SMALL_MAX, Requests,              \* ChunkSizing
    WORD, MMAP_THRESHOLD, BASE, LIMIT, KernelSizes, MaxKernelCalls,  \* BumpHeap
    Bytes, NewSizes, Handlers,                                       \* OperatorNew
    StringNames, Literals, Chars, MaxString,                         \* String
    VectorNames, Values, MaxVector,                                  \* Vector
    Keys, MaxInput, SMALL                                            \* Algorithm

VARIABLES
    part,
    pc, size, level, count, slots, word, bitmap,              \* ChunkSizing
    heap_curr, brk, answers, calls,                           \* BumpHeap
    __new_handler, blocks, call, gaveUp,                      \* OperatorNew
    strings, str, bad,                                        \* String
    vectors, vec, undone,                                     \* Vector
    input, a, at, open, i, j, pivot, first, middle, next, given  \* Algorithm

sizing == <<pc, size, level, count, slots, word, bitmap>>
kernel == <<heap_curr, brk, answers, calls>>
new == <<__new_handler, blocks, call, gaveUp>>
string == <<strings, str, bad>>
vector == <<vectors, vec, undone>>
algorithm == <<input, a, at, open, i, j, pivot, first, middle, next, given>>
vars == <<part, sizing, kernel, new, string, vector, algorithm>>

(* The bitmap of a chunk has eight words of 64 bits.                       *)
Sizing == INSTANCE ChunkSizing WITH BITMAP_BITS <- 512, Sizes <- Requests
Kernel == INSTANCE BumpHeap WITH Sizes <- KernelSizes, MaxCalls <- MaxKernelCalls, blocks <- answers
New == INSTANCE OperatorNew WITH Sizes <- NewSizes
Strings == INSTANCE String WITH Names <- StringNames, MaxLength <- MaxString, live <- strings
Vectors == INSTANCE Vector WITH Names <- VectorNames, MaxLength <- MaxVector, live <- vectors
Sorting == INSTANCE Algorithm WITH MaxLength <- MaxInput, pc <- at, calls <- open

ASSUME MemoryAssumption ==
    /\ Sizing!GeometryAssumption /\ Sizing!SizingAssumption /\ 1 \in Requests
    /\ Kernel!BumpAssumption /\ New!NewAssumption /\ Strings!StringAssumption
    /\ Vectors!VectorAssumption /\ Sorting!AlgorithmAssumption

Init ==
    /\ part \in {"sizing", "kernel", "new", "string", "vector", "algorithm"}
    /\ Sizing!Init /\ (part # "sizing" => size = 1)
    /\ Kernel!Init /\ New!Init /\ Strings!Init /\ Vectors!Init
    /\ IF part = "algorithm" THEN Sorting!Init
       ELSE /\ input = <<>> /\ a = <<>> /\ at = "sort" /\ open = <<>> /\ i = 1 /\ j = 1
            /\ pivot = [key |-> 0, id |-> 0] /\ first = 1 /\ middle = 1 /\ next = 1 /\ given = 1

SizingStep == part = "sizing" /\ Sizing!Next /\ UNCHANGED <<part, kernel, new, string, vector, algorithm>>
KernelStep == part = "kernel" /\ Kernel!Next /\ UNCHANGED <<part, sizing, new, string, vector, algorithm>>
NewProgram == part = "new" /\ New!Program /\ UNCHANGED <<part, sizing, kernel, string, vector, algorithm>>
NewStep == part = "new" /\ New!Step /\ UNCHANGED <<part, sizing, kernel, string, vector, algorithm>>
StringStep == part = "string" /\ Strings!Next /\ UNCHANGED <<part, sizing, kernel, new, vector, algorithm>>
VectorStep == part = "vector" /\ Vectors!Next /\ UNCHANGED <<part, sizing, kernel, new, string, algorithm>>
SortStep == part = "algorithm" /\ Sorting!Next /\ UNCHANGED <<part, sizing, kernel, new, string, vector>>

Next == SizingStep \/ KernelStep \/ NewProgram \/ NewStep \/ StringStep \/ VectorStep \/ SortStep

Spec == Init /\ [][Next]_vars

(* Loops and calls that have begun go on; a program may stop.              *)
FairSpec == Spec /\ WF_vars(SizingStep \/ NewStep \/ SortStep)

-----------------------------------------------------------------------------
(* Properties.  Each is the conjunction of properties stated, and          *)
(* explained, in the module of the component that runs.                    *)

(* Chunks: the loops of malloc and alloc_new_chunk compute the geometry    *)
(* Heap.tla relies on, and the slots of a chunk tile its pages.            *)
ChunksShaped == part = "sizing" => Sizing!LoopsAgree /\ Sizing!SlotsTile

(* Room: _malloc, malloc's large blocks and operator new answer memory     *)
(* with room for what was asked, apart from other blocks, and null only    *)
(* when there is none, through refused breaks, wrapped sizes and handlers  *)
(* that change themselves.                                                 *)
RoomAnswered ==
    /\ part = "kernel" => Kernel!FollowsBreak /\ Kernel!BlocksApart /\ Kernel!RoomForSize
    /\ part = "new" => New!NullOnlyWhenFull /\ New!ReleasesFirst

(* Containers: strings stay terminated within their arrays, every element  *)
(* of a vector lives once, and sort and rotate stay in their range and     *)
(* arrange what they were given.                                           *)
ContainersSound ==
    /\ part = "string" => Strings!Ended
    /\ part = "vector" => Vectors!LivesOnce /\ Vectors!SlotsMatchSize
    /\ part = "algorithm" => Sorting!SortsAll /\ Sorting!ScansInside /\ Sorting!DepthLogarithmic /\ Sorting!Rotates

(* Refinement: string and vector implement sequences of characters and of  *)
(* elements, and undefined reads come only from the operations named.      *)
ContainersImplement == Strings!AbstractSpec /\ Vectors!AbstractSpec /\ Strings!FaultsFrom /\ Vectors!FaultsFrom

(* Progress: the loops end, and operator new returns unless its handler    *)
(* does nothing.                                                           *)
MemoryEnds ==
    /\ part = "sizing" => Sizing!SizingEnds
    /\ New!HangsOnlyOnNothing
    /\ part = "algorithm" => Sorting!AlgorithmsEnd
==============================================================================
