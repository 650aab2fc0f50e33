-------------------------------- MODULE Vector -------------------------------
(***************************************************************************)
(* std::vector (src/include/vector) as the life of its elements: every     *)
(* slot of an array is raw memory or holds an element, which is made once  *)
(* and destroyed once.  A loop over slots, here counted from 1, touches    *)
(* each of them once, and is one change of all.  Allocation succeeds.      *)
(***************************************************************************)
EXTENDS Integers, Sequences, FiniteSetsExt

CONSTANTS
    Names,      \* the vectors of the program
    Values,     \* what it puts in
    MaxLength   \* bound: the length of a vector

VectorAssumption == Values \subseteq Nat \ {0} /\ MaxLength \in 0 .. 2^16

VARIABLES
    live,   \* the vectors made and not destroyed
    vec,    \* of each: [data, size, capacity, faults]
    undone  \* the faults of the call that a program need not survive

vars == <<live, vec, undone>>

RAW == -1       \* a slot without an element
DEFAULT == 0    \* T()
Element == Values \cup {DEFAULT}
Nothing == [data |-> <<>>, size |-> 0, capacity |-> 0, faults |-> {}]

-----------------------------------------------------------------------------
(* Elements made, assigned to or destroyed in slots, and the array.        *)

Blame(o, kind, wrong) == IF wrong THEN [o EXCEPT !.faults = @ \cup {kind}] ELSE o
Over(data, new) == [i \in DOMAIN data |-> IF i \in DOMAIN new THEN new[i] ELSE data[i]]
Filled(o, new) == [o EXCEPT !.data = Over(@, new)]

Make(o, new) == Filled(Blame(o, "made twice", \E i \in DOMAIN new : o.data[i] # RAW), new)
Assign(o, new) == Filled(Blame(o, "assigned raw", \E i \in DOMAIN new : o.data[i] = RAW), new)
Unmake(o, slots) == Filled(Blame(o, "destroyed twice", \E i \in slots : o.data[i] = RAW), [i \in slots |-> RAW])

(* operator delete[] of an array.                                          *)
Freed(o) == [Blame(o, "leaked", \E i \in DOMAIN o.data : o.data[i] # RAW) EXCEPT !.data = <<>>]

(* An array of n slots in place of the old one, whose elements go.         *)
Taken(o, gone, n) ==
    [data |-> [i \in 1 .. n |-> IF i <= o.size THEN o.data[i] ELSE RAW],
     size |-> o.size, capacity |-> n, faults |-> Freed(gone).faults]

\* error: the old elements are not destroyed
MovedForgets(o, n) == Taken(o, o, n)

(* vector:138-145 *)
Moved(o, n) == Taken(o, Unmake(o, 1 .. o.size), n)

(* vector:136-137 *)
Doubled(capacity) == IF capacity = 0 THEN 1 ELSE capacity * 2
Grow(o) == Moved(o, Doubled(o.capacity))

(* vector:104-106, 108-112, 122-126: doubled until it is enough.           *)
Reserved(o, n) ==
    IF o.capacity >= n THEN o
    ELSE Moved(o, Min({m \in {Doubled(o.capacity) * 2^k : k \in 0 .. 16} : m >= n}))

Elements(o) == SubSeq(o.data, 1, o.size)

(* vector:18, 28 *)
CopiedFrom(o, source) == [Make(Reserved(o, source.size), Elements(source)) EXCEPT !.size = source.size]

Put(o, new, made) == IF made THEN Make(o, new) ELSE Assign(o, new)

(* vector:107-120, made, and 121-134, assigned: new gives what comes into  *)
(* the slots from o.size + 1 to n.                                         *)
Resized(o, n, new, made) == [Unmake(Put(Reserved(o, n), new, made), n + 1 .. o.size) EXCEPT !.size = n]
Alike(o, n, v) == [i \in o.size + 1 .. n |-> v]

(* vector:34, 42-45, 51-53 *)
Emptied(o) == [Unmake(o, 1 .. o.size) EXCEPT !.size = 0]

(* vector:58-64 *)
Pushed(o, v) == [Make(IF o.size = o.capacity THEN Grow(o) ELSE o, [i \in {o.size + 1} |-> v]) EXCEPT !.size = @ + 1]

(* vector:79-88: each from index on is destroyed, and the next one moved   *)
(* into its slot.                                                          *)
Erased(o, index) ==
    [Make(Unmake(o, index .. o.size), [i \in index .. o.size - 1 |-> o.data[i + 1]]) EXCEPT !.size = @ - 1]

-----------------------------------------------------------------------------
(* The operations. *)

Become(s, o) ==
    /\ o.size <= MaxLength
    /\ vec' = [vec EXCEPT ![s] = [o EXCEPT !.faults = {}]]
    /\ undone' = o.faults

(* vector:12-22; with a size the elements are assigned, not made.          *)
Construct(s) ==
    /\ s \notin live /\ live' = live \cup {s}
    /\ \/ Become(s, Nothing)
       \/ \E n \in 0 .. MaxLength, v \in Element : Become(s, Resized(Nothing, n, Alike(Nothing, n, v), FALSE))
       \/ \E t \in live : Become(s, CopiedFrom(Nothing, vec[t]))

MoveConstruct(s, t) ==
    /\ s \notin live /\ t \in live /\ live' = live \cup {s}
    /\ vec' = [vec EXCEPT ![s] = vec[t], ![t] = Nothing] /\ undone' = {}

(* vector:41-49 *)
Destroy(s) == s \in live /\ live' = live \ {s} /\ Become(s, [Freed(Emptied(vec[s])) EXCEPT !.capacity = 0])

(* vector:23-31 *)
CopyAssign(s, t) ==
    /\ {s, t} \subseteq live /\ UNCHANGED live
    /\ Become(s, IF s = t THEN vec[s] ELSE CopiedFrom(Emptied(vec[s]), vec[t]))

(* vector:32-40 *)
MoveAssign(s, t) ==
    /\ {s, t} \subseteq live /\ UNCHANGED live
    /\ vec' = IF s = t THEN vec ELSE [vec EXCEPT ![s] = vec[t], ![t] = Nothing]
    /\ undone' = IF s = t THEN {} ELSE Freed(Emptied(vec[s])).faults

(* vector:50-57: the array is given up, and one of one element taken.      *)
clear(s) == Become(s, Grow([Emptied(vec[s]) EXCEPT !.capacity = 0]))

push_back(s) == \E v \in Values : Become(s, Pushed(vec[s], v))

resize(s) ==
    \E n \in 0 .. MaxLength :
        \/ Become(s, Resized(vec[s], n, Alike(vec[s], n, DEFAULT), TRUE))
        \/ \E v \in Values : Become(s, Resized(vec[s], n, Alike(vec[s], n, v), FALSE))

(* The value may be an element of the vector itself.  It is a reference:   *)
(* when the array grows first, the element has been moved from, destroyed  *)
(* and freed, and what each slot gets is whatever is read there.           *)
ReadFreed(o) == Blame(o, "read freed", TRUE)

pushOwn(s) ==
    \E i \in 1 .. vec[s].size :
        LET o == vec[s]
        IN  IF o.size # o.capacity THEN Become(s, Pushed(o, o.data[i]))
            ELSE \E seen \in Element : Become(s, ReadFreed(Pushed(o, seen)))

resizeOwn(s) ==
    \E n \in 0 .. MaxLength, i \in 1 .. vec[s].size :
        LET o == vec[s]
        IN  IF n <= o.capacity THEN Become(s, Resized(o, n, Alike(o, n, o.data[i]), FALSE))
            ELSE \E seen \in [o.size + 1 .. n -> Element] : Become(s, ReadFreed(Resized(o, n, seen, FALSE)))

reserve(s) == \E n \in 0 .. MaxLength : Become(s, Reserved(vec[s], n))

erase(s) == \E i \in 1 .. vec[s].size : Become(s, Erased(vec[s], i))

Init == live = {} /\ vec = [s \in Names |-> Nothing] /\ undone = {}

Next ==
    \E s \in Names :
        \/ Construct(s) \/ Destroy(s)
        \/ \E t \in Names : MoveConstruct(s, t) \/ CopyAssign(s, t) \/ MoveAssign(s, t)
        \/ s \in live /\ UNCHANGED live /\
            (clear(s) \/ push_back(s) \/ resize(s) \/ pushOwn(s) \/ resizeOwn(s) \/ reserve(s) \/ erase(s))

Spec == Init /\ [][Next]_vars

-----------------------------------------------------------------------------
(* Properties. *)

(* Each element is made once, destroyed once, and never given up with its  *)
(* array, through every growth, move and erasure; what calls with a value  *)
(* do wrong is FaultsFrom's matter.                                        *)
LivesOnce == undone \subseteq {"assigned raw", "read freed"}

(* Elements never made are assigned to only by a call that makes a vector  *)
(* longer (vector:128), and an element that is gone is read only by one    *)
(* that also replaces the array of a vector with elements (vector:59-62,   *)
(* 122-128); every other call is without fault.                            *)
Broken == "read freed" \in undone
FaultsFrom ==
    [][/\ undone' # {} => \E s \in live' : vec'[s].size > vec[s].size
       /\ Broken' =>
            \E s \in live : vec[s].size \in 1 .. vec'[s].size - 1 /\ vec[s].capacity < vec'[s].size]_vars

(* The elements are the slots below size, and no other slot holds one.     *)
SlotsMatchSize ==
    \A s \in Names : LET o == vec[s] IN
        /\ Len(o.data) = o.capacity /\ o.size <= o.capacity
        /\ \A i \in DOMAIN o.data : o.data[i] # RAW <=> i <= o.size

(* A vector is a sequence, its new elements those it was given unless the  *)
(* call read one that was gone: see AbstractVector.                        *)
Abstract == INSTANCE AbstractVector WITH
    val <- [s \in Names |-> Elements(vec[s])], broken <- Broken
AbstractSpec == Abstract!Spec
===============================================================================
