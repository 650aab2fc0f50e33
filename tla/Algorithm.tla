------------------------------- MODULE Algorithm -----------------------------
(***************************************************************************)
(* sort and rotate (src/include/algorithm:17-56) on a range of elements.   *)
(* Positions are counted from 1, and `last` is one past the end.  sort is  *)
(* a stack of calls; a scan, an exchange, an insertion and a call are a    *)
(* step each.                                                              *)
(***************************************************************************)
EXTENDS Integers, Sequences, SequencesExt, FiniteSetsExt, FiniteSets

CONSTANTS
    Keys,                \* the elements' keys, which comp orders by <
    MaxLength,
    SMALL                \* 16: ranges up to it are sorted by insertion

AlgorithmAssumption == Keys \subseteq Int /\ MaxLength \in Nat /\ SMALL \in Nat \ {0}

VARIABLES
    input, a,            \* sequences of [key, id]: as given, and now
    pc,
    calls,               \* of sort, the last one running: [first, last]
    i, j, pivot,         \* sort's iterators and pivot, in the last call
    first, middle, next, \* rotate's iterators
    given                \* the middle it was given

vars == <<input, a, pc, calls, i, j, pivot, first, middle, next, given>>
sorting == <<calls, i, j, pivot>>
rotating == <<first, middle, next, given>>

comp(x, y) == x.key < y.key
Swapped(s, p, q) == [s EXCEPT ![p] = s[q], ![q] = s[p]]
SwapIf(s, p, q) == IF comp(s[p], s[q]) THEN Swapped(s, p, q) ELSE s
Top == calls[Len(calls)]
Length(call) == call.last - call.first

Init ==
    /\ \E n \in 0 .. MaxLength : \E keys \in [1 .. n -> Keys] :
         /\ input = [k \in 1 .. n |-> [key |-> keys[k], id |-> k]]
         /\ \/ pc = "sort" /\ middle = 1
            \/ pc = "rotate" /\ Cardinality(Keys) >= 2 /\ (\A k \in 1 .. n : keys[k] = Min(Keys)) /\ middle \in 1 .. n + 1
    /\ a = input /\ calls = <<[first |-> 1, last |-> Len(a) + 1]>>
    /\ i = 1 /\ j = 1 /\ pivot = [key |-> 0, id |-> 0]
    /\ first = 1 /\ next = middle /\ given = middle

-----------------------------------------------------------------------------
(* sort *)

(* algorithm:33-40: the median of the first, the middle and the last one.  *)
Choose ==
    /\ pc = "sort" /\ calls # <<>> /\ Length(Top) > SMALL
    /\ LET mid == Top.first + Length(Top) \div 2
           end == Top.last - 1
           low == SwapIf(a, mid, Top.first)
           high == IF comp(low[end], low[mid]) THEN SwapIf(Swapped(low, end, mid), mid, Top.first) ELSE low
       IN  a' = high /\ pivot' = high[mid]
    /\ i' = Top.first /\ j' = Top.last - 1 /\ pc' = "scan"
    /\ UNCHANGED <<input, calls, rotating>>

(* algorithm:42-43.  A scan without an end leaves the elements: it is      *)
(* stopped there.                                                          *)
Scan ==
    /\ pc = "scan" /\ i <= j
    /\ i' = Min({k \in i .. Len(a) : ~ comp(a[k], pivot)} \cup {Len(a) + 1})
    /\ j' = Max({k \in 1 .. j : ~ comp(pivot, a[k])} \cup {0})
    /\ pc' = "swap"
    /\ UNCHANGED <<input, a, calls, pivot, rotating>>

\* error: iterators that meet stay where they are
ExchangeApart ==
    /\ pc = "swap" /\ pc' = "scan"
    /\ IF i < j THEN a' = Swapped(a, i, j) /\ i' = i + 1 /\ j' = j - 1 ELSE UNCHANGED <<a, i, j>>
    /\ UNCHANGED <<input, calls, pivot, rotating>>

(* algorithm:44 *)
Exchange ==
    /\ pc = "swap" /\ pc' = "scan"
    /\ IF i <= j THEN a' = Swapped(a, i, j) /\ i' = i + 1 /\ j' = j - 1 ELSE UNCHANGED <<a, i, j>>
    /\ UNCHANGED <<input, calls, pivot, rotating>>

Part(from, to) == [first |-> from, last |-> to]

(* algorithm:46-47: the shorter part is sorted by a call, the longer by    *)
(* the next turn of the loop.                                              *)
Split ==
    /\ pc = "scan" /\ i > j /\ pc' = "sort"
    /\ LET left == Part(Top.first, j + 1)
           right == Part(i, Top.last)
       IN  calls' = Front(calls) \o IF j - Top.first < Top.last - i THEN <<right, left>> ELSE <<left, right>>
    /\ UNCHANGED <<input, a, i, j, pivot, rotating>>

(* algorithm:49-50: few elements are sorted by insertion.                  *)
Few ==
    /\ pc = "sort" /\ calls # <<>> /\ Length(Top) <= SMALL
    /\ i' = Top.first + 1 /\ pc' = "insert"
    /\ UNCHANGED <<input, a, calls, j, pivot, rotating>>

(* algorithm:51-54: the element at k moved down to its place.              *)
InsertDown(s, from, k) ==
    LET to == Max({from} \cup {p \in from + 1 .. k : ~ comp(s[k], s[p - 1])})
    IN  [p \in DOMAIN s |-> IF p = to THEN s[k] ELSE IF p \in to + 1 .. k THEN s[p - 1] ELSE s[p]]

Insert ==
    /\ pc = "insert" /\ i < Top.last
    /\ a' = InsertDown(a, Top.first, i) /\ i' = i + 1
    /\ UNCHANGED <<input, pc, calls, j, pivot, rotating>>

(* algorithm:56: the return from the call.                                 *)
Return ==
    /\ pc = "insert" /\ i >= Top.last
    /\ calls' = Front(calls) /\ pc' = "sort"
    /\ UNCHANGED <<input, a, i, j, pivot, rotating>>

-----------------------------------------------------------------------------
(* rotate *)

End == Len(a) + 1

(* algorithm:19-20 *)
Early ==
    /\ pc = "rotate" /\ given \in {1, End}
    /\ first' = (IF given = 1 THEN End ELSE 1) /\ pc' = "rotated"
    /\ UNCHANGED <<input, a, sorting, middle, next, given>>

(* algorithm:23-27 *)
Turn ==
    /\ pc = "rotate" /\ given \notin {1, End} /\ first # next
    /\ a' = Swapped(a, first, next) /\ first' = first + 1
    /\ IF next + 1 = End THEN next' = middle /\ UNCHANGED middle
       ELSE next' = next + 1 /\ middle' = IF first + 1 = middle THEN next + 1 ELSE middle
    /\ UNCHANGED <<input, pc, sorting, given>>

(* algorithm:28 *)
Done == pc = "rotate" /\ given \notin {1, End} /\ first = next /\ pc' = "rotated" /\ UNCHANGED <<input, a, sorting, rotating>>

Next ==
    \/ Choose \/ Scan \/ Exchange \/ Split \/ Few \/ Insert \/ Return
    \/ Early \/ Turn \/ Done
    \/ ((pc = "sort" /\ calls = <<>>) \/ pc = "rotated") /\ UNCHANGED vars

Spec == Init /\ [][Next]_vars /\ WF_vars(Next)

-----------------------------------------------------------------------------
(* Properties. *)

Ids(s) == {s[k].id : k \in DOMAIN s}

(* sort answers a permutation of what it is given, in order, though parts  *)
(* are sorted apart and the elements between j and i by nobody.            *)
SortsAll ==
    pc = "sort" /\ calls = <<>> =>
        /\ Ids(a) = Ids(input) /\ \A k \in DOMAIN a : a[k] = input[a[k].id]
        /\ \A k \in 1 .. Len(a) - 1 : ~ comp(a[k + 1], a[k])

(* Neither scan, which no bound stops, leaves the range of its call        *)
(* (algorithm:42-43).                                                      *)
ScansInside == pc = "swap" => i \in Top.first .. Top.last - 1 /\ j \in Top.first .. Top.last - 1

(* The calls open at once are at most the logarithm of the length.         *)
DepthLogarithmic == calls # <<>> /\ Len(a) > 0 => 2 ^ (Len(calls) - 1) <= Len(a)

CommonDivisors == {d \in 1 .. Len(a) : (given - 1) % d = 0 /\ Len(a) % d = 0}

(* rotate brings what followed middle to the front, in order.  It answers  *)
(* the end less the greatest common divisor of the length and the first    *)
(* part's, which is where the old first element is only when that part is  *)
(* the divisor (algorithm:23-28).                                          *)
Rotates ==
    pc = "rotated" =>
        /\ a = SubSeq(input, given, Len(a)) \o SubSeq(input, 1, given - 1)
        /\ first = IF given = 1 THEN End ELSE IF given = Len(a) + 1 THEN 1
                   ELSE End - Max(CommonDivisors)

(* Both end.                                                               *)
AlgorithmsEnd == <>(pc = "rotated" \/ (pc = "sort" /\ calls = <<>>))
===============================================================================
