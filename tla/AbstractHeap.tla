---------------------------- MODULE AbstractHeap ----------------------------
(***************************************************************************)
(* What malloc, free and realloc of src/src/stdlib.cpp promise a caller:   *)
(* a set of blocks, each with the size asked for and the contents last     *)
(* stored, none of which shares a byte with another.  How the memory is    *)
(* found is Heap.tla's business.  A call that fails leaves every block as  *)
(* it was, so here it is no step at all.                                   *)
(***************************************************************************)
EXTENDS Integers

CONSTANTS
    Ptr,       \* where a block can start: pairs <<region, offset>>
    Sizes,     \* the sizes callers ask for
    Data,      \* what callers store in a block
    UNWRITTEN  \* the contents of a block its owner has not stored to

VARIABLE live  \* the blocks: from pointers to [size, data]

(* The block at p with n bytes and the block at q with m bytes share none. *)
Apart(p, n, q, m) == p[1] # q[1] \/ p[2] + n <= q[2] \/ q[2] + m <= p[2]

Init == live = [p \in {} |-> UNWRITTEN]

(* The function f with x mapped to v, and f without x. *)
Extend(f, x, v) == [y \in DOMAIN f \cup {x} |-> IF y = x THEN v ELSE f[y]]
Without(f, x) == [y \in DOMAIN f \ {x} |-> f[y]]

Fresh(p, size) ==
    /\ p \notin DOMAIN live
    /\ \A q \in DOMAIN live : Apart(p, size, q, live[q].size)

Malloc(p, size) ==
    /\ size > 0
    /\ Fresh(p, size)
    /\ live' = Extend(live, p, [size |-> size, data |-> UNWRITTEN])

Free(p) == live' = Without(live, p)

(* The block may grow where it is only into bytes that are nobody's. *)
ReallocInPlace(p, size) ==
    /\ size > 0
    /\ \A q \in DOMAIN live \ {p} : Apart(p, size, q, live[q].size)
    /\ live' = [live EXCEPT ![p].size = size]

(* The contents move along; the old block exists until they have. *)
ReallocMove(p, q, size) ==
    /\ size > live[p].size
    /\ Fresh(q, size)
    /\ live' = Extend(Without(live, p), q,
                      [size |-> size, data |-> live[p].data])

Store(p, d) == live' = [live EXCEPT ![p].data = d]

Next ==
    \/ \E size \in Sizes : \E p \in Ptr : Malloc(p, size)
    \/ \E p \in DOMAIN live : Free(p)
    \/ \E p \in DOMAIN live, size \in Sizes : ReallocInPlace(p, size)
    \/ \E p \in DOMAIN live, size \in Sizes : \E q \in Ptr : ReallocMove(p, q, size)
    \/ \E p \in DOMAIN live, d \in Data : Store(p, d)

Spec == Init /\ [][Next]_live
=============================================================================
