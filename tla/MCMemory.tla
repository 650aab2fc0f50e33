------------------------------- MODULE MCMemory ------------------------------
(***************************************************************************)
(* Memory with the numbers of the source where TLC can take them, and      *)
(* small ones elsewhere.                                                   *)
(***************************************************************************)
EXTENDS Memory

(* The requests at both ends of every level malloc uses: Capacity(l) is    *)
(* 2^(l + 4).                                                              *)
BoundarySizes == {1} \cup UNION {{2^(l + 4) - 1, 2^(l + 4)} : l \in 0 .. 7} \cup {2^(l + 4) + 1 : l \in 0 .. 6}

(* A literal with a character that comes twice.                            *)
SomeLiterals == {<<2, 1, 2>>}
==============================================================================
