------------------------------- MODULE MCHeap -------------------------------
(* TLC instances of the slab heap: pages of 160 bytes, so that a chunk of  *)
(* level 0 holds two slots and one of level 1 two pages and three slots.   *)
EXTENDS Heap, TLC

CONSTANT MaxBlocks  \* bound: blocks alive at a time

FewBlocks == Cardinality(DOMAIN live) <= MaxBlocks

RegionSymmetry == Permutations(Region)
=============================================================================
