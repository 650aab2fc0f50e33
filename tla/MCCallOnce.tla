----------------------------- MODULE MCCallOnce -----------------------------
(* Three threads on five flags: two whose functions need each other, one   *)
(* that needs these, and two, the function of one needing the other, that  *)
(* come to no cycle and that one of the cycle needs.                       *)
EXTENDS CallOnce, TLC
CONSTANTS outer, inner, left, right, above
MCNeeds == (outer :> {inner}) @@ (inner :> {}) @@ (left :> {right}) @@ (right :> {left, outer}) @@ (above :> {left})
=============================================================================
