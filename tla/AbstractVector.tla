---------------------------- MODULE AbstractVector ----------------------------
(***************************************************************************)
(* What std::vector promises (src/include/vector): vectors are sequences.  *)
(* A call that is given an element of the vector itself may break: then    *)
(* the elements it adds are any, and the others are what they were.        *)
(***************************************************************************)
EXTENDS Integers, Sequences, SequencesExt

CONSTANTS Names, Values, MaxLength

VARIABLES live, val, broken   \* the vectors there are, their elements, and the call broke

DEFAULT == 0
Element == Values \cup {DEFAULT}
Become(s, v) == val' = [val EXCEPT ![s] = v]
Resized(v, n, new) == [i \in 1 .. n |-> IF i <= Len(v) THEN v[i] ELSE new[i]]
Alike(n, x) == [i \in 1 .. n |-> x]

Init == live = {} /\ val = [s \in Names |-> <<>>] /\ broken = FALSE

Make(s) ==
    /\ s \notin live /\ live' = live \cup {s} /\ broken' = FALSE
    /\ \/ \E n \in 0 .. MaxLength, x \in Element : Become(s, Alike(n, x))
       \/ \E t \in live : Become(s, val[t]) \/ val' = [val EXCEPT ![s] = val[t], ![t] = <<>>]
Destroy(s) == s \in live /\ live' = live \ {s} /\ Become(s, <<>>) /\ broken' = FALSE
Change(s) ==
    /\ s \in live /\ UNCHANGED live /\ broken' = FALSE
    /\ \/ Become(s, <<>>)
       \/ \E x \in Values \cup {val[s][i] : i \in DOMAIN val[s]} : Become(s, Append(val[s], x))
       \/ \E n \in 0 .. MaxLength, x \in Element : Become(s, Resized(val[s], n, Alike(n, x)))
       \/ \E i \in DOMAIN val[s] : Become(s, RemoveAt(val[s], i))
       \/ \E t \in live \ {s} : Become(s, val[t]) \/ val' = [val EXCEPT ![s] = val[t], ![t] = <<>>]
Break(s) ==
    /\ s \in live /\ UNCHANGED live /\ broken' = TRUE
    /\ \E n \in Len(val[s]) + 1 .. MaxLength : \E new \in [Len(val[s]) + 1 .. n -> Element] :
        val[s] # <<>> /\ Become(s, Resized(val[s], n, new))

Next == \E s \in Names : Make(s) \/ Destroy(s) \/ Change(s) \/ Break(s)

Spec == Init /\ [][Next]_<<live, val, broken>>
===============================================================================
