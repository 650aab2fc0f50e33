---------------------------- MODULE AbstractString ----------------------------
(***************************************************************************)
(* What std::string promises (src/include/string): strings as sequences of *)
(* characters.                                                             *)
(***************************************************************************)
EXTENDS Integers, Sequences

CONSTANTS Names, Literals, Chars, MaxLength

VARIABLES live, val   \* the strings there are, and their characters

vars == <<live, val>>

Become(s, v) == Len(v) <= MaxLength /\ val' = [val EXCEPT ![s] = v] /\ UNCHANGED live

Construct(s, v) == s \notin live /\ live' = live \cup {s} /\ val' = [val EXCEPT ![s] = v]
Destroy(s) == s \in live /\ live' = live \ {s} /\ val' = [val EXCEPT ![s] = <<>>]
Assign(s, t) == {s, t} \subseteq live /\ Become(s, val[t])
Move(s, t) ==
    /\ s # t /\ t \in live
    /\ live' = live \cup {s}
    /\ val' = [val EXCEPT ![s] = val[t], ![t] = <<>>]
Resized(v, n, c) == [i \in 1 .. n |-> IF i <= Len(v) THEN v[i] ELSE c]

Init == live = {} /\ val = [s \in Names |-> <<>>]

Next ==
    \E s \in Names :
        \/ \E v \in Literals \cup {<<>>} \cup {val[t] : t \in live} : Construct(s, v)
        \/ Destroy(s)
        \/ \E t \in Names : Assign(s, t) \/ Move(s, t)
        \/ s \in live /\ \E n \in 0 .. MaxLength, c \in Chars \cup {0} : Become(s, Resized(val[s], n, c))
        \/ s \in live /\ \E c \in Chars : Become(s, Append(val[s], c))
        \/ s \in live /\ \E v \in Literals \cup {val[t] : t \in live} : Become(s, val[s] \o v)

Spec == Init /\ [][Next]_vars
===============================================================================
