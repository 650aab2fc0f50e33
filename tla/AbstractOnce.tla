---------------------------- MODULE AbstractOnce ----------------------------
(***************************************************************************)
(* What call_once promises: a function takes effect once and for all, and  *)
(* a caller returns only when it has.                                      *)
(***************************************************************************)
CONSTANTS Thread, Flag

VARIABLES
    done,   \* the flags whose function has taken effect
    waits   \* the flag each thread is waiting for, as a set of at most one

vars == <<done, waits>>

Init ==
    /\ done = {}
    /\ waits = [t \in Thread |-> {}]

Ask(t, x) ==
    /\ waits[t] = {}
    /\ waits' = [waits EXCEPT ![t] = {x}]
    /\ UNCHANGED done

Run(x) ==
    /\ x \notin done
    /\ done' = done \cup {x}
    /\ UNCHANGED waits

Answer(t) ==
    /\ waits[t] # {} /\ waits[t] \subseteq done
    /\ waits' = [waits EXCEPT ![t] = {}]
    /\ UNCHANGED done

Next ==
    \/ \E t \in Thread : Answer(t) \/ \E x \in Flag : Ask(t, x)
    \/ \E x \in Flag : Run(x)

Spec == Init /\ [][Next]_vars
=============================================================================
