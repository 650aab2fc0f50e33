------------------------------ MODULE CallOnce ------------------------------
(***************************************************************************)
(* call_once and once_flag (src/include/mutex), as threads of a process    *)
(* use them.  The function of a flag writes something every caller reads   *)
(* afterwards, in more than one store, like the lambda of the Window       *)
(* constructor, which fills ginfo and then derives bytesPerPixel           *)
(* (src/src/myos.cpp:232-255); it may itself call call_once for other      *)
(* flags.  A thread is a stack of calls in progress; the top one steps.    *)
(***************************************************************************)
EXTENDS Naturals, Sequences

CONSTANTS
    Thread,
    Flag,
    Needs   \* the flags whose call_once the function of a flag calls

ASSUME NeedsAssumption == Needs \in [Flag -> SUBSET Flag]

VARIABLES
    state,   \* once_flag::state of each flag: 0 not run, 1 running, 2 done
    stack,   \* the calls each thread is in, the innermost last
    effect,  \* how much of a flag's function has been stored
    runs     \* how often the function of a flag was entered

vars == <<state, stack, effect, runs>>

Frame == [flag : Flag, pc : {"cas", "run", "store", "spin"}, called : SUBSET Flag]
Effect == {"none", "partial", "whole"}

Init ==
    /\ state = [x \in Flag |-> 0]
    /\ stack = [t \in Thread |-> <<>>]
    /\ effect = [x \in Flag |-> "none"]
    /\ runs = [x \in Flag |-> 0]

Top(t) == stack[t][Len(stack[t])]
In(t, pc) == stack[t] # <<>> /\ Top(t).pc = pc

Entered(x) == [flag |-> x, pc |-> "cas", called |-> {}]
GoTo(t, pc) == stack' = [stack EXCEPT ![t][Len(stack[t])].pc = pc]

(* call_once returns to its caller: the program, or the function of the    *)
(* flag below, which has then made this call.                              *)
Return(t) ==
    LET rest == SubSeq(stack[t], 1, Len(stack[t]) - 1)
    IN  stack' = [stack EXCEPT ![t] =
                    IF rest = <<>> THEN rest
                    ELSE [rest EXCEPT ![Len(rest)].called = @ \cup {Top(t).flag}]]

(* mutex:8-9 *)
Call(t, x) ==
    /\ stack[t] = <<>>
    /\ stack' = [stack EXCEPT ![t] = <<Entered(x)>>]
    /\ UNCHANGED <<state, effect, runs>>

\* error: the exchange is a load and a store, and the load looks for 2 only
WinUnlessDone(t) ==
    /\ In(t, "cas") /\ state[Top(t).flag] # 2
    /\ state' = [state EXCEPT ![Top(t).flag] = 1]
    /\ effect' = [effect EXCEPT ![Top(t).flag] = "partial"]
    /\ runs' = [runs EXCEPT ![Top(t).flag] = @ + 1]
    /\ GoTo(t, "run")

(* mutex:12-15: the exchange 0 -> 1 succeeds, and f is called. *)
Win(t) ==
    /\ In(t, "cas") /\ state[Top(t).flag] = 0
    /\ state' = [state EXCEPT ![Top(t).flag] = 1]
    /\ effect' = [effect EXCEPT ![Top(t).flag] = "partial"]
    /\ runs' = [runs EXCEPT ![Top(t).flag] = @ + 1]
    /\ GoTo(t, "run")

(* mutex:18: another thread has run f, or is running it. *)
Lose(t) ==
    /\ In(t, "cas") /\ state[Top(t).flag] # 0
    /\ GoTo(t, "spin")
    /\ UNCHANGED <<state, effect, runs>>

(* mutex:15: f calls call_once for a flag it needs. *)
Nest(t, x) ==
    /\ In(t, "run") /\ x \in Needs[Top(t).flag] \ Top(t).called
    /\ stack' = [stack EXCEPT ![t] = Append(@, Entered(x))]
    /\ UNCHANGED <<state, effect, runs>>

(* mutex:15: f has made its calls, makes its last store, and returns. *)
Finish(t) ==
    /\ In(t, "run") /\ Needs[Top(t).flag] \subseteq Top(t).called
    /\ effect' = [effect EXCEPT ![Top(t).flag] = "whole"]
    /\ GoTo(t, "store")
    /\ UNCHANGED <<state, runs>>

\* error: the store of 2 is forgotten
PublishNothing(t) ==
    /\ In(t, "store")
    /\ Return(t)
    /\ UNCHANGED <<state, effect, runs>>

(* mutex:16: the store that lets the spinning threads go. *)
Publish(t) ==
    /\ In(t, "store")
    /\ state' = [state EXCEPT ![Top(t).flag] = 2]
    /\ Return(t)
    /\ UNCHANGED <<effect, runs>>

\* error: the loop goes on while state is 0
SpinWhileZero(t) ==
    /\ In(t, "spin") /\ state[Top(t).flag] # 0
    /\ Return(t)
    /\ UNCHANGED <<state, effect, runs>>

(* mutex:20: the load that ends the loop. *)
Spin(t) ==
    /\ In(t, "spin") /\ state[Top(t).flag] = 2
    /\ Return(t)
    /\ UNCHANGED <<state, effect, runs>>

(* mutex:20-27: a load of another value, a pause, and the loop again. *)
Pause(t) ==
    /\ In(t, "spin") /\ state[Top(t).flag] # 2
    /\ UNCHANGED vars

Step(t) ==
    \/ Win(t) \/ Lose(t) \/ Finish(t) \/ Publish(t) \/ Spin(t) \/ Pause(t)
    \/ \E x \in Flag : Nest(t, x)

Next == \E t \in Thread : Step(t) \/ \E x \in Flag : Call(t, x)

Spec == Init /\ [][Next]_vars
FairSpec == Spec /\ \A t \in Thread : WF_vars(Step(t))

-----------------------------------------------------------------------------
TypeOK ==
    /\ state \in [Flag -> 0 .. 2]
    /\ stack \in [Thread -> Seq(Frame)]
    /\ effect \in [Flag -> Effect]
    /\ runs \in [Flag -> Nat]

(* However many threads race on a flag, its function is entered once: the  *)
(* exchange of mutex:12 lets one caller through, and state never returns   *)
(* to 0.                                                                   *)
RunsOnce == \A x \in Flag : runs[x] <= 1

(* Nobody returns from call_once before the function is through, so that   *)
(* no thread sizes its window by a bytesPerPixel (myos.cpp:255) that       *)
(* another is about to store (myos.cpp:237): not the thread that lost the  *)
(* exchange while the winner is inside a nested call either.               *)
ReturnsAfterEffect ==
    [][\A t \in Thread : Len(stack'[t]) < Len(stack[t]) =>
            effect[Top(t).flag] = "whole"]_vars

(* The promise without the flag's protocol: AbstractOnce's Run is the last *)
(* store of the function.                                                  *)
Abstract == INSTANCE AbstractOnce WITH
                done <- {x \in Flag : effect[x] = "whole"},
                waits <- [t \in Thread |-> IF stack[t] = <<>> THEN {}
                                           ELSE {stack[t][1].flag}]
AbstractSpec == Abstract!Spec

(* A flag comes to need itself when a chain of needs goes on from it for   *)
(* ever: when there are flags, it among them, of which every one needs     *)
(* another one.                                                            *)
ComesToCycle(x) == \E S \in SUBSET Flag : x \in S /\ \A y \in S : Needs[y] \cap S # {}

(* Every call_once returns when the scheduler lets every thread go on and  *)
(* its function needs, directly or not, no flag that needs itself, whoever *)
(* runs that function meanwhile: the winner is never waiting for a loser   *)
(* (mutex:15, 20).                                                         *)
CallsReturn ==
    \A t \in Thread : stack[t] # <<>> /\ ~ ComesToCycle(stack[t][1].flag) ~> stack[t] = <<>>

(* A thread that can never go on, because it and those it waits for all    *)
(* spin, spins on a flag whose function needs, in the end, itself: threads *)
(* that race through flags without a cycle never lock each other up, also  *)
(* beside others that do (mutex:15, 20).                                   *)
Runner(x) == {t \in Thread : \E i \in DOMAIN stack[t] : stack[t][i].flag = x /\ stack[t][i].pc \in {"run", "store"}}
LockedUp(T) == \A t \in T : In(t, "spin") /\ state[Top(t).flag] # 2 /\ Runner(Top(t).flag) \subseteq T
LockedOnCycles ==
    \A T \in SUBSET Thread : LockedUp(T) => \A t \in T : ComesToCycle(Top(t).flag)

=============================================================================
