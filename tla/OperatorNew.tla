------------------------------ MODULE OperatorNew ----------------------------
(***************************************************************************)
(* operator new, operator delete and the new_handler (src/src/new.cpp), on *)
(* a heap that promises what AbstractHeap does while memory lasts: a new   *)
(* handler is program code that gives memory back, installs another, or    *)
(* none, or does nothing at all.                                           *)
(***************************************************************************)
EXTENDS Integers, FiniteSets

CONSTANTS
    Bytes,     \* the memory malloc has to give
    Sizes,     \* the sizes asked for
    Handlers   \* of each handler: what it does, see Does

NewAssumption ==
    /\ IsFiniteSet(Bytes) /\ Sizes \subseteq Nat
    /\ Handlers \subseteq {"releases", "installs", "uninstalls", "nothing"}

VARIABLES
    __new_handler,  \* new.cpp:3
    blocks,         \* the blocks of new: each is a set of bytes
    call,           \* the call in progress: its size, the handler it began with, pc
    gaveUp          \* the last call that answered null, as [size, began, free]

vars == <<__new_handler, blocks, call, gaveUp>>

Idle == [size |-> 0, began |-> "null", pc |-> "idle"]
Free == Bytes \ UNION blocks
At(pc) == call.pc = pc
GoTo(pc) == call' = [call EXCEPT !.pc = pc]

Init == __new_handler = "null" /\ blocks = {} /\ call = Idle /\ gaveUp = {}

(* new.cpp:5-6 *)
Asked(size) == IF size = 0 THEN 1 ELSE size

(* new.cpp:4-6, 21-23 *)
New(size) ==
    /\ At("idle")
    /\ call' = [size |-> Asked(size), began |-> __new_handler, pc |-> "malloc"]
    /\ UNCHANGED <<__new_handler, blocks, gaveUp>>

(* new.cpp:8-9; malloc refuses zero bytes too.                             *)
Malloc ==
    /\ At("malloc")
    /\ IF 0 < call.size /\ call.size <= Cardinality(Free)
       THEN \E b \in SUBSET Free : Cardinality(b) = call.size /\ blocks' = blocks \cup {b} /\ call' = Idle
       ELSE GoTo("failed") /\ UNCHANGED blocks
    /\ UNCHANGED <<__new_handler, gaveUp>>

GiveUp ==
    /\ call' = Idle
    /\ gaveUp' = {[size |-> call.size, began |-> call.began, free |-> Cardinality(Free)]}
    /\ UNCHANGED <<__new_handler, blocks>>

(* new.cpp:10 *)
Installed == __new_handler

(* new.cpp:10-14 *)
Failed ==
    /\ At("failed")
    /\ IF Installed = "null" THEN GiveUp ELSE GoTo("handler") /\ UNCHANGED <<__new_handler, blocks, gaveUp>>

(* operator delete, new.cpp:18-29. *)
Delete(b) == blocks' = blocks \ {b}

(* What a handler may do (external): give back a block, or at the end its  *)
(* own place.                                                              *)
Does(h) ==
    \/ h = "releases" /\ \E b \in blocks : Delete(b) /\ UNCHANGED __new_handler
    \/ h = "releases" /\ blocks = {} /\ __new_handler' = "null" /\ UNCHANGED blocks
    \/ h = "installs" /\ __new_handler' = "releases" /\ UNCHANGED blocks
    \/ h = "uninstalls" /\ __new_handler' = "null" /\ UNCHANGED blocks
    \/ h = "nothing" /\ UNCHANGED <<__new_handler, blocks>>

(* new.cpp:7, 11: the handler returns, and the loop goes on.               *)
Handler == At("handler") /\ Does(Installed) /\ GoTo("malloc") /\ UNCHANGED gaveUp

(* new.cpp:30-37 *)
set_new_handler(h) == At("idle") /\ __new_handler' = h /\ UNCHANGED <<blocks, call, gaveUp>>

Program ==
    \/ \E size \in Sizes : New(size)
    \/ \E b \in blocks : At("idle") /\ Delete(b) /\ UNCHANGED <<__new_handler, call, gaveUp>>
    \/ \E h \in Handlers \cup {"null"} : set_new_handler(h)

Step == Malloc \/ Failed \/ Handler

Next == Program \/ Step

(* A call that has begun goes on.                                          *)
Spec == Init /\ [][Next]_vars /\ WF_vars(Step)

-----------------------------------------------------------------------------
(* Properties. *)

(* Null is answered for want of memory only, for zero bytes too            *)
(* (new.cpp:5): every size has a block of its own.                         *)
NullOnlyWhenFull == \A g \in gaveUp : g.size > g.free

(* With a handler that ends up releasing what it can, null is answered     *)
(* only for more bytes than there are: the loop asks again after each      *)
(* release (new.cpp:7-11).                                                 *)
ReleasesFirst == \A g \in gaveUp : g.began \in {"releases", "installs"} => g.size > Cardinality(Bytes)

(* operator new returns, unless it is left with a handler that does        *)
(* nothing: then it calls that for ever (new.cpp:7-11).                    *)
HangsOnlyOnNothing == [](call # Idle /\ __new_handler # "nothing" => <>(call = Idle))
===============================================================================
