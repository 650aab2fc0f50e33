-------------------------------- MODULE Exit --------------------------------
(***************************************************************************)
(* The end of a process: atexit, __cxa_atexit and exit                     *)
(* (src/src/stdlib.cpp:245-274), entered by a call or from _start when     *)
(* main returns (src/src/myos.cpp:19-30, 362-365).  exit runs the handlers *)
(* of two lists backwards by index; a handler is program code: it may      *)
(* register handlers, print, and call exit again.  The kernel is taken to  *)
(* accept what is written, whole: failing and short writes are Stream's.   *)
(***************************************************************************)
EXTENDS Naturals, Sequences, FiniteSets

CONSTANTS
    Handler,   \* the handlers a program may register, each once
    MaxExits   \* bound: calls of exit in progress, one inside the other

ExitAssumption == IsFiniteSet(Handler) /\ MaxExits \in Nat \ {0}

VARIABLES
    cxa_handlers,     \* the vectors of stdlib.cpp:257 and 245, empty in .bss
    atexit_handlers,
    exits,    \* the calls of exit in progress, the innermost last
    open,     \* which of the standard streams are open
    printed,  \* the number of prints that wait in stdout's buffer
    written,  \* the number that has reached the kernel
    due,      \* the handlers registered when exit was first called
    ran       \* the handlers run, in order

vars == <<cxa_handlers, atexit_handlers, exits, open, printed, written, due, ran>>

(* A call of exit: the loop it is in, the index i of that loop plus one,   *)
(* and whether the handler at i is running.                                *)
ExitCall == [loop : {"cxa", "atexit", "stdout", "stderr", "_exit"}, i : Nat, inside : BOOLEAN]

Top == exits[Len(exits)]
SetTop(e) == exits' = [exits EXCEPT ![Len(exits)] = e]
EntriesOf(loop) == IF loop = "cxa" THEN cxa_handlers ELSE atexit_handlers

Range(s) == {s[i] : i \in 1 .. Len(s)}
Registered == Range(cxa_handlers) \cup Range(atexit_handlers)

Gone == exits # <<>> /\ Top.loop = "_exit"
Program == exits # <<>> => Top.inside   \* main or a handler is running

Init ==
    /\ cxa_handlers = <<>> /\ atexit_handlers = <<>>
    /\ exits = <<>>
    /\ open = {"stdin", "stdout", "stderr"}
    /\ printed = 0 /\ written = 0
    /\ due = {} /\ ran = <<>>

(* stdlib.cpp:247-250 *)
atexit(h) ==
    /\ Program /\ h \notin Registered
    /\ atexit_handlers' = Append(atexit_handlers, h)
    /\ UNCHANGED <<cxa_handlers, exits, open, printed, written, due, ran>>

(* stdlib.cpp:259-263 *)
__cxa_atexit(h) ==
    /\ Program /\ h \notin Registered
    /\ cxa_handlers' = Append(cxa_handlers, h)
    /\ UNCHANGED <<atexit_handlers, exits, open, printed, written, due, ran>>

(* A print that stays in stdout's buffer; one per piece of program code. *)
printf ==
    /\ Program /\ printed + written < Len(ran) + 1
    /\ printed' = printed + 1
    /\ UNCHANGED <<cxa_handlers, atexit_handlers, exits, open, written, due, ran>>

Entered == [loop |-> "cxa", i |-> Len(cxa_handlers), inside |-> FALSE]

(* stdlib.cpp:264-265 *)
exit ==
    /\ Program /\ Len(exits) < MaxExits
    /\ exits' = Append(exits, Entered)
    /\ due' = IF exits = <<>> THEN Registered ELSE due
    /\ UNCHANGED <<cxa_handlers, atexit_handlers, open, printed, written, ran>>

(* myos.cpp:25-28, 362-365: main returns. *)
_after_main ==
    /\ exits = <<>>
    /\ open' = open \ {"stdin"}
    /\ exits' = <<Entered>>
    /\ due' = Registered
    /\ UNCHANGED <<cxa_handlers, atexit_handlers, printed, written, ran>>

Looping(loop) == exits # <<>> /\ Top.loop = loop /\ ~Top.inside

(* stdlib.cpp:265-266, 268-269 *)
RunHandler(loop) ==
    /\ Looping(loop) /\ Top.i > 0
    /\ ran' = Append(ran, EntriesOf(loop)[Top.i])
    /\ SetTop([Top EXCEPT !.inside = TRUE])
    /\ UNCHANGED <<cxa_handlers, atexit_handlers, open, printed, written, due>>

(* The handler returns, and the loop counts down. *)
HandlerReturns ==
    /\ exits # <<>> /\ Top.inside
    /\ SetTop([Top EXCEPT !.inside = FALSE, !.i = @ - 1])
    /\ UNCHANGED <<cxa_handlers, atexit_handlers, open, printed, written, due, ran>>

\* error: one index is kept for both loops
SecondLoopShares ==
    /\ Looping("cxa") /\ Top.i = 0
    /\ SetTop([Top EXCEPT !.loop = "atexit"])
    /\ UNCHANGED <<cxa_handlers, atexit_handlers, open, printed, written, due, ran>>

(* stdlib.cpp:267-268: the size is read when the second loop begins. *)
SecondLoop ==
    /\ Looping("cxa") /\ Top.i = 0
    /\ SetTop([Top EXCEPT !.loop = "atexit", !.i = Len(atexit_handlers)])
    /\ UNCHANGED <<cxa_handlers, atexit_handlers, open, printed, written, due, ran>>

(* stdlib.cpp:270 *)
LoopsDone ==
    /\ Looping("atexit") /\ Top.i = 0
    /\ SetTop([Top EXCEPT !.loop = "stdout"])
    /\ UNCHANGED <<cxa_handlers, atexit_handlers, open, printed, written, due, ran>>

(* stdlib.cpp:271, fclose(stdout) with the fflush in it, whose answer is   *)
(* not looked at (stdio.cpp:224): a write that failed would lose the rest. *)
CloseStdout ==
    /\ Looping("stdout")
    /\ open' = open \ {"stdout"}
    /\ written' = written + printed /\ printed' = 0
    /\ SetTop([Top EXCEPT !.loop = "stderr"])
    /\ UNCHANGED <<cxa_handlers, atexit_handlers, due, ran>>

\* error: _exit is not called
NoExit ==
    /\ Looping("stderr")
    /\ open' = open \ {"stderr"}
    /\ UNCHANGED <<cxa_handlers, atexit_handlers, exits, printed, written, due, ran>>

(* stdlib.cpp:272-273 *)
CloseStderr ==
    /\ Looping("stderr")
    /\ open' = open \ {"stderr"}
    /\ SetTop([Top EXCEPT !.loop = "_exit"])
    /\ UNCHANGED <<cxa_handlers, atexit_handlers, printed, written, due, ran>>

Terminated == Gone /\ UNCHANGED vars

Ending ==
    \/ RunHandler("cxa") \/ RunHandler("atexit") \/ HandlerReturns
    \/ SecondLoop \/ LoopsDone \/ CloseStdout \/ CloseStderr

Next ==
    \/ \E h \in Handler : atexit(h) \/ __cxa_atexit(h)
    \/ printf \/ exit \/ _after_main
    \/ Ending \/ Terminated

Spec == Init /\ [][Next]_vars
FairSpec == Spec /\ WF_vars(Ending)

-----------------------------------------------------------------------------
TypeOK ==
    /\ cxa_handlers \in Seq(Handler) /\ atexit_handlers \in Seq(Handler)
    /\ exits \in Seq(ExitCall)
    /\ open \subseteq {"stdin", "stdout", "stderr"}
    /\ printed \in Nat /\ written \in Nat
    /\ due \subseteq Handler /\ ran \in Seq(Handler)

(* No handler has called exit.                                             *)
Once == Len(exits) <= 1

(* When the process ends, every handler registered before exit was called  *)
(* has run, and none twice unless a handler called exit: neither the       *)
(* handlers that register others while a loop runs nor the second list     *)
(* make the loops miss an entry.                                           *)
DueHandlersRan ==
    Gone => /\ due \subseteq Range(ran)
            /\ Once => Cardinality(Range(ran)) = Len(ran)

(* A handler runs again only in another call of exit, made by a handler:   *)
(* each call runs it at most once, so that the handlers that have run may  *)
(* run as often as exit was called, and no oftener.  Entries are never     *)
(* removed (stdlib.cpp:265-270), so the caller itself is among them.       *)
OncePerCall == \A h \in Handler : Cardinality({i \in DOMAIN ran : ran[i] = h}) <= Len(exits)

Before(s, x, y) == \E i, j \in 1 .. Len(s) : i < j /\ s[i] = x /\ s[j] = y

(* Handlers run in the reverse of their order of registration, those of    *)
(* __cxa_atexit, the destructors, before those of atexit.                  *)
ReverseOrder ==
    Once => \A g, h \in due : Before(ran, g, h) =>
        \/ Before(cxa_handlers, h, g)
        \/ Before(atexit_handlers, h, g)
        \/ g \in Range(cxa_handlers) /\ h \in Range(atexit_handlers)

(* Whatever main and the handlers printed, and whenever, is written when   *)
(* the process ends, as far as the kernel takes it: stdout is flushed and  *)
(* closed after the last handler.                                          *)
NothingUnwritten == Gone => printed = 0 /\ open \subseteq {"stdin"}

(* Progress is that Busy ends: exit ends the process, also when handlers   *)
(* register handlers and call exit in their turn, as long as there is an   *)
(* end to that.                                                            *)
Busy == exits # <<>> /\ ~ Gone
=============================================================================
