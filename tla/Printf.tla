-------------------------------- MODULE Printf --------------------------------
(***************************************************************************)
(* vfprintf and vsnprintf (src/src/stdio.cpp:101-201, 482-513): one turn   *)
(* of the loop over the format is one step.  The output goes to a stream,  *)
(* which takes every character, or to a buffer of n bytes, which takes     *)
(* n - 1 and the final 0.                                                  *)
(***************************************************************************)
EXTENDS Numerals

CONSTANTS
    Calls,    \* the calls: format, arguments [int, chars], and what they mean,
              \* if the code's own comments agree with it on that
    Sizes,    \* the buffer sizes given to vsnprintf
    STREAM    \* in place of a size: the output is a stream

VARIABLES
    call,       \* the call as it was made
    fmt, ap,    \* what is left of the format and of the arguments
    n,          \* the size of the buffer, or STREAM
    text,       \* the characters fputc took
    out_count,
    pc          \* "loop", "done", or "past" the end of the format

vars == <<call, fmt, ap, n, text, out_count, pc>>

(* stdio.cpp:486: bufsize, larger than any text of the run for a stream. *)
Bufsize == IF n = STREAM THEN 1000 ELSE n - 1

(* stdio.cpp:40-41, for each of the characters: a full buffer takes none. *)
Put(chars) == SubSeq(text \o chars, 1, Min({Bufsize, Len(text) + Len(chars)}))

\* error: a character the full buffer did not take is not counted
EmitCountsStored(chars, k, used, rest) ==
    /\ text' = Put(chars)
    /\ out_count' = out_count + Min({k, Bufsize - Len(text)})
    /\ ap' = SubSeq(ap, used + 1, Len(ap))
    /\ fmt' = rest
    /\ UNCHANGED <<call, n, pc>>

(* One turn that prints chars, counts k of them, and takes used arguments. *)
Emit(chars, k, used, rest) ==
    /\ text' = Put(chars)
    /\ out_count' = out_count + k
    /\ ap' = SubSeq(ap, used + 1, Len(ap))
    /\ fmt' = rest
    /\ UNCHANGED <<call, n, pc>>

Looping == pc = "loop" /\ fmt # <<>>

Literal ==
    /\ Looping /\ Head(fmt) # "%"
    /\ Emit(<<Head(fmt)>>, 1, 0, Tail(fmt))

(* stdio.cpp:110-115: the format behind '%' and the width, not used. *)
FromSpec == SubSeq(fmt, DigitRun(Tail(fmt), 10, FALSE) + 2, Len(fmt))

Directive(spec) == Looping /\ Head(fmt) = "%" /\ FromSpec # <<>> /\ Head(FromSpec) = spec

Number ==
    \E spec \in {"d", "u", "x", "X", "p"} :
        /\ Directive(spec)
        /\ LET u == Unsigned(Head(ap).int, IntBits)
           IN  Emit(CASE spec = "d" -> fprint_int(Signed(Head(ap).int, IntBits))
                      [] spec = "u" -> fprint_uint(u, 10, FALSE)
                      [] spec = "x" -> fprint_uint(u, 16, FALSE)
                      [] spec = "X" -> fprint_uint(u, 16, TRUE)
                      [] spec = "p" -> fprint_ptr(Unsigned(Head(ap).int, WordBits)),
                    0, 1, Tail(FromSpec))

(* stdio.cpp:132-159: 'l' followed by something else prints all three      *)
(* characters and stays on the third, which the next turn prints again.    *)
Long ==
    /\ Directive("l")
    /\ LET rest == Tail(FromSpec)
           spec == IF rest = <<>> THEN "NUL" ELSE Head(rest)
           u == Unsigned(Head(ap).int, WordBits)
       IN  IF spec \in {"d", "u", "x", "X"}
           THEN Emit(CASE spec = "d" -> fprint_int(Signed(Head(ap).int, WordBits))
                       [] spec = "u" -> fprint_uint(u, 10, FALSE)
                       [] spec = "x" -> fprint_uint(u, 16, FALSE)
                       [] spec = "X" -> fprint_uint(u, 16, TRUE),
                     0, 1, Tail(rest))
           ELSE Emit(<<"%", "l", spec>>, 3, 0, rest)

Char == Directive("c") /\ Emit(Head(ap).chars, 1, 1, Tail(FromSpec))

(* stdio.cpp:176-181: a null pointer, NULL here, prints a text of its own. *)
String ==
    /\ Directive("s")
    /\ LET s == IF Head(ap).chars = <<"NULL">> THEN <<"(", "n", "u", "l", "l", ")">> ELSE Head(ap).chars
       IN  Emit(s, Len(s), 1, Tail(FromSpec))

Percent == Directive("%") /\ Emit(<<"%">>, 1, 0, Tail(FromSpec))

Known == {"d", "u", "l", "x", "X", "c", "s", "p", "%"}

Unknown ==
    /\ Looping /\ Head(fmt) = "%" /\ FromSpec # <<>> /\ Head(FromSpec) \notin Known
    /\ Emit(<<"%", Head(FromSpec)>>, 2, 0, Tail(FromSpec))

(* stdio.cpp:117, 192-197: the terminator is taken for the specifier, and  *)
(* the loop goes on behind it, in memory that is not the format's.         *)
Dangling ==
    /\ Looping /\ Head(fmt) = "%" /\ FromSpec = <<>>
    /\ text' = Put(<<"%", "NUL">>)
    /\ out_count' = out_count + 2
    /\ fmt' = <<>>
    /\ pc' = "past"
    /\ UNCHANGED <<call, ap, n>>

Return ==
    /\ pc = "loop" /\ fmt = <<>>
    /\ pc' = "done"
    /\ UNCHANGED <<call, fmt, ap, n, text, out_count>>

(* vsnprintf returns at once for n = 0 (stdio.cpp:483). *)
Init ==
    /\ call \in Calls /\ n \in {STREAM} \cup (Sizes \ {0})
    /\ fmt = call.fmt /\ ap = call.args
    /\ text = <<>> /\ out_count = 0 /\ pc = "loop"

Next == Literal \/ Number \/ Long \/ Char \/ String \/ Percent \/ Unknown \/ Dangling \/ Return

Spec == Init /\ [][Next]_vars /\ WF_vars(Next)

-----------------------------------------------------------------------------
(* Properties. *)

(* The text leaves room in the buffer for the final 0 (stdio.cpp:495). *)
TypeOK ==
    /\ call \in Calls /\ n \in {STREAM} \cup Sizes
    /\ n # STREAM => Len(text) < n
    /\ out_count \in Nat
    /\ pc \in {"loop", "done", "past"}

(* What is printed is what the directives mean, each with its own          *)
(* argument, cut off where the buffer ends and nowhere else                *)
(* (stdio.cpp:101-201).                                                    *)
PrintsWhatIsMeant ==
    pc = "done" /\ ~call.disputed =>
        text = IF n = STREAM THEN call.means ELSE SubSeq(call.means, 1, Min({n - 1, Len(call.means)}))

(* The answer counts literal characters, %c, %s and %%, in a full buffer   *)
(* too, and the digits of no number: it is the length of the text only     *)
(* when the call prints no number (stdio.cpp:119-125, 200).                *)
CountsAllButNumbers == pc = "done" /\ ~call.disputed => out_count = call.counts

(* The loop leaves the format only behind one that ends inside a           *)
(* directive, and ends for every other one.                                *)
PastOnlyIfDangling == (pc = "past") => call.dangling
Ended == pc = IF call.dangling THEN "past" ELSE "done"
===============================================================================
