-------------------------------- MODULE Scanf ---------------------------------
(***************************************************************************)
(* vfscanf (src/src/stdio.cpp:308-382): one turn of the loop over the      *)
(* format is one step.  The input is what fgetc has still to deliver; a    *)
(* character handed to ungetc is in front of it again.                     *)
(***************************************************************************)
EXTENDS Numerals

CONSTANTS
    Formats,   \* the formats, each a sequence of characters
    Inputs     \* the texts they read

VARIABLES fmt0, in0,  \* the format and the input of the call
          fmt, in,    \* what is left of them
          out,        \* the results assigned, in order: [int, chars]
          pc          \* "loop", "done", or "past" the end of the format

vars == <<fmt0, in0, fmt, in, out, pc>>

ANumber(v) == [int |-> v, chars |-> <<>>]
AText(s) == [int |-> 0, chars |-> s]
EOF == -1

Take(results, rest, left) ==
    /\ out' = out \o results
    /\ in' = rest
    /\ fmt' = left
    /\ UNCHANGED <<fmt0, in0, pc>>

Looping == pc = "loop" /\ fmt # <<>>

(* stdio.cpp:312-315: one character is read, and the format stays where it *)
(* is, so that the next turn reads one more.                               *)
Literal ==
    /\ Looping /\ Head(fmt) # "%"
    /\ Take(<<>>, IF in = <<>> THEN in ELSE Tail(in), fmt)

(* stdio.cpp:316-323 *)
FromSpec == SubSeq(fmt, DigitRun(Tail(fmt), 10, FALSE) + 2, Len(fmt))
Directive(spec) == Looping /\ Head(fmt) = "%" /\ FromSpec # <<>> /\ Head(FromSpec) = spec

Number ==
    \E spec \in {"d", "u", "x", "X"} :
        /\ Directive(spec)
        /\ LET r == CASE spec = "d" -> fscan_int(in)
                      [] spec = "u" -> fscan_uint(in, 10, FALSE)
                      [] spec = "x" -> fscan_uint(in, 16, FALSE)
                      [] spec = "X" -> fscan_uint(in, 16, TRUE)
           IN  Take(<<ANumber(IF spec = "d" THEN Signed(r.val, IntBits)
                              ELSE Unsigned(r.val, IntBits))>>, r.rest, Tail(FromSpec))

Char ==
    /\ Directive("c")
    /\ IF in = <<>> THEN Take(<<ANumber(EOF)>>, in, Tail(FromSpec))
       ELSE Take(<<AText(<<Head(in)>>)>>, Tail(in), Tail(FromSpec))

(* stdio.cpp:362-363, 364-367 *)
Blank == {" ", "\t", "\n", "\r"}
Blanks == Max({k \in 0 .. Len(in) : \A i \in 1 .. k : in[i] \in Blank})
WordEnd == Max({k \in Blanks .. Len(in) : \A i \in Blanks + 1 .. k : in[i] \notin Blank})

(* stdio.cpp:358-372: at the end of the input nothing is assigned. *)
String ==
    /\ Directive("s")
    /\ Take(IF Blanks = Len(in) THEN <<>> ELSE <<AText(SubSeq(in, Blanks + 1, WordEnd))>>,
            SubSeq(in, WordEnd + 1, Len(in)), Tail(FromSpec))

\* error: the loop continues without stepping over the specifier
OtherStays ==
    /\ Looping /\ Head(fmt) = "%" /\ FromSpec # <<>>
    /\ Head(FromSpec) \notin {"d", "u", "x", "X", "c", "s"}
    /\ Take(<<>>, in, fmt)

(* stdio.cpp:373-378: '%' and every unknown specifier, 'l' among them,     *)
(* read nothing.                                                           *)
Other ==
    /\ Looping /\ Head(fmt) = "%" /\ FromSpec # <<>>
    /\ Head(FromSpec) \notin {"d", "u", "x", "X", "c", "s"}
    /\ Take(<<>>, in, Tail(FromSpec))

(* stdio.cpp:323, 376: the terminator is stepped over. *)
Dangling ==
    /\ Looping /\ Head(fmt) = "%" /\ FromSpec = <<>>
    /\ fmt' = <<>> /\ pc' = "past"
    /\ UNCHANGED <<fmt0, in0, in, out>>

Return ==
    /\ pc = "loop" /\ fmt = <<>>
    /\ pc' = "done"
    /\ UNCHANGED <<fmt0, in0, fmt, in, out>>

Init ==
    /\ fmt0 \in Formats /\ in0 \in Inputs
    /\ fmt = fmt0 /\ in = in0
    /\ out = <<>> /\ pc = "loop"

Next == Literal \/ Number \/ Char \/ String \/ Other \/ Dangling \/ Return

Spec == Init /\ [][Next]_vars /\ WF_vars(Next)

-----------------------------------------------------------------------------
(* Properties. *)

(* The format is one of directives without a width, known or not: it has   *)
(* no literal character.                                                   *)
DirectivesOnly ==
    /\ Len(fmt0) % 2 = 0
    /\ \A i \in DOMAIN fmt0 : IF i % 2 = 1 THEN fmt0[i] = "%" ELSE fmt0[i] \notin Range(Decimal)

(* Nothing is invented: what is left of the input is its end, and the      *)
(* format is read in order.                                                *)
TypeOK ==
    /\ IsSuffix(in, in0) /\ IsSuffix(fmt, fmt0)
    /\ pc \in {"loop", "done", "past"}
    /\ \A i \in DOMAIN out : out[i].int \in -(2^(IntBits - 1)) .. 2^IntBits - 1

(* What one of printf's directives printed the same directive reads back,  *)
(* whatever follows the number, and what follows stays unread              *)
(* (stdio.cpp:54-76, 258-293).                                             *)
Printed(spec, v) ==
    CASE spec = "d" -> fprint_int(v)
      [] spec = "u" -> fprint_uint(v, 10, FALSE)
      [] spec = "x" -> fprint_uint(v, 16, FALSE)
      [] spec = "X" -> fprint_uint(v, 16, TRUE)

ReadsBackWhatIsPrinted ==
    pc = "done" =>
        \A spec \in {"d", "u", "x", "X"}, follows \in {<<>>, <<" ">>, <<"z">>, <<"-">>} :
            fmt0 = <<"%", spec>> =>
                \A v \in IF spec = "d" THEN -(2^(IntBits - 1)) .. 2^(IntBits - 1) - 1 ELSE 0 .. 2^IntBits - 1 :
                    in0 = Printed(spec, v) \o follows => out = <<ANumber(v)>> /\ in = follows

(* atoi reads the same numeral as %d, but for the sign, which its bool     *)
(* loses (stdlib.cpp:277-289): it answers the magnitude.                   *)
AtoiReadsMagnitude ==
    pc = "done" /\ fmt0 = <<"%", "d">> =>
        \A v \in -(2^(IntBits - 1)) .. 2^(IntBits - 1) - 1 :
            in0 = fprint_int(v) => atoi(in0) = Signed(IF out[1].int < 0 THEN -out[1].int ELSE out[1].int, IntBits)

(* A word and a number read one after the other leave nothing out between  *)
(* them but blanks: every character of the input that is no digit, sign or *)
(* blank in front of a word reaches a result (stdio.cpp:358-372).          *)
WordsWhole ==
    pc = "done" /\ fmt0 = <<"%", "s", "%", "c">> /\ Len(out) = 2 /\ out[2].int # EOF
        => out[1].chars # <<>> /\ out[2].chars[1] \in Blank
           /\ Range(out[1].chars) \cap Blank = {}

(* vfscanf ends for every format of directives, and of the formats without *)
(* a width for no other: at a literal character, or the d of %ld, it reads *)
(* the rest of the input and never returns (stdio.cpp:312-315).            *)
NoEndAtLiterals == pc = "done" /\ (\A i \in DOMAIN fmt0 : fmt0[i] \notin Range(Decimal)) => DirectivesOnly
Settled == IF DirectivesOnly THEN pc = "done" ELSE pc = "past" \/ (pc = "loop" /\ in = <<>> /\ Head(fmt) # "%")
===============================================================================
