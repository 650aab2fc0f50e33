-------------------------------- MODULE MCText -------------------------------
(***************************************************************************)
(* Text for TLC: Printf, Scanf, CString and Utf8.  They share no state, so *)
(* a behaviour runs one of them, `part`, and the others keep one of their  *)
(* initial states: the states add up, and do not multiply.                 *)
(***************************************************************************)
EXTENDS Integers, Sequences

CONSTANT STREAM   \* the size of vfprintf's output, which has no end

VARIABLES
    part,
    call, fmt, ap, n, text, out_count, pc,    \* Printf
    fmt0, in0, left, in, out, at,             \* Scanf
    mem, old, made, ret,                      \* CString
    bytes, written, p, seen                   \* Utf8

printf == <<call, fmt, ap, n, text, out_count, pc>>
scanf == <<fmt0, in0, left, in, out, at>>
cstring == <<mem, old, made, ret>>
utf8 == <<bytes, written, p, seen>>
vars == <<part, printf, scanf, cstring, utf8>>

-----------------------------------------------------------------------------
(* The calls of printf: up to two directives, each with the text it means, *)
(* found by search among all numerals and not by dividing.  int has 7 bits *)
(* and long 9: 100 and -64 .. 63, 300 and -256 .. 255.                     *)
Wide == INSTANCE Numerals WITH IntBits <- 7, WordBits <- 9
Numeral(digits) == UNION {[1 .. k -> digits] : k \in 1 .. 3}
Weight(c) == CHOOSE k \in 0 .. 15 : Wide!Digits(FALSE)[k + 1] = c \/ Wide!Digits(TRUE)[k + 1] = c
Denotes(t, base) ==
    Weight(t[Len(t)]) + (IF Len(t) > 1 THEN base * Weight(t[Len(t) - 1]) ELSE 0)
                      + (IF Len(t) > 2 THEN base * base * Weight(t[Len(t) - 2]) ELSE 0)
Meaning(v, base, upper) ==
    CHOOSE t \in Numeral({Wide!Digits(upper)[k] : k \in 1 .. base}) :
        Denotes(t, base) = v /\ (t[1] = "0" => Len(t) = 1)
SignedMeaning(v) == IF v < 0 THEN <<"-">> \o Meaning(-v, 10, FALSE) ELSE Meaning(v, 10, FALSE)

ANumber(v) == <<[int |-> v, chars |-> <<>>]>>
AText(s) == <<[int |-> 0, chars |-> s]>>
Piece(f, args, means, counts) ==
    [fmt |-> f, args |-> args, means |-> means, counts |-> counts, dangling |-> FALSE, disputed |-> FALSE]

NumberPieces ==
    {Piece(<<"%", "d">>, ANumber(v), SignedMeaning(v), 0) : v \in {-64, -7, 0, 10, 63}}
    \cup {Piece(<<"%", "3", "u">>, ANumber(100), Meaning(100, 10, FALSE), 0)}
    \cup {Piece(<<"%", "x">>, ANumber(v), Meaning(v % 128, 16, FALSE), 0) : v \in {31, -1}}
    \cup {Piece(<<"%", "X">>, ANumber(26), Meaning(26, 16, TRUE), 0),
          Piece(<<"%", "p">>, ANumber(300), <<"0", "x">> \o Meaning(300, 16, FALSE), 0),
          Piece(<<"%", "l", "d">>, ANumber(-256), SignedMeaning(-256), 0),
          Piece(<<"%", "l", "u">>, ANumber(300), Meaning(300, 10, FALSE), 0),
          Piece(<<"%", "l", "x">>, ANumber(300), Meaning(300, 16, FALSE), 0),
          Piece(<<"%", "l", "X">>, ANumber(31), Meaning(31, 16, TRUE), 0)}

(* A width says nothing of a text as long as it is.                        *)
TextPieces ==
    {Piece(<<"a", "\n">>, <<>>, <<"a", "\n">>, 2),
     Piece(<<"%", "0", "1", "c">>, AText(<<"b">>), <<"b">>, 1),
     Piece(<<"%", "s">>, AText(<<"h", "i">>), <<"h", "i">>, 2),
     Piece(<<"%", "s">>, AText(<<"NULL">>), <<"(", "n", "u", "l", "l", ")">>, 6),
     Piece(<<"%", "%">>, <<>>, <<"%">>, 1),
     Piece(<<"%", "z">>, <<>>, <<"%", "z">>, 2)}

(* What a comment of the code says of these is not what it does: a width   *)
(* (stdio.cpp:83) has no effect, and %lz, said to be printed literally     *)
(* (:154), ends in two z.  They end, and have no meaning here.             *)
DisputedPieces ==
    {[f EXCEPT !.disputed = TRUE] :
        f \in {Piece(<<"%", "4", "u">>, ANumber(0), <<>>, 0), Piece(<<"%", "l", "z">>, <<>>, <<>>, 0)}}

Joined(f, g) ==
    [Piece(f.fmt \o g.fmt, f.args \o g.args, f.means \o g.means, f.counts + g.counts)
        EXCEPT !.dangling = g.dangling, !.disputed = f.disputed \/ g.disputed]
Pieces == NumberPieces \cup TextPieces \cup DisputedPieces
DanglingPieces == {[Piece(f, <<>>, <<>>, 0) EXCEPT !.dangling = TRUE] : f \in {<<"%">>, <<"%", "7">>}}
Calls == {Joined(f, g) : f \in Pieces, g \in Pieces \cup DanglingPieces}

(* The formats of scanf, of up to two directives, and its inputs: every    *)
(* number as printf prints it, with something behind it, and short texts.  *)
Narrow == INSTANCE Numerals WITH IntBits <- 4, WordBits <- 6
Specs == {"d", "u", "x", "X", "c", "s", "%", "l"}
Formats ==
    {<<"%", f>> : f \in Specs} \cup {<<"%", f, "%", g>> : f \in Specs, g \in {"d", "c"}}
        \cup {<<"%", "l", "d">>, <<"%", "2", "d", " ", "%", "d">>, <<"%">>, <<"%", "d", "%", "2">>}
Follows == {<<>>, <<" ">>, <<"z">>, <<"-">>}
Inputs ==
    {Narrow!fprint_int(v) \o t : v \in -8 .. 7, t \in Follows}
        \cup {Narrow!fprint_uint(v, b, u) \o t : v \in 0 .. 15, b \in {10, 16}, u \in BOOLEAN, t \in Follows}
        \cup UNION {[1 .. k -> {" ", "a", "5"}] : k \in 0 .. 3}

(* UTF-8: every text of up to four bytes of each kind, and pairs of code   *)
(* points at the boundaries of the encoding and of the wide ranges.        *)
CodePoints == {1, 127, 128, 2047, 2048, 4351, 4352, 4447, 4448, 44032, 55203, 65376, 65535, 65536, 1114111}
Kinds == {10, 65, 128, 191, 192, 197, 225, 239, 240, 247, 248}

-----------------------------------------------------------------------------
Format == INSTANCE Printf WITH IntBits <- 7, WordBits <- 9, Sizes <- {0, 1, 4, 9}
Read == INSTANCE Scanf WITH IntBits <- 4, WordBits <- 6, fmt <- left, pc <- at
Memory == INSTANCE CString WITH Cells <- 5, Byte <- {0, 65, 97, 200}, QWORD <- 2, call <- made
Decode == INSTANCE Utf8 WITH Texts <- UNION {[1 .. k -> Kinds] : k \in 0 .. 4}, Written <- CodePoints \X CodePoints, text <- bytes

ASSUME TextAssumption == Wide!NumeralsAssumption /\ Narrow!NumeralsAssumption /\ Memory!CStringAssumption

Init ==
    /\ part \in {"printf", "scanf", "cstring", "utf8"}
    /\ IF part = "printf" THEN Format!Init
       ELSE /\ call = Joined(CHOOSE f \in TextPieces : TRUE, CHOOSE f \in TextPieces : TRUE) /\ n = STREAM
            /\ fmt = call.fmt /\ ap = call.args /\ text = <<>> /\ out_count = 0 /\ pc = "loop"
    /\ IF part = "scanf" THEN Read!Init
       ELSE fmt0 = <<"%", "d">> /\ in0 = <<>> /\ left = fmt0 /\ in = in0 /\ out = <<>> /\ at = "loop"
    /\ Memory!Init /\ (part # "cstring" => \A x \in DOMAIN mem : mem[x] = 0)
    /\ IF part = "utf8" THEN Decode!Init ELSE written = <<>> /\ bytes = <<>> /\ p = 1 /\ seen = <<>>

PrintStep == part = "printf" /\ Format!Next /\ UNCHANGED <<part, scanf, cstring, utf8>>
ReadStep == part = "scanf" /\ Read!Next /\ UNCHANGED <<part, printf, cstring, utf8>>
MemoryStep == part = "cstring" /\ Memory!Next /\ UNCHANGED <<part, printf, scanf, utf8>>
DecodeStep == part = "utf8" /\ Decode!Step /\ UNCHANGED <<part, printf, scanf, cstring>>

Next == PrintStep \/ ReadStep \/ MemoryStep \/ DecodeStep

(* A call that has begun goes on.                                          *)
Spec == Init /\ [][Next]_vars /\ WF_vars(PrintStep \/ ReadStep)

-----------------------------------------------------------------------------
(* Properties.  Each is the conjunction of properties stated, and          *)
(* explained, in the module of the component that runs.                    *)

(* Printing: what is printed is what the directives mean, but for those    *)
(* that the code's comments dispute, cut off only where the buffer ends,   *)
(* with room for the final 0, and counted but for the numbers; only a      *)
(* dangling format is left behind its end.                                 *)
PrintsWhatIsMeant ==
    part = "printf" =>
        Format!TypeOK /\ Format!PrintsWhatIsMeant /\ Format!CountsAllButNumbers /\ Format!PastOnlyIfDangling

(* Reading: a directive reads back what it printed and leaves the rest,    *)
(* atoi the same without its sign, words lose nothing but blanks, and no   *)
(* call returns that met a literal.                                        *)
ReadsWhatIsPrinted ==
    part = "scanf" =>
        /\ Read!TypeOK /\ Read!ReadsBackWhatIsPrinted /\ Read!AtoiReadsMagnitude /\ Read!WordsWhole
        /\ Read!NoEndAtLiterals

(* C strings: blocks and strings arrive whole whatever overlaps, nothing   *)
(* behind them is touched, and comparing and finding agree with the order  *)
(* and the places of the bytes.                                            *)
StringsKept ==
    part = "cstring" =>
        /\ Memory!TypeOK /\ Memory!BlocksArrive /\ Memory!StringsJoin /\ Memory!StrncpyPads
        /\ Memory!OrderedAsBytes /\ Memory!CaseFolded /\ Memory!BytesFound /\ Memory!SubstringsFound

(* UTF-8: no text, however broken, is left behind its end or loses an      *)
(* ASCII byte; what was encoded is decoded, and columns fit their bytes.   *)
TextDecoded ==
    part = "utf8" => Decode!StaysInText /\ Decode!ReadsBack /\ Decode!AsciiKept /\ Decode!ColumnsWithinBytes

(* Progress: printf ends for every format, scanf for those of directives;  *)
(* at a literal it reads everything, and stays there.                      *)
TextEnds ==
    <>(CASE part = "printf" -> Format!Ended [] part = "scanf" -> Read!Settled [] OTHER -> TRUE)
==============================================================================
