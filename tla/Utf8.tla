--------------------------------- MODULE Utf8 ---------------------------------
(***************************************************************************)
(* UTF-8 as Font::draw and WinDraw::drawText read it                       *)
(* (src/src/myos.cpp:557-593, and the loops at 603-605 and 654-656): one   *)
(* turn of their loop is one step.  A text ends before an implicit 0.      *)
(***************************************************************************)
EXTENDS Integers, Sequences, SequencesExt

CONSTANTS
    Texts,    \* texts of any bytes, without 0
    Written   \* sequences of code points that are written with utf8_encode

VARIABLES
    text, written,   \* the text, and the code points it was written from
    p, seen          \* where the loop is, and what it decoded

Char(s, i) == IF i \in DOMAIN s THEN s[i] ELSE 0
Continues(c) == c \in 128 .. 191
Sequence(c) == CASE c \in 192 .. 223 -> 2 [] c \in 224 .. 239 -> 3 [] c \in 240 .. 247 -> 4 [] OTHER -> 1

Assembled(s, i, n) == FoldLeft(LAMBDA acc, c : 64 * acc + (c % 64), s[i] % 2^(7 - n), SubSeq(s, i + 1, i + n - 1))

\* error: only the first byte of a sequence is looked at
utf8_trusting(s, i) ==
    LET n == Sequence(Char(s, i))
    IN  IF n > 1 /\ i + n - 1 <= Len(s) THEN [cp |-> Assembled(s, i, n), len |-> n]
        ELSE [cp |-> Char(s, i), len |-> IF n > 1 THEN n ELSE 1]

(* myos.cpp:558-577: a byte that starts no whole sequence stands for       *)
(* itself.                                                                 *)
utf8_next(s, i) ==
    LET n == Sequence(Char(s, i))
    IN  IF n > 1 /\ \A k \in 1 .. n - 1 : Continues(Char(s, i + k))
        THEN [cp |-> Assembled(s, i, n), len |-> n] ELSE [cp |-> Char(s, i), len |-> 1]

Tails(cp, n) == [k \in 1 .. n |-> 128 + ((cp \div 64^(n - k)) % 64)]

(* myos.cpp:579-584 *)
utf8_encode(cp) ==
    CASE cp < 128 -> <<cp>>
      [] cp \in 128 .. 2047 -> <<192 + cp \div 64>> \o Tails(cp, 1)
      [] cp \in 2048 .. 65535 -> <<224 + cp \div 4096>> \o Tails(cp, 2)
      [] cp >= 65536 -> <<240 + cp \div 262144>> \o Tails(cp, 3)

(* myos.cpp:586-593 *)
cp_is_wide(cp) ==
    \/ cp \in 4352 .. 4447   \/ cp \in 11904 .. 42191 \/ cp \in 44032 .. 55203
    \/ cp \in 63744 .. 64255 \/ cp \in 65280 .. 65376 \/ cp \in 65504 .. 65510

Step ==
    /\ p <= Len(text)
    /\ LET r == utf8_next(text, p) IN seen' = Append(seen, r) /\ p' = p + r.len
    /\ UNCHANGED <<text, written>>

Encoded(cps) == FlattenSeq([i \in DOMAIN cps |-> utf8_encode(cps[i])])

Init ==
    /\ written \in Written \cup {<<>>}
    /\ text \in IF written = <<>> THEN Texts ELSE {Encoded(written)}
    /\ p = 1 /\ seen = <<>>

Spec == Init /\ [][Step]_<<text, written, p, seen>>

-----------------------------------------------------------------------------
(* Properties. *)

Done == p > Len(text)

(* The loop never steps over the end of the text, not even behind a first  *)
(* byte that promises more than there is (myos.cpp:563-574).               *)
StaysInText == p <= Len(text) + 1

(* What utf8_encode wrote, one code point after the other, is read back:   *)
(* WinDraw::getGlyph (myos.cpp:641-642) hands the code point it decoded to *)
(* Font::draw as text, which decodes it once more.                         *)
ReadsBack == Done /\ written # <<>> => [i \in DOMAIN seen |-> seen[i].cp] = written

(* No broken sequence swallows a letter or the newline that follows it:    *)
(* the ASCII bytes of the text are the one-byte code points below 128.     *)
AsciiKept ==
    Done => SelectSeq(text, LAMBDA c : c < 128)
              = LET ascii == SelectSeq(seen, LAMBDA r : r.len = 1 /\ r.cp < 128) IN [i \in DOMAIN ascii |-> ascii[i].cp]

(* A text is never wider in cells than in bytes (myos.cpp:587-592 has no   *)
(* code point of less than three bytes), whatever the bytes are.           *)
ColumnsWithinBytes ==
    FoldLeft(LAMBDA n, r : n + IF cp_is_wide(r.cp) THEN 2 ELSE 1, 0, seen) <= p - 1
        /\ \A i \in DOMAIN seen : cp_is_wide(seen[i].cp) => seen[i].len >= 3
===============================================================================
