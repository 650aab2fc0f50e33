------------------------------- MODULE Numerals -------------------------------
(***************************************************************************)
(* Numbers as text: the printers and readers behind printf and scanf       *)
(* (src/src/stdio.cpp) and atoi (src/src/stdlib.cpp).  A character is a    *)
(* one-letter string, a text a sequence of them.                           *)
(***************************************************************************)
EXTENDS Integers, Sequences, FiniteSetsExt, SequencesExt

CONSTANTS
    WordBits,  \* of uint64_t and int64_t: 64
    IntBits    \* of int and unsigned: 32

NumeralsAssumption == IntBits \in Nat \ {0} /\ WordBits \in Nat /\ WordBits >= IntBits

Unsigned(v, bits) == v % 2^bits
Signed(v, bits) ==
    LET u == Unsigned(v, bits) IN IF u < 2^(bits - 1) THEN u ELSE u - 2^bits

(* stdio.cpp:56 *)
Decimal == <<"0", "1", "2", "3", "4", "5", "6", "7", "8", "9">>
Digits(upper) ==
    Decimal \o (IF upper THEN <<"A", "B", "C", "D", "E", "F">>
                         ELSE <<"a", "b", "c", "d", "e", "f">>)

(* stdio.cpp:54-67 *)
fprint_uint(val, base, upper) ==
    LET From[n \in Nat] == IF n = 0 THEN <<>>
                           ELSE Append(From[n \div base], Digits(upper)[(n % base) + 1])
    IN  IF val = 0 THEN <<"0">> ELSE From[val]

(* stdio.cpp:68-76: -val of the least int64_t is, as uint64_t, its size. *)
fprint_int(val) ==
    (IF val < 0 THEN <<"-">> ELSE <<>>)
        \o fprint_uint(Unsigned(IF val < 0 THEN -val ELSE val, WordBits), 10, FALSE)

(* stdio.cpp:77-81 *)
fprint_ptr(p) == <<"0", "x">> \o fprint_uint(p, 16, FALSE)

(* stdio.cpp:263-271: the characters that count as digits of the base. *)
DigitsOf(base, upper) == SubSeq(Digits(upper), 1, base)
DigitValue(c, base, upper) ==
    (CHOOSE i \in 1 .. base : DigitsOf(base, upper)[i] = c) - 1

DigitRun(text, base, upper) ==
    LET digits == {DigitsOf(base, upper)[i] : i \in 1 .. base}
    IN  Max({k \in 0 .. Len(text) : \A i \in 1 .. k : text[i] \in digits})

Value(digits, base, upper, bits) ==
    FoldLeft(LAMBDA acc, c : Unsigned(acc * base + DigitValue(c, base, upper), bits), 0, digits)

\* error: the character that ends the number is consumed with it
ScanUintEatsNext(text, base, upper) ==
    LET n == DigitRun(text, base, upper)
    IN  [val |-> Value(SubSeq(text, 1, n), base, upper, WordBits),
         rest |-> SubSeq(text, n + 2, Len(text))]

(* stdio.cpp:258-278: what is read and what is left, the character that    *)
(* ends the number handed back.                                            *)
fscan_uint(text, base, upper) ==
    LET n == DigitRun(text, base, upper)
    IN  [val |-> Value(SubSeq(text, 1, n), base, upper, WordBits),
         rest |-> SubSeq(text, n + 1, Len(text))]

(* stdio.cpp:279-293: a first character that starts no number is lost. *)
fscan_int(text) ==
    IF text = <<>> THEN [val |-> 0, rest |-> <<>>]
    ELSE IF Head(text) = "-"
    THEN LET r == fscan_uint(Tail(text), 10, FALSE)
         IN  [r EXCEPT !.val = Signed(-@, WordBits)]
    ELSE IF Head(text) \in Range(Decimal)
    THEN LET r == fscan_uint(text, 10, FALSE) IN [r EXCEPT !.val = Signed(@, WordBits)]
    ELSE [val |-> 0, rest |-> Tail(text)]

(* stdlib.cpp:275-290: sign is a bool, and -1 makes it true. *)
atoi(text) ==
    LET blanks == Max({k \in 0 .. Len(text) : \A i \in 1 .. k : text[i] \in {" ", "\t"}})
        body == SubSeq(text, blanks + 1, Len(text))
        number == IF body # <<>> /\ Head(body) \in {"-", "+"} THEN Tail(body) ELSE body
    IN  Signed(Value(SubSeq(number, 1, DigitRun(number, 10, FALSE)), 10, FALSE, IntBits), IntBits)
===============================================================================
