-------------------------------- MODULE CString -------------------------------
(***************************************************************************)
(* The memory and string functions (src/src/cstring.cpp, strings.cpp) on a *)
(* small memory: each call is one step from any memory, with any arguments *)
(* the C standard allows.  A string lies at an address and ends before the *)
(* first 0.                                                                *)
(***************************************************************************)
EXTENDS Integers, Sequences, FiniteSetsExt, SequencesExt

CONSTANTS
    Cells,   \* the memory holds the addresses 0 .. Cells - 1
    Byte,    \* the bytes in use, 0 among them
    QWORD    \* the bytes rep movsq moves at a time: 8

CStringAssumption ==
    Cells \in Nat \ {0} /\ 0 \in Byte /\ Byte \subseteq 0 .. 255 /\ QWORD \in Nat \ {0}

VARIABLES
    mem, old,   \* the memory, and what it was before the call
    call,       \* the call made: function, destination, source, count or byte
    ret         \* what it returned, NULL for a null pointer

vars == <<mem, old, call, ret>>

NULL == -1
Address == 0 .. (Cells - 1)

-----------------------------------------------------------------------------
(* Strings in a memory m. *)

Terminated(m, p) == \E i \in p .. Cells - 1 : m[i] = 0
Ends(m, p) == Min({i \in p .. Cells - 1 : m[i] = 0})

(* cstring.cpp:124-128 *)
strlen(m, p) == Ends(m, p) - p
Text(m, p) == [i \in 1 .. strlen(m, p) |-> m[p + i - 1]]

(* One move of w bytes, all read before the first is written. *)
Moved(m, d, s, w) == [a \in Address |-> IF a \in d .. d + w - 1 THEN m[s + a - d] ELSE m[a]]

Forward(n) ==
    [i \in 1 .. n \div QWORD |-> <<(i - 1) * QWORD, QWORD>>]
        \o [i \in 1 .. n % QWORD |-> <<(n \div QWORD) * QWORD + i - 1, 1>>]

MovedIn(m, d, s, steps) ==
    FoldLeft(LAMBDA acc, step : Moved(acc, d + step[1], s + step[1], step[2]), m, steps)

(* cstring.cpp:4-22 *)
Copied(m, d, s, n) == MovedIn(m, d, s, Forward(n))

\* error: an overlap is taken to be harmless
MemmoveForward(m, d, s, n) == Copied(m, d, s, n)

(* cstring.cpp:172-184: from the end, byte by byte, when the destination   *)
(* begins inside the source.                                               *)
Memmoved(m, d, s, n) ==
    IF d <= s \/ d >= s + n THEN Copied(m, d, s, n)
    ELSE MovedIn(m, d, s, [i \in 1 .. n |-> <<n - i, 1>>])

Filled(m, d, v, n) == [a \in Address |-> IF a \in d .. d + n - 1 THEN v % 256 ELSE m[a]]

(* cstring.cpp:112-123: n is decreased once more by the test that ends the *)
(* first loop, and 0 - 1 is the largest size_t: without a 0 among the      *)
(* first n bytes of the source the zeros run on to the end of memory.      *)
Strncpyed(m, d, s, n) ==
    LET k == strlen(m, s)
    IN  IF k < n THEN Filled(Copied(m, d, s, k + 1), d + k + 1, 0, n - k - 1)
        ELSE Filled(Copied(m, d, s, n), d + n, 0, Cells - d - n)

(* cstring.cpp:129-133 *)
Strcpyed(m, d, s) == Moved(m, d, s, strlen(m, s) + 1)

(* cstring.cpp:134-139 *)
Strcated(m, d, s) == Strcpyed(m, Ends(m, d), s)

(* cstring.cpp:140-146 *)
Strncated(m, d, s, n) ==
    LET k == Min({n, strlen(m, s)})
    IN  [Moved(m, Ends(m, d), s, k) EXCEPT ![Ends(m, d) + k] = 0]

(* cstring.cpp:78: the low byte of the difference, sign-extended. *)
SignedByte(v) == LET b == v % 256 IN IF b < 128 THEN b ELSE b - 256

(* cstring.cpp:62-75, 90-103: where two strings differ, or both end.       *)
Shorter(m, p, q) == Min({strlen(m, p), strlen(m, q)})
Differ(m, p, q) == Min({i \in 0 .. Shorter(m, p, q) : m[p + i] # m[q + i] \/ m[p + i] = 0})

(* cstring.cpp:53-84 *)
strcmp(m, p, q) == SignedByte(m[p + Differ(m, p, q)] - m[q + Differ(m, p, q)])

(* cstring.cpp:85-111 *)
strncmp(m, p, q, n) == IF Differ(m, p, q) >= n THEN 0 ELSE strcmp(m, p, q)

(* cstring.cpp:185-193 *)
memcmp(m, p, q, n) ==
    LET differing == {i \in 0 .. n - 1 : m[p + i] # m[q + i]}
    IN  IF differing = {} THEN 0 ELSE m[p + Min(differing)] - m[q + Min(differing)]

(* strings.cpp:2-46: upper case to lower, every other byte to itself.      *)
cmaptab == [b \in 0 .. 255 |-> IF b \in 65 .. 90 THEN b + 32 ELSE b]

(* strings.cpp:47-59 *)
strcasecmp(m, p, q) ==
    LET low(a) == cmaptab[m[a]]
        i == Min({j \in 0 .. Shorter(m, p, q) : low(p + j) # low(q + j) \/ low(p + j) = 0})
    IN  low(p + i) - low(q + i)

(* cstring.cpp:147-154: the 0 is found for c = 0, not for c = 256.         *)
strchr(m, p, c) ==
    LET at == {a \in p .. Ends(m, p) - 1 : m[a] = c % 256}
    IN  IF at # {} THEN Min(at) ELSE IF c = 0 THEN Ends(m, p) ELSE NULL

(* cstring.cpp:155-161 *)
strrchr(m, p, c) ==
    LET at == {a \in p .. Ends(m, p) : m[a] = c % 256} IN IF at = {} THEN NULL ELSE Max(at)

(* cstring.cpp:162-171: an attempt ends at the first difference.           *)
strstr(m, p, q) ==
    IF m[q] = 0 THEN p
    ELSE LET fits(a) == m[q + Differ(m, a, q)] = 0
             at == {a \in p .. Ends(m, p) - 1 : fits(a)}
         IN  IF at = {} THEN NULL ELSE Min(at)

-----------------------------------------------------------------------------
(* The calls a program may make. *)

Fits(p, n) == p + n <= Cells
Apart(d, s, n) == d + n <= s \/ s + n <= d
IsString(p) == Terminated(mem, p)

Done(f, d, s, n, m, r) ==
    /\ call' = [f |-> f, d |-> d, s |-> s, n |-> n]
    /\ mem' = m /\ old' = mem /\ ret' = r

(* The asm of memcpy and memset moves rdi without saying so: an optimised  *)
(* build returns dest + n, a debug build dest (cstring.cpp:10-21, 29-50);  *)
(* a forward memmove answers what memcpy does (:178).                      *)
Ahead(d, s, n) == d < s \/ d >= s + n
Blocks(d, s, n) ==
    /\ Fits(d, n) /\ Fits(s, n)
    /\ \/ Apart(d, s, n) /\ \E r \in {d, d + n} : Done("memcpy", d, s, n, Copied(mem, d, s, n), r)
       \/ \E r \in {d} \cup IF Ahead(d, s, n) THEN {d + n} ELSE {} : Done("memmove", d, s, n, Memmoved(mem, d, s, n), r)
       \/ Done("memcmp", d, s, n, mem, memcmp(mem, d, s, n))
       \/ \E v \in Byte, r \in {d, d + n} : Done("memset", d, v, n, Filled(mem, d, v, n), r)

Copies(d, s, n) ==
    /\ IsString(s)
    /\ \/ /\ Fits(d, n) /\ Apart(d, s, Max({n, strlen(mem, s) + 1}))
          /\ Done("strncpy", d, s, n, Strncpyed(mem, d, s, n), d)
       \/ /\ Fits(d, strlen(mem, s) + 1) /\ Apart(d, s, strlen(mem, s) + 1)
          /\ Done("strcpy", d, s, 0, Strcpyed(mem, d, s), d)
       \/ /\ IsString(d) /\ Fits(Ends(mem, d), strlen(mem, s) + 1)
          /\ Apart(d, s, strlen(mem, d) + strlen(mem, s) + 1)
          /\ \/ Done("strcat", d, s, Cells, Strcated(mem, d, s), d)
             \/ Done("strncat", d, s, n, Strncated(mem, d, s, n), d)

Compares(d, s, n) ==
    /\ IsString(d) /\ IsString(s)
    /\ \/ Done("strcmp", d, s, Cells, mem, strcmp(mem, d, s))
       \/ Done("strncmp", d, s, n, mem, strncmp(mem, d, s, n))
       \/ Done("strcasecmp", d, s, Cells, mem, strcasecmp(mem, d, s))
       \/ Done("strstr", d, s, 0, mem, strstr(mem, d, s))

Finds(d) ==
    /\ IsString(d)
    /\ \E c \in Byte : \/ Done("strchr", d, 0, c, mem, strchr(mem, d, c))
                       \/ Done("strrchr", d, 0, c, mem, strrchr(mem, d, c))

Init ==
    /\ mem \in [Address -> Byte] /\ old = mem
    /\ call = [f |-> "none", d |-> 0, s |-> 0, n |-> 0] /\ ret = 0

Next ==
    /\ call.f = "none"
    /\ \/ \E d, s \in Address, n \in 0 .. Cells :
            Blocks(d, s, n) \/ Copies(d, s, n) \/ Compares(d, s, n)
       \/ \E d \in Address : Finds(d)

Spec == Init /\ [][Next]_vars

-----------------------------------------------------------------------------
(* Properties. *)

(* The finders answer an address of the string or NULL, strcmp and strncmp *)
(* a signed byte.                                                          *)
TypeOK ==
    /\ mem \in [Address -> Byte] /\ old \in [Address -> Byte]
    /\ call.f \in {"strchr", "strrchr", "strstr"} => ret \in Address \cup {NULL}
    /\ call.f \in {"strcmp", "strncmp"} => ret \in -128 .. 127

Is(f) == call.f = f
Unchanged(from, to) == \A a \in Address \ (from .. to) : mem[a] = old[a]

(* memmove's destination holds what the source held before, whatever the   *)
(* overlap, and so does memcpy's of two blocks apart; nothing else changes.*)
BlocksArrive ==
    Is("memcpy") \/ Is("memmove") =>
        /\ \A i \in 0 .. call.n - 1 : mem[call.d + i] = old[call.s + i]
        /\ Unchanged(call.d, call.d + call.n - 1)

(* strcpy, strcat and strncat leave one terminated string, the old one     *)
(* followed by as much of the source as was asked for, and no byte behind  *)
(* it is touched.                                                          *)
StringsJoin ==
    Is("strcpy") \/ Is("strcat") \/ Is("strncat") =>
        LET front == IF Is("strcpy") THEN <<>> ELSE Text(old, call.d)
            back == Text(old, call.s)
            want == front \o IF Is("strncat") THEN SubSeq(back, 1, Min({call.n, Len(back)})) ELSE back
        IN  /\ Terminated(mem, call.d) /\ Text(mem, call.d) = want
            /\ Unchanged(call.d, call.d + Len(want))

(* strncpy fills n bytes, with the source and then zeros, and exactly      *)
(* these if the source ends within them; if it does not, what it does      *)
(* behind them (cstring.cpp:115-121) writes nothing but zeros.             *)
StrncpyPads ==
    Is("strncpy") =>
        LET ends == strlen(old, call.s) < call.n
        IN  /\ \A i \in 0 .. call.n - 1 :
                 mem[call.d + i] = IF i <= strlen(old, call.s) THEN old[call.s + i] ELSE 0
            /\ Unchanged(call.d, IF ends THEN call.d + call.n - 1 ELSE Cells - 1)
            /\ \A a \in call.d + call.n .. Cells - 1 : mem[a] \in {0, old[a]}

(* Two strings compare equal only when they are, and the sign of strcmp    *)
(* and strncmp is that of memcmp as long as the bytes that differ are less *)
(* than 128 apart (cstring.cpp:67-78).  That of memcmp is right for all.   *)
Below(s, t) ==
    \/ IsStrictPrefix(s, t)
    \/ \E k \in 1 .. Min({Len(s), Len(t)}) :
         s[k] < t[k] /\ \A i \in 1 .. k - 1 : s[i] = t[i]
OrderedAsBytes ==
    Is("strcmp") \/ Is("strncmp") \/ Is("memcmp") =>
        LET block(p) == [i \in 1 .. call.n |-> old[p + i - 1]]
            first(p) == LET t == Text(old, p) IN SubSeq(t, 1, Min({call.n, Len(t)}))
            compared(p) == IF Is("memcmp") THEN block(p) ELSE first(p)
        IN  /\ (ret = 0) <=> (compared(call.d) = compared(call.s))
            /\ Is("memcmp") \/ (\A a, b \in Address : mem[a] - mem[b] < 128)
                 => ((ret < 0) <=> Below(compared(call.d), compared(call.s)))

(* strcasecmp orders the strings as their lower-case forms.                *)
CaseFolded ==
    Is("strcasecmp") =>
        LET low(b) == IF b \in 65 .. 90 THEN b - 65 + 97 ELSE b
            lower(p) == [i \in DOMAIN Text(old, p) |-> low(Text(old, p)[i])]
        IN  /\ (ret = 0) <=> (lower(call.d) = lower(call.s))
            /\ (ret < 0) <=> Below(lower(call.d), lower(call.s))

(* strchr and strrchr find the first and the last place of a byte, the end *)
(* of the string for the byte 0.                                           *)
BytesFound ==
    Is("strchr") \/ Is("strrchr") =>
        LET at == {a \in call.d .. Ends(old, call.d) : old[a] = call.n}
        IN  IF at = {} THEN ret = NULL
            ELSE ret \in at /\ \A a \in at : IF Is("strchr") THEN ret <= a ELSE ret >= a

(* strstr finds the first place where the needle continues the haystack.   *)
SubstringsFound ==
    Is("strstr") =>
        LET needle == Text(old, call.s)
            at == {a \in call.d .. Ends(old, call.d) : IsPrefix(needle, Text(old, a))}
        IN  IF at = {} THEN ret = NULL ELSE ret = Min(at)
===============================================================================
