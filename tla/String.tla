-------------------------------- MODULE String --------------------------------
(***************************************************************************)
(* std::string (src/src/string.cpp:8-121, src/include/string) over the     *)
(* arrays it allocates: what is read past the end of an array, through a   *)
(* null pointer or from an array already deleted is undefined.  The calls  *)
(* are those with the defaults of the header.  Allocation succeeds.        *)
(***************************************************************************)
EXTENDS Integers, Sequences, FiniteSetsExt

CONSTANTS
    Names,       \* the string objects of the program
    Literals,    \* the texts given to constructors and append
    Chars,       \* the characters of texts, without the 0 that ends them
    MaxLength    \* bound: the length of a string

StringAssumption ==
    /\ Chars \subseteq Nat \ {0} /\ MaxLength \in 0 .. 2^16 - 1
    /\ \A text \in Literals : text \in Seq(Chars) /\ Len(text) <= MaxLength

VARIABLES
    live,   \* the objects constructed and not destroyed
    str,    \* of each object: [data, length, cap], data being its array
    bad     \* the undefined read that ended the program: [kind, name, length]

vars == <<live, str, bad>>

Null == <<>>
NoObject == [data |-> Null, length |-> 0, cap |-> 0]
None == [kind |-> "", name |-> "", length |-> 0]
Garbage == -1
NUL == 0

(* include/bit:21-23, for arguments up to 2^16 *)
bit_ceil(x) == Min({2^k : k \in {j \in 0 .. 16 : 2^j >= x}})

Array(n) == [i \in 1 .. n |-> Garbage]

(* memcpy of n characters to offset at, of what source has of them.        *)
Copy(to, at, source, n) ==
    [i \in DOMAIN to |-> IF i \in at + 1 .. at + n
                         THEN IF i - at \in DOMAIN source THEN source[i - at] ELSE Garbage
                         ELSE to[i]]
Put(to, at, c) == Copy(to, at, <<c>>, 1)

(* What may go wrong in a read of n characters. *)
Reading(source, n) ==
    IF n <= Len(source) THEN {} ELSE IF source = Null THEN {"null"} ELSE {"past"}

-----------------------------------------------------------------------------
(* Parts of the operations, on one object. *)

(* shrink_to_fit of an object whose length has become n, string.cpp:76-85: *)
(* n characters are read from the array, however many it has.              *)
Fitted(o, n) ==
    IF bit_ceil(n + 1) = o.cap THEN [o EXCEPT !.length = n]
    ELSE [length |-> n, cap |-> bit_ceil(n + 1),
          data |-> Put(Copy(Array(bit_ceil(n + 1)), 0, o.data, n), n, NUL)]

FittedReads(o, n) == IF bit_ceil(n + 1) = o.cap THEN {} ELSE Reading(o.data, n)

\* error: an array that is exactly full is not replaced
GrownLate(o, n) == IF n > o.cap THEN Fitted(o, n) ELSE [o EXCEPT !.length = n]

(* string.cpp:90-92, 100-102, 112-114 *)
Grown(o, n) == IF n >= o.cap THEN Fitted(o, n) ELSE [o EXCEPT !.length = n]
GrownReads(o, n) == IF n >= o.cap THEN FittedReads(o, n) ELSE {}

(* An undefined read ends the program; one past the end of an array may    *)
(* also go well.                                                           *)
Do(change, faults) ==
    /\ bad = None
    /\ \/ faults \subseteq {"past"} /\ str' = [str EXCEPT ![change[1]] = change[2]] /\ UNCHANGED bad
       \/ /\ \E kind \in faults : bad' = [kind |-> kind, name |-> change[1], length |-> change[2].length]
          /\ UNCHANGED str

-----------------------------------------------------------------------------
(* The members. *)

(* string.cpp:8-21; the default constructor has cap 1, as "" has. *)
Construct(s, text) ==
    /\ s \notin live /\ live' = live \cup {s}
    /\ LET cap == bit_ceil(Len(text) + 1)
       IN  Do(<<s, [data |-> Put(Copy(Array(cap), 0, text, Len(text)), Len(text), NUL),
                    length |-> Len(text), cap |-> cap]>>, {})

(* string.cpp:23-26 *)
CopyConstruct(s, t) ==
    /\ s \notin live /\ t \in live
    /\ LET o == str[t]
           faults == Reading(o.data, o.length + 1)
       IN  /\ live' = IF faults = {} THEN live \cup {s} ELSE live
           /\ Do(<<s, [o EXCEPT !.data = Copy(Array(o.cap), 0, o.data, o.length + 1)]>>, faults)

(* string.cpp:28-33 *)
MoveConstruct(s, t) ==
    /\ bad = None /\ s \notin live /\ t \in live
    /\ live' = live \cup {s}
    /\ str' = [str EXCEPT ![s] = str[t], ![t] = [data |-> <<NUL>>, length |-> 0, cap |-> 1]]
    /\ UNCHANGED bad

(* string.cpp:35-43 *)
Destroy(s) ==
    /\ s \in live /\ live' = live \ {s}
    /\ Do(<<s, NoObject>>, {})

(* string.cpp:44-58 *)
Assign(s, t) ==
    /\ s # t /\ {s, t} \subseteq live /\ UNCHANGED live
    /\ LET o == str[t]
           to == IF o.length >= str[s].cap THEN Array(o.cap) ELSE str[s].data
       IN  Do(<<s, [data |-> Copy(to, 0, o.data, o.length + 1), length |-> o.length,
                    cap |-> IF o.length >= str[s].cap THEN o.cap ELSE str[s].cap]>>, Reading(o.data, o.length + 1))

(* string.cpp:59-69: the other object is left without an array.            *)
MoveAssign(s, t) ==
    /\ bad = None /\ s # t /\ {s, t} \subseteq live
    /\ str' = [str EXCEPT ![s] = str[t], ![t] = NoObject]
    /\ UNCHANGED <<live, bad>>

shrink_to_fit(s) ==
    /\ s \in live /\ UNCHANGED live
    /\ Do(<<s, Fitted(str[s], str[s].length)>>, FittedReads(str[s], str[s].length))

(* string.cpp:86-97 *)
resize(s, n, c) ==
    /\ s \in live /\ n # str[s].length /\ UNCHANGED live
    /\ LET old == str[s].length
           o == Grown(str[s], n)
           filled == IF n > old THEN Copy(o.data, old, [i \in 1 .. n - old |-> c], n - old) ELSE o.data
       IN  Do(<<s, [o EXCEPT !.data = Put(filled, n, NUL)]>>, GrownReads(str[s], n))

(* string.cpp:98-105 *)
push_back(s, c) ==
    /\ s \in live /\ UNCHANGED live /\ str[s].length < MaxLength
    /\ LET n == str[s].length + 1
           o == Grown(str[s], n)
       IN  Do(<<s, [o EXCEPT !.data = Put(Put(o.data, n - 1, c), n, NUL)]>>, GrownReads(str[s], n))

Appended(s, source, n, faults) ==
    /\ s \in live /\ UNCHANGED live /\ str[s].length + n <= MaxLength
    /\ LET old == str[s].length
           o == Grown(str[s], old + n)
       IN  Do(<<s, [o EXCEPT !.data = Put(Copy(o.data, old, source, n), old + n, NUL)]>>,
              GrownReads(str[s], old + n) \cup faults)

(* string.cpp:106-118 *)
append(s, text) == Appended(s, text, Len(text), {})

(* string.cpp:119-122: with itself on the right, s reads the array that    *)
(* growing has just deleted.                                               *)
AppendString(s, t) ==
    /\ t \in live
    /\ LET n == str[t].length
       IN  Appended(s, str[t].data, n,
                    IF s = t /\ n > 0 /\ 2 * n >= str[s].cap THEN {"freed"} ELSE {})

Init == live = {} /\ str = [s \in Names |-> NoObject] /\ bad = None

Next ==
    \E s \in Names :
        \/ \E text \in Literals \cup {<<>>} : Construct(s, text)
        \/ Destroy(s)
        \/ \E t \in Names : CopyConstruct(s, t) \/ MoveConstruct(s, t) \/ Assign(s, t) \/ MoveAssign(s, t) \/ AppendString(s, t)
        \/ shrink_to_fit(s)
        \/ \E n \in 0 .. MaxLength, c \in Chars \cup {NUL} : resize(s, n, c)
        \/ \E c \in Chars : push_back(s, c)
        \/ \E text \in Literals : append(s, text)

Spec == Init /\ [][Next]_vars

-----------------------------------------------------------------------------
(* Properties. *)

(* A string's array has the capacity it says, holds its characters, none   *)
(* of them left over from an over-long read, and a 0 behind them; only an  *)
(* object that move assignment emptied has no array.                       *)
Ended ==
    \A s \in live :
        LET o == str[s]
        IN  \/ o = NoObject
            \/ /\ Len(o.data) = o.cap /\ o.length < o.cap
               /\ \A i \in 1 .. o.length : o.data[i] \in Chars \cup {NUL}
               /\ o.data[o.length + 1] = NUL

(* The program is ended by a string only if it uses one that move          *)
(* assignment emptied, or appends one to itself so that it grows           *)
(* (string.cpp:66, 81, 120); a read past an array comes only from growing   *)
(* beyond it by more than one character (string.cpp:81).                   *)
FaultsFrom ==
    [][bad' # bad =>
        LET o == str[bad'.name]
        IN  CASE bad'.kind = "null"  -> \E t \in live : str[t] = NoObject
              [] bad'.kind = "freed" -> bad'.length = 2 * o.length /\ bad'.length >= o.cap
              [] bad'.kind = "past"  -> bad'.length > o.cap]_vars

(* string implements AbstractString: copies are copies, growing keeps the  *)
(* characters, and no object's change shows in another.                    *)
Characters == [s \in Names |-> SubSeq(str[s].data, 1, str[s].length)]
Abstract == INSTANCE AbstractString WITH val <- Characters
AbstractSpec == Abstract!Spec
===============================================================================
