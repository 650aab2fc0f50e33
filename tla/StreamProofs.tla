----------------------------- MODULE StreamProofs -----------------------------
(***************************************************************************)
(* The buffer of a stream, of any size and with any file.  For programs    *)
(* that use it as the C standard allows: what is in it, that it is never   *)
(* used both ways, and that every function of stdio.cpp does what          *)
(* AbstractStream says.  For all others: how far the harm goes.            *)
(***************************************************************************)
EXTENDS StreamProperties, StreamMisuse, TLAPS

(* A stream with a buffer, made by fopen in memory that holds zeros.       *)
Orderly == BUFSIZE > 0 /\ START_LIMIT = 0 /\ ~RECYCLED

(* The bytes in the buffer still to be read are the file's.                *)
Mirrors(s) ==
    \A i \in s.cursor .. s.limit - 1 :
        /\ s.offset - s.limit + i + 1 \in 1 .. Len(s.file)
        /\ s.buffer[i] = s.file[s.offset - s.limit + i + 1]

(* No completed line is held back.                                         *)
LinesOut(s) ==
    LINE_BUFFERED /\ ~WriteFails /\ s.dirty => \A i \in 0 .. s.cursor - 1 : s.buffer[i] # NEWLINE

(* What holds inside of every function of stdio.cpp, and what every one    *)
(* leaves behind.                                                          *)
Kept(s) ==
    /\ s \in FILE
    /\ s.offset <= Len(s.file)
    /\ s.dirty => s.limit = 0 /\ s.cursor > 0
    /\ ~ s.dirty => s.cursor <= s.limit
    /\ Mirrors(s)
Sound(s) == Kept(s) /\ LinesOut(s)

(* The buffer is empty, or holds what is to be written.                    *)
Writable(s) == s.limit = 0 /\ (s.cursor > 0 => s.dirty)

-----------------------------------------------------------------------------
(* Sequences and the two smallest sets. *)

LEMMA MinOfTwo ==
    ASSUME NEW a \in Int, NEW b \in Int
    PROVE  Min({a, b}) = IF a <= b THEN a ELSE b
  BY DEF Min

LEMMA MaxOfTwo ==
    ASSUME NEW a \in Int, NEW b \in Int
    PROVE  Max({a, b}) = IF a >= b THEN a ELSE b
  BY DEF Max

(* What is written over the end of the file makes it longer.               *)
LEMMA OverlayType ==
    ASSUME NEW file \in Seq(Byte), NEW at \in Nat, at <= Len(file), NEW bytes \in Seq(Byte)
    PROVE  /\ Overlay(file, at, bytes) \in Seq(Byte)
           /\ at + Len(bytes) <= Len(Overlay(file, at, bytes))
<1> DEFINE n == IF Len(file) >= at + Len(bytes) THEN Len(file) ELSE at + Len(bytes)
<1>1. n \in Nat /\ Max({Len(file), at + Len(bytes)}) = n
  BY MaxOfTwo
<1>2. \A i \in 1 .. n : (IF i \in at + 1 .. at + Len(bytes) THEN bytes[i - at] ELSE file[i]) \in Byte
  OBVIOUS
<1>3. Overlay(file, at, bytes) = [i \in 1 .. n |-> IF i \in at + 1 .. at + Len(bytes) THEN bytes[i - at] ELSE file[i]]
  BY <1>1 DEF Overlay
<1> HIDE DEF n
<1>4. Overlay(file, at, bytes) \in [1 .. n -> Byte]
  BY <1>2, <1>3
<1>5. Overlay(file, at, bytes) \in Seq(Byte) /\ Len(Overlay(file, at, bytes)) = n
  BY <1>1, <1>4
<1> QED BY <1>5 DEF n

(* The fields of a stream.                                                 *)
LEMMA Fields ==
    ASSUME NEW s \in FILE
    PROVE  /\ s.file \in Seq(Byte) /\ Len(s.file) \in Nat /\ s.offset \in Nat
           /\ s.buffer \in [Index -> Byte]
           /\ s.cursor \in 0 .. BUFSIZE /\ s.limit \in 0 .. BUFSIZE
           /\ s.unget \in Seq(Byte) /\ s.dirty \in BOOLEAN
           /\ BUFSIZE \in Nat
  BY StreamAssumption DEF FILE

-----------------------------------------------------------------------------
(* The kernel answers -1, only where it may fail, or how much it moved,    *)
(* which is no more than was asked and, of a read, than there is.          *)
LEMMA WriteAnswer ==
    ASSUME NEW n \in Nat, n > 0, NEW w \in KernelWrite(n)
    PROVE  (w = -1 /\ WriteFails) \/ w \in 1 .. n
  BY DEF KernelWrite

LEMMA ReadAnswer ==
    ASSUME NEW s \in FILE, s.offset <= Len(s.file), NEW n \in Nat, NEW r \in KernelRead(s, n)
    PROVE  r = -1 \/ (r \in 0 .. n /\ s.offset + r <= Len(s.file))
<1> DEFINE most == Min({n, Available(s)})
<1>1. Available(s) \in Nat /\ Available(s) = Len(s.file) - s.offset
  BY Fields DEF Available
<1>2. most \in Nat /\ most <= n /\ most <= Available(s)
  BY <1>1, MinOfTwo
<1>3. r = -1 \/ r \in 0 .. most
  BY <1>2 DEF KernelRead
<1> HIDE DEF most
<1> QED BY <1>1, <1>2, <1>3, Fields

-----------------------------------------------------------------------------
(* The functions of stdio.cpp. *)

(* fflush leaves a clean stream as it is, and empties a dirty one unless   *)
(* write fails (stdio.cpp:22-38).                                          *)
LEMMA FlushInv ==
    ASSUME NEW s, Kept(s), NEW r \in Fflush(s)
    PROVE  /\ r = [s |-> r.s, ret |-> r.ret]
           /\ Sound(r.s) /\ r.ret \in {DONE, FAIL}
           /\ r.ret = FAIL => WriteFails /\ s.dirty /\ r.s = s
           /\ r.ret = DONE => ~ r.s.dirty
           /\ ~ s.dirty => r.s = s
           /\ s.dirty /\ r.ret = DONE => r.s.cursor = 0
           /\ r.s.limit = s.limit /\ r.s.unget = s.unget
<1>1. s \in FILE /\ s.offset <= Len(s.file) /\ (s.dirty => s.limit = 0 /\ s.cursor > 0)
  BY DEF Kept
<1>2. CASE ~ s.dirty
  BY <1>1, <1>2 DEF Fflush, Sound, LinesOut, DONE, FAIL
<1>3. CASE s.dirty
  <2> DEFINE Out(w) ==
        IF w < 0 THEN [s |-> s, ret |-> FAIL]
        ELSE [s |-> [s EXCEPT !.file = Overlay(@, s.offset, Buffered(s, w)),
                              !.offset = @ + w, !.cursor = 0, !.dirty = FALSE],
              ret |-> DONE]
  <2>1. s.cursor \in Nat /\ s.cursor > 0 /\ s.cursor <= BUFSIZE /\ BUFSIZE \in Nat
    BY <1>1, <1>3, Fields
  <2>a. ~ (~ s.dirty \/ s.cursor = 0)
    BY <1>3, <2>1
  <2>b. r \in {Out(w) : w \in KernelWrite(s.cursor)}
    BY <2>a, Zenon DEF Fflush
  <2>2. PICK w \in KernelWrite(s.cursor) : r = Out(w)
    BY <2>b, Zenon
  <2>3. (w = -1 /\ WriteFails) \/ w \in 1 .. s.cursor
    BY <2>1, WriteAnswer
  <2>4. CASE w = -1 /\ WriteFails
    BY <1>1, <1>3, <2>2, <2>4 DEF DONE, FAIL, Sound, LinesOut
  <2>5. CASE w \in 1 .. s.cursor
    <3> DEFINE f == Overlay(s.file, s.offset, Buffered(s, w))
               t == [s EXCEPT !.file = f, !.offset = s.offset + w, !.cursor = 0, !.dirty = FALSE]
    <3>1. r.s = t /\ r.ret = DONE /\ r = [s |-> r.s, ret |-> r.ret]
      BY <2>2, <2>5
    <3>2. Buffered(s, w) \in Seq(Byte) /\ Len(Buffered(s, w)) = w
      <4>1. \A i \in 1 .. w : s.buffer[i - 1] \in Byte
        BY <1>1, <2>1, <2>5, Fields DEF Index
      <4>2. Buffered(s, w) \in [1 .. w -> Byte]
        BY <4>1 DEF Buffered
      <4> QED BY <2>1, <2>5, <4>2
    <3>3. f \in Seq(Byte) /\ s.offset + w <= Len(f)
      BY <1>1, <3>2, Fields, OverlayType
    <3> HIDE DEF f
    <3>4. /\ t.file = f /\ t.offset = s.offset + w /\ t.cursor = 0 /\ t.dirty = FALSE
          /\ t.limit = s.limit /\ t.buffer = s.buffer /\ t.unget = s.unget
      BY <1>1 DEF FILE
    <3>6. s.offset + w \in Nat /\ 0 \in 0 .. BUFSIZE
      BY <1>1, <2>1, <2>5, Fields
    <3>7. t \in FILE
      BY <1>1, <3>3, <3>6 DEF FILE
    <3> HIDE DEF t
    <3>5. Sound(t)
      BY <1>1, <1>3, <3>3, <3>4, <3>7, <2>1 DEF Sound, Kept, Mirrors, LinesOut
    <3> QED BY <1>1, <1>3, <3>1, <3>4, <3>5 DEF DONE, FAIL
  <2> QED BY <2>3, <2>4, <2>5
<1> QED BY <1>2, <1>3

(* A byte stored in a buffer with room; the newline of a line-buffered     *)
(* stream is the one byte a flush must follow (stdio.cpp:46-51).           *)
LEMMA StoredInv ==
    ASSUME NEW s, Sound(s), Writable(s), s.cursor < BUFSIZE, NEW c \in Byte
    PROVE  /\ Stored(s, c) \in FILE
           /\ Stored(s, c).cursor = s.cursor + 1 /\ Stored(s, c).dirty /\ Stored(s, c).limit = 0
           /\ Kept(Stored(s, c))
           /\ c # NEWLINE \/ ~ LINE_BUFFERED => Sound(Stored(s, c))
<1> DEFINE t == Stored(s, c)
<1>1. s \in FILE /\ s.offset <= Len(s.file) /\ s.limit = 0 /\ (s.cursor > 0 => s.dirty) /\ LinesOut(s)
  BY DEF Sound, Kept, Writable
<1>2. s.cursor \in 0 .. BUFSIZE - 1 /\ BUFSIZE \in Nat /\ s.cursor \in Nat /\ s.cursor \in Index
  BY <1>1, Fields DEF Index
<1>a. s.cursor + 1 \in 0 .. BUFSIZE
  BY <1>2
<1>b. t \in FILE
  BY <1>1, <1>2, <1>a DEF Stored, FILE
<1>3. /\ t.cursor = s.cursor + 1 /\ t.dirty /\ t.limit = 0
      /\ t.file = s.file /\ t.offset = s.offset
      /\ t.buffer = [s.buffer EXCEPT ![s.cursor] = c]
  BY <1>1 DEF Stored, FILE
<1> HIDE DEF t
<1>4. Kept(t)
  BY <1>1, <1>2, <1>b, <1>3 DEF Kept, Mirrors
<1>5. ASSUME c # NEWLINE \/ ~ LINE_BUFFERED PROVE LinesOut(t)
  <2> SUFFICES ASSUME LINE_BUFFERED, ~ WriteFails, NEW i \in 0 .. t.cursor - 1
               PROVE  t.buffer[i] # NEWLINE
    BY DEF LinesOut
  <2>1. i \in Index
    BY <1>2, <1>3 DEF Index
  <2>2. CASE i = s.cursor
    BY <1>1, <1>2, <1>3, <1>5, <2>1, <2>2, Fields
  <2>3. CASE i # s.cursor
    <3>1. i \in 0 .. s.cursor - 1 /\ s.dirty
      BY <1>1, <1>2, <1>3, <2>3
    <3>2. s.buffer[i] # NEWLINE
      BY <1>1, <3>1 DEF LinesOut
    <3> QED BY <1>1, <1>3, <2>1, <2>3, <3>2, Fields
  <2> QED BY <2>2, <2>3
<1>6. ASSUME c # NEWLINE \/ ~ LINE_BUFFERED PROVE Sound(t)
  BY <1>4, <1>5, <1>6 DEF Sound
<1> QED BY <1>b, <1>3, <1>4, <1>6 DEF t
(* fputc stores into a buffer with room, or answers -1 (stdio.cpp:39-53).  *)
LEMMA FputcInv ==
    ASSUME Orderly, NEW s, Sound(s), Writable(s), NEW c \in Byte, NEW o \in Fputc(s, c)
    PROVE  Sound(o.s) /\ Writable(o.s) /\ o.ret \in {EOF, c}
<1> DEFINE First == IF s.cursor >= BUFSIZE THEN Fflush(s) ELSE {[s |-> s, ret |-> DONE]}
           Then(r) == IF LINE_BUFFERED /\ c = NEWLINE THEN Fflush(Stored(r.s, c))
                      ELSE {[s |-> Stored(r.s, c), ret |-> DONE]}
           Outs(r) == IF r.ret # DONE THEN {[s |-> r.s, ret |-> EOF]}
                      ELSE {[s |-> q.s, ret |-> c] : q \in Then(r)}
<1>1. s \in FILE /\ s.limit = 0 /\ (s.cursor > 0 => s.dirty) /\ Kept(s)
  BY DEF Sound, Kept, Writable
<1>2. s.cursor \in Nat /\ s.cursor <= BUFSIZE /\ BUFSIZE \in Nat /\ BUFSIZE > 0
  BY <1>1, Fields DEF Orderly
<1>3. o \in UNION {Outs(r) : r \in First}
  BY Zenon DEF Fputc
<1>4. PICK r \in First : o \in Outs(r)
  BY <1>3, Zenon
<1>5. /\ Sound(r.s) /\ Writable(r.s)
      /\ r.ret = DONE => r.s.cursor < BUFSIZE
  <2>1. CASE s.cursor >= BUFSIZE
    <3>1. r \in Fflush(s) /\ s.dirty
      BY <1>1, <1>2, <1>4, <2>1
    <3>2. Sound(r.s) /\ r.s.limit = 0 /\ (r.ret = DONE => r.s.cursor = 0) /\ r.ret \in {DONE, FAIL}
          /\ (r.ret = FAIL => r.s = s)
      BY <1>1, <3>1, FlushInv
    <3> QED BY <1>1, <1>2, <3>1, <3>2 DEF Writable, DONE, FAIL
  <2>2. CASE ~ (s.cursor >= BUFSIZE)
    BY <1>2, <1>4, <2>2
  <2> QED BY <2>1, <2>2
<1> HIDE DEF First
<1>6. CASE r.ret # DONE
  BY <1>4, <1>5, <1>6 DEF EOF
<1>7. CASE r.ret = DONE
  <2>1. PICK q \in Then(r) : o = [s |-> q.s, ret |-> c]
    BY <1>4, <1>7, Zenon
  <2>2. /\ Kept(Stored(r.s, c)) /\ Stored(r.s, c).dirty /\ Stored(r.s, c).limit = 0
        /\ c # NEWLINE \/ ~ LINE_BUFFERED => Sound(Stored(r.s, c))
    BY <1>5, <1>7, StoredInv
  <2>3. CASE LINE_BUFFERED /\ c = NEWLINE
    <3>1. q \in Fflush(Stored(r.s, c))
      BY <2>3
    <3>2. /\ Sound(q.s) /\ q.s.limit = 0 /\ q.ret \in {DONE, FAIL}
          /\ (q.ret = FAIL => q.s = Stored(r.s, c)) /\ (q.ret = DONE => q.s.cursor = 0)
      BY <2>2, <3>1, FlushInv
    <3>3. Writable(q.s)
      BY <2>2, <3>2 DEF Writable, DONE, FAIL
    <3> QED BY <2>1, <3>2, <3>3
  <2>4. CASE ~ (LINE_BUFFERED /\ c = NEWLINE)
    <3>1. q = [s |-> Stored(r.s, c), ret |-> DONE]
      BY <2>4
    <3> QED BY <2>1, <2>2, <2>4, <3>1 DEF Writable
  <2> QED BY <2>3, <2>4
<1> QED BY <1>6, <1>7
(* A refill leaves in the buffer what the file holds in front of the       *)
(* descriptor's new offset (stdio.cpp:250-254, 420-424).                   *)
LEMMA RefilledInv ==
    ASSUME NEW s, Kept(s), ~ s.dirty, NEW n \in 1 .. BUFSIZE, s.offset + n <= Len(s.file)
    PROVE  /\ Sound(Refilled(s, n)) /\ ~ Refilled(s, n).dirty
           /\ Refilled(s, n).cursor = 0 /\ Refilled(s, n).limit = n
<1> DEFINE t == Refilled(s, n)
<1>1. s \in FILE /\ BUFSIZE \in Nat /\ n \in Nat /\ n > 0
  BY Fields DEF Kept
<1>2. /\ t.file = s.file /\ t.offset = s.offset + n /\ t.cursor = 0 /\ t.limit = n /\ t.dirty = s.dirty
      /\ t.buffer = [i \in Index |-> IF i < n THEN s.file[s.offset + i + 1] ELSE s.buffer[i]]
  BY <1>1 DEF Refilled, FILE
<1>3. \A i \in Index : i < n => s.offset + i + 1 \in 1 .. Len(s.file)
  BY <1>1, Fields DEF Index
<1>4. t.buffer \in [Index -> Byte]
  BY <1>1, <1>2, <1>3, Fields
<1>5. s.offset + n \in Nat /\ 0 \in 0 .. BUFSIZE /\ n \in 0 .. BUFSIZE
  BY <1>1, Fields
<1>6. t \in FILE
  <2>1. [i \in Index |-> IF i < n THEN s.file[s.offset + i + 1] ELSE s.buffer[i]] \in [Index -> Byte]
    BY <1>2, <1>4
  <2>2. t = [s EXCEPT !.buffer = [i \in Index |-> IF i < n THEN s.file[s.offset + i + 1] ELSE s.buffer[i]],
                      !.offset = s.offset + n, !.limit = n, !.cursor = 0]
    BY <1>1 DEF Refilled, FILE
  <2> HIDE DEF t
  <2> QED BY <1>1, <1>5, <2>1, <2>2 DEF FILE
<1> HIDE DEF t
<1>7. Mirrors(t)
  BY <1>1, <1>2, <1>3, Fields DEF Mirrors, Index
<1> QED BY <1>2, <1>5, <1>6, <1>7 DEF Sound, Kept, LinesOut, t

(* The next byte of the buffer.                                            *)
LEMMA AdvanceInv ==
    ASSUME NEW s, Kept(s), ~ s.dirty, NEW k \in Nat, s.cursor + k <= s.limit
    PROVE  /\ Sound([s EXCEPT !.cursor = @ + k]) /\ ~ [s EXCEPT !.cursor = @ + k].dirty
<1> DEFINE t == [s EXCEPT !.cursor = @ + k]
<1>1. s \in FILE
  BY DEF Kept
<1>2. /\ t.file = s.file /\ t.offset = s.offset /\ t.cursor = s.cursor + k /\ t.limit = s.limit
      /\ t.dirty = s.dirty /\ t.buffer = s.buffer
  BY <1>1 DEF FILE
<1>3. s.cursor + k \in 0 .. BUFSIZE /\ s.cursor \in Nat /\ s.limit \in Nat
  BY <1>1, Fields
<1>4. t \in FILE
  BY <1>1, <1>3 DEF FILE
<1> HIDE DEF t
<1> QED BY <1>2, <1>3, <1>4 DEF Sound, Kept, LinesOut, Mirrors, t

LEMMA PoppedInv ==
    ASSUME NEW s, Kept(s), ~ s.dirty, s.unget # <<>>
    PROVE  /\ Sound([s EXCEPT !.unget = Front(@)]) /\ ~ [s EXCEPT !.unget = Front(@)].dirty
           /\ Last(s.unget) \in Byte
<1> DEFINE t == [s EXCEPT !.unget = Front(@)]
<1>1. s \in FILE
  BY DEF Kept
<1>2. /\ t.file = s.file /\ t.offset = s.offset /\ t.cursor = s.cursor /\ t.limit = s.limit
      /\ t.dirty = s.dirty /\ t.buffer = s.buffer
  BY <1>1 DEF FILE
<1>3. Front(s.unget) \in Seq(Byte) /\ Last(s.unget) \in Byte
  BY <1>1, Fields DEF Front, Last
<1>4. t \in FILE
  BY <1>1, <1>3 DEF FILE
<1> HIDE DEF t
<1> QED BY <1>2, <1>3, <1>4 DEF Sound, Kept, LinesOut, Mirrors, t

(* fgetc leaves nothing to be written (stdio.cpp:241-257).                 *)
LEMMA FgetcInv ==
    ASSUME Orderly, NEW s, Sound(s), ~ s.dirty, NEW o \in Fgetc(s)
    PROVE  Sound(o.s) /\ ~ o.s.dirty /\ o.ret \in Int
<1>1. s \in FILE /\ Kept(s) /\ s.offset <= Len(s.file)
  BY DEF Sound, Kept
<1>2. BUFSIZE \in Nat /\ BUFSIZE > 0 /\ Byte \subseteq Int
  BY StreamAssumption DEF Orderly
<1>3. ASSUME NEW t, Kept(t), ~ t.dirty, t.cursor < t.limit, o = Next1(t)
      PROVE  Sound(o.s) /\ ~ o.s.dirty /\ o.ret \in Int
  <2>1. t \in FILE
    BY <1>3 DEF Kept
  <2>2. t.cursor + 1 <= t.limit /\ t.cursor \in Index
    BY <1>3, <2>1, Fields DEF Index
  <2>3. o.s = [t EXCEPT !.cursor = @ + 1] /\ o.ret = t.buffer[t.cursor]
    BY <1>3 DEF Next1
  <2>4. Sound([t EXCEPT !.cursor = @ + 1]) /\ ~ [t EXCEPT !.cursor = @ + 1].dirty
    BY <1>3, <2>2, AdvanceInv
  <2>5. t.buffer[t.cursor] \in Int
    BY <1>2, <2>1, <2>2, Fields
  <2> QED BY <2>3, <2>4, <2>5
<1>4. CASE s.unget # <<>>
  <2>1. o = [s |-> [s EXCEPT !.unget = Front(@)], ret |-> SignedChar(Last(s.unget))]
    BY <1>4 DEF Fgetc
  <2>2. Sound([s EXCEPT !.unget = Front(@)]) /\ ~ [s EXCEPT !.unget = Front(@)].dirty /\ Last(s.unget) \in Byte
    BY <1>1, <1>4, PoppedInv
  <2>3. SignedChar(Last(s.unget)) \in Int
    BY <1>2, <2>2 DEF SignedChar
  <2> QED BY <2>1, <2>2, <2>3
<1>5. CASE s.unget = <<>> /\ s.cursor < s.limit
  BY <1>1, <1>3, <1>5 DEF Fgetc
<1>6. CASE s.unget = <<>> /\ ~ (s.cursor < s.limit)
  <2>1. PICK n \in KernelRead(s, BUFSIZE) :
          o = IF n <= 0 THEN [s |-> s, ret |-> EOF] ELSE Next1(Refilled(s, n))
    BY <1>6 DEF Fgetc
  <2>2. n = -1 \/ (n \in 0 .. BUFSIZE /\ s.offset + n <= Len(s.file))
    BY <1>1, <1>2, <2>1, ReadAnswer
  <2>3. CASE n <= 0
    BY <2>1, <2>3 DEF EOF
  <2>4. CASE ~ (n <= 0)
    <3>1. n \in 1 .. BUFSIZE /\ s.offset + n <= Len(s.file)
      BY <1>2, <2>2, <2>4
    <3>2. Sound(Refilled(s, n)) /\ ~ Refilled(s, n).dirty /\ Refilled(s, n).cursor < Refilled(s, n).limit
      BY <1>1, <3>1, RefilledInv
    <3>3. o = Next1(Refilled(s, n))
      BY <2>1, <2>4
    <3> QED BY <1>3, <3>2, <3>3 DEF Sound
  <2> QED BY <2>2, <2>3, <2>4
<1> QED BY <1>4, <1>5, <1>6
(* ungetc leaves the buffer alone (stdio.cpp:231-240).                     *)
LEMMA UngetcInv ==
    ASSUME NEW s, Sound(s), ~ s.dirty, NEW c \in Byte
    PROVE  Sound(Ungetc(s, c).s) /\ ~ Ungetc(s, c).s.dirty /\ Ungetc(s, c).ret \in Int
<1> DEFINE t == [s EXCEPT !.unget = Append(@, c)]
<1>1. s \in FILE /\ c \in Int
  BY StreamAssumption DEF Sound, Kept
<1>2. CASE Len(s.unget) < UNGET_MAX
  <2>1. /\ t.file = s.file /\ t.offset = s.offset /\ t.cursor = s.cursor /\ t.limit = s.limit
        /\ t.dirty = s.dirty /\ t.buffer = s.buffer
    BY <1>1 DEF FILE
  <2>2. Append(s.unget, c) \in Seq(Byte)
    BY <1>1, Fields
  <2>3. t \in FILE
    BY <1>1, <2>2 DEF FILE
  <2>4. Ungetc(s, c).s = t /\ Ungetc(s, c).ret = c
    BY <1>2 DEF Ungetc
  <2> HIDE DEF t
  <2> QED BY <1>1, <2>1, <2>3, <2>4 DEF Sound, Kept, LinesOut, Mirrors
<1>3. CASE ~ (Len(s.unget) < UNGET_MAX)
  BY <1>3 DEF Ungetc, EOF
<1> QED BY <1>2, <1>3

(* fseek empties the buffer, whether lseek takes the target or not, as     *)
(* long as there is nothing left to write (stdio.cpp:459-469).             *)
LEMMA FseekInv ==
    ASSUME NEW s, Sound(s), WriteFails => ~ s.dirty, NEW offset, NEW whence,
           NEW o \in Fseek(s, offset, whence)
    PROVE  Sound(o.s) /\ Writable(o.s) /\ ~ o.s.dirty /\ o.ret \in Int
<1>1. PICK r \in Fflush(s) :
        o = Lseek([r.s EXCEPT !.cursor = 0, !.limit = 0, !.unget = <<>>], Target(r.s, offset, whence))
  BY DEF Fseek
<1>2. Sound(r.s) /\ ~ r.s.dirty
  BY FlushInv DEF Sound
<1> DEFINE t == [r.s EXCEPT !.cursor = 0, !.limit = 0, !.unget = <<>>]
           to == Target(r.s, offset, whence)
<1>3. r.s \in FILE /\ r.s.offset <= Len(r.s.file) /\ BUFSIZE \in Nat
  BY <1>2, Fields DEF Sound, Kept
<1>4. /\ t.file = r.s.file /\ t.offset = r.s.offset /\ t.cursor = 0 /\ t.limit = 0 /\ ~ t.dirty
  BY <1>2, <1>3 DEF FILE
<1>a. <<>> \in Seq(Byte) /\ 0 \in 0 .. BUFSIZE
  BY <1>3
<1>5. t \in FILE
  BY <1>3, <1>a DEF FILE
<1> HIDE DEF t, to
<1>6. CASE to \in 0 .. Len(t.file)
  <2> DEFINE u == [t EXCEPT !.offset = to]
  <2>1. /\ u.file = t.file /\ u.offset = to /\ u.cursor = 0 /\ u.limit = 0 /\ ~ u.dirty
    BY <1>4, <1>5 DEF FILE
  <2>2. to \in Nat /\ to <= Len(t.file)
    BY <1>5, <1>6, Fields
  <2>3. u \in FILE
    BY <1>5, <2>2 DEF FILE
  <2>4. o = [s |-> u, ret |-> DONE]
    BY <1>1, <1>6 DEF Lseek, t, to
  <2> HIDE DEF u
  <2> QED BY <2>1, <2>2, <2>3, <2>4 DEF Sound, Kept, LinesOut, Mirrors, Writable, DONE
<1>7. CASE ~ (to \in 0 .. Len(t.file))
  <2>1. o = [s |-> t, ret |-> FAIL]
    BY <1>1, <1>7 DEF Lseek, t, to
  <2> QED BY <1>3, <1>4, <1>5, <2>1 DEF Sound, Kept, LinesOut, Mirrors, Writable, FAIL
<1> QED BY <1>6, <1>7

(* fopen makes an empty buffer, in memory that holds zeros (:210-219).     *)
LEMMA OpenedInv ==
    ASSUME Orderly, NEW s, Sound(s), NEW t \in Opened(s)
    PROVE  Sound(t) /\ Writable(t) /\ ~ t.dirty
<1>1. s \in FILE /\ BUFSIZE \in Nat
  BY Fields DEF Sound, Kept
<1>2. Leftovers = {[limit |-> 0, unget |-> <<>>]}
  BY DEF Leftovers, Orderly
<1>a. PICK l \in Leftovers : t = [s EXCEPT !.offset = 0, !.cursor = 0, !.dirty = FALSE,
                                           !.limit = l.limit, !.unget = l.unget]
  BY DEF Opened
<1>b. l.limit = 0 /\ l.unget = <<>> /\ <<>> \in Seq(Byte) /\ 0 \in 0 .. BUFSIZE
  BY <1>1, <1>2
<1>3. t = [s EXCEPT !.offset = 0, !.cursor = 0, !.dirty = FALSE, !.limit = 0, !.unget = <<>>]
  BY <1>a, <1>b
<1>4. t.file = s.file /\ t.offset = 0 /\ t.cursor = 0 /\ t.limit = 0 /\ ~ t.dirty
  BY <1>1, <1>3 DEF FILE
<1>5. t \in FILE
  BY <1>1, <1>3, <1>b DEF FILE
<1>6. 0 <= Len(t.file)
  BY <1>5, Fields
<1> QED BY <1>4, <1>5, <1>6 DEF Sound, Kept, LinesOut, Mirrors, Writable

(* Whole buffers straight from the kernel are no more than was asked for.  *)
LEMMA WholeBuffers ==
    ASSUME BUFSIZE > 0, NEW left \in Nat
    PROVE  Whole(left) \in Nat /\ Whole(left) <= left
<1> DEFINE q == left \div BUFSIZE
<1>1. BUFSIZE \in Nat
  BY StreamAssumption
<1>2. q \in Nat /\ q * BUFSIZE <= left /\ q * BUFSIZE \in Nat
  BY <1>1, Z3
<1> QED BY <1>2 DEF Whole

(* A turn of fread delivers no more than is still asked for, and leaves    *)
(* nothing to be written (stdio.cpp:389-428).                              *)
LEMMA FreadInv ==
    ASSUME Orderly, NEW s, Sound(s), ~ s.dirty, NEW left \in Nat, left > 0, NEW o \in Fread1(s, left)
    PROVE  Sound(o.s) /\ ~ o.s.dirty /\ Len(o.took) \in 0 .. left
<1>1. s \in FILE /\ Kept(s) /\ s.offset <= Len(s.file)
  BY DEF Sound, Kept
<1>2. BUFSIZE \in Nat /\ BUFSIZE > 0
  BY StreamAssumption DEF Orderly
<1>2a. ~ (s.cursor < s.limit) => ~ (s.cursor # s.limit)
  BY <1>1, Fields DEF Kept
<1>3. CASE s.unget # <<>>
  <2>1. o = [s |-> [s EXCEPT !.unget = Front(@)], took |-> <<Last(s.unget)>>, stop |-> FALSE]
    BY <1>3 DEF Fread1
  <2>2. o.s = [s EXCEPT !.unget = Front(@)] /\ o.took = <<Last(s.unget)>>
    BY <2>1
  <2>3. Len(o.took) = 1
    BY <2>2
  <2> QED BY <1>1, <1>3, <2>2, <2>3, PoppedInv
<1>4. CASE s.unget = <<>> /\ s.cursor < s.limit
  <2> DEFINE take == Min({s.limit - s.cursor, left})
  <2>1. o = [s |-> [s EXCEPT !.cursor = @ + take],
             took |-> [i \in 1 .. take |-> s.buffer[s.cursor + i - 1]], stop |-> FALSE]
    <3>1. s.cursor # s.limit
      BY <1>1, <1>4, Fields
    <3>2. FromBuffer(s, left) = take
      BY <1>4 DEF FromBuffer
    <3> QED BY <1>4, <3>1, <3>2 DEF Fread1
  <2>a. s.cursor \in Nat /\ s.limit \in Nat /\ left \in Nat /\ s.cursor < s.limit
    BY <1>1, <1>4, Fields
  <2>b. take = IF s.limit - s.cursor <= left THEN s.limit - s.cursor ELSE left
    BY <2>a, MinOfTwo
  <2> HIDE DEF take
  <2>2. take \in Nat /\ take <= left /\ s.cursor + take <= s.limit
    BY <2>a, <2>b
  <2>3. Len([i \in 1 .. take |-> s.buffer[s.cursor + i - 1]]) = take
    BY <2>2
  <2>4. Sound([s EXCEPT !.cursor = @ + take]) /\ ~ [s EXCEPT !.cursor = @ + take].dirty
    BY <1>1, <2>2, AdvanceInv
  <2>5. o.s = [s EXCEPT !.cursor = @ + take] /\ Len(o.took) = take
    BY <2>1, <2>3
  <2> QED BY <2>2, <2>4, <2>5
<1>5. CASE s.unget = <<>> /\ ~ (s.cursor < s.limit) /\ left >= BUFSIZE
  <2>1. PICK n \in KernelRead(s, Whole(left)) :
          o = IF n <= 0 THEN [s |-> s, took |-> <<>>, stop |-> TRUE]
              ELSE [s |-> [s EXCEPT !.offset = @ + n], took |-> Segment(s, n), stop |-> n < Whole(left)]
    BY <1>2a, <1>5 DEF Fread1
  <2>2. n = -1 \/ (n \in 0 .. Whole(left) /\ s.offset + n <= Len(s.file))
    BY <1>1, <1>2, <2>1, ReadAnswer, WholeBuffers
  <2>3. CASE n <= 0
    BY <2>1, <2>3
  <2>4. CASE ~ (n <= 0)
    <3> DEFINE t == [s EXCEPT !.offset = @ + n]
    <3>1. n \in Nat /\ n <= left /\ s.offset + n <= Len(s.file) /\ s.offset + n \in Nat
      <4>1. Whole(left) \in Nat /\ Whole(left) <= left
        BY <1>2, WholeBuffers
      <4>2. s.offset \in Nat /\ n \in 0 .. Whole(left) /\ s.offset + n <= Len(s.file)
        BY <1>1, <2>2, <2>4, Fields
      <4> QED BY <4>1, <4>2
    <3>2. o.s = t /\ o.took = Segment(s, n)
      BY <2>1, <2>4
    <3>3. t.file = s.file /\ t.offset = s.offset + n /\ t.cursor = s.cursor /\ t.limit = s.limit /\ t.dirty = s.dirty
      BY <1>1 DEF FILE
    <3>4. t \in FILE
      BY <1>1, <3>1 DEF FILE
    <3>5. Len(Segment(s, n)) = n
      <4>1. s.file \in Seq(Byte) /\ s.offset \in Nat
        BY <1>1, Fields
      <4> QED BY <3>1, <4>1 DEF Segment
    <3>6. Mirrors(t)
      <4>1. s.cursor \in Nat /\ s.limit \in Nat
        BY <1>1, Fields
      <4> HIDE DEF t
      <4> QED BY <1>5, <3>3, <4>1 DEF Mirrors
    <3> HIDE DEF t
    <3> QED BY <3>1, <3>2, <3>3, <3>4, <3>5, <3>6 DEF Sound, Kept, LinesOut
  <2> QED BY <1>2, <2>2, <2>3, <2>4, WholeBuffers
<1>6. CASE s.unget = <<>> /\ ~ (s.cursor < s.limit) /\ ~ (left >= BUFSIZE)
  <2>1. PICK n \in KernelRead(s, BUFSIZE) :
          o = IF n <= 0 THEN [s |-> s, took |-> <<>>, stop |-> TRUE]
              ELSE [s |-> Refilled(s, n), took |-> <<>>, stop |-> FALSE]
    BY <1>2a, <1>6 DEF Fread1
  <2>2. n = -1 \/ (n \in 0 .. BUFSIZE /\ s.offset + n <= Len(s.file))
    BY <1>1, <1>2, <2>1, ReadAnswer
  <2>3. CASE n <= 0
    BY <2>1, <2>3
  <2>4. CASE ~ (n <= 0)
    <3>1. n \in 1 .. BUFSIZE /\ s.offset + n <= Len(s.file)
      BY <1>2, <2>2, <2>4
    <3> QED BY <1>1, <2>1, <2>4, <3>1, RefilledInv
  <2> QED BY <2>3, <2>4
<1> QED BY <1>3, <1>4, <1>5, <1>6

-----------------------------------------------------------------------------
(* The program.  While it may write, the buffer is empty or waits to be    *)
(* written, and while it reads nothing waits: so a full buffer is always a *)
(* dirty one, which fflush empties, and fputc has room.                    *)
IInv ==
    /\ Orderly
    /\ Sound(stream)
    /\ mode \in {"idle", "reading", "writing", "closed"}
    /\ call \in Call /\ call.size > 0
    /\ result.ret \in Int
    /\ mode \in {"idle", "writing"} => Writable(stream)
    /\ stream.dirty => mode = "writing" \/ (mode = "closed" /\ WriteFails)
    /\ call.op = "fwrite" => mode = "writing"
    /\ call.op \in {"fread", "fgets"} => mode = "reading"

LEMMA InitInv == Orderly /\ Init => IInv
<1> SUFFICES ASSUME Orderly, Init PROVE IInv
  OBVIOUS
<1>1. BUFSIZE \in Nat /\ MaxFile \in Nat /\ MaxFile - 1 \in Nat
  BY StreamAssumption, ProgramAssumption
<1>2. Leftovers = {[limit |-> 0, unget |-> <<>>]}
  BY DEF Leftovers, Orderly
<1>3. PICK file \in {<<>>} \cup [1 .. MaxFile - 1 -> Byte], b \in Byte, l \in Leftovers :
         stream = [file |-> file, offset |-> 0, buffer |-> [i \in Index |-> b], cursor |-> 0,
                   limit |-> l.limit, unget |-> l.unget, dirty |-> FALSE]
  BY DEF Init
<1>4. l.limit = 0 /\ l.unget = <<>> /\ <<>> \in Seq(Byte) /\ 0 \in 0 .. BUFSIZE
  BY <1>1, <1>2
<1>5. file \in Seq(Byte) /\ Len(file) \in Nat
  <2>1. CASE file = <<>>
    BY <1>4, <2>1
  <2>2. CASE file \in [1 .. MaxFile - 1 -> Byte]
    BY <1>1, <2>2
  <2> QED BY <2>1, <2>2
<1>6. stream \in FILE
  BY <1>3, <1>4, <1>5 DEF FILE
<1>7. stream.offset = 0 /\ stream.cursor = 0 /\ stream.limit = 0 /\ ~ stream.dirty /\ stream.file = file
  BY <1>3, <1>4
<1>8. Sound(stream) /\ Writable(stream)
  BY <1>5, <1>6, <1>7 DEF Sound, Kept, LinesOut, Mirrors, Writable
<1>9. call \in Call /\ call.size > 0 /\ call.op = "none"
  BY DEF Init, NoCall, Call
<1>10. mode = "idle" /\ result.ret \in Int
  BY DEF Init, DONE
<1> QED BY <1>7, <1>8, <1>9, <1>10 DEF IInv

(* A call that is answered at once, and leaves the mode m.                 *)
LEMMA AnswerInv ==
    ASSUME IInv, call.op = "none", UNCHANGED call,
           NEW o, NEW took, Answer(o, took), Sound(o.s), o.ret \in Int,
           mode' \in {"idle", "reading", "writing", "closed"},
           mode' \in {"idle", "writing"} => Writable(o.s),
           o.s.dirty => mode' = "writing" \/ (mode' = "closed" /\ WriteFails)
    PROVE  IInv'
<1>1. stream' = o.s /\ result'.ret = o.ret
  BY DEF Answer
<1> QED BY <1>1 DEF IInv, Orderly, Sound, Kept, LinesOut, Mirrors, Writable, FILE, Call

LEMMA FputcStepInv == ASSUME IInv, NEW c \in Byte, fputc(c) PROVE IInv'
<1>1. call.op = "none" /\ mode \in {"idle", "writing"} /\ mode' = "writing" /\ UNCHANGED call
  BY DEF fputc, MayWrite, Free, IInv
<1>2. PICK o \in Fputc(stream, c) : Answer(o, <<>>)
  BY DEF fputc
<1>3. Sound(o.s) /\ Writable(o.s) /\ o.ret \in {EOF, c}
  BY <1>1, <1>2, FputcInv DEF IInv
<1>4. o.ret \in Int
  BY <1>3, StreamAssumption DEF EOF
<1> QED BY <1>1, <1>2, <1>3, <1>4, AnswerInv

LEMMA FflushStepInv == ASSUME IInv, fflush PROVE IInv'
<1>1. call.op = "none" /\ mode \in {"idle", "reading", "writing"} /\ UNCHANGED call
  BY DEF fflush, Free, IInv
<1>2. PICK o \in Fflush(stream) :
        Answer(o, <<>>) /\ mode' = IF mode = "writing" /\ o.ret = DONE THEN "idle" ELSE mode
  BY DEF fflush
<1>3. Kept(stream)
  BY DEF IInv, Sound
<1>4. /\ Sound(o.s) /\ o.ret \in {DONE, FAIL} /\ o.s.limit = stream.limit
      /\ o.ret = FAIL => o.s = stream
      /\ o.ret = DONE => ~ o.s.dirty
      /\ ~ stream.dirty => o.s = stream
      /\ stream.dirty /\ o.ret = DONE => o.s.cursor = 0
  BY <1>2, <1>3, FlushInv
<1>5. mode \in {"idle", "writing"} => Writable(o.s)
  BY <1>4 DEF IInv, Writable
<1>6. o.s.dirty => mode' = "writing"
  BY <1>1, <1>2, <1>4 DEF IInv, DONE, FAIL
<1>7. o.ret \in Int
  BY <1>4 DEF DONE, FAIL
<1> QED BY <1>1, <1>2, <1>4, <1>5, <1>6, <1>7, AnswerInv

LEMMA FgetcStepInv == ASSUME IInv, fgetc PROVE IInv'
<1>1. call.op = "none" /\ mode \in {"idle", "reading"} /\ mode' = "reading" /\ UNCHANGED call
  BY DEF fgetc, MayRead, Free, IInv
<1>2. PICK o \in Fgetc(stream) : Answer(o, IF o.ret = EOF THEN <<>> ELSE <<o.ret>>)
  BY DEF fgetc
<1>3. Sound(o.s) /\ ~ o.s.dirty /\ o.ret \in Int
  BY <1>1, <1>2, FgetcInv DEF IInv
<1> QED BY <1>1, <1>2, <1>3, AnswerInv

LEMMA UngetcStepInv == ASSUME IInv, NEW c \in Byte, ungetc(c) PROVE IInv'
<1>1. call.op = "none" /\ mode \in {"idle", "reading"} /\ mode' = "reading" /\ UNCHANGED call
  BY DEF ungetc, MayRead, Free, IInv
<1>2. Answer(Ungetc(stream, c), <<>>)
  BY DEF ungetc
<1>3. Sound(Ungetc(stream, c).s) /\ ~ Ungetc(stream, c).s.dirty /\ Ungetc(stream, c).ret \in Int
  BY <1>1, UngetcInv DEF IInv
<1> QED BY <1>1, <1>2, <1>3, AnswerInv

LEMMA FseekStepInv == ASSUME IInv, NEW offset, NEW whence, fseek(offset, whence) PROVE IInv'
<1>1. /\ call.op = "none" /\ mode \in {"idle", "reading", "writing"} /\ (WriteFails => mode # "writing")
      /\ mode' = "idle" /\ UNCHANGED call
  BY DEF fseek, Free, IInv
<1>2. PICK o \in Fseek(stream, offset, whence) : Answer(o, <<>>)
  BY DEF fseek
<1>3. Sound(o.s) /\ Writable(o.s) /\ ~ o.s.dirty /\ o.ret \in Int
  BY <1>1, <1>2, FseekInv DEF IInv
<1> QED BY <1>1, <1>2, <1>3, AnswerInv

LEMMA FtellStepInv == ASSUME IInv, ftell PROVE IInv'
<1>1. call.op = "none" /\ mode \in {"idle", "reading", "writing"} /\ UNCHANGED <<mode, call>>
  BY DEF ftell, Free, IInv
<1>2. PICK r \in Fflush(stream) : Answer([s |-> r.s, ret |-> r.s.offset - Ahead(r.s)], <<>>)
  BY DEF ftell, Ftell
<1>3. Kept(stream)
  BY DEF IInv, Sound
<1>4. /\ Sound(r.s) /\ r.ret \in {DONE, FAIL} /\ r.s.limit = stream.limit
      /\ r.ret = FAIL => r.s = stream
      /\ r.ret = DONE => ~ r.s.dirty
      /\ ~ stream.dirty => r.s = stream
      /\ stream.dirty /\ r.ret = DONE => r.s.cursor = 0
  BY <1>2, <1>3, FlushInv
<1>5. mode \in {"idle", "writing"} => Writable(r.s)
  BY <1>4 DEF IInv, Writable
<1>6. r.s.dirty => mode = "writing"
  BY <1>1, <1>4 DEF IInv, DONE, FAIL
<1>7. r.s.offset - Ahead(r.s) \in Int
  <2>1. r.s \in FILE
    BY <1>4 DEF Sound, Kept
  <2>2. r.s.offset \in Int /\ r.s.limit \in Int /\ r.s.cursor \in Int /\ Len(r.s.unget) \in Int
    BY <2>1, Fields
  <2> QED BY <2>2 DEF Ahead
<1> DEFINE o == [s |-> r.s, ret |-> r.s.offset - Ahead(r.s)]
<1>8. o.s = r.s /\ o.ret \in Int /\ Answer(o, <<>>)
  BY <1>2, <1>7
<1> HIDE DEF o
<1> QED BY <1>1, <1>4, <1>5, <1>6, <1>8, AnswerInv DEF IInv

LEMMA FcloseStepInv == ASSUME IInv, fclose PROVE IInv'
<1>1. call.op = "none" /\ mode' = "closed" /\ UNCHANGED call
  BY DEF fclose, Free
<1>2. PICK r \in Fflush(stream) : Answer([r EXCEPT !.ret = DONE], <<>>)
  BY DEF fclose
<1>3. Kept(stream)
  BY DEF IInv, Sound
<1>4. /\ Sound(r.s) /\ r = [s |-> r.s, ret |-> r.ret]
      /\ r.s.dirty => WriteFails
  BY <1>2, <1>3, FlushInv DEF DONE, FAIL
<1> DEFINE o == [s |-> r.s, ret |-> DONE]
<1>5. o = [r EXCEPT !.ret = DONE]
  BY <1>4
<1>6. o.s = r.s /\ o.ret \in Int /\ Answer(o, <<>>)
  BY <1>2, <1>5 DEF DONE
<1> HIDE DEF o
<1> QED BY <1>1, <1>4, <1>6, AnswerInv

LEMMA FopenStepInv == ASSUME IInv, fopen PROVE IInv'
<1>1. mode = "closed" /\ mode' = "idle" /\ UNCHANGED call
  BY DEF fopen
<1>2. call.op = "none"
  BY <1>1 DEF IInv, Call
<1>3. PICK t \in Opened(stream) : Answer([s |-> t, ret |-> DONE], <<>>)
  BY DEF fopen
<1>4. Sound(t) /\ Writable(t) /\ ~ t.dirty
  BY <1>3, OpenedInv DEF IInv
<1> DEFINE o == [s |-> t, ret |-> DONE]
<1>5. o.s = t /\ o.ret \in Int /\ Answer(o, <<>>)
  BY <1>3 DEF DONE
<1> HIDE DEF o
<1> QED BY <1>1, <1>2, <1>4, <1>5, AnswerInv
(* fread, fwrite and fgets begin.                                          *)
LEMMA BeginInv ==
    ASSUME IInv, NEW op \in {"fread", "fwrite", "fgets"}, NEW size \in Nat, size > 0, NEW n \in Nat,
           Begin(op, size, n)
    PROVE  IInv'
<1>1. /\ call' = [op |-> op, size |-> size, total |-> size * n, left |-> size * n]
      /\ mode' = (IF op = "fwrite" THEN "writing" ELSE "reading")
      /\ result' = [took |-> <<>>, ret |-> DONE] /\ UNCHANGED stream
  BY DEF Begin
<1>2. IF op = "fwrite" THEN mode \in {"idle", "writing"} ELSE mode \in {"idle", "reading"}
  BY DEF Begin, MayWrite, MayRead, Free, IInv
<1>3. size * n \in Nat
  OBVIOUS
<1>4. call' \in Call /\ call'.size > 0 /\ call'.op = op
  BY <1>1, <1>3 DEF Call
<1>5. result'.ret \in Int
  BY <1>1 DEF DONE
<1>6. Sound(stream)'
  BY <1>1 DEF IInv, Sound, Kept, LinesOut, Mirrors, FILE
<1>7. CASE op = "fwrite"
  BY <1>1, <1>2, <1>4, <1>5, <1>6, <1>7 DEF IInv, Orderly, Writable
<1>8. CASE op # "fwrite"
  BY <1>1, <1>2, <1>4, <1>5, <1>6, <1>8 DEF IInv, Orderly, Writable
<1> QED BY <1>7, <1>8

(* One turn of a loop that goes on, or returns: what the stream is like    *)
(* afterwards is what the mode of the call allows.                         *)
LEMMA TurnInv ==
    ASSUME IInv, call.op # "none", UNCHANGED mode,
           NEW s, stream' = s, Sound(s), s.dirty => mode = "writing", mode = "writing" => Writable(s),
           result'.ret \in Int,
           call' = NoCall \/ (call' \in Call /\ call'.size > 0 /\ call'.op = call.op)
    PROVE  IInv'
<1>1. mode \in {"reading", "writing"}
  BY DEF IInv, Call
<1>2. Sound(stream')
  OBVIOUS
<1>3. call' \in Call /\ call'.size > 0 /\ call'.op \in {"none", call.op}
  BY DEF NoCall, Call
<1>4. Sound(stream)'
  BY <1>2 DEF Sound, Kept, LinesOut, Mirrors, FILE
<1> QED BY <1>1, <1>3, <1>4 DEF IInv, Orderly, Writable

(* What a call that returns answers is a number of items.                  *)
LEMMA ReturnInv ==
    ASSUME IInv, call.op # "none", UNCHANGED mode,
           NEW c \in Call, c.size > 0, NEW o, NEW took, Return(c, o, took),
           Sound(o.s), o.s.dirty => mode = "writing", mode = "writing" => Writable(o.s)
    PROVE  IInv'
<1>1. stream' = o.s /\ result'.ret = (c.total - c.left) \div c.size /\ call' = NoCall
  BY DEF Return, Answer
<1>2. c.total \in Nat /\ c.left \in Nat /\ c.size \in Nat
  BY DEF Call
<1>3. result'.ret \in Int
  BY <1>1, <1>2
<1> QED BY <1>1, <1>3, TurnInv

(* Less left to do, the call is one still.                                 *)
LEMMA LessLeft ==
    ASSUME call \in Call, call.size > 0, NEW k \in Nat, k <= call.left
    PROVE  /\ [call EXCEPT !.left = @ - k] \in Call
           /\ [call EXCEPT !.left = @ - k].size = call.size
           /\ [call EXCEPT !.left = @ - k].op = call.op
<1>1. call.left - k \in Nat
  BY DEF Call
<1>2. [call EXCEPT !.left = @ - k] \in Call
  BY <1>1 DEF Call
<1>3. [call EXCEPT !.left = @ - k].size = call.size /\ [call EXCEPT !.left = @ - k].op = call.op
  BY DEF Call
<1> QED BY <1>2, <1>3

LEMMA FreadStepInv == ASSUME IInv, FreadStep PROVE IInv'
<1>1. /\ call.op = "fread" /\ mode = "reading" /\ UNCHANGED mode /\ ~ stream.dirty
      /\ Sound(stream) /\ call \in Call /\ call.size > 0 /\ call.left \in Nat
  BY DEF FreadStep, IInv, Call
<1>2. CASE call.left = 0
  <2>1. Return(call, [s |-> stream], <<>>)
    BY <1>2 DEF FreadStep
  <2> DEFINE o == [s |-> stream]
  <2>2. o.s = stream
    OBVIOUS
  <2> HIDE DEF o
  <2> QED BY <1>1, <2>1, <2>2, ReturnInv DEF o
<1>3. CASE call.left # 0
  <2>1. PICK o \in Fread1(stream, call.left) :
          LET c == [call EXCEPT !.left = @ - Len(o.took)]
          IN  IF o.stop THEN Return(c, o, o.took)
              ELSE Answer([s |-> o.s, ret |-> DONE], o.took) /\ call' = c
    BY <1>3 DEF FreadStep
  <2>2. Sound(o.s) /\ ~ o.s.dirty /\ Len(o.took) \in 0 .. call.left
    BY <1>1, <1>3, <2>1, FreadInv DEF IInv
  <2> DEFINE k == Len(o.took)
             c == [call EXCEPT !.left = @ - Len(o.took)]
  <2>3. c \in Call /\ c.size > 0 /\ c.op = call.op
    <3>1. k \in Nat /\ k <= call.left
      BY <1>1, <2>2
    <3>2. c = [call EXCEPT !.left = @ - k]
      OBVIOUS
    <3> HIDE DEF k, c
    <3> QED BY <1>1, <3>1, <3>2, LessLeft
  <2> HIDE DEF c
  <2>4. CASE o.stop
    BY <1>1, <2>1, <2>2, <2>3, <2>4, ReturnInv DEF c
  <2>5. CASE ~ o.stop
    <3>1. stream' = o.s /\ result'.ret \in Int /\ call' = c
      BY <2>1, <2>5 DEF Answer, DONE, c
    <3> QED BY <1>1, <2>2, <2>3, <3>1, TurnInv
  <2> QED BY <2>4, <2>5
<1> QED BY <1>2, <1>3

LEMMA FwriteStepInv == ASSUME IInv, FwriteStep PROVE IInv'
<1>1. /\ call.op = "fwrite" /\ mode = "writing" /\ UNCHANGED mode /\ Writable(stream)
      /\ Sound(stream) /\ call \in Call /\ call.size > 0 /\ call.left \in Nat
  BY DEF FwriteStep, IInv, Call
<1>2. CASE call.left = 0
  <2>1. Return(call, [s |-> stream], <<>>)
    BY <1>2 DEF FwriteStep
  <2> DEFINE o == [s |-> stream]
  <2>2. o.s = stream
    OBVIOUS
  <2> HIDE DEF o
  <2> QED BY <1>1, <2>1, <2>2, ReturnInv DEF o
<1>3. CASE call.left # 0
  <2>a. PICK c \in Byte : \E o \in Fputc(stream, c) :
          IF o.ret < 0 THEN Return(call, o, <<>>)
          ELSE Answer(o, <<>>) /\ call' = [call EXCEPT !.left = @ - 1]
    BY <1>3 DEF FwriteStep
  <2>1. PICK o \in Fputc(stream, c) :
          IF o.ret < 0 THEN Return(call, o, <<>>)
          ELSE Answer(o, <<>>) /\ call' = [call EXCEPT !.left = @ - 1]
    BY <2>a
  <2>2. Sound(o.s) /\ Writable(o.s) /\ o.ret \in {EOF, c}
    BY <1>1, <2>1, FputcInv DEF IInv
  <2>3. CASE o.ret < 0
    BY <1>1, <2>1, <2>2, <2>3, ReturnInv
  <2>4. CASE ~ (o.ret < 0)
    <3>1. stream' = o.s /\ result'.ret \in Int /\ call' = [call EXCEPT !.left = @ - 1]
      BY <2>1, <2>2, <2>4, StreamAssumption DEF Answer, EOF
    <3>2. call' \in Call /\ call'.size > 0 /\ call'.op = call.op
      BY <1>1, <1>3, <3>1, LessLeft
    <3> QED BY <1>1, <2>2, <3>1, <3>2, TurnInv
  <2> QED BY <2>3, <2>4
<1> QED BY <1>2, <1>3

LEMMA FgetsStepInv == ASSUME IInv, FgetsStep PROVE IInv'
<1>1. /\ call.op = "fgets" /\ mode = "reading" /\ UNCHANGED mode /\ ~ stream.dirty
      /\ Sound(stream) /\ call \in Call /\ call.size > 0 /\ call.left \in Nat
  BY DEF FgetsStep, IInv, Call
<1>2. CASE call.left = 0
  <2>1. Return(call, [s |-> stream], <<>>)
    BY <1>2 DEF FgetsStep
  <2> DEFINE o == [s |-> stream]
  <2>2. o.s = stream
    OBVIOUS
  <2> HIDE DEF o
  <2> QED BY <1>1, <2>1, <2>2, ReturnInv DEF o
<1>3. CASE call.left # 0
  <2> DEFINE c == [call EXCEPT !.left = @ - 1]
  <2>1. PICK o \in Fgetc(stream) :
          IF o.ret < 0 THEN Return(call, o, IF o.ret = EOF THEN <<>> ELSE <<o.ret>>)
          ELSE IF o.ret = NEWLINE THEN Return(c, o, <<o.ret>>)
          ELSE Answer(o, <<o.ret>>) /\ call' = c
    BY <1>3 DEF FgetsStep
  <2>2. Sound(o.s) /\ ~ o.s.dirty /\ o.ret \in Int
    BY <1>1, <2>1, FgetcInv DEF IInv
  <2>3. c \in Call /\ c.size > 0 /\ c.op = call.op
    BY <1>1, <1>3, LessLeft
  <2> HIDE DEF c
  <2>4. CASE o.ret < 0
    BY <1>1, <2>1, <2>2, <2>4, ReturnInv
  <2>5. CASE ~ (o.ret < 0) /\ o.ret = NEWLINE
    BY <1>1, <2>1, <2>2, <2>3, <2>5, ReturnInv
  <2>6. CASE ~ (o.ret < 0) /\ o.ret # NEWLINE
    <3>1. stream' = o.s /\ result'.ret = o.ret /\ call' = c
      BY <2>1, <2>6 DEF Answer
    <3> QED BY <1>1, <2>2, <2>3, <3>1, TurnInv
  <2> QED BY <2>4, <2>5, <2>6
<1> QED BY <1>2, <1>3

LEMMA NextInv == IInv /\ [Next]_vars => IInv'
<1> SUFFICES ASSUME IInv, [Next]_vars PROVE IInv'
  OBVIOUS
<1>1. CASE UNCHANGED vars
  BY <1>1 DEF IInv, vars, Orderly, Sound, Kept, LinesOut, Mirrors, Writable, FILE, Call
<1>2. ASSUME NEW c \in Byte, fputc(c) \/ ungetc(c) PROVE IInv'
  BY <1>2, FputcStepInv, UngetcStepInv
<1>3. CASE fflush \/ fgetc \/ ftell \/ rewind \/ fclose \/ fopen
  BY <1>3, FflushStepInv, FgetcStepInv, FtellStepInv, FseekStepInv, FcloseStepInv, FopenStepInv DEF rewind
<1>4. ASSUME NEW offset \in Offsets, NEW whence \in {SEEK_SET, SEEK_CUR, SEEK_END}, fseek(offset, whence)
      PROVE  IInv'
  BY <1>4, FseekStepInv
<1>5. ASSUME NEW size \in {1, 2}, NEW n \in Counts, fread(size, n) \/ fwrite(size, n) PROVE IInv'
  <2>1. size \in Nat /\ size > 0 /\ n \in Nat
    BY ProgramAssumption
  <2> QED BY <1>5, <2>1, BeginInv DEF fread, fwrite
<1>6. ASSUME NEW n \in Counts, fgets(n) PROVE IInv'
  <2>1. n > 0 /\ n - 1 \in Nat /\ Begin("fgets", 1, n - 1)
    BY <1>6, ProgramAssumption DEF fgets
  <2> QED BY <2>1, BeginInv
<1>7. CASE Step
  BY <1>7, FreadStepInv, FwriteStepInv, FgetsStepInv DEF Step
<1> QED BY <1>1, <1>2, <1>3, <1>4, <1>5, <1>6, <1>7 DEF Next

-----------------------------------------------------------------------------
(* The invariant holds of every behaviour. *)
THEOREM Invariance == Orderly /\ Spec => []IInv
  BY InitInv, NextInv, PTL DEF Spec

(* Cursor and limit stay inside the buffer, whatever its size: no store of *)
(* fputc falls behind it (stdio.cpp:40-46).                                *)
THEOREM TypeCorrect == Orderly /\ Spec => []TypeOK
<1>1. IInv => TypeOK
  BY DEF IInv, TypeOK, Sound, Kept
<1> QED BY <1>1, Invariance, PTL

(* What is left to read in the buffer is what the file holds in front of   *)
(* the descriptor's offset, and nothing waits to be written meanwhile.     *)
THEOREM Mirrored == Orderly /\ Spec => []BufferMirrorsFile
<1>1. IInv => BufferMirrorsFile
  <2> SUFFICES ASSUME IInv, stream.limit > 0
               PROVE  /\ ~ stream.dirty
                      /\ \A i \in stream.cursor .. stream.limit - 1 :
                            LET at == stream.offset - stream.limit + i + 1
                            IN  at \in 1 .. Len(stream.file) /\ stream.buffer[i] = stream.file[at]
    BY DEF BufferMirrorsFile
  <2>1. ~ stream.dirty
    BY DEF IInv, Sound, Kept
  <2> QED BY <2>1 DEF IInv, Sound, Kept, Mirrors
<1> QED BY <1>1, Invariance, PTL

(* If write never fails, no newline waits in the buffer of a line-buffered *)
(* stream, whichever of fputc and fwrite put it there (stdio.cpp:48-51).   *)
THEOREM Lines == Orderly /\ ~ WriteFails /\ Spec => []CompleteLinesOut
<1>1. IInv /\ ~ WriteFails => CompleteLinesOut
  BY DEF IInv, Sound, LinesOut, CompleteLinesOut
<1>2. ~ WriteFails /\ [Next]_vars => (~ WriteFails)'
  OBVIOUS
<1>3. ~ WriteFails /\ Spec => [](~ WriteFails)
  BY <1>2, PTL DEF Spec
<1> QED BY <1>1, <1>3, Invariance, PTL

-----------------------------------------------------------------------------
(* What the program sees of a stream: where it is in the file, what it has *)
(* written that the file does not have yet, and where that will go.        *)
At(s) == s.offset - s.limit + s.cursor
Waiting(s) == IF s.dirty THEN Buffered(s, s.cursor) ELSE <<>>
SavedTo(s) == At(s) - Len(Waiting(s))

LEMMA BufferedType ==
    ASSUME NEW s \in FILE, NEW n \in 0 .. BUFSIZE
    PROVE  Buffered(s, n) \in Seq(Byte) /\ Len(Buffered(s, n)) = n
<1>0. n \in Nat /\ BUFSIZE \in Nat /\ n <= BUFSIZE /\ s.buffer \in [Index -> Byte]
  BY Fields
<1>1. \A i \in 1 .. n : s.buffer[i - 1] \in Byte
  <2>1. SUFFICES ASSUME NEW i \in 1 .. n PROVE i - 1 \in Index
    BY <1>0
  <2> QED BY <1>0, <2>1 DEF Index
<1>2. Buffered(s, n) \in [1 .. n -> Byte]
  BY <1>1 DEF Buffered
<1> QED BY <1>0, <1>2

(* The program is inside the file, or what waits to be written begins      *)
(* there.                                                                  *)
LEMMA InFile ==
    ASSUME NEW s, Kept(s)
    PROVE  /\ Waiting(s) \in Seq(Byte) /\ Len(Waiting(s)) \in Nat
           /\ At(s) \in Nat /\ SavedTo(s) \in Nat /\ SavedTo(s) <= Len(s.file)
           /\ s.dirty => Waiting(s) = Buffered(s, s.cursor) /\ Len(Waiting(s)) = s.cursor
                           /\ At(s) = s.offset + s.cursor /\ SavedTo(s) = s.offset
           /\ ~ s.dirty => Waiting(s) = <<>> /\ At(s) = SavedTo(s)
<1>1. s \in FILE /\ s.offset <= Len(s.file) /\ (~ s.dirty => s.cursor <= s.limit)
  BY DEF Kept
<1>2. /\ s.offset \in Nat /\ s.cursor \in 0 .. BUFSIZE /\ s.limit \in 0 .. BUFSIZE /\ BUFSIZE \in Nat
      /\ s.file \in Seq(Byte) /\ Len(s.file) \in Nat /\ s.cursor \in Nat /\ s.limit \in Nat
  BY <1>1, Fields
<1>3. CASE s.dirty
  <2>1. s.limit = 0
    BY <1>3 DEF Kept
  <2>2. Waiting(s) = Buffered(s, s.cursor)
    BY <1>3 DEF Waiting
  <2>3. Waiting(s) \in Seq(Byte) /\ Len(Waiting(s)) = s.cursor
    BY <1>1, <1>2, <2>2, BufferedType
  <2>4. At(s) = s.offset + s.cursor /\ SavedTo(s) = s.offset
    BY <1>2, <2>1, <2>3 DEF At, SavedTo
  <2> QED BY <1>1, <1>2, <1>3, <2>2, <2>3, <2>4
<1>4. CASE ~ s.dirty
  <2>1. Waiting(s) = <<>> /\ Waiting(s) \in Seq(Byte) /\ Len(Waiting(s)) = 0
    BY <1>4 DEF Waiting
  <2>2. At(s) \in Nat /\ At(s) <= Len(s.file)
    <3>1. CASE s.cursor = s.limit
      BY <1>1, <1>2, <3>1 DEF At
    <3>2. CASE s.cursor # s.limit
      <4>1. s.cursor \in s.cursor .. s.limit - 1
        BY <1>1, <1>2, <1>4, <3>2
      <4>2. s.offset - s.limit + s.cursor + 1 \in 1 .. Len(s.file)
        BY <4>1 DEF Kept, Mirrors
      <4> QED BY <1>2, <4>2 DEF At
    <3> QED BY <3>1, <3>2
  <2>3. SavedTo(s) = At(s)
    BY <2>1, <2>2 DEF SavedTo
  <2> QED BY <1>4, <2>1, <2>2, <2>3
<1> QED BY <1>3, <1>4

(* Writing over a file: no bytes, and bytes in two pieces.                 *)
LEMMA OverlayNothing ==
    ASSUME NEW file \in Seq(Byte), NEW at \in Nat, at <= Len(file)
    PROVE  Overlay(file, at, <<>>) = file
<1>1. Len(<<>>) = 0 /\ Len(file) \in Nat
  OBVIOUS
<1>2. Max({Len(file), at + Len(<<>>)}) = Len(file)
  BY <1>1, MaxOfTwo
<1>3. \A i \in 1 .. Len(file) : ~ (i \in at + 1 .. at + Len(<<>>))
  BY <1>1
<1>4. Overlay(file, at, <<>>) = [i \in 1 .. Len(file) |-> file[i]]
  BY <1>2, <1>3 DEF Overlay
<1> QED BY <1>4

LEMMA OverlayTwice ==
    ASSUME NEW file \in Seq(Byte), NEW at \in Nat, at <= Len(file), NEW bytes \in Seq(Byte), NEW c \in Byte
    PROVE  Overlay(Overlay(file, at, bytes), at + Len(bytes), <<c>>) = Overlay(file, at, Append(bytes, c))
<1> DEFINE m == Len(bytes)
           all == Append(bytes, c)
           f == Overlay(file, at, bytes)
           nf == IF Len(file) >= at + m THEN Len(file) ELSE at + m
           n == IF Len(file) >= at + m + 1 THEN Len(file) ELSE at + m + 1
<1>1. /\ all \in Seq(Byte) /\ Len(all) = m + 1 /\ m \in Nat
      /\ <<c>> \in Seq(Byte) /\ Len(<<c>>) = 1
      /\ \A i \in 1 .. m : all[i] = bytes[i]
      /\ all[m + 1] = c
  OBVIOUS
<1>2. f \in Seq(Byte) /\ at + m <= Len(f)
  BY OverlayType
<1>3. f = [i \in 1 .. nf |-> IF i \in at + 1 .. at + m THEN bytes[i - at] ELSE file[i]] /\ nf \in Nat
  <2>1. Max({Len(file), at + m}) = nf /\ nf \in Nat
    BY <1>1, MaxOfTwo
  <2> QED BY <2>1 DEF Overlay
<1>4. Overlay(file, at, all) = [i \in 1 .. n |-> IF i \in at + 1 .. at + m + 1 THEN all[i - at] ELSE file[i]]
  <2>1. Max({Len(file), at + Len(all)}) = n /\ at + Len(all) = at + m + 1
    BY <1>1, MaxOfTwo
  <2> HIDE DEF all, m, n
  <2> QED BY <2>1 DEF Overlay
<1> HIDE DEF all, f, m
<1>5. Len(f) = nf
  BY <1>3
<1>6. Overlay(f, at + m, <<c>>) = [i \in 1 .. n |-> IF i \in at + m + 1 .. at + m + 1 THEN <<c>>[i - (at + m)] ELSE f[i]]
  <2>1. Max({Len(f), at + m + Len(<<c>>)}) = n /\ at + m + Len(<<c>>) = at + m + 1
    <3>1. Len(f) \in Int /\ at + m + Len(<<c>>) = at + m + 1 /\ at + m + 1 \in Int
      BY <1>1, <1>2
    <3>2. Max({Len(f), at + m + 1}) = IF Len(f) >= at + m + 1 THEN Len(f) ELSE at + m + 1
      BY <3>1, MaxOfTwo
    <3>3. n = IF Len(f) >= at + m + 1 THEN Len(f) ELSE at + m + 1
      BY <1>1, <1>5
    <3> HIDE DEF n, nf
    <3> QED BY <3>1, <3>2, <3>3
  <2> HIDE DEF n, nf
  <2> QED BY <2>1 DEF Overlay
<1>7. ASSUME NEW i \in 1 .. n
      PROVE  (IF i \in at + m + 1 .. at + m + 1 THEN <<c>>[i - (at + m)] ELSE f[i]) =
             (IF i \in at + 1 .. at + m + 1 THEN all[i - at] ELSE file[i])
  <2>0. i \in Nat /\ i >= 1 /\ i <= n
    BY <1>1
  <2>1. CASE i = at + m + 1
    BY <1>1, <2>1
  <2>2. CASE i # at + m + 1 /\ i \in at + 1 .. at + m
    <3>1. i \in 1 .. nf
      BY <1>1, <2>0, <2>2
    <3>2. f[i] = bytes[i - at]
      BY <1>3, <2>2, <3>1
    <3>3. all[i - at] = bytes[i - at]
      BY <1>1, <2>0, <2>2
    <3> QED BY <1>1, <2>0, <2>2, <3>2, <3>3
  <2>3. CASE i # at + m + 1 /\ ~ (i \in at + 1 .. at + m)
    <3>1. i \in 1 .. nf
      BY <1>1, <2>0, <2>3
    <3>2. f[i] = file[i]
      BY <1>3, <2>3, <3>1
    <3> QED BY <1>1, <2>0, <2>3, <3>2
  <2> QED BY <2>1, <2>2, <2>3
<1>8. Overlay(f, at + m, <<c>>) = Overlay(file, at, all)
  <2> HIDE DEF n
  <2> QED BY <1>4, <1>6, <1>7
<1> QED BY <1>8 DEF all, f, m


(* What a function does to what the program sees: nothing; the bytes that  *)
(* wait go to the file; one more byte is accepted, and some of those that  *)
(* wait may go to the file; k bytes of the file are read; a byte pushed    *)
(* back is taken.                                                          *)
Flushes(s, t) ==
    /\ t.file = Overlay(s.file, SavedTo(s), Waiting(s))
    /\ At(t) = At(s) /\ Waiting(t) = <<>> /\ t.unget = s.unget

Puts(s, t, c) ==
    LET all == Append(Waiting(s), c)
    IN  /\ \E k \in 0 .. Len(Waiting(s)) + 1 :
             /\ t.file = Overlay(s.file, SavedTo(s), SubSeq(all, 1, k))
             /\ Waiting(t) = SubSeq(all, k + 1, Len(Waiting(s)) + 1)
        /\ At(t) = At(s) + 1 /\ t.unget = s.unget

Takes(s, t, k, took) ==
    /\ s.unget = <<>> /\ k \in 1 .. Len(s.file) - At(s)
    /\ took = SubSeq(s.file, At(s) + 1, At(s) + k)
    /\ t.file = s.file /\ At(t) = At(s) + k /\ Waiting(t) = <<>> /\ t.unget = s.unget

Pops(s, t) ==
    /\ s.unget # <<>>
    /\ t.file = s.file /\ At(t) = At(s) /\ Waiting(t) = <<>> /\ t.unget = Front(s.unget)

Same(s, t) ==
    t.file = s.file /\ At(t) = At(s) /\ Waiting(t) = Waiting(s) /\ t.unget = s.unget

(* If write takes all it is given, fflush writes what waits, or nothing.   *)
LEMMA FlushEffect ==
    ASSUME ~ ShortWrites, NEW s, Kept(s), NEW r \in Fflush(s)
    PROVE  \/ r.ret = FAIL /\ r.s = s /\ s.dirty /\ WriteFails
           \/ r.ret = DONE /\ Flushes(s, r.s)
<1>1. s \in FILE /\ s.offset <= Len(s.file) /\ (s.dirty => s.limit = 0 /\ s.cursor > 0)
  BY DEF Kept
<1>2. CASE ~ s.dirty
  <2>1. r.s = s /\ r.ret = DONE
    BY <1>2 DEF Fflush
  <2>2. Waiting(s) = <<>> /\ SavedTo(s) \in Nat /\ SavedTo(s) <= Len(s.file)
    BY <1>2, InFile
  <2>3. Overlay(s.file, SavedTo(s), <<>>) = s.file
    BY <1>1, <2>2, Fields, OverlayNothing
  <2> QED BY <2>1, <2>2, <2>3 DEF Flushes
<1>3. CASE s.dirty
  <2> DEFINE Out(w) ==
        IF w < 0 THEN [s |-> s, ret |-> FAIL]
        ELSE [s |-> [s EXCEPT !.file = Overlay(@, s.offset, Buffered(s, w)),
                              !.offset = @ + w, !.cursor = 0, !.dirty = FALSE],
              ret |-> DONE]
  <2>1. s.cursor \in Nat /\ s.cursor > 0 /\ s.limit = 0 /\ s.offset \in Nat
    BY <1>1, <1>3, Fields
  <2>2. r \in {Out(w) : w \in KernelWrite(s.cursor)}
    <3>1. ~ (~ s.dirty \/ s.cursor = 0)
      BY <1>3, <2>1
    <3> QED BY <3>1, Zenon DEF Fflush
  <2>3. PICK w \in KernelWrite(s.cursor) : r = Out(w)
    BY <2>2, Zenon
  <2>4. (w = -1 /\ WriteFails) \/ w = s.cursor
    BY DEF KernelWrite
  <2>5. CASE w = -1 /\ WriteFails
    BY <1>3, <2>3, <2>5
  <2>6. CASE w = s.cursor
    <3> DEFINE f == Overlay(s.file, s.offset, Buffered(s, w))
               t == [s EXCEPT !.file = f, !.offset = s.offset + w, !.cursor = 0, !.dirty = FALSE]
    <3>1. r.s = t /\ r.ret = DONE
      BY <2>1, <2>3, <2>6
    <3> HIDE DEF f
    <3>2. /\ t.file = f /\ t.offset = s.offset + w /\ t.cursor = 0 /\ t.dirty = FALSE
          /\ t.limit = s.limit /\ t.unget = s.unget
      BY <1>1 DEF FILE
    <3> HIDE DEF t
    <3>3. Waiting(s) = Buffered(s, w) /\ SavedTo(s) = s.offset /\ At(s) = s.offset + w
      BY <1>3, <2>6, InFile
    <3>4. At(t) = s.offset + w /\ Waiting(t) = <<>>
      BY <2>1, <2>6, <3>2 DEF At, Waiting
    <3>5. t.file = Overlay(s.file, SavedTo(s), Waiting(s))
      BY <3>2, <3>3 DEF f
    <3> QED BY <3>1, <3>2, <3>3, <3>4, <3>5 DEF Flushes
  <2> QED BY <2>4, <2>5, <2>6
<1> QED BY <1>2, <1>3

(* One more byte waits.                                                    *)
LEMMA StoredEffect ==
    ASSUME NEW s, Kept(s), Writable(s), s.cursor < BUFSIZE, NEW c \in Byte
    PROVE  LET t == Stored(s, c)
           IN  /\ t.file = s.file /\ t.unget = s.unget /\ At(t) = At(s) + 1
               /\ SavedTo(t) = SavedTo(s) /\ Waiting(t) = Append(Waiting(s), c)
<1> DEFINE t == Stored(s, c)
<1>1. s \in FILE /\ s.limit = 0 /\ (s.cursor > 0 => s.dirty)
  BY DEF Kept, Writable
<1>2. s.cursor \in Nat /\ s.cursor \in Index /\ s.offset \in Nat /\ BUFSIZE \in Nat
  BY <1>1, Fields DEF Index
<1>3. /\ t.file = s.file /\ t.unget = s.unget /\ t.offset = s.offset /\ t.limit = s.limit
      /\ t.cursor = s.cursor + 1 /\ t.dirty
      /\ t.buffer = [s.buffer EXCEPT ![s.cursor] = c]
  BY <1>1 DEF Stored, FILE
<1> HIDE DEF t
<1>4. At(t) = At(s) + 1
  BY <1>1, <1>2, <1>3 DEF At
<1>5. Waiting(s) = Buffered(s, s.cursor)
  <2>1. CASE s.dirty
    BY <2>1 DEF Waiting
  <2>2. CASE ~ s.dirty
    <3>1. s.cursor = 0
      BY <1>1, <1>2, <2>2
    <3>2. Buffered(s, 0) = <<>>
      BY DEF Buffered
    <3> QED BY <2>2, <3>1, <3>2 DEF Waiting
  <2> QED BY <2>1, <2>2
<1>6. Buffered(s, s.cursor) \in Seq(Byte) /\ Len(Buffered(s, s.cursor)) = s.cursor
  BY <1>1, Fields, BufferedType
<1>7. Waiting(t) = Append(Waiting(s), c)
  <2> DEFINE b == Buffered(s, s.cursor)
  <2>1. Waiting(t) = [i \in 1 .. s.cursor + 1 |-> t.buffer[i - 1]]
    BY <1>3 DEF Waiting, Buffered
  <2>2. \A i \in 1 .. s.cursor : b[i] = s.buffer[i - 1]
    BY DEF Buffered
  <2>3. \A i \in 1 .. s.cursor + 1 : i - 1 \in Index
    BY <1>2 DEF Index
  <2>4. s.buffer \in [Index -> Byte]
    BY <1>1, Fields
  <2> HIDE DEF b
  <2>5. Append(b, c) = [i \in 1 .. s.cursor + 1 |-> IF i = s.cursor + 1 THEN c ELSE b[i]]
    BY <1>2, <1>6 DEF b
  <2>6. ASSUME NEW i \in 1 .. s.cursor + 1
        PROVE  t.buffer[i - 1] = IF i = s.cursor + 1 THEN c ELSE b[i]
    BY <1>2, <1>3, <2>2, <2>3, <2>4
  <2> QED BY <1>5, <2>1, <2>5, <2>6 DEF b
<1>8. SavedTo(t) = SavedTo(s)
  <2>1. Len(Waiting(s)) = s.cursor /\ Len(Append(Waiting(s), c)) = s.cursor + 1
    BY <1>2, <1>5, <1>6
  <2>2. At(s) \in Int
    BY InFile
  <2> QED BY <1>2, <1>4, <1>7, <2>1, <2>2 DEF SavedTo
<1> QED BY <1>3, <1>4, <1>7, <1>8 DEF t

(* Pieces of a sequence that a byte was appended to.                       *)
LEMMA AppendPieces ==
    ASSUME NEW p \in Seq(Byte), NEW c \in Byte
    PROVE  LET n == Len(p)
               all == Append(p, c)
           IN  /\ n \in Nat /\ all \in Seq(Byte) /\ Len(all) = n + 1
               /\ SubSeq(all, 1, 0) = <<>> /\ SubSeq(all, 1, n) = p /\ SubSeq(all, 1, n + 1) = all
               /\ SubSeq(all, n + 1, n + 1) = <<c>> /\ SubSeq(all, n + 2, n + 1) = <<>>
<1> DEFINE n == Len(p)
           all == Append(p, c)
<1>1. n \in Nat /\ all \in Seq(Byte) /\ Len(all) = n + 1
  OBVIOUS
<1>2. SubSeq(all, 1, 0) = <<>> /\ SubSeq(all, n + 2, n + 1) = <<>>
  BY <1>1
<1>3. SubSeq(all, 1, n + 1) = all
  BY <1>1
<1>4. SubSeq(all, n + 1, n + 1) = <<c>>
  <2> DEFINE q == SubSeq(all, n + 1, n + 1)
  <2>1. q \in Seq(Byte) /\ Len(q) = 1 /\ q[1] = all[n + 1]
    BY <1>1
  <2>2. all[n + 1] = c
    BY <1>1
  <2> HIDE DEF q
  <2>3. q = <<c>>
    BY <2>1, <2>2
  <2> QED BY <2>3 DEF q
<1>5. SubSeq(all, 1, n) = p
  BY <1>1
<1> QED BY <1>1, <1>2, <1>3, <1>4, <1>5

(* fputc accepts the byte, unless the buffer is full and write fails.      *)
LEMMA FputcEffect ==
    ASSUME Orderly, ~ ShortWrites, NEW s, Sound(s), Writable(s), NEW c \in Byte, NEW o \in Fputc(s, c)
    PROVE  \/ o.ret = EOF /\ o.s = s
           \/ o.ret = c /\ Puts(s, o.s, c)
<1> DEFINE First == IF s.cursor >= BUFSIZE THEN Fflush(s) ELSE {[s |-> s, ret |-> DONE]}
           Then(r) == IF LINE_BUFFERED /\ c = NEWLINE THEN Fflush(Stored(r.s, c))
                      ELSE {[s |-> Stored(r.s, c), ret |-> DONE]}
           Outs(r) == IF r.ret # DONE THEN {[s |-> r.s, ret |-> EOF]}
                      ELSE {[s |-> q.s, ret |-> c] : q \in Then(r)}
           p == Waiting(s)
           n == Len(p)
           all == Append(p, c)
           at == SavedTo(s)
<1>1. s \in FILE /\ s.limit = 0 /\ (s.cursor > 0 => s.dirty) /\ Kept(s)
  BY DEF Sound, Kept, Writable
<1>2. s.cursor \in Nat /\ s.cursor <= BUFSIZE /\ BUFSIZE \in Nat /\ BUFSIZE > 0
  BY <1>1, Fields DEF Orderly
<1>3. o \in UNION {Outs(r) : r \in First}
  BY Zenon DEF Fputc
<1>4. PICK r \in First : o \in Outs(r)
  BY <1>3, Zenon
<1>a. p \in Seq(Byte) /\ n \in Nat /\ at \in Nat /\ at <= Len(s.file) /\ s.file \in Seq(Byte) /\ at + n = At(s)
  <2>1. p \in Seq(Byte) /\ n \in Nat /\ at \in Nat /\ at <= Len(s.file) /\ At(s) \in Nat
    BY <1>1, InFile
  <2>2. at = At(s) - n
    BY DEF SavedTo
  <2>3. s.file \in Seq(Byte)
    BY <1>1, Fields
  <2> HIDE DEF p, n, at
  <2> QED BY <2>1, <2>2, <2>3
<1>b. /\ all \in Seq(Byte) /\ Len(all) = n + 1
      /\ SubSeq(all, 1, 0) = <<>> /\ SubSeq(all, 1, n) = p /\ SubSeq(all, 1, n + 1) = all
      /\ SubSeq(all, n + 1, n + 1) = <<c>> /\ SubSeq(all, n + 2, n + 1) = <<>>
  BY <1>a, AppendPieces
(* Either the byte is stored after those that wait, or they have just gone *)
(* to the file.                                                            *)
<1>5. /\ r.ret # DONE => o.ret = EOF /\ o.s = s
      /\ r.ret = DONE => /\ Kept(r.s) /\ Sound(r.s) /\ Writable(r.s) /\ r.s.cursor < BUFSIZE
                         /\ r.s = s \/ Flushes(s, r.s)
  <2>1. CASE s.cursor >= BUFSIZE
    <3>1. r \in Fflush(s)
      BY <2>1, <1>4
    <3>2. /\ Sound(r.s) /\ r.s.limit = 0 /\ s.dirty
          /\ r.ret = DONE => r.s.cursor = 0
      BY <1>1, <1>2, <2>1, <3>1, FlushInv
    <3>3. (r.ret = FAIL /\ r.s = s) \/ (r.ret = DONE /\ Flushes(s, r.s))
      BY <1>1, <3>1, FlushEffect
    <3> QED BY <1>2, <1>4, <3>2, <3>3 DEF Sound, Writable, DONE, FAIL
  <2>2. CASE ~ (s.cursor >= BUFSIZE)
    <3>1. r = [s |-> s, ret |-> DONE]
      BY <1>4, <2>2
    <3> QED BY <1>1, <1>2, <2>2, <3>1
  <2> QED BY <2>1, <2>2
<1> HIDE DEF First
<1>6. CASE r.ret # DONE
  BY <1>5, <1>6
<1>7. CASE r.ret = DONE
  <2> DEFINE a == r.s
             b == Stored(a, c)
  <2>1. PICK q \in Then(r) : o = [s |-> q.s, ret |-> c]
    BY <1>4, <1>7, Zenon
  <2>2. /\ b.file = a.file /\ b.unget = a.unget /\ At(b) = At(a) + 1
        /\ SavedTo(b) = SavedTo(a) /\ Waiting(b) = Append(Waiting(a), c)
    BY <1>5, <1>7, StoredEffect
  <2>3. Kept(b)
    BY <1>5, <1>7, StoredInv
  <2>4. q.s = b \/ Flushes(b, q.s)
    <3>1. CASE LINE_BUFFERED /\ c = NEWLINE
      BY <2>3, <3>1, FlushEffect
    <3>2. CASE ~ (LINE_BUFFERED /\ c = NEWLINE)
      BY <3>2
    <3> QED BY <3>1, <3>2
  <2>5. o.s = q.s /\ o.ret = c
    BY <2>1
  <2> HIDE DEF b, Then, Outs
  <2>6. /\ At(o.s) = At(a) + 1 /\ o.s.unget = a.unget
        /\ \/ o.s.file = a.file /\ Waiting(o.s) = Append(Waiting(a), c)
           \/ o.s.file = Overlay(a.file, SavedTo(a), Append(Waiting(a), c)) /\ Waiting(o.s) = <<>>
    BY <2>2, <2>4, <2>5 DEF Flushes
  <2> HIDE DEF a
  <2>7. CASE a = s
    <3>1. CASE o.s.file = a.file /\ Waiting(o.s) = Append(Waiting(a), c)
      <4>1. o.s.file = Overlay(s.file, at, SubSeq(all, 1, 0)) /\ Waiting(o.s) = SubSeq(all, 0 + 1, n + 1)
        <5>1. Overlay(s.file, at, <<>>) = s.file
          BY <1>a, OverlayNothing
        <5>2. Waiting(o.s) = SubSeq(all, 1, n + 1)
          BY <1>b, <2>7, <3>1
        <5>3. 0 + 1 = 1
          OBVIOUS
        <5>4. o.s.file = Overlay(s.file, at, SubSeq(all, 1, 0))
          <6> HIDE DEF all, at, n, p
          <6> QED BY <1>b, <2>7, <3>1, <5>1
        <5> QED BY <5>2, <5>3, <5>4
      <4>2. 0 \in 0 .. n + 1
        BY <1>a
      <4> QED BY <2>5, <2>6, <2>7, <4>1, <4>2 DEF Puts
    <3>2. CASE o.s.file = Overlay(a.file, SavedTo(a), Append(Waiting(a), c)) /\ Waiting(o.s) = <<>>
      <4>1. o.s.file = Overlay(s.file, at, SubSeq(all, 1, n + 1)) /\ Waiting(o.s) = SubSeq(all, (n + 1) + 1, n + 1)
        <5>1. (n + 1) + 1 = n + 2
          BY <1>a
        <5> QED BY <1>b, <2>7, <3>2, <5>1
      <4>2. n + 1 \in 0 .. n + 1
        BY <1>a
      <4> QED BY <2>5, <2>6, <2>7, <4>1, <4>2 DEF Puts
    <3> QED BY <2>6, <3>1, <3>2
  <2>8. CASE Flushes(s, a)
    <3>1. /\ a.file = Overlay(s.file, at, p) /\ At(a) = at + n /\ Waiting(a) = <<>> /\ a.unget = s.unget
          /\ SavedTo(a) = at + n /\ Append(Waiting(a), c) = <<c>>
      <4>1. a.file = Overlay(s.file, at, p) /\ At(a) = at + n /\ Waiting(a) = <<>> /\ a.unget = s.unget
        BY <1>a, <2>8 DEF Flushes
      <4>2. at + n \in Nat /\ Len(<<>>) = 0 /\ Append(<<>>, c) = <<c>>
        BY <1>a
      <4> QED BY <4>1, <4>2 DEF SavedTo
    <3>2. At(o.s) = At(s) + 1 /\ o.s.unget = s.unget
      BY <1>a, <2>6, <3>1
    <3>3. CASE o.s.file = a.file /\ Waiting(o.s) = Append(Waiting(a), c)
      <4>1. o.s.file = Overlay(s.file, at, SubSeq(all, 1, n)) /\ Waiting(o.s) = SubSeq(all, n + 1, n + 1)
        BY <1>b, <3>1, <3>3
      <4>2. n \in 0 .. n + 1
        BY <1>a
      <4> QED BY <2>5, <3>2, <4>1, <4>2 DEF Puts
    <3>4. CASE o.s.file = Overlay(a.file, SavedTo(a), Append(Waiting(a), c)) /\ Waiting(o.s) = <<>>
      <4>1. o.s.file = Overlay(s.file, at, SubSeq(all, 1, n + 1)) /\ Waiting(o.s) = SubSeq(all, (n + 1) + 1, n + 1)
        <5>1. (n + 1) + 1 = n + 2
          BY <1>a
        <5>2. Overlay(Overlay(s.file, at, p), at + n, <<c>>) = Overlay(s.file, at, all)
          BY <1>a, OverlayTwice
        <5> QED BY <1>b, <3>1, <3>4, <5>1, <5>2
      <4>2. n + 1 \in 0 .. n + 1
        BY <1>a
      <4> QED BY <2>5, <3>2, <4>1, <4>2 DEF Puts
    <3> QED BY <2>6, <3>3, <3>4
  <2> QED BY <1>5, <1>7, <2>7, <2>8 DEF a
<1> QED BY <1>6, <1>7

(* What read answers when it has nothing, or less than was asked for.      *)
LEMMA ReadEnd ==
    ASSUME NEW s \in FILE, s.offset <= Len(s.file), NEW n \in Nat, n > 0, NEW r \in KernelRead(s, n)
    PROVE  /\ r <= 0 => ReadFails \/ s.offset = Len(s.file)
           /\ 0 < r /\ r < n => ShortReads \/ s.offset + r = Len(s.file)
<1> DEFINE most == Min({n, Available(s)})
<1>1. Available(s) \in Nat /\ Available(s) = Len(s.file) - s.offset /\ s.offset \in Nat /\ Len(s.file) \in Nat
  BY Fields DEF Available
<1>2. most = IF n <= Available(s) THEN n ELSE Available(s)
  BY <1>1, MinOfTwo
<1>3. (r = -1 /\ ReadFails) \/ (ShortReads /\ most > 0 /\ r \in 1 .. most) \/ (~ (ShortReads /\ most > 0) /\ r = most)
  BY DEF KernelRead
<1> HIDE DEF most
<1> QED BY <1>1, <1>2, <1>3

(* The next k bytes of the buffer are the next of the file.                *)
LEMMA AdvanceEffect ==
    ASSUME NEW s, Kept(s), ~ s.dirty, s.unget = <<>>, NEW k \in Nat, k > 0, s.cursor + k <= s.limit,
           NEW t, t = [s EXCEPT !.cursor = @ + k]
    PROVE  Takes(s, t, k, [i \in 1 .. k |-> s.buffer[s.cursor + i - 1]])
<1> DEFINE took == [i \in 1 .. k |-> s.buffer[s.cursor + i - 1]]
<1>1. s \in FILE
  BY DEF Kept
<1>2. /\ t.file = s.file /\ t.offset = s.offset /\ t.cursor = s.cursor + k /\ t.limit = s.limit
      /\ t.dirty = s.dirty /\ t.unget = s.unget
  BY <1>1 DEF FILE
<1>3. s.file \in Seq(Byte) /\ Len(s.file) \in Nat /\ s.offset \in Nat /\ s.cursor \in Nat /\ s.limit \in Nat
  BY <1>1, Fields
<1>4. At(t) = At(s) + k /\ Waiting(t) = <<>> /\ At(s) = s.offset - s.limit + s.cursor
  BY <1>2, <1>3 DEF At, Waiting
<1>5. At(s) \in Nat
  BY InFile
<1>6. \A i \in 1 .. k : /\ At(s) + i \in 1 .. Len(s.file)
                        /\ s.buffer[s.cursor + i - 1] = s.file[At(s) + i]
  <2> TAKE i \in 1 .. k
  <2>1. s.cursor + i - 1 \in s.cursor .. s.limit - 1
    BY <1>3
  <2>2. s.offset - s.limit + (s.cursor + i - 1) + 1 = At(s) + i
    BY <1>3, <1>4
  <2>3. /\ s.offset - s.limit + (s.cursor + i - 1) + 1 \in 1 .. Len(s.file)
        /\ s.buffer[s.cursor + i - 1] = s.file[s.offset - s.limit + (s.cursor + i - 1) + 1]
    BY <2>1 DEF Kept, Mirrors
  <2> QED BY <2>2, <2>3
<1>7. k \in 1 .. Len(s.file) - At(s)
  <2>1. At(s) + k \in 1 .. Len(s.file)
    BY <1>6
  <2> QED BY <1>3, <1>5, <2>1
<1>8. took = SubSeq(s.file, At(s) + 1, At(s) + k)
  <2> DEFINE a == At(s)
             q == SubSeq(s.file, a + 1, a + k)
  <2>1. a \in Nat /\ a + k <= Len(s.file)
    BY <1>3, <1>5, <1>7
  <2> HIDE DEF a
  <2>2. q = [i \in 1 .. k |-> s.file[a + i]]
    BY <1>3, <2>1
  <2> HIDE DEF q
  <2>3. \A i \in 1 .. k : s.buffer[s.cursor + i - 1] = s.file[a + i]
    BY <1>6 DEF a
  <2>4. took = q
    BY <2>2, <2>3
  <2> QED BY <2>4 DEF a, q
<1> HIDE DEF took
<1>9. Takes(s, t, k, took)
  BY <1>2, <1>4, <1>7, <1>8 DEF Takes
<1> QED BY <1>9 DEF took

LEMMA PoppedEffect ==
    ASSUME NEW s, Kept(s), ~ s.dirty, s.unget # <<>>, NEW t, t = [s EXCEPT !.unget = Front(@)]
    PROVE  Pops(s, t)
<1>1. s \in FILE
  BY DEF Kept
<1>2. /\ t.file = s.file /\ t.offset = s.offset /\ t.cursor = s.cursor /\ t.limit = s.limit
      /\ t.dirty = s.dirty /\ t.unget = Front(s.unget)
  BY <1>1 DEF FILE
<1> QED BY <1>2 DEF Pops, At, Waiting

(* A refill changes nothing for the program: with the buffer used up, it   *)
(* is where the descriptor is.                                             *)
LEMMA RefilledEffect ==
    ASSUME NEW s, Kept(s), ~ s.dirty, ~ (s.cursor < s.limit),
           NEW n \in 1 .. BUFSIZE, s.offset + n <= Len(s.file)
    PROVE  Same(s, Refilled(s, n)) /\ Kept(Refilled(s, n))
<1> DEFINE t == Refilled(s, n)
<1>1. s \in FILE /\ s.cursor <= s.limit /\ n \in Nat
  BY Fields DEF Kept
<1>2. /\ t.file = s.file /\ t.offset = s.offset + n /\ t.cursor = 0 /\ t.limit = n /\ t.dirty = s.dirty
      /\ t.unget = s.unget
  BY <1>1 DEF Refilled, FILE
<1>3. s.offset \in Nat /\ s.cursor \in Nat /\ s.limit \in Nat
  BY <1>1, Fields
<1>4. Kept(t)
  BY RefilledInv DEF Sound
<1> HIDE DEF t
<1>5. At(t) = At(s) /\ Waiting(t) = Waiting(s)
  BY <1>1, <1>2, <1>3 DEF At, Waiting
<1> QED BY <1>2, <1>4, <1>5 DEF Same, t

LEMMA SameTakes ==
    ASSUME NEW s, NEW t, NEW u, NEW k, NEW took, Same(s, t), Takes(t, u, k, took)
    PROVE  Takes(s, u, k, took)
  BY DEF Same, Takes

(* fgetc answers the byte pushed back last, or the next byte of the file,  *)
(* and EOF only at the end of the file or when read fails: as long as no   *)
(* byte pushed back is 255, which a char makes EOF.                        *)
LEMMA FgetcEffect ==
    ASSUME Orderly, 255 \notin Byte, NEW s, Sound(s), ~ s.dirty, NEW o \in Fgetc(s)
    PROVE  \/ o.ret = EOF /\ o.s = s /\ ~ (s.cursor < s.limit) /\ (ReadFails \/ s.offset = Len(s.file))
           \/ o.ret # EOF /\ Takes(s, o.s, 1, <<o.ret>>)
           \/ o.ret # EOF /\ Pops(s, o.s) /\ o.ret = SignedChar(Last(s.unget))
<1>1. s \in FILE /\ Kept(s) /\ s.offset <= Len(s.file)
  BY DEF Sound, Kept
<1>2. BUFSIZE \in Nat /\ BUFSIZE > 0 /\ Byte \subseteq 0 .. 255 /\ EOF = -1
  BY StreamAssumption DEF Orderly, EOF
<1>3. ASSUME NEW t, Kept(t), ~ t.dirty, t.unget = <<>>, t.cursor < t.limit, o = Next1(t)
      PROVE  o.ret # EOF /\ Takes(t, o.s, 1, <<o.ret>>)
  <2>1. t \in FILE
    BY <1>3 DEF Kept
  <2>2. t.cursor + 1 <= t.limit /\ t.cursor \in Index /\ t.cursor \in Nat
    BY <1>3, <2>1, Fields DEF Index
  <2>3. o.s = [t EXCEPT !.cursor = @ + 1] /\ o.ret = t.buffer[t.cursor]
    BY <1>3 DEF Next1
  <2>4. o.ret \in Byte
    BY <2>1, <2>2, <2>3, Fields
  <2>5. Takes(t, o.s, 1, [i \in 1 .. 1 |-> t.buffer[t.cursor + i - 1]])
    <3> DEFINE k == 1
    <3>1. k \in Nat /\ k > 0 /\ t.cursor + k <= t.limit /\ o.s = [t EXCEPT !.cursor = @ + k]
      BY <2>2, <2>3
    <3> HIDE DEF k
    <3>2. Takes(t, o.s, k, [i \in 1 .. k |-> t.buffer[t.cursor + i - 1]])
      BY <1>3, <3>1, AdvanceEffect
    <3> QED BY <3>2 DEF k
  <2>6. [i \in 1 .. 1 |-> t.buffer[t.cursor + i - 1]] = <<o.ret>>
    <3>1. t.cursor + 1 - 1 = t.cursor
      BY <2>2
    <3> QED BY <2>3, <3>1
  <2> QED BY <1>2, <2>4, <2>5, <2>6
<1>4. CASE s.unget # <<>>
  <2>1. o.s = [s EXCEPT !.unget = Front(@)] /\ o.ret = SignedChar(Last(s.unget))
    BY <1>4 DEF Fgetc
  <2>2. Last(s.unget) \in Byte
    BY <1>1, <1>4, PoppedInv
  <2>3. o.ret # EOF
    BY <1>2, <2>1, <2>2 DEF SignedChar
  <2> QED BY <1>1, <1>4, <2>1, <2>3, PoppedEffect
<1>5. CASE s.unget = <<>> /\ s.cursor < s.limit
  BY <1>1, <1>3, <1>5 DEF Fgetc
<1>6. CASE s.unget = <<>> /\ ~ (s.cursor < s.limit)
  <2>1. PICK n \in KernelRead(s, BUFSIZE) :
          o = IF n <= 0 THEN [s |-> s, ret |-> EOF] ELSE Next1(Refilled(s, n))
    BY <1>6 DEF Fgetc
  <2>2. n = -1 \/ (n \in 0 .. BUFSIZE /\ s.offset + n <= Len(s.file))
    BY <1>1, <1>2, <2>1, ReadAnswer
  <2>3. CASE n <= 0
    BY <1>1, <1>2, <1>6, <2>1, <2>3, ReadEnd
  <2>4. CASE ~ (n <= 0)
    <3> DEFINE t == Refilled(s, n)
    <3>1. n \in 1 .. BUFSIZE /\ s.offset + n <= Len(s.file)
      BY <1>2, <2>2, <2>4
    <3>2. Same(s, t) /\ Kept(t)
      BY <1>1, <1>6, <3>1, RefilledEffect
    <3>3. ~ t.dirty /\ t.cursor < t.limit
      BY <1>1, <3>1, RefilledInv
    <3>4. t.unget = <<>>
      BY <1>6, <3>2 DEF Same
    <3>5. o = Next1(t)
      BY <2>1, <2>4
    <3> HIDE DEF t
    <3>6. o.ret # EOF /\ Takes(t, o.s, 1, <<o.ret>>)
      BY <1>3, <3>2, <3>3, <3>4, <3>5
    <3> QED BY <3>2, <3>6, SameTakes
  <2> QED BY <2>2, <2>3, <2>4
<1> QED BY <1>4, <1>5, <1>6

(* A turn of fread delivers the byte pushed back last or the next bytes of *)
(* the file, or refills the buffer; it breaks only at the end of the file  *)
(* or when read fails or has less than was asked for.                      *)
AtEnd(s) == s.offset = Len(s.file) /\ ~ (s.cursor < s.limit)

LEMMA FreadEffect ==
    ASSUME Orderly, NEW s, Sound(s), ~ s.dirty, NEW left \in Nat, left > 0, NEW o \in Fread1(s, left)
    PROVE  /\ \/ Same(s, o.s) /\ o.took = <<>>
              \/ \E k \in Nat : Takes(s, o.s, k, o.took)
              \/ Pops(s, o.s) /\ o.took = <<Last(s.unget)>>
           /\ o.stop => ReadFails \/ ShortReads \/ AtEnd(o.s)
<1>1. s \in FILE /\ Kept(s) /\ s.offset <= Len(s.file)
  BY DEF Sound, Kept
<1>2. BUFSIZE \in Nat /\ BUFSIZE > 0
  BY StreamAssumption DEF Orderly
<1>2a. ~ (s.cursor < s.limit) => ~ (s.cursor # s.limit)
  BY <1>1, Fields DEF Kept
<1>3. CASE s.unget # <<>>
  <2>1. o = [s |-> [s EXCEPT !.unget = Front(@)], took |-> <<Last(s.unget)>>, stop |-> FALSE]
    BY <1>3 DEF Fread1
  <2>2. o.s = [s EXCEPT !.unget = Front(@)] /\ o.took = <<Last(s.unget)>> /\ ~ o.stop
    BY <2>1
  <2> QED BY <1>1, <1>3, <2>2, PoppedEffect
<1>4. CASE s.unget = <<>> /\ s.cursor < s.limit
  <2> DEFINE take == Min({s.limit - s.cursor, left})
  <2>1. o = [s |-> [s EXCEPT !.cursor = @ + take],
             took |-> [i \in 1 .. take |-> s.buffer[s.cursor + i - 1]], stop |-> FALSE]
    <3>1. s.cursor # s.limit
      BY <1>1, <1>4, Fields
    <3>2. FromBuffer(s, left) = take
      BY <1>4 DEF FromBuffer
    <3> QED BY <1>4, <3>1, <3>2 DEF Fread1
  <2>2. take \in Nat /\ take > 0 /\ s.cursor + take <= s.limit
    <3>1. s.limit \in Nat /\ s.cursor \in Nat
      BY <1>1, Fields
    <3>2. take = IF s.limit - s.cursor <= left THEN s.limit - s.cursor ELSE left
      BY <3>1, MinOfTwo
    <3> HIDE DEF take
    <3> QED BY <1>4, <3>1, <3>2
  <2> HIDE DEF take
  <2>3. /\ o.s = [s EXCEPT !.cursor = @ + take] /\ ~ o.stop
        /\ o.took = [i \in 1 .. take |-> s.buffer[s.cursor + i - 1]]
    BY <2>1
  <2>4. Takes(s, o.s, take, o.took)
    BY <1>1, <1>4, <2>2, <2>3, AdvanceEffect
  <2> QED BY <2>2, <2>3, <2>4
<1>5. CASE s.unget = <<>> /\ ~ (s.cursor < s.limit) /\ left >= BUFSIZE
  <2>0. Whole(left) \in Nat /\ Whole(left) > 0
    <3> DEFINE q == left \div BUFSIZE
    <3>1. q \in Nat /\ q > 0 /\ q * BUFSIZE \in Nat /\ q * BUFSIZE > 0
      BY <1>2, <1>5, Z3
    <3> QED BY <3>1 DEF Whole
  <2>1. PICK n \in KernelRead(s, Whole(left)) :
          o = IF n <= 0 THEN [s |-> s, took |-> <<>>, stop |-> TRUE]
              ELSE [s |-> [s EXCEPT !.offset = @ + n], took |-> Segment(s, n), stop |-> n < Whole(left)]
    BY <1>2a, <1>5 DEF Fread1
  <2>2. n = -1 \/ (n \in 0 .. Whole(left) /\ s.offset + n <= Len(s.file))
    BY <1>1, <2>0, <2>1, ReadAnswer
  <2>a. /\ n <= 0 => ReadFails \/ s.offset = Len(s.file)
        /\ 0 < n /\ n < Whole(left) => ShortReads \/ s.offset + n = Len(s.file)
    BY <1>1, <2>0, <2>1, ReadEnd
  <2>3. CASE n <= 0
    <3>1. o.s = s /\ o.took = <<>>
      BY <2>1, <2>3
    <3> QED BY <1>5, <2>3, <2>a, <3>1 DEF Same, AtEnd
  <2>4. CASE ~ (n <= 0)
    <3> DEFINE t == [s EXCEPT !.offset = @ + n]
    <3>1. n \in Nat /\ n > 0 /\ s.offset \in Nat /\ s.offset + n <= Len(s.file) /\ s.file \in Seq(Byte)
      BY <1>1, <2>0, <2>2, <2>4, Fields
    <3>2. o.s = t /\ o.took = Segment(s, n) /\ o.stop = (n < Whole(left))
      BY <2>1, <2>4
    <3>3. /\ t.file = s.file /\ t.offset = s.offset + n /\ t.cursor = s.cursor /\ t.limit = s.limit
          /\ t.dirty = s.dirty /\ t.unget = s.unget
      BY <1>1 DEF FILE
    <3> HIDE DEF t
    <3>4. s.cursor = s.limit /\ s.cursor \in Nat
      BY <1>1, <1>5, Fields DEF Kept
    <3>5. At(s) = s.offset /\ At(t) = s.offset + n /\ Waiting(t) = <<>>
      BY <3>1, <3>3, <3>4 DEF At, Waiting
    <3>6. Takes(s, t, n, Segment(s, n))
      <4>1. n \in 1 .. Len(s.file) - s.offset
        BY <3>1
      <4> QED BY <1>5, <3>3, <3>5, <4>1 DEF Takes, Segment
    <3>7. o.stop => ReadFails \/ ShortReads \/ AtEnd(t)
      <4>1. n < Whole(left) => ShortReads \/ t.offset = Len(t.file)
        BY <2>a, <3>1, <3>3
      <4>2. o.stop => n < Whole(left)
        BY <3>2, Zenon
      <4>3. ~ (t.cursor < t.limit)
        BY <3>3, <3>4
      <4> QED BY <4>1, <4>2, <4>3 DEF AtEnd
    <3> QED BY <3>1, <3>2, <3>6, <3>7
  <2> QED BY <2>0, <2>2, <2>3, <2>4
<1>6. CASE s.unget = <<>> /\ ~ (s.cursor < s.limit) /\ ~ (left >= BUFSIZE)
  <2>1. PICK n \in KernelRead(s, BUFSIZE) :
          o = IF n <= 0 THEN [s |-> s, took |-> <<>>, stop |-> TRUE]
              ELSE [s |-> Refilled(s, n), took |-> <<>>, stop |-> FALSE]
    BY <1>2a, <1>6 DEF Fread1
  <2>2. n = -1 \/ (n \in 0 .. BUFSIZE /\ s.offset + n <= Len(s.file))
    BY <1>1, <1>2, <2>1, ReadAnswer
  <2>3. CASE n <= 0
    <3>1. ReadFails \/ s.offset = Len(s.file)
      BY <1>1, <1>2, <2>1, <2>3, ReadEnd
    <3>2. o.s = s /\ o.took = <<>>
      BY <2>1, <2>3
    <3> QED BY <1>6, <3>1, <3>2 DEF Same, AtEnd
  <2>4. CASE ~ (n <= 0)
    <3>1. n \in 1 .. BUFSIZE /\ s.offset + n <= Len(s.file)
      BY <1>2, <2>2, <2>4
    <3>2. o.s = Refilled(s, n) /\ o.took = <<>> /\ ~ o.stop
      BY <2>1, <2>4
    <3> QED BY <1>1, <1>6, <3>1, <3>2, RefilledEffect
  <2> QED BY <1>2, <2>2, <2>3, <2>4
<1> QED BY <1>3, <1>4, <1>5, <1>6

-----------------------------------------------------------------------------
(* The stream implements AbstractStream: each of these effects is one of   *)
(* its steps.  What the kernel may not do here is write less than it is    *)
(* given, and what the program may not push back is the byte 255.          *)
Dependable == Orderly /\ ~ ShortWrites /\ 255 \notin Byte

LEMMA WriteIsOverlay ==
    ASSUME NEW file \in Seq(Byte), NEW at \in Nat, NEW bytes \in Seq(Byte)
    PROVE  Abstract!Write(file, at, bytes) = Overlay(file, at, bytes)
<1>1. Len(file) \in Int /\ at + Len(bytes) \in Int
  OBVIOUS
<1>2. Max({Len(file), at + Len(bytes)}) = IF at + Len(bytes) > Len(file) THEN at + Len(bytes) ELSE Len(file)
  BY <1>1, MaxOfTwo
<1> QED BY <1>2 DEF Overlay, Abstract!Write

LEMMA NothingStep ==
    ASSUME Same(stream, stream'), result'.took = <<>>
    PROVE  Abstract!Next
<1>1. Abstract!Nothing
  BY DEF Abstract!Nothing, Same, At, Waiting, Position
<1> QED BY <1>1 DEF Abstract!Next

LEMMA FlushStep ==
    ASSUME Kept(stream), Flushes(stream, stream'), result'.took = <<>>
    PROVE  Abstract!Next
<1> DEFINE p == Waiting(stream)
<1>1. /\ p \in Seq(Byte) /\ Len(p) \in Nat /\ SavedTo(stream) \in Nat /\ stream.file \in Seq(Byte)
      /\ SavedTo(stream) = Position - Len(p)
  BY InFile, Fields DEF Kept, SavedTo, At, Position
<1>2. SubSeq(p, 1, Len(p)) = p /\ SubSeq(p, Len(p) + 1, Len(p)) = <<>>
  BY <1>1
<1>3. /\ stream'.file = Overlay(stream.file, SavedTo(stream), p) /\ Position' = Position
      /\ Waiting(stream') = <<>> /\ stream'.unget = stream.unget
  BY DEF Flushes, At, Position
<1>4. Abstract!Write(stream.file, Position - Len(p), SubSeq(p, 1, Len(p))) = stream'.file
  BY <1>1, <1>2, <1>3, WriteIsOverlay
<1>5. Abstract!Save(p, Position, Len(p))
  BY <1>2, <1>3, <1>4 DEF Abstract!Save, Waiting
<1>6. Abstract!Flush
  BY <1>3, <1>5 DEF Abstract!Flush, Waiting
<1> QED BY <1>6 DEF Abstract!Next

LEMMA PutStep ==
    ASSUME Kept(stream), NEW c \in Byte, Puts(stream, stream', c), result'.took = <<>>
    PROVE  Abstract!Next
<1> DEFINE p == Waiting(stream)
           all == Append(p, c)
<1>1. p \in Seq(Byte) /\ Len(p) \in Nat /\ SavedTo(stream) \in Nat /\ stream.file \in Seq(Byte) /\ Position \in Nat
  BY InFile, Fields DEF Kept, At, Position
<1>2. all \in Seq(Byte) /\ Len(all) = Len(p) + 1 /\ SavedTo(stream) = Position - Len(p)
  BY <1>1 DEF SavedTo, At, Position
<1>3. PICK k \in 0 .. Len(p) + 1 :
        /\ stream'.file = Overlay(stream.file, SavedTo(stream), SubSeq(all, 1, k))
        /\ Waiting(stream') = SubSeq(all, k + 1, Len(p) + 1)
  BY DEF Puts
<1>4. Position' = Position + 1 /\ stream'.unget = stream.unget
  BY DEF Puts, At, Position
<1> HIDE DEF all
<1>5. (Position + 1) - Len(all) = SavedTo(stream)
  BY <1>1, <1>2
<1>6. SubSeq(all, 1, k) \in Seq(Byte)
  BY <1>1, <1>2, <1>3
<1>7. Abstract!Write(stream.file, SavedTo(stream), SubSeq(all, 1, k)) = stream'.file
  BY <1>1, <1>3, <1>6, WriteIsOverlay
<1>8. Abstract!Save(all, Position + 1, k)
  BY <1>2, <1>3, <1>5, <1>7 DEF Abstract!Save, Waiting
<1>9. Abstract!Put(c)
  BY <1>3, <1>4, <1>8 DEF Abstract!Put, Waiting, all
<1> QED BY <1>9 DEF Abstract!Next

LEMMA TakeStep ==
    ASSUME ~ stream.dirty, NEW k \in Nat, Takes(stream, stream', k, result'.took)
    PROVE  Abstract!Next
<1>1. k \in 1 .. Len(stream.file) - Position
  BY DEF Takes, At, Position
<1>2. Abstract!Take(k)
  BY DEF Abstract!Take, Takes, At, Waiting, Position
<1> QED BY <1>1, <1>2 DEF Abstract!Next

LEMMA TakePushedStep ==
    ASSUME Kept(stream), ~ stream.dirty, Pops(stream, stream'),
           result'.took \in {<<Last(stream.unget)>>, <<SignedChar(Last(stream.unget))>>}
    PROVE  Abstract!Next
<1> DEFINE u == stream.unget
<1>1. u # <<>> /\ stream'.unget = Front(u) /\ u \in Seq(Byte)
  BY Fields DEF Pops, Kept
<1>2. Front(u) = SubSeq(u, 1, Len(u) - 1) /\ Last(u) = u[Len(u)]
  BY DEF Front, Last
<1>3. result'.took \in {<<u[Len(u)]>>, <<u[Len(u)] - 256>>}
  BY <1>2 DEF SignedChar
<1>4. Abstract!TakePushed
  BY <1>1, <1>2, <1>3 DEF Abstract!TakePushed, Pops, At, Waiting, Position
<1> QED BY <1>4 DEF Abstract!Next

-----------------------------------------------------------------------------
(* Every step of the program is one of AbstractStream, or none.            *)
LEMMA FputcRefines == ASSUME Dependable, IInv, NEW c \in Byte, fputc(c) PROVE Abstract!Next
<1>1. mode \in {"idle", "writing"} /\ Sound(stream) /\ Writable(stream) /\ Kept(stream)
  BY DEF fputc, MayWrite, Free, IInv, Sound
<1>2. PICK o \in Fputc(stream, c) : Answer(o, <<>>)
  BY DEF fputc
<1>3. (o.ret = EOF /\ o.s = stream) \/ (o.ret = c /\ Puts(stream, o.s, c))
  BY <1>1, <1>2, FputcEffect DEF Dependable
<1>4. stream' = o.s /\ result'.took = <<>>
  BY <1>2 DEF Answer
<1>5. CASE o.s = stream
  BY <1>4, <1>5, NothingStep DEF Same, At, Waiting
<1>6. CASE Puts(stream, o.s, c)
  BY <1>1, <1>4, <1>6, PutStep
<1> QED BY <1>3, <1>5, <1>6

(* fflush, ftell and fclose; ftell and fclose do not look at the answer.   *)
LEMMA FlushRefines ==
    ASSUME Dependable, IInv, NEW r \in Fflush(stream), stream' = r.s, result'.took = <<>>
    PROVE  Abstract!Next
<1>1. Kept(stream)
  BY DEF IInv, Sound
<1>2. r.s = stream \/ Flushes(stream, r.s)
  BY <1>1, FlushEffect DEF Dependable
<1>3. CASE r.s = stream
  BY <1>3, NothingStep DEF Same, At, Waiting
<1>4. CASE Flushes(stream, r.s)
  BY <1>1, <1>4, FlushStep
<1> QED BY <1>2, <1>3, <1>4

LEMMA FflushRefines == ASSUME Dependable, IInv, fflush \/ ftell \/ fclose PROVE Abstract!Next
<1>1. CASE fflush
  <2>1. PICK o \in Fflush(stream) : Answer(o, <<>>)
    BY <1>1 DEF fflush
  <2> QED BY <2>1, FlushRefines DEF Answer
<1>2. CASE ftell
  <2>1. PICK r \in Fflush(stream) : Answer([s |-> r.s, ret |-> r.s.offset - Ahead(r.s)], <<>>)
    BY <1>2 DEF ftell, Ftell
  <2>2. stream' = r.s /\ result'.took = <<>>
    BY <2>1 DEF Answer
  <2> QED BY <2>2, FlushRefines
<1>3. CASE fclose
  <2>1. PICK r \in Fflush(stream) : Answer([r EXCEPT !.ret = DONE], <<>>)
    BY <1>3 DEF fclose
  <2>2. r = [s |-> r.s, ret |-> r.ret]
    BY FlushInv DEF IInv, Sound
  <2>3. stream' = r.s /\ result'.took = <<>>
    BY <2>1, <2>2 DEF Answer
  <2> QED BY <2>3, FlushRefines
<1> QED BY <1>1, <1>2, <1>3

(* A byte read by fgetc, by itself or for fgets.                           *)
LEMMA ByteRefines ==
    ASSUME Dependable, IInv, ~ stream.dirty, NEW o \in Fgetc(stream), stream' = o.s,
           result'.took = IF o.ret = EOF THEN <<>> ELSE <<o.ret>>
    PROVE  Abstract!Next
<1>1. Sound(stream) /\ Kept(stream)
  BY DEF IInv, Sound
<1>2. \/ o.ret = EOF /\ o.s = stream
      \/ o.ret # EOF /\ Takes(stream, o.s, 1, <<o.ret>>)
      \/ o.ret # EOF /\ Pops(stream, o.s) /\ o.ret = SignedChar(Last(stream.unget))
  BY <1>1, FgetcEffect DEF Dependable
<1>3. CASE o.ret = EOF /\ o.s = stream
  BY <1>3, NothingStep DEF Same, At, Waiting
<1>4. CASE o.ret # EOF /\ Takes(stream, o.s, 1, <<o.ret>>)
  BY <1>4, TakeStep
<1>5. CASE o.ret # EOF /\ Pops(stream, o.s) /\ o.ret = SignedChar(Last(stream.unget))
  BY <1>1, <1>5, TakePushedStep
<1> QED BY <1>2, <1>3, <1>4, <1>5

LEMMA FgetcRefines == ASSUME Dependable, IInv, fgetc PROVE Abstract!Next
<1>1. ~ stream.dirty
  BY DEF fgetc, MayRead, Free, IInv
<1>2. PICK o \in Fgetc(stream) : Answer(o, IF o.ret = EOF THEN <<>> ELSE <<o.ret>>)
  BY DEF fgetc
<1> QED BY <1>1, <1>2, ByteRefines DEF Answer

LEMMA UngetcRefines == ASSUME IInv, NEW c \in Byte, ungetc(c) PROVE Abstract!Next
<1>1. stream \in FILE
  BY DEF IInv, Sound, Kept
<1>2. stream' = Ungetc(stream, c).s /\ result'.took = <<>>
  BY DEF ungetc, Answer
<1>3. CASE Len(stream.unget) < UNGET_MAX
  <2>1. stream' = [stream EXCEPT !.unget = Append(@, c)]
    BY <1>2, <1>3 DEF Ungetc
  <2>2. /\ stream'.file = stream.file /\ stream'.offset = stream.offset /\ stream'.cursor = stream.cursor
        /\ stream'.limit = stream.limit /\ stream'.dirty = stream.dirty /\ stream'.buffer = stream.buffer
        /\ stream'.unget = Append(stream.unget, c)
    BY <1>1, <2>1 DEF FILE
  <2>3. Abstract!Push(c)
    BY <1>2, <2>2 DEF Abstract!Push, Position, Buffered
  <2> QED BY <2>3 DEF Abstract!Next
<1>4. CASE ~ (Len(stream.unget) < UNGET_MAX)
  <2>1. stream' = stream
    BY <1>2, <1>4 DEF Ungetc
  <2> QED BY <1>2, <2>1, NothingStep DEF Same, At, Waiting
<1> QED BY <1>3, <1>4

LEMMA OverlayBound ==
    ASSUME NEW file \in Seq(Byte), NEW at \in Nat, at <= Len(file), NEW bytes \in Seq(Byte)
    PROVE  Len(Overlay(file, at, bytes)) <= Len(file) + Len(bytes)
<1> DEFINE n == IF Len(file) >= at + Len(bytes) THEN Len(file) ELSE at + Len(bytes)
<1>1. n \in Nat /\ n <= Len(file) + Len(bytes) /\ Max({Len(file), at + Len(bytes)}) = n
  BY MaxOfTwo
<1> HIDE DEF n
<1>2. Len(Overlay(file, at, bytes)) = n
  BY <1>1 DEF Overlay
<1> QED BY <1>1, <1>2

(* fseek writes what waits and forgets what was read ahead or pushed back. *)
(* The program is at the target, if lseek takes it, and somewhere in the   *)
(* file if not.                                                            *)
LEMMA FseekEffect ==
    ASSUME ~ ShortWrites, NEW s, Sound(s), WriteFails => ~ s.dirty, NEW offset, NEW whence,
           NEW o \in Fseek(s, offset, whence)
    PROVE  /\ o.s.file = Overlay(s.file, SavedTo(s), Waiting(s))
           /\ Waiting(o.s) = <<>> /\ o.s.unget = <<>>
           /\ At(o.s) \in 0 .. Len(s.file) + Len(Waiting(s))
           /\ o.ret = DONE => \E r \in Fflush(s) : At(o.s) = Target(r.s, offset, whence)
<1>1. PICK r \in Fflush(s) :
        o = Lseek([r.s EXCEPT !.cursor = 0, !.limit = 0, !.unget = <<>>], Target(r.s, offset, whence))
  BY DEF Fseek
<1>2. Kept(s)
  BY DEF Sound
<1>3. Sound(r.s) /\ ~ r.s.dirty /\ r.s.file = Overlay(s.file, SavedTo(s), Waiting(s))
  <2>1. \/ r.ret = FAIL /\ r.s = s /\ s.dirty /\ WriteFails
        \/ r.ret = DONE /\ Flushes(s, r.s)
    BY <1>2, FlushEffect
  <2>2. r.ret = DONE /\ Flushes(s, r.s)
    BY <2>1
  <2> QED BY <1>2, <2>2, FlushInv DEF Flushes
<1> DEFINE t == [r.s EXCEPT !.cursor = 0, !.limit = 0, !.unget = <<>>]
           to == Target(r.s, offset, whence)
<1>4. r.s \in FILE /\ r.s.offset \in Nat /\ r.s.offset <= Len(r.s.file)
  BY <1>3, Fields DEF Sound, Kept
<1>5. /\ t.file = r.s.file /\ t.offset = r.s.offset /\ t.cursor = 0 /\ t.limit = 0 /\ ~ t.dirty
      /\ t.unget = <<>>
      /\ [t EXCEPT !.offset = to] = [r.s EXCEPT !.offset = to, !.cursor = 0, !.limit = 0, !.unget = <<>>]
  BY <1>3, <1>4 DEF FILE
<1>6. Len(r.s.file) \in Nat /\ Len(r.s.file) <= Len(s.file) + Len(Waiting(s))
  <2>1. s.file \in Seq(Byte)
    BY <1>2, Fields DEF Kept
  <2>2. SavedTo(s) \in Nat /\ SavedTo(s) <= Len(s.file) /\ Waiting(s) \in Seq(Byte)
    BY <1>2, InFile
  <2>3. Len(r.s.file) \in Nat
    BY <1>4, Fields
  <2> QED BY <1>3, <2>1, <2>2, <2>3, OverlayBound
<1>a. Len(s.file) \in Nat /\ Len(Waiting(s)) \in Nat
  BY <1>2, InFile, Fields DEF Kept
<1>7. CASE to \in 0 .. Len(t.file)
  <2> DEFINE u == [r.s EXCEPT !.offset = to, !.cursor = 0, !.limit = 0, !.unget = <<>>]
  <2>1. o.s = u /\ o.ret = DONE
    BY <1>1, <1>5, <1>7 DEF Lseek
  <2> HIDE DEF to
  <2>2. /\ u.file = r.s.file /\ u.offset = to /\ u.cursor = 0 /\ u.limit = 0 /\ ~ u.dirty /\ u.unget = <<>>
    BY <1>3, <1>4 DEF FILE
  <2> HIDE DEF u
  <2>3. to \in Nat /\ to <= Len(r.s.file)
    BY <1>5, <1>6, <1>7
  <2>4. At(u) = to /\ Waiting(u) = <<>>
    BY <2>2, <2>3 DEF At, Waiting
  <2> QED BY <1>3, <1>6, <1>a, <2>1, <2>2, <2>3, <2>4 DEF to
<1>8. CASE ~ (to \in 0 .. Len(t.file))
  <2>1. o.s = t /\ o.ret = FAIL
    BY <1>1, <1>8 DEF Lseek
  <2> HIDE DEF t
  <2>2. At(t) = r.s.offset /\ Waiting(t) = <<>>
    BY <1>4, <1>5 DEF At, Waiting
  <2> QED BY <1>3, <1>4, <1>5, <1>6, <1>a, <2>1, <2>2 DEF FAIL, DONE
<1> QED BY <1>7, <1>8

LEMMA FseekRefines == ASSUME Dependable, IInv, NEW offset, NEW whence, fseek(offset, whence) PROVE Abstract!Next
<1>1. Sound(stream) /\ Kept(stream) /\ (WriteFails => ~ stream.dirty)
  BY DEF fseek, Free, IInv, Sound
<1>2. PICK o \in Fseek(stream, offset, whence) : Answer(o, <<>>)
  BY DEF fseek
<1> DEFINE p == Waiting(stream)
           to == At(o.s)
<1>3. /\ o.s.file = Overlay(stream.file, SavedTo(stream), p)
      /\ Waiting(o.s) = <<>> /\ o.s.unget = <<>> /\ to \in 0 .. Len(stream.file) + Len(p)
  BY <1>1, <1>2, FseekEffect DEF Dependable
<1>4. stream' = o.s /\ result'.took = <<>>
  BY <1>2 DEF Answer
<1>5. /\ p \in Seq(Byte) /\ Len(p) \in Nat /\ SavedTo(stream) \in Nat /\ stream.file \in Seq(Byte)
      /\ SavedTo(stream) = Position - Len(p)
  BY <1>1, InFile, Fields DEF Kept, SavedTo, At, Position
<1>6. SubSeq(p, 1, Len(p)) = p /\ SubSeq(p, Len(p) + 1, Len(p)) = <<>>
  BY <1>5
<1>7. Abstract!Write(stream.file, Position - Len(p), SubSeq(p, 1, Len(p))) = stream'.file
  BY <1>3, <1>4, <1>5, <1>6, WriteIsOverlay
<1>8. Abstract!Save(p, Position, Len(p))
  BY <1>3, <1>4, <1>6, <1>7 DEF Abstract!Save, Waiting
<1>9. Position' = to
  BY <1>4 DEF Position, At
<1>10. Abstract!Seek(to)
  BY <1>3, <1>4, <1>8, <1>9 DEF Abstract!Seek, Waiting
<1>11. to \in 0 .. Len(stream.file) + Len(IF stream.dirty THEN Buffered(stream, stream.cursor) ELSE <<>>)
  BY <1>3 DEF Waiting
<1> HIDE DEF to
<1> QED BY <1>10, <1>11 DEF Abstract!Next

(* Bytes still wait when the file is opened again only if write may fail.  *)
LEMMA FopenRefines == ASSUME IInv, Orderly, fopen PROVE Abstract!Next
<1>1. mode = "closed" /\ stream \in FILE
  BY DEF fopen, IInv, Sound, Kept
<1>2. PICK t \in Opened(stream) : Answer([s |-> t, ret |-> DONE], <<>>)
  BY DEF fopen
<1>3. Leftovers = {[limit |-> 0, unget |-> <<>>]}
  BY DEF Leftovers, Orderly
<1>4. PICK l \in Leftovers : t = [stream EXCEPT !.offset = 0, !.cursor = 0, !.dirty = FALSE,
                                                !.limit = l.limit, !.unget = l.unget]
  BY <1>2 DEF Opened
<1>5. l.limit = 0 /\ l.unget = <<>>
  BY <1>3
<1>6. t = [stream EXCEPT !.offset = 0, !.cursor = 0, !.dirty = FALSE, !.limit = 0, !.unget = <<>>]
  BY <1>4, <1>5
<1>7. t.file = stream.file /\ t.offset = 0 /\ t.cursor = 0 /\ t.limit = 0 /\ ~ t.dirty /\ t.unget = <<>>
  BY <1>1, <1>6 DEF FILE
<1>8. stream' = t /\ result'.took = <<>>
  BY <1>2 DEF Answer
<1>9. stream.dirty => WriteFails
  BY <1>1 DEF IInv
<1>10. Abstract!Reopen
  BY <1>7, <1>8, <1>9 DEF Abstract!Reopen, Position
<1> QED BY <1>10 DEF Abstract!Next

LEMMA BeginRefines == ASSUME NEW op, NEW size, NEW n, Begin(op, size, n) PROVE Abstract!Next
<1>1. stream' = stream /\ result'.took = <<>>
  BY DEF Begin
<1> QED BY <1>1, NothingStep DEF Same, At, Waiting

LEMMA FreadRefines == ASSUME Dependable, IInv, FreadStep PROVE Abstract!Next
<1>1. ~ stream.dirty /\ Sound(stream) /\ Kept(stream) /\ call.left \in Nat
  BY DEF FreadStep, IInv, Sound, Call
<1>2. CASE call.left = 0
  <2>1. Return(call, [s |-> stream], <<>>)
    BY <1>2 DEF FreadStep
  <2>2. stream' = stream /\ result'.took = <<>>
    BY <2>1 DEF Return, Answer
  <2> QED BY <2>2, NothingStep DEF Same, At, Waiting
<1>3. CASE call.left # 0
  <2>1. PICK o \in Fread1(stream, call.left) :
          LET c == [call EXCEPT !.left = @ - Len(o.took)]
          IN  IF o.stop THEN Return(c, o, o.took)
              ELSE Answer([s |-> o.s, ret |-> DONE], o.took) /\ call' = c
    BY <1>3 DEF FreadStep
  <2>2. stream' = o.s /\ result'.took = o.took
    BY <2>1 DEF Return, Answer
  <2>3. \/ Same(stream, o.s) /\ o.took = <<>>
        \/ \E k \in Nat : Takes(stream, o.s, k, o.took)
        \/ Pops(stream, o.s) /\ o.took = <<Last(stream.unget)>>
    BY <1>1, <1>3, <2>1, FreadEffect DEF Dependable
  <2>4. CASE Same(stream, o.s) /\ o.took = <<>>
    BY <2>2, <2>4, NothingStep
  <2>5. CASE \E k \in Nat : Takes(stream, o.s, k, o.took)
    BY <1>1, <2>2, <2>5, TakeStep
  <2>6. CASE Pops(stream, o.s) /\ o.took = <<Last(stream.unget)>>
    BY <1>1, <2>2, <2>6, TakePushedStep
  <2> QED BY <2>3, <2>4, <2>5, <2>6
<1> QED BY <1>2, <1>3

LEMMA FwriteRefines == ASSUME Dependable, IInv, FwriteStep PROVE Abstract!Next
<1>1. Writable(stream) /\ Sound(stream) /\ Kept(stream)
  BY DEF FwriteStep, IInv, Sound
<1>2. CASE call.left = 0
  <2>1. Return(call, [s |-> stream], <<>>)
    BY <1>2 DEF FwriteStep
  <2>2. stream' = stream /\ result'.took = <<>>
    BY <2>1 DEF Return, Answer
  <2> QED BY <2>2, NothingStep DEF Same, At, Waiting
<1>3. CASE call.left # 0
  <2>1. PICK c \in Byte : \E o \in Fputc(stream, c) :
          IF o.ret < 0 THEN Return(call, o, <<>>)
          ELSE Answer(o, <<>>) /\ call' = [call EXCEPT !.left = @ - 1]
    BY <1>3 DEF FwriteStep
  <2>2. PICK o \in Fputc(stream, c) :
          IF o.ret < 0 THEN Return(call, o, <<>>)
          ELSE Answer(o, <<>>) /\ call' = [call EXCEPT !.left = @ - 1]
    BY <2>1
  <2>3. stream' = o.s /\ result'.took = <<>>
    BY <2>2 DEF Return, Answer
  <2>4. (o.ret = EOF /\ o.s = stream) \/ (o.ret = c /\ Puts(stream, o.s, c))
    BY <1>1, <2>2, FputcEffect DEF Dependable
  <2>5. CASE o.s = stream
    BY <2>3, <2>5, NothingStep DEF Same, At, Waiting
  <2>6. CASE Puts(stream, o.s, c)
    BY <1>1, <2>3, <2>6, PutStep
  <2> QED BY <2>4, <2>5, <2>6
<1> QED BY <1>2, <1>3

LEMMA FgetsRefines == ASSUME Dependable, IInv, FgetsStep PROVE Abstract!Next
<1>1. ~ stream.dirty /\ Sound(stream)
  BY DEF FgetsStep, IInv
<1>2. CASE call.left = 0
  <2>1. Return(call, [s |-> stream], <<>>)
    BY <1>2 DEF FgetsStep
  <2>2. stream' = stream /\ result'.took = <<>>
    BY <2>1 DEF Return, Answer
  <2> QED BY <2>2, NothingStep DEF Same, At, Waiting
<1>3. CASE call.left # 0
  <2> DEFINE c == [call EXCEPT !.left = @ - 1]
  <2>1. PICK o \in Fgetc(stream) :
          IF o.ret < 0 THEN Return(call, o, IF o.ret = EOF THEN <<>> ELSE <<o.ret>>)
          ELSE IF o.ret = NEWLINE THEN Return(c, o, <<o.ret>>)
          ELSE Answer(o, <<o.ret>>) /\ call' = c
    BY <1>3 DEF FgetsStep
  <2>2. o.ret \in Int /\ (~ (o.ret < 0) => o.ret # EOF)
    BY <1>1, <2>1, FgetcInv DEF IInv, EOF
  <2>3. stream' = o.s /\ result'.took = IF o.ret = EOF THEN <<>> ELSE <<o.ret>>
    BY <2>1, <2>2 DEF Return, Answer
  <2> QED BY <1>1, <2>3, ByteRefines
<1> QED BY <1>2, <1>3

LEMMA NextRefines == Dependable /\ IInv /\ [Next]_vars => [Abstract!Next]_(Abstract!vars)
<1> SUFFICES ASSUME Dependable, IInv, [Next]_vars PROVE Abstract!Next \/ UNCHANGED Abstract!vars
  OBVIOUS
<1>1. CASE UNCHANGED vars
  BY <1>1 DEF vars, Abstract!vars, Position, Buffered
<1>2. ASSUME NEW c \in Byte, fputc(c) \/ ungetc(c) PROVE Abstract!Next
  BY <1>2, FputcRefines, UngetcRefines
<1>3. CASE fflush \/ fgetc \/ ftell \/ rewind \/ fclose \/ fopen
  BY <1>3, FflushRefines, FgetcRefines, FseekRefines, FopenRefines DEF rewind, Dependable
<1>4. ASSUME NEW offset \in Offsets, NEW whence \in {SEEK_SET, SEEK_CUR, SEEK_END}, fseek(offset, whence)
      PROVE  Abstract!Next
  BY <1>4, FseekRefines
<1>5. ASSUME NEW size \in {1, 2}, NEW n \in Counts, fread(size, n) \/ fwrite(size, n) PROVE Abstract!Next
  BY <1>5, BeginRefines DEF fread, fwrite
<1>6. ASSUME NEW n \in Counts, fgets(n) PROVE Abstract!Next
  BY <1>6, BeginRefines DEF fgets
<1>7. CASE Step
  BY <1>7, FreadRefines, FwriteRefines, FgetsRefines DEF Step
<1> QED BY <1>1, <1>2, <1>3, <1>4, <1>5, <1>6, <1>7 DEF Next

LEMMA InitRefines == Orderly /\ Init => Abstract!Init
<1> SUFFICES ASSUME Orderly, Init PROVE Abstract!Init
  OBVIOUS
<1>1. stream.file \in Seq(Byte)
  BY InitInv, Fields DEF IInv, Sound, Kept
<1>2. Leftovers = {[limit |-> 0, unget |-> <<>>]}
  BY DEF Leftovers, Orderly
<1>3. PICK file \in {<<>>} \cup [1 .. MaxFile - 1 -> Byte], b \in Byte, l \in Leftovers :
         stream = [file |-> file, offset |-> 0, buffer |-> [i \in Index |-> b], cursor |-> 0,
                   limit |-> l.limit, unget |-> l.unget, dirty |-> FALSE]
  BY DEF Init
<1>4. l.limit = 0 /\ l.unget = <<>>
  BY <1>2
<1>5. stream.offset = 0 /\ stream.cursor = 0 /\ stream.limit = 0 /\ ~ stream.dirty /\ stream.unget = <<>>
  BY <1>3, <1>4
<1>6. result.took = <<>>
  BY DEF Init
<1> QED BY <1>1, <1>5, <1>6 DEF Abstract!Init, Position

(* A dependable stream reads and writes one file at one position, through  *)
(* a buffer of any size: whatever the sequence of calls, bytes arrive in   *)
(* order, none twice and none left out.                                    *)
THEOREM Implements == Dependable /\ Spec => AbstractSpec
<1>1. Dependable => Orderly
  BY DEF Dependable
<1>2. Dependable /\ [Next]_vars => Dependable'
  BY DEF Dependable, Orderly
<1>3. Dependable /\ Spec => []Dependable
  BY <1>2, PTL DEF Spec
<1> QED BY <1>1, <1>3, Invariance, InitRefines, NextRefines, PTL DEF Spec, AbstractSpec, Abstract!Spec

-----------------------------------------------------------------------------
(* What one step answers, by the same effects.                             *)
LEMMA FtellAnswers ==
    ASSUME Orderly, ~ ShortWrites, IInv, ftell
    PROVE  result'.ret = Position - Len(stream.unget)
<1>1. PICK r \in Fflush(stream) : Answer([s |-> r.s, ret |-> r.s.offset - Ahead(r.s)], <<>>)
  BY DEF ftell, Ftell
<1>2. Kept(stream)
  BY DEF IInv, Sound
<1>3. r.s = stream \/ Flushes(stream, r.s)
  BY <1>1, <1>2, FlushEffect
<1>4. At(r.s) = At(stream) /\ r.s.unget = stream.unget
  BY <1>3 DEF Flushes
<1>5. r.s.offset \in Int /\ r.s.limit \in Int /\ r.s.cursor \in Int /\ Len(r.s.unget) \in Int
  <2>1. r.s \in FILE
    BY <1>1, <1>2, FlushInv DEF Sound, Kept
  <2> QED BY <2>1, Fields
<1>6. r.s.offset - Ahead(r.s) = At(r.s) - Len(r.s.unget)
  BY <1>5 DEF Ahead, At
<1>7. result'.ret = r.s.offset - Ahead(r.s)
  BY <1>1 DEF Answer
<1>8. Position = At(stream)
  BY DEF Position, At
<1> QED BY <1>4, <1>6, <1>7, <1>8

LEMMA FseekAnswers ==
    ASSUME Orderly, ~ ShortWrites, IInv, NEW offset \in Int
    PROVE  /\ fseek(offset, SEEK_SET) /\ result'.ret = DONE => Position' = offset
           /\ fseek(offset, SEEK_CUR) /\ result'.ret = DONE /\ mode # "writing" =>
                 Position' = Position - Len(stream.unget) + offset
<1>1. ASSUME NEW whence, fseek(offset, whence), result'.ret = DONE
      PROVE  \E r \in Fflush(stream) : Position' = Target(r.s, offset, whence)
  <2>1. Sound(stream) /\ (WriteFails => ~ stream.dirty)
    BY <1>1 DEF fseek, Free, IInv
  <2>2. PICK o \in Fseek(stream, offset, whence) : Answer(o, <<>>)
    BY <1>1 DEF fseek
  <2>3. stream' = o.s /\ o.ret = DONE
    BY <1>1, <2>2 DEF Answer
  <2>4. \E r \in Fflush(stream) : At(o.s) = Target(r.s, offset, whence)
    BY <2>1, <2>2, <2>3, FseekEffect
  <2>5. Position' = At(o.s)
    BY <2>3 DEF Position, At
  <2> QED BY <2>4, <2>5
<1>2. ASSUME fseek(offset, SEEK_SET), result'.ret = DONE PROVE Position' = offset
  <2>1. PICK r \in Fflush(stream) : Position' = Target(r.s, offset, SEEK_SET)
    BY <1>1, <1>2
  <2> QED BY <2>1 DEF Target, SEEK_SET, SEEK_CUR, SEEK_END
<1>3. ASSUME fseek(offset, SEEK_CUR), result'.ret = DONE, mode # "writing"
      PROVE  Position' = Position - Len(stream.unget) + offset
  <2>1. ~ stream.dirty /\ Kept(stream) /\ stream \in FILE
    BY <1>3 DEF fseek, Free, IInv, Sound, Kept
  <2>2. PICK r \in Fflush(stream) : Position' = Target(r.s, offset, SEEK_CUR)
    BY <1>1, <1>3
  <2>3. r.s = stream
    BY <2>1, <2>2, FlushInv
  <2>4. Target(stream, offset, SEEK_CUR) = stream.offset + offset - Ahead(stream)
    BY DEF Target, SEEK_SET, SEEK_CUR, SEEK_END
  <2>5. stream.offset \in Int /\ stream.limit \in Int /\ stream.cursor \in Int /\ Len(stream.unget) \in Int
    BY <2>1, Fields
  <2> QED BY <2>2, <2>3, <2>4, <2>5 DEF Ahead, Position
<1> QED BY <1>2, <1>3

(* ftell tells, and fseek counts from, where the program is, whatever is   *)
(* read ahead, waits to be written or was pushed back (stdio.cpp:461-478). *)
THEOREM Positions == Orderly /\ ~ ShortWrites /\ Spec => PositionsAgree
<1> DEFINE Agree ==
      /\ ftell => result'.ret = Position - Len(stream.unget)
      /\ \A offset \in Offsets :
           /\ fseek(offset, SEEK_SET) /\ result'.ret = DONE => Position' = offset
           /\ fseek(offset, SEEK_CUR) /\ result'.ret = DONE /\ mode # "writing" =>
                Position' = Position - Len(stream.unget) + offset
<1>1. ~ ShortWrites /\ IInv /\ [Next]_vars => [Agree]_vars
  BY FtellAnswers, FseekAnswers, ProgramAssumption DEF IInv
<1>2. ~ ShortWrites /\ [Next]_vars => (~ ShortWrites)'
  OBVIOUS
<1>3. ~ ShortWrites /\ Spec => [](~ ShortWrites)
  BY <1>2, PTL DEF Spec
<1> QED BY <1>1, <1>3, Invariance, PTL DEF Spec, PositionsAgree

LEMMA FgetcEnds ==
    ASSUME Orderly, 255 \notin Byte, IInv, fgetc, result'.took = <<>>
    PROVE  ReadFails \/ (stream'.offset = Len(stream'.file) /\ stream'.cursor >= stream'.limit)
<1>1. Sound(stream) /\ ~ stream.dirty /\ stream \in FILE
  BY DEF fgetc, MayRead, Free, IInv, Sound, Kept
<1>2. PICK o \in Fgetc(stream) : Answer(o, IF o.ret = EOF THEN <<>> ELSE <<o.ret>>)
  BY DEF fgetc
<1>3. stream' = o.s /\ o.ret = EOF
  BY <1>2 DEF Answer
<1>4. o.s = stream /\ ~ (stream.cursor < stream.limit) /\ (ReadFails \/ stream.offset = Len(stream.file))
  BY <1>1, <1>2, <1>3, FgetcEffect
<1>5. stream.cursor \in Int /\ stream.limit \in Int
  BY <1>1, Fields
<1> QED BY <1>3, <1>4, <1>5

LEMMA FreadEnds ==
    ASSUME IInv, FreadStep, call'.op = "none", Len(result'.took) < call.left
    PROVE  ReadFails \/ ShortReads \/ (stream'.offset = Len(stream'.file) /\ stream'.cursor >= stream'.limit)
<1>1. /\ Sound(stream) /\ ~ stream.dirty /\ call.left \in Nat /\ call.op = "fread" /\ call \in Call
      /\ call.size > 0
  BY DEF FreadStep, IInv, Call
<1>2. call.left # 0
  <2> SUFFICES ASSUME call.left = 0 PROVE FALSE
    OBVIOUS
  <2>1. Return(call, [s |-> stream], <<>>)
    BY DEF FreadStep
  <2>2. result'.took = <<>> /\ Len(<<>>) = 0
    BY <2>1 DEF Return, Answer
  <2> QED BY <1>1, <2>2
<1>3. PICK o \in Fread1(stream, call.left) :
        LET c == [call EXCEPT !.left = @ - Len(o.took)]
        IN  IF o.stop THEN Return(c, o, o.took)
            ELSE Answer([s |-> o.s, ret |-> DONE], o.took) /\ call' = c
  BY <1>2 DEF FreadStep
<1>4. stream' = o.s
  BY <1>3 DEF Return, Answer
<1>5. o.stop
  <2> SUFFICES ASSUME ~ o.stop PROVE FALSE
    OBVIOUS
  <2>1. call' = [call EXCEPT !.left = @ - Len(o.took)]
    BY <1>3
  <2>2. call'.op = call.op
    BY <1>1, <2>1 DEF Call
  <2> QED BY <1>1, <2>2
<1>6. ReadFails \/ ShortReads \/ AtEnd(o.s)
  BY <1>1, <1>2, <1>3, <1>5, FreadEffect DEF IInv
<1>7. o.s.cursor \in Int /\ o.s.limit \in Int
  <2>1. o.s \in FILE
    BY <1>1, <1>2, <1>3, FreadInv DEF IInv, Sound, Kept
  <2> QED BY <2>1, Fields
<1> QED BY <1>4, <1>6, <1>7 DEF AtEnd

(* Where read neither fails nor answers less than there is, fgetc says EOF *)
(* and fread stops short only when the last byte has been delivered, not   *)
(* at the end of a buffer (stdio.cpp:241-257, 389-428).                    *)
THEOREM Ends == Orderly /\ 255 \notin Byte /\ Spec => EndOnlyAtEnd
<1> DEFINE End ==
      (fgetc /\ result'.took = <<>>)
          \/ (FreadStep /\ call'.op = "none" /\ Len(result'.took) < call.left)
      => ReadFails \/ ShortReads
           \/ (stream'.offset = Len(stream'.file) /\ stream'.cursor >= stream'.limit)
<1>1. 255 \notin Byte /\ IInv /\ [Next]_vars => [End]_vars
  BY FgetcEnds, FreadEnds DEF IInv
<1>2. 255 \notin Byte /\ [Next]_vars => (255 \notin Byte)'
  OBVIOUS
<1>3. 255 \notin Byte /\ Spec => [](255 \notin Byte)
  BY <1>2, PTL DEF Spec
<1> QED BY <1>1, <1>3, Invariance, PTL DEF Spec, EndOnlyAtEnd

-----------------------------------------------------------------------------
(* A program that keeps to no rule.  The buffer and what is behind it: the *)
(* byte that may be stored there is foreign.                               *)
WIDE == [file : Seq(Byte), offset : Nat, buffer : [0 .. BUFSIZE -> Byte],
         cursor : 0 .. BUFSIZE + 1, limit : 0 .. BUFSIZE,
         unget : {<<>>}, dirty : BOOLEAN]

Wide(s) ==
    /\ s \in WIDE
    /\ s.offset <= Len(s.file)
    /\ ~ s.dirty => s.cursor <= s.limit

LEMMA WideFields ==
    ASSUME NEW s \in WIDE
    PROVE  /\ s.file \in Seq(Byte) /\ Len(s.file) \in Nat /\ s.offset \in Nat
           /\ s.buffer \in [0 .. BUFSIZE -> Byte]
           /\ s.cursor \in Nat /\ s.cursor <= BUFSIZE + 1
           /\ s.limit \in Nat /\ s.limit <= BUFSIZE
           /\ s.unget = <<>> /\ s.dirty \in BOOLEAN
           /\ BUFSIZE \in Nat
  BY StreamAssumption DEF WIDE

LEMMA WideBuffered ==
    ASSUME NEW s \in WIDE, NEW n \in Nat, n <= BUFSIZE + 1
    PROVE  Buffered(s, n) \in Seq(Byte) /\ Len(Buffered(s, n)) = n
<1>1. BUFSIZE \in Nat /\ s.buffer \in [0 .. BUFSIZE -> Byte]
  BY WideFields
<1>2. \A i \in 1 .. n : s.buffer[i - 1] \in Byte
  <2>1. SUFFICES ASSUME NEW i \in 1 .. n PROVE i - 1 \in 0 .. BUFSIZE
    BY <1>1
  <2> QED BY <1>1, <2>1
<1>3. Buffered(s, n) \in [1 .. n -> Byte]
  BY <1>2 DEF Buffered
<1> QED BY <1>3

(* What fflush has put into the file.                                      *)
Emptied(s, t) ==
    /\ s.dirty /\ t.dirty = FALSE /\ t.cursor = 0
    /\ t.limit = s.limit /\ t.buffer = s.buffer /\ t.unget = s.unget
    /\ \E w \in 1 .. s.cursor :
         t.offset = s.offset + w /\ t.file = Overlay(s.file, s.offset, Buffered(s, w))

(* fflush writes a front of what is dirty, or leaves the stream as it is,  *)
(* and answers -1 if there was something to write (stdio.cpp:22-38).       *)
LEMMA WideFlush ==
    ASSUME NEW s, Wide(s), NEW r \in Fflush(s)
    PROVE  /\ Wide(r.s)
           /\ \/ r.s = s /\ r.ret = DONE /\ (~ s.dirty \/ s.cursor = 0)
              \/ r.s = s /\ r.ret = FAIL /\ s.dirty /\ s.cursor > 0
              \/ r.ret = DONE /\ Emptied(s, r.s)
<1>1. s \in WIDE /\ s.offset <= Len(s.file)
  BY DEF Wide
<1>2. CASE ~ s.dirty \/ s.cursor = 0
  <2>1. r = [s |-> s, ret |-> DONE]
    BY <1>2 DEF Fflush
  <2> QED BY <1>2, <2>1
<1>3. CASE ~ (~ s.dirty \/ s.cursor = 0)
  <2> DEFINE Out(w) ==
        IF w < 0 THEN [s |-> s, ret |-> FAIL]
        ELSE [s |-> [s EXCEPT !.file = Overlay(@, s.offset, Buffered(s, w)),
                              !.offset = @ + w, !.cursor = 0, !.dirty = FALSE],
              ret |-> DONE]
  <2>1. s.cursor \in Nat /\ s.cursor > 0 /\ s.cursor <= BUFSIZE + 1 /\ BUFSIZE \in Nat /\ s.dirty
    BY <1>1, <1>3, WideFields
  <2>2. r \in {Out(w) : w \in KernelWrite(s.cursor)}
    BY <1>3, Zenon DEF Fflush
  <2>3. PICK w \in KernelWrite(s.cursor) : r = Out(w)
    BY <2>2, Zenon
  <2>4. w = -1 \/ w \in 1 .. s.cursor
    BY <2>1, WriteAnswer
  <2>5. CASE w = -1
    BY <2>1, <2>3, <2>5
  <2>6. CASE w \in 1 .. s.cursor
    <3> DEFINE f == Overlay(s.file, s.offset, Buffered(s, w))
               t == [s EXCEPT !.file = f, !.offset = s.offset + w, !.cursor = 0, !.dirty = FALSE]
    <3>1. r.s = t /\ r.ret = DONE
      BY <2>3, <2>6
    <3>2. Buffered(s, w) \in Seq(Byte) /\ Len(Buffered(s, w)) = w
      BY <1>1, <2>1, <2>6, WideBuffered
    <3>3. f \in Seq(Byte) /\ s.offset + w <= Len(f)
      BY <1>1, <3>2, WideFields, OverlayType
    <3>4. \E v \in 1 .. s.cursor : s.offset + w = s.offset + v /\ f = Overlay(s.file, s.offset, Buffered(s, v))
      BY <2>6
    <3> HIDE DEF f
    <3>5. /\ t.file = f /\ t.offset = s.offset + w /\ t.cursor = 0 /\ t.dirty = FALSE
          /\ t.limit = s.limit /\ t.buffer = s.buffer /\ t.unget = s.unget
      BY <1>1 DEF WIDE
    <3>6. s.offset + w \in Nat /\ 0 \in 0 .. BUFSIZE + 1 /\ 0 <= s.limit
      BY <1>1, <2>1, <2>6, WideFields
    <3>7. t \in WIDE
      BY <1>1, <3>3, <3>6 DEF WIDE
    <3> HIDE DEF t
    <3>8. Wide(t)
      BY <3>3, <3>5, <3>6, <3>7 DEF Wide
    <3>9. Emptied(s, t)
      BY <2>1, <3>4, <3>5, Zenon DEF Emptied, f
    <3> QED BY <3>1, <3>8, <3>9
  <2> QED BY <2>4, <2>5, <2>6
<1> QED BY <1>2, <1>3

(* A byte stored in the buffer, or right behind it (stdio.cpp:46).         *)
LEMMA WideStored ==
    ASSUME NEW s, Wide(s), s.cursor <= BUFSIZE, NEW c \in Byte
    PROVE  /\ Wide(Stored(s, c)) /\ Stored(s, c).dirty = TRUE /\ Stored(s, c).cursor = s.cursor + 1
           /\ Stored(s, c).limit = s.limit /\ Stored(s, c).file = s.file /\ Stored(s, c).offset = s.offset
           /\ Buffered(Stored(s, c), s.cursor + 1) = Append(Buffered(s, s.cursor), c)
<1> DEFINE t == Stored(s, c)
<1>1. s \in WIDE /\ s.offset <= Len(s.file)
  BY DEF Wide
<1>2. s.cursor \in Nat /\ BUFSIZE \in Nat /\ s.cursor \in 0 .. BUFSIZE /\ s.cursor + 1 \in 0 .. BUFSIZE + 1
  BY <1>1, WideFields
<1>3. [s.buffer EXCEPT ![s.cursor] = c] \in [0 .. BUFSIZE -> Byte]
  BY <1>1, <1>2, WideFields
<1>4. t = [s EXCEPT !.buffer = [s.buffer EXCEPT ![s.cursor] = c], !.cursor = s.cursor + 1, !.dirty = TRUE]
  BY <1>1 DEF Stored, WIDE
<1>5. /\ t.cursor = s.cursor + 1 /\ t.dirty = TRUE /\ t.limit = s.limit
      /\ t.file = s.file /\ t.offset = s.offset
      /\ t.buffer = [s.buffer EXCEPT ![s.cursor] = c]
  BY <1>1, <1>4 DEF WIDE
<1>6. t \in WIDE
  BY <1>1, <1>2, <1>3, <1>4 DEF WIDE
<1> HIDE DEF t
<1>7. Wide(t)
  BY <1>1, <1>5, <1>6 DEF Wide
<1>8. Buffered(t, s.cursor + 1) = Append(Buffered(s, s.cursor), c)
  <2> DEFINE n == s.cursor
             old == Buffered(s, n)
  <2>1. old \in Seq(Byte) /\ Len(old) = n
    BY <1>1, <1>2, WideBuffered
  <2>2. Buffered(t, n + 1) \in Seq(Byte) /\ Len(Buffered(t, n + 1)) = n + 1
    BY <1>2, <1>6, WideBuffered
  <2>3. ASSUME NEW i \in 1 .. n + 1
        PROVE  Buffered(t, n + 1)[i] = Append(old, c)[i]
    <3>1. Buffered(t, n + 1)[i] = t.buffer[i - 1] /\ i - 1 \in 0 .. BUFSIZE
      BY <1>2 DEF Buffered
    <3>2. CASE i = n + 1
      BY <1>1, <1>2, <1>5, <2>1, <3>1, <3>2, WideFields
    <3>3. CASE i \in 1 .. n
      <4>1. t.buffer[i - 1] = s.buffer[i - 1]
        BY <1>1, <1>2, <1>5, <3>1, <3>3, WideFields
      <4>2. old[i] = s.buffer[i - 1]
        BY <3>3 DEF Buffered
      <4> QED BY <2>1, <3>1, <3>3, <4>1, <4>2
    <3>4. n \in Nat
      BY <1>2
    <3>5. i = n + 1 \/ i \in 1 .. n
      BY <3>4
    <3> QED BY <3>2, <3>3, <3>5
  <2>4. Append(old, c) \in Seq(Byte) /\ Len(Append(old, c)) = n + 1
    BY <2>1
  <2> HIDE DEF old, n
  <2> QED BY <2>2, <2>3, <2>4 DEF n, old
<1> QED BY <1>5, <1>7, <1>8 DEF t

(* fputc refuses the byte and changes nothing, or stores it, after a flush *)
(* or without one, and flushes the line (stdio.cpp:39-53).                 *)
LEMMA WideFputc ==
    ASSUME BUFSIZE > 0, NEW s, Wide(s), NEW c \in Byte, NEW o \in Fputc(s, c)
    PROVE  /\ Wide(o.s)
           /\ \/ o.ret = EOF /\ o.s = s
              \/ o.ret = c /\ s.cursor <= BUFSIZE /\ o.s = Stored(s, c)
                   /\ (s.cursor = BUFSIZE => ~ s.dirty)
              \/ o.ret = c /\ \E t : Wide(t) /\ Emptied(s, t) /\ o.s = Stored(t, c)
              \/ LINE_BUFFERED /\ o.ret = c /\ o.s.dirty = FALSE /\ o.s.cursor = 0 /\ o.s.limit = s.limit
<1> DEFINE First == IF s.cursor >= BUFSIZE THEN Fflush(s) ELSE {[s |-> s, ret |-> DONE]}
           Then(r) == IF LINE_BUFFERED /\ c = NEWLINE THEN Fflush(Stored(r.s, c))
                      ELSE {[s |-> Stored(r.s, c), ret |-> DONE]}
           Outs(r) == IF r.ret # DONE THEN {[s |-> r.s, ret |-> EOF]}
                      ELSE {[s |-> q.s, ret |-> c] : q \in Then(r)}
<1>1. s \in WIDE /\ s.cursor \in Nat /\ BUFSIZE \in Nat /\ s.limit <= BUFSIZE /\ s.limit \in Nat
      /\ s.dirty \in BOOLEAN
  BY WideFields DEF Wide
<1>2. o \in UNION {Outs(r) : r \in First}
  BY Zenon DEF Fputc
<1>3. PICK r \in First : o \in Outs(r)
  BY <1>2, Zenon
<1>4. /\ Wide(r.s)
      /\ \/ r.s = s /\ r.ret = FAIL
         \/ r.s = s /\ r.ret = DONE /\ s.cursor <= BUFSIZE /\ (s.cursor = BUFSIZE => ~ s.dirty)
         \/ r.ret = DONE /\ Emptied(s, r.s)
  <2>1. CASE s.cursor >= BUFSIZE
    <3>1. r \in Fflush(s)
      BY <1>3, <2>1
    <3>2. /\ Wide(r.s)
          /\ \/ r.s = s /\ r.ret = DONE /\ (~ s.dirty \/ s.cursor = 0)
             \/ r.s = s /\ r.ret = FAIL
             \/ r.ret = DONE /\ Emptied(s, r.s)
      BY <3>1, WideFlush
    <3>3. ~ s.dirty => s.cursor <= BUFSIZE
      BY <1>1 DEF Wide
    <3> QED BY <1>1, <2>1, <3>2, <3>3
  <2>2. CASE ~ (s.cursor >= BUFSIZE)
    <3>1. r = [s |-> s, ret |-> DONE]
      BY <1>3, <2>2
    <3> QED BY <1>1, <2>2, <3>1
  <2> QED BY <2>1, <2>2
<1> HIDE DEF First
<1>5. CASE r.ret = FAIL
  <2>1. o = [s |-> r.s, ret |-> EOF]
    BY <1>3, <1>5 DEF FAIL, DONE
  <2>2. r.s = s
    BY <1>4, <1>5 DEF FAIL, DONE
  <2> QED BY <1>4, <2>1, <2>2
<1>6. CASE r.ret = DONE
  <2>1. PICK q \in Then(r) : o = [s |-> q.s, ret |-> c]
    BY <1>3, <1>6, Zenon
  <2>2. r.s.cursor <= BUFSIZE /\ r.s.limit = s.limit
    <3>1. Emptied(s, r.s) => r.s.cursor = 0 /\ r.s.limit = s.limit
      BY DEF Emptied
    <3> QED BY <1>1, <1>4, <1>6, <3>1 DEF FAIL, DONE
  <2>3. r.s \in WIDE /\ r.s.cursor \in Nat
    BY <1>4, WideFields DEF Wide
  <2>4. Wide(Stored(r.s, c)) /\ Stored(r.s, c).limit = s.limit
    BY <1>4, <2>2, WideStored
  <2>5. ASSUME q.s = Stored(r.s, c)
        PROVE  /\ Wide(o.s)
               /\ \/ o.ret = c /\ s.cursor <= BUFSIZE /\ o.s = Stored(s, c) /\ (s.cursor = BUFSIZE => ~ s.dirty)
                  \/ o.ret = c /\ \E t : Wide(t) /\ Emptied(s, t) /\ o.s = Stored(t, c)
    <3>1. o.s = Stored(r.s, c) /\ o.ret = c
      BY <2>1, <2>5
    <3>2. CASE r.s = s /\ s.cursor <= BUFSIZE /\ (s.cursor = BUFSIZE => ~ s.dirty)
      BY <2>4, <3>1, <3>2
    <3>3. CASE Emptied(s, r.s)
      BY <1>4, <2>4, <3>1, <3>3, Zenon
    <3> QED BY <1>4, <1>6, <3>2, <3>3 DEF FAIL, DONE
  <2>6. CASE LINE_BUFFERED /\ c = NEWLINE
    <3>1. q \in Fflush(Stored(r.s, c))
      BY <2>6
    <3>2. /\ Wide(q.s)
          /\ \/ q.s = Stored(r.s, c)
             \/ Emptied(Stored(r.s, c), q.s)
      BY <2>4, <3>1, WideFlush
    <3>3. CASE Emptied(Stored(r.s, c), q.s)
      <4>1. q.s.dirty = FALSE /\ q.s.cursor = 0 /\ q.s.limit = s.limit
        BY <2>4, <3>3 DEF Emptied
      <4> QED BY <2>1, <2>6, <3>2, <4>1
    <3> QED BY <2>5, <3>2, <3>3
  <2>7. CASE ~ (LINE_BUFFERED /\ c = NEWLINE)
    <3>1. q = [s |-> Stored(r.s, c), ret |-> DONE]
      BY <2>1, <2>7
    <3> QED BY <2>5, <3>1
  <2> QED BY <2>6, <2>7
<1> QED BY <1>4, <1>5, <1>6

(* fgetc finds nothing, or takes a byte of the buffer, refilled or not     *)
(* (stdio.cpp:241-257).                                                    *)
LEMMA WideFgetc ==
    ASSUME BUFSIZE > 0, NEW s, Wide(s), NEW o \in Fgetc(s)
    PROVE  /\ Wide(o.s)
           /\ o.s.file = s.file /\ o.s.dirty = s.dirty
           /\ o.s = s \/ o.s.cursor <= o.s.limit
<1>1. s \in WIDE /\ s.offset <= Len(s.file)
  BY DEF Wide
<1>2. /\ s.cursor \in Nat /\ s.limit \in Nat /\ BUFSIZE \in Nat /\ s.limit <= BUFSIZE /\ s.unget = <<>>
      /\ s.offset \in Nat /\ Len(s.file) \in Nat /\ s.dirty \in BOOLEAN
  BY <1>1, WideFields
<1>3. ASSUME NEW t, Wide(t), t.cursor < t.limit, o = Next1(t)
      PROVE  Wide(o.s) /\ o.s.file = t.file /\ o.s.dirty = t.dirty /\ o.s.cursor <= o.s.limit
  <2>1. t \in WIDE /\ t.offset <= Len(t.file)
    BY <1>3 DEF Wide
  <2>2. t.cursor + 1 <= t.limit /\ t.cursor + 1 \in 0 .. BUFSIZE + 1
    BY <1>3, <2>1, WideFields
  <2>3. o.s = [t EXCEPT !.cursor = t.cursor + 1]
    BY <1>3, <2>1 DEF Next1, WIDE
  <2>4. o.s \in WIDE
    BY <2>1, <2>2, <2>3 DEF WIDE
  <2>5. /\ o.s.file = t.file /\ o.s.offset = t.offset /\ o.s.limit = t.limit /\ o.s.dirty = t.dirty
        /\ o.s.cursor = t.cursor + 1
    BY <2>1, <2>3 DEF WIDE
  <2> QED BY <2>1, <2>2, <2>4, <2>5 DEF Wide
<1>4. CASE s.cursor < s.limit
  <2>1. o = Next1(s)
    BY <1>2, <1>4 DEF Fgetc
  <2> QED BY <1>2, <1>3, <1>4, <2>1
<1>5. CASE ~ (s.cursor < s.limit)
  <2>1. o \in {IF n <= 0 THEN [s |-> s, ret |-> EOF] ELSE Next1(Refilled(s, n)) : n \in KernelRead(s, BUFSIZE)}
    BY <1>2, <1>5 DEF Fgetc
  <2>2. PICK n \in KernelRead(s, BUFSIZE) : o = IF n <= 0 THEN [s |-> s, ret |-> EOF] ELSE Next1(Refilled(s, n))
    BY <2>1, Zenon
  <2>3. n = -1 \/ (n \in 0 .. BUFSIZE /\ s.offset + n <= Len(s.file))
    <3> DEFINE most == Min({BUFSIZE, Available(s)})
    <3>1. Available(s) \in Nat /\ Available(s) = Len(s.file) - s.offset
      BY <1>1, <1>2 DEF Available
    <3>2. most \in Nat /\ most <= BUFSIZE /\ most <= Available(s)
      BY <1>2, <3>1, MinOfTwo
    <3>3. n = -1 \/ n \in 0 .. most
      BY <3>2 DEF KernelRead
    <3> HIDE DEF most
    <3> QED BY <1>2, <3>1, <3>2, <3>3
  <2>4. CASE n <= 0
    <3>1. o = [s |-> s, ret |-> EOF]
      BY <2>2, <2>4
    <3> QED BY <3>1
  <2>5. CASE ~ (n <= 0)
    <3> DEFINE t == Refilled(s, n)
               b == [i \in 0 .. BUFSIZE |-> IF i < n THEN s.file[s.offset + i + 1] ELSE s.buffer[i]]
    <3>1. n \in Nat /\ n > 0 /\ n <= BUFSIZE /\ s.offset + n <= Len(s.file) /\ n \in 0 .. BUFSIZE
          /\ 0 \in 0 .. BUFSIZE + 1 /\ s.offset + n \in Nat
      BY <1>2, <2>3, <2>5
    <3>2. b \in [0 .. BUFSIZE -> Byte]
      <4>1. ASSUME NEW i \in 0 .. BUFSIZE
            PROVE  (IF i < n THEN s.file[s.offset + i + 1] ELSE s.buffer[i]) \in Byte
        <5>1. s.buffer[i] \in Byte /\ s.file \in Seq(Byte)
          BY <1>1, WideFields
        <5>2. i < n => s.offset + i + 1 \in 1 .. Len(s.file)
          BY <1>2, <3>1
        <5> QED BY <5>1, <5>2
      <4> QED BY <4>1
    <3>3. t = [s EXCEPT !.buffer = b, !.offset = s.offset + n, !.limit = n, !.cursor = 0]
      BY <1>1, WideFields DEF Refilled, WIDE
    <3> HIDE DEF b, t
    <3>4. t \in WIDE
      BY <1>1, <3>1, <3>2, <3>3 DEF WIDE
    <3>5. /\ t.file = s.file /\ t.offset = s.offset + n /\ t.limit = n /\ t.cursor = 0 /\ t.dirty = s.dirty
      BY <1>1, <3>3 DEF WIDE
    <3>6. Wide(t) /\ t.cursor < t.limit
      BY <3>1, <3>4, <3>5 DEF Wide
    <3>7. o = Next1(t)
      BY <2>2, <2>5 DEF t
    <3> QED BY <1>2, <1>3, <1>5, <3>5, <3>6, <3>7
  <2> QED BY <2>4, <2>5
<1> QED BY <1>4, <1>5

(* fseek drops what was read ahead; what a flush could not write it keeps  *)
(* dirty, with the cursor at the start (stdio.cpp:459-469).                *)
LEMMA WideFseek ==
    ASSUME NEW s, Wide(s), NEW offset \in Int, NEW o \in Fseek(s, offset, SEEK_SET)
    PROVE  /\ Wide(o.s) /\ o.s.cursor = 0 /\ o.s.limit = 0
           /\ \/ o.s.dirty = s.dirty /\ o.s.file = s.file
              \/ \E t : Emptied(s, t) /\ o.s.dirty = FALSE /\ o.s.file = t.file
<1> DEFINE Out(r) == Lseek([r.s EXCEPT !.cursor = 0, !.limit = 0, !.unget = <<>>], Target(r.s, offset, SEEK_SET))
<1>1. o \in {Out(r) : r \in Fflush(s)}
  BY Zenon DEF Fseek
<1>2. PICK r \in Fflush(s) : o = Out(r)
  BY <1>1, Zenon
<1>3. Wide(r.s) /\ (r.s = s \/ Emptied(s, r.s))
  BY WideFlush
<1> DEFINE t == [r.s EXCEPT !.cursor = 0, !.limit = 0, !.unget = <<>>]
<1>4. r.s \in WIDE /\ r.s.offset <= Len(r.s.file) /\ Len(r.s.file) \in Nat
  BY <1>3, WideFields DEF Wide
<1>5. 0 \in 0 .. BUFSIZE /\ 0 \in 0 .. BUFSIZE + 1
  BY StreamAssumption
<1>6. t \in WIDE
  BY <1>4, <1>5 DEF WIDE
<1>7. t.file = r.s.file /\ t.offset = r.s.offset /\ t.cursor = 0 /\ t.limit = 0 /\ t.dirty = r.s.dirty
  BY <1>4 DEF WIDE
<1> DEFINE to == Target(r.s, offset, SEEK_SET)
<1>8. o.s = t \/ (to \in 0 .. Len(t.file) /\ o.s = [t EXCEPT !.offset = to])
  BY <1>2 DEF Lseek
<1> HIDE DEF t, to
<1>9. /\ Wide(o.s) /\ o.s.file = r.s.file /\ o.s.cursor = 0 /\ o.s.limit = 0 /\ o.s.dirty = r.s.dirty
  <2>1. CASE o.s = t
    BY <1>4, <1>6, <1>7, <2>1 DEF Wide
  <2>2. CASE to \in 0 .. Len(t.file) /\ o.s = [t EXCEPT !.offset = to]
    <3>1. to \in Nat /\ to <= Len(t.file)
      BY <1>4, <1>7, <2>2
    <3>2. o.s \in WIDE
      BY <1>6, <2>2, <3>1 DEF WIDE
    <3>3. /\ o.s.offset = to /\ o.s.file = t.file /\ o.s.cursor = t.cursor /\ o.s.limit = t.limit
          /\ o.s.dirty = t.dirty
      BY <1>6, <2>2 DEF WIDE
    <3> QED BY <1>7, <3>1, <3>2, <3>3 DEF Wide
  <2> QED BY <1>8, <2>1, <2>2
<1>10. CASE r.s = s
  BY <1>9, <1>10
<1>11. CASE Emptied(s, r.s)
  <2>1. r.s.dirty = FALSE
    BY <1>11 DEF Emptied
  <2> QED BY <1>9, <1>11, <2>1
<1> QED BY <1>3, <1>10, <1>11

(* MisuseContained, and what makes it inductive: what waits is not empty,  *)
(* and a buffer whose cursor has passed its limit is dirty.                *)
MisuseInv ==
    /\ Wide(stream)
    /\ put \in Seq(Byte)
    /\ slips \subseteq {ShortWrite, WroteAfterReading, ReadAfterWriting, SoughtAnyway}
    /\ OutsideByOne /\ PendingKept /\ ReadAheadClean
    /\ slips \subseteq {ShortWrite} /\ stream.dirty => stream.cursor > 0

(* While no rule is broken, what is dirty was not read ahead.              *)
LEMMA MisuseDirty ==
    ASSUME MisuseInv, slips \subseteq {ShortWrite}
    PROVE  /\ stream.dirty => stream.limit = 0 /\ stream.cursor > 0 /\ stream.cursor <= BUFSIZE
                                /\ Pending = put /\ put # <<>>
           /\ ~ stream.dirty => put = <<>>
<1>1. stream \in WIDE /\ stream.limit \in Nat /\ stream.cursor \in Nat /\ BUFSIZE \in Nat
  BY WideFields DEF MisuseInv, Wide
<1>2. {WroteAfterReading, ReadAfterWriting, SoughtAnyway} \cap slips = {}
  BY DEF ShortWrite, WroteAfterReading, ReadAfterWriting, SoughtAnyway
<1>3. stream.dirty => stream.limit = 0
  BY <1>1, <1>2 DEF MisuseInv, ReadAheadClean
<1>4. stream.cursor <= BUFSIZE
  BY <1>1, <1>2 DEF MisuseInv, OutsideByOne
<1>5. IF stream.dirty THEN Pending = put ELSE put = <<>>
  BY DEF MisuseInv, PendingKept
<1>6. ASSUME stream.dirty PROVE put # <<>>
  <2>1. Len(Pending) = stream.cursor /\ stream.cursor > 0
    BY <1>1, <1>4, <1>6, WideBuffered DEF Pending, MisuseInv
  <2>2. Pending = put
    BY <1>5, <1>6
  <2> QED BY <2>1, <2>2
<1> QED BY <1>3, <1>4, <1>5, <1>6 DEF MisuseInv

LEMMA MisuseInitInv == BUFSIZE > 0 /\ MisuseInit => MisuseInv
<1> SUFFICES ASSUME BUFSIZE > 0, MisuseInit PROVE MisuseInv
  OBVIOUS
<1>1. PICK n \in 0 .. MaxFile - 1 : \E file \in [1 .. n -> Byte], b \in Byte :
         stream = [file |-> file, offset |-> 0, buffer |-> [i \in 0 .. BUFSIZE |-> b], cursor |-> 0,
                   limit |-> START_LIMIT, unget |-> <<>>, dirty |-> FALSE]
  BY DEF MisuseInit
<1>2. PICK file \in [1 .. n -> Byte], b \in Byte :
         stream = [file |-> file, offset |-> 0, buffer |-> [i \in 0 .. BUFSIZE |-> b], cursor |-> 0,
                   limit |-> START_LIMIT, unget |-> <<>>, dirty |-> FALSE]
  BY <1>1
<1>3. n \in Nat /\ BUFSIZE \in Nat /\ START_LIMIT \in 0 .. BUFSIZE
  BY StreamAssumption, ProgramAssumption
<1>4. file \in Seq(Byte) /\ Len(file) = n
  BY <1>3
<1>5. [i \in 0 .. BUFSIZE |-> b] \in [0 .. BUFSIZE -> Byte] /\ 0 \in 0 .. BUFSIZE + 1
  BY <1>3
<1>6. stream \in WIDE
  BY <1>2, <1>3, <1>4, <1>5 DEF WIDE
<1>7. stream.dirty = FALSE /\ stream.cursor = 0 /\ stream.limit = START_LIMIT /\ stream.offset = 0 /\ stream.file = file
  BY <1>2
<1>8. Wide(stream)
  BY <1>3, <1>4, <1>6, <1>7 DEF Wide
<1>9. put = <<>> /\ slips = {}
  BY DEF MisuseInit
<1>10. put \in Seq(Byte) /\ OutsideByOne /\ PendingKept /\ ReadAheadClean
  BY <1>3, <1>7, <1>9 DEF OutsideByOne, PendingKept, ReadAheadClean
<1> QED BY <1>7, <1>8, <1>9, <1>10 DEF MisuseInv

(* A call that breaks no rule puts what waits in put; one that breaks a    *)
(* rule need only have done what it can do.                                *)
LEMMA DoInv ==
    ASSUME MisuseInv, NEW o, NEW made, NEW waiting, Do(o, made, waiting), Wide(o.s),
           made \subseteq {ShortWrite, WroteAfterReading, ReadAfterWriting, SoughtAnyway},
           waiting \in Seq(Byte),
           o.s.cursor > BUFSIZE =>
               o.s.cursor = BUFSIZE + 1 /\ o.s.limit = BUFSIZE /\ WroteAfterReading \in slips \cup made,
           o.s.limit > 0 /\ o.s.dirty =>
               (slips \cup made) \cap {WroteAfterReading, ReadAfterWriting, SoughtAnyway} # {},
           (slips \cup made) \subseteq {ShortWrite} =>
               IF o.s.dirty THEN Buffered(o.s, o.s.cursor) = waiting /\ o.s.cursor > 0
               ELSE waiting = <<>>
    PROVE  MisuseInv'
<1>1. stream' = o.s /\ slips' = slips \cup made
      /\ put' = IF slips' \subseteq {ShortWrite} THEN waiting ELSE <<>>
  BY DEF Do
<1>2. put' \in Seq(Byte)
  <2>1. put' = waiting \/ put' = <<>>
    BY <1>1
  <2>2. <<>> \in Seq(Byte)
    OBVIOUS
  <2> QED BY <2>1, <2>2, Zenon
<1>3. Wide(stream')
  BY <1>1
<1>4. slips' \subseteq {ShortWrite, WroteAfterReading, ReadAfterWriting, SoughtAnyway}
  BY <1>1 DEF MisuseInv
<1>5. OutsideByOne'
  BY <1>1 DEF OutsideByOne
<1>6. ReadAheadClean'
  BY <1>1 DEF ReadAheadClean
<1>7. PendingKept' /\ (slips' \subseteq {ShortWrite} /\ stream'.dirty => stream'.cursor > 0)
  BY <1>1 DEF PendingKept, Pending
<1> QED BY <1>2, <1>3, <1>4, <1>5, <1>6, <1>7 DEF MisuseInv, Wide, WIDE

LEMMA SlipIn == ASSUME NEW which, NEW made PROVE Slip(which, made) \subseteq {which} /\ (made => which \in Slip(which, made))
  BY DEF Slip

(* What fputc leaves, rules or none.                                       *)
LEMMA WriteKeeps ==
    ASSUME BUFSIZE > 0, MisuseInv, NEW c \in Byte, Write(c)
    PROVE  MisuseInv'
<1> DEFINE made(o) == Slip(WroteAfterReading, stream.limit > 0) \cup Slip(ShortWrite, Short(o))
           waiting(o) == IF o.ret = EOF THEN put
                         ELSE IF ~ o.s.dirty THEN <<>>
                         ELSE IF Moved(o) THEN <<c>> ELSE Append(put, c)
<1>1. PICK o \in Fputc(stream, c) : Do(o, made(o), waiting(o))
  BY Zenon DEF Write
<1>2. /\ stream \in WIDE /\ Wide(stream) /\ stream.limit \in Nat /\ stream.limit <= BUFSIZE
      /\ stream.cursor \in Nat /\ BUFSIZE \in Nat /\ stream.dirty \in BOOLEAN
      /\ put \in Seq(Byte) /\ stream.offset \in Nat
  BY WideFields DEF MisuseInv, Wide
<1>3. c # EOF
  BY StreamAssumption DEF EOF
<1>4. /\ made(o) \subseteq {ShortWrite, WroteAfterReading, ReadAfterWriting, SoughtAnyway}
      /\ stream.limit > 0 => WroteAfterReading \in made(o)
  <2>1. /\ Slip(WroteAfterReading, stream.limit > 0) \subseteq {WroteAfterReading}
        /\ stream.limit > 0 => WroteAfterReading \in Slip(WroteAfterReading, stream.limit > 0)
    BY SlipIn, Zenon
  <2>2. Slip(ShortWrite, Short(o)) \subseteq {ShortWrite}
    BY SlipIn, Zenon
  <2> HIDE DEF Slip, Short
  <2> QED BY <2>1, <2>2, Zenon
<1>5. waiting(o) \in Seq(Byte)
  BY <1>2
<1>6. /\ stream.cursor > BUFSIZE =>
           stream.cursor = BUFSIZE + 1 /\ stream.limit = BUFSIZE /\ WroteAfterReading \in slips
      /\ stream.limit > 0 /\ stream.dirty =>
           slips \cap {WroteAfterReading, ReadAfterWriting, SoughtAnyway} # {}
  BY DEF MisuseInv, OutsideByOne, ReadAheadClean
<1> DEFINE Fits ==
       /\ Wide(o.s)
       /\ o.s.cursor > BUFSIZE =>
            o.s.cursor = BUFSIZE + 1 /\ o.s.limit = BUFSIZE /\ WroteAfterReading \in slips \cup made(o)
       /\ o.s.limit > 0 /\ o.s.dirty =>
            (slips \cup made(o)) \cap {WroteAfterReading, ReadAfterWriting, SoughtAnyway} # {}
       /\ (slips \cup made(o)) \subseteq {ShortWrite} =>
            IF o.s.dirty THEN Buffered(o.s, o.s.cursor) = waiting(o) /\ o.s.cursor > 0
            ELSE waiting(o) = <<>>
<1>7. ASSUME (slips \cup made(o)) \subseteq {ShortWrite}
      PROVE  slips \subseteq {ShortWrite} /\ stream.limit = 0
  <2> HIDE DEF made
  <2>1. slips \subseteq {ShortWrite} /\ WroteAfterReading \notin made(o)
    BY <1>7 DEF ShortWrite, WroteAfterReading
  <2> QED BY <1>2, <1>4, <2>1
<1>8. ASSUME o.ret = EOF, o.s = stream
      PROVE  Fits
  <2>1. waiting(o) = put
    BY <1>8
  <2>2. (slips \cup made(o)) \subseteq {ShortWrite} =>
            IF o.s.dirty THEN Buffered(o.s, o.s.cursor) = put /\ o.s.cursor > 0 ELSE put = <<>>
    BY <1>7, <1>8, MisuseDirty DEF Pending
  <2> HIDE DEF made, waiting
  <2> QED BY <1>2, <1>6, <1>8, <2>1, <2>2
<1>9. ASSUME o.ret = c, stream.cursor <= BUFSIZE, o.s = Stored(stream, c), stream.cursor = BUFSIZE => ~ stream.dirty
      PROVE  Fits
  <2>1. /\ Wide(o.s) /\ o.s.dirty = TRUE /\ o.s.cursor = stream.cursor + 1
        /\ o.s.limit = stream.limit /\ o.s.offset = stream.offset
        /\ Buffered(o.s, stream.cursor + 1) = Append(Buffered(stream, stream.cursor), c)
    <3> DEFINE t == Stored(stream, c)
    <3>1. /\ Wide(t) /\ t.dirty = TRUE /\ t.cursor = stream.cursor + 1
          /\ t.limit = stream.limit /\ t.offset = stream.offset
          /\ Buffered(t, stream.cursor + 1) = Append(Buffered(stream, stream.cursor), c)
      BY <1>2, <1>9, WideStored
    <3> HIDE DEF t
    <3> QED BY <1>9, <3>1 DEF t
  <2>2. waiting(o) = Append(put, c)
    BY <1>3, <1>9, <2>1 DEF Moved
  <2>3. o.s.cursor > BUFSIZE => o.s.cursor = BUFSIZE + 1 /\ o.s.limit = BUFSIZE /\ stream.limit > 0
    <3>1. SUFFICES ASSUME o.s.cursor > BUFSIZE PROVE stream.cursor = BUFSIZE /\ stream.limit = BUFSIZE
      BY <1>2, <2>1
    <3>2. stream.cursor = BUFSIZE /\ ~ stream.dirty
      BY <1>2, <1>9, <2>1, <3>1
    <3> QED BY <1>2, <3>2 DEF Wide
  <2>4. ASSUME (slips \cup made(o)) \subseteq {ShortWrite}
        PROVE  Buffered(o.s, o.s.cursor) = Append(put, c) /\ o.s.cursor > 0
    <3>1. Buffered(stream, stream.cursor) = put
      <4>1. CASE stream.dirty
        BY <1>7, <2>4, <4>1, MisuseDirty DEF Pending
      <4>2. CASE ~ stream.dirty
        <5>1. put = <<>> /\ stream.cursor = 0
          BY <1>2, <1>7, <2>4, <4>2, MisuseDirty DEF Wide
        <5>2. Buffered(stream, 0) \in Seq(Byte) /\ Len(Buffered(stream, 0)) = 0
          BY <1>2, WideBuffered
        <5> QED BY <5>1, <5>2
      <4> QED BY <4>1, <4>2
    <3> QED BY <1>2, <2>1, <3>1
  <2> HIDE DEF made, waiting
  <2> QED BY <1>2, <1>4, <2>1, <2>2, <2>3, <2>4
<1>10. ASSUME o.ret = c, NEW t, Wide(t), Emptied(stream, t), o.s = Stored(t, c)
       PROVE  Fits
  <2>1. t.cursor = 0 /\ t.limit = stream.limit /\ stream.dirty /\ t.offset > stream.offset
        /\ t.cursor <= BUFSIZE /\ t \in WIDE
    BY <1>2, <1>10 DEF Emptied, Wide
  <2>2. /\ Wide(o.s) /\ o.s.dirty = TRUE /\ o.s.cursor = 1
        /\ o.s.limit = stream.limit /\ o.s.offset = t.offset
        /\ Buffered(o.s, 1) = Append(Buffered(t, 0), c)
    <3> DEFINE u == Stored(t, c)
    <3>1. /\ Wide(u) /\ u.dirty = TRUE /\ u.cursor = t.cursor + 1
          /\ u.limit = t.limit /\ u.offset = t.offset
          /\ Buffered(u, t.cursor + 1) = Append(Buffered(t, t.cursor), c)
      BY <1>10, <2>1, WideStored
    <3> HIDE DEF u
    <3> QED BY <1>10, <2>1, <3>1 DEF u
  <2>3. Buffered(o.s, o.s.cursor) = <<c>>
    <3>1. Buffered(t, 0) \in Seq(Byte) /\ Len(Buffered(t, 0)) = 0
      BY <1>2, <2>1, WideBuffered
    <3>2. Buffered(t, 0) = <<>>
      BY <3>1
    <3> HIDE DEF made, waiting
    <3>3. Append(<<>>, c) = <<c>>
      OBVIOUS
    <3> QED BY <2>2, <3>2, <3>3
  <2>4. waiting(o) = <<c>>
    BY <1>2, <1>3, <1>10, <2>1, <2>2 DEF Moved
  <2> HIDE DEF made, waiting
  <2> QED BY <1>2, <1>4, <2>2, <2>3, <2>4
<1>11. ASSUME o.ret = c, Wide(o.s), o.s.dirty = FALSE, o.s.cursor = 0
       PROVE  Fits
  <2>1. waiting(o) = <<>>
    BY <1>3, <1>11
  <2> HIDE DEF made, waiting
  <2> QED BY <1>2, <1>11, <2>1
<1>12. Fits
  <2>1. /\ Wide(o.s)
        /\ \/ o.ret = EOF /\ o.s = stream
           \/ o.ret = c /\ stream.cursor <= BUFSIZE /\ o.s = Stored(stream, c)
                /\ (stream.cursor = BUFSIZE => ~ stream.dirty)
           \/ o.ret = c /\ \E t : Wide(t) /\ Emptied(stream, t) /\ o.s = Stored(t, c)
           \/ o.ret = c /\ o.s.dirty = FALSE /\ o.s.cursor = 0
    BY <1>2, WideFputc
  <2> HIDE DEF Fits
  <2> QED BY <1>8, <1>9, <1>10, <1>11, <2>1, Zenon
<1> HIDE DEF made, waiting
<1> QED BY <1>1, <1>4, <1>5, <1>12, DoInv

LEMMA ReadKeeps ==
    ASSUME BUFSIZE > 0, MisuseInv, Read
    PROVE  MisuseInv' /\ stream'.file = stream.file
<1> DEFINE made == Slip(ReadAfterWriting, put # <<>>)
<1>1. PICK o \in Fgetc(stream) : Do(o, made, put)
  BY Zenon DEF Read
<1>2. /\ stream \in WIDE /\ Wide(stream) /\ stream.limit \in Nat /\ stream.limit <= BUFSIZE
      /\ stream.cursor \in Nat /\ BUFSIZE \in Nat /\ stream.dirty \in BOOLEAN
      /\ put \in Seq(Byte)
  BY WideFields DEF MisuseInv, Wide
<1>3. Wide(o.s) /\ o.s.file = stream.file /\ o.s.dirty = stream.dirty /\ (o.s = stream \/ o.s.cursor <= o.s.limit)
  BY <1>2, WideFgetc
<1>4. o.s.cursor \in Nat /\ o.s.limit \in Nat /\ o.s.limit <= BUFSIZE
  BY <1>3, WideFields DEF Wide
<1>5. /\ made \subseteq {ShortWrite, WroteAfterReading, ReadAfterWriting, SoughtAnyway}
      /\ put # <<>> => ReadAfterWriting \in made
  BY SlipIn
<1>6. o.s.cursor > BUFSIZE =>
        o.s.cursor = BUFSIZE + 1 /\ o.s.limit = BUFSIZE /\ WroteAfterReading \in slips \cup made
  <2>1. CASE o.s = stream
    BY <2>1 DEF MisuseInv, OutsideByOne
  <2>2. CASE o.s.cursor <= o.s.limit
    BY <1>2, <1>4, <2>2
  <2> QED BY <1>3, <2>1, <2>2
<1>7. ASSUME (slips \cup made) \subseteq {ShortWrite}
      PROVE  ~ stream.dirty /\ put = <<>>
  <2>1. slips \subseteq {ShortWrite} /\ put = <<>>
    BY <1>5, <1>7 DEF ShortWrite, ReadAfterWriting
  <2> QED BY <2>1, MisuseDirty
<1>8. ASSUME o.s.limit > 0, o.s.dirty
      PROVE  (slips \cup made) \cap {WroteAfterReading, ReadAfterWriting, SoughtAnyway} # {}
  <2>1. ~ ((slips \cup made) \subseteq {ShortWrite})
    BY <1>3, <1>7, <1>8
  <2> QED BY <1>5, <2>1 DEF MisuseInv
<1>9. (slips \cup made) \subseteq {ShortWrite} =>
        IF o.s.dirty THEN Buffered(o.s, o.s.cursor) = put /\ o.s.cursor > 0 ELSE put = <<>>
  BY <1>3, <1>7
<1> HIDE DEF made
<1>10. MisuseInv'
  BY <1>1, <1>2, <1>3, <1>5, <1>6, <1>8, <1>9, DoInv
<1> QED BY <1>1, <1>3, <1>10 DEF Do

LEMMA FlushKeeps ==
    ASSUME BUFSIZE > 0, MisuseInv, Flush
    PROVE  MisuseInv'
<1> DEFINE made(o) == Slip(ShortWrite, Short(o))
           waiting(o) == IF o.ret = DONE THEN <<>> ELSE put
<1>1. PICK o \in Fflush(stream) : Do(o, made(o), waiting(o))
  BY Zenon DEF Flush
<1>2. /\ stream \in WIDE /\ Wide(stream) /\ stream.limit \in Nat
      /\ stream.cursor \in Nat /\ BUFSIZE \in Nat /\ stream.dirty \in BOOLEAN
      /\ put \in Seq(Byte)
  BY WideFields DEF MisuseInv, Wide
<1>3. /\ Wide(o.s)
      /\ \/ o.s = stream /\ o.ret = DONE /\ (~ stream.dirty \/ stream.cursor = 0)
         \/ o.s = stream /\ o.ret = FAIL
         \/ o.ret = DONE /\ Emptied(stream, o.s)
  BY <1>2, WideFlush
<1>4. made(o) \subseteq {ShortWrite}
  BY SlipIn
<1>5. waiting(o) \in Seq(Byte)
  BY <1>2
<1>6. /\ stream.cursor > BUFSIZE =>
           stream.cursor = BUFSIZE + 1 /\ stream.limit = BUFSIZE /\ WroteAfterReading \in slips
      /\ stream.limit > 0 /\ stream.dirty =>
           slips \cap {WroteAfterReading, ReadAfterWriting, SoughtAnyway} # {}
  BY DEF MisuseInv, OutsideByOne, ReadAheadClean
<1> DEFINE Fits ==
       /\ Wide(o.s)
       /\ o.s.cursor > BUFSIZE =>
            o.s.cursor = BUFSIZE + 1 /\ o.s.limit = BUFSIZE /\ WroteAfterReading \in slips \cup made(o)
       /\ o.s.limit > 0 /\ o.s.dirty =>
            (slips \cup made(o)) \cap {WroteAfterReading, ReadAfterWriting, SoughtAnyway} # {}
       /\ (slips \cup made(o)) \subseteq {ShortWrite} =>
            IF o.s.dirty THEN Buffered(o.s, o.s.cursor) = waiting(o) /\ o.s.cursor > 0
            ELSE waiting(o) = <<>>
<1>7. ASSUME Emptied(stream, o.s), o.ret = DONE
      PROVE  Fits
  <2>1. waiting(o) = <<>> /\ o.s.dirty = FALSE /\ o.s.cursor = 0
    BY <1>7 DEF Emptied
  <2> HIDE DEF made, waiting
  <2> QED BY <1>2, <1>3, <2>1
<1>8. ASSUME o.s = stream, o.ret = FAIL \/ ~ stream.dirty \/ stream.cursor = 0,
             o.ret \in {DONE, FAIL}
      PROVE  Fits
  <2>1. ASSUME (slips \cup made(o)) \subseteq {ShortWrite}
        PROVE  IF o.s.dirty THEN Buffered(o.s, o.s.cursor) = waiting(o) /\ o.s.cursor > 0 ELSE waiting(o) = <<>>
    <3>1. slips \subseteq {ShortWrite}
      BY <2>1
    <3>2. CASE stream.dirty
      <4>1. Pending = put /\ stream.cursor > 0
        BY <3>1, <3>2, MisuseDirty
      <4>2. o.ret # DONE
        BY <1>2, <1>8, <3>2, <4>1 DEF FAIL, DONE
      <4> QED BY <1>8, <3>2, <4>1, <4>2 DEF Pending
    <3>3. CASE ~ stream.dirty
      BY <1>8, <3>1, <3>3, MisuseDirty
    <3> QED BY <3>2, <3>3
  <2> HIDE DEF made, waiting
  <2> QED BY <1>3, <1>6, <1>8, <2>1
<1>9. Fits
  <2> HIDE DEF Fits
  <2> QED BY <1>3, <1>7, <1>8
<1>10. made(o) \subseteq {ShortWrite, WroteAfterReading, ReadAfterWriting, SoughtAnyway}
  BY <1>4
<1> HIDE DEF made, waiting
<1> QED BY <1>1, <1>5, <1>9, <1>10, DoInv

LEMMA SeekKeeps ==
    ASSUME BUFSIZE > 0, MisuseInv, NEW offset \in Int, Seek(offset)
    PROVE  MisuseInv'
<1> DEFINE made(o) == Slip(SoughtAnyway, o.s.dirty /\ put # <<>>)
                \cup Slip(ShortWrite, ~ o.s.dirty /\ o.s.file # Overlay(stream.file, stream.offset, put))
<1>1. PICK o \in Fseek(stream, offset, SEEK_SET) : Do(o, made(o), <<>>)
  BY Zenon DEF Seek
<1>2. Wide(stream) /\ BUFSIZE \in Nat /\ stream.dirty \in BOOLEAN
  BY WideFields DEF MisuseInv, Wide
<1>3. /\ Wide(o.s) /\ o.s.cursor = 0 /\ o.s.limit = 0
      /\ o.s.dirty = stream.dirty \/ o.s.dirty = FALSE
  BY <1>2, WideFseek
<1>4. /\ made(o) \subseteq {ShortWrite, WroteAfterReading, ReadAfterWriting, SoughtAnyway}
      /\ o.s.dirty /\ put # <<>> => SoughtAnyway \in made(o)
  BY SlipIn
<1>5. ASSUME (slips \cup made(o)) \subseteq {ShortWrite}
      PROVE  ~ o.s.dirty
  <2>1. slips \subseteq {ShortWrite} /\ ~ (o.s.dirty /\ put # <<>>)
    BY <1>4, <1>5 DEF ShortWrite, SoughtAnyway
  <2> QED BY <1>3, <2>1, MisuseDirty
<1> HIDE DEF made
<1>6. <<>> \in Seq(Byte) /\ ~ (o.s.cursor > BUFSIZE) /\ ~ (o.s.limit > 0)
  BY <1>2, <1>3
<1> QED BY <1>1, <1>3, <1>4, <1>5, <1>6, DoInv

LEMMA MisuseNextInv == BUFSIZE > 0 /\ MisuseInv /\ [MisuseNext]_allVars => MisuseInv'
<1> SUFFICES ASSUME BUFSIZE > 0, MisuseInv, [MisuseNext]_allVars PROVE MisuseInv'
  OBVIOUS
<1>1. ASSUME NEW c \in Byte, Write(c) PROVE MisuseInv'
  BY <1>1, WriteKeeps
<1>2. CASE Read
  BY <1>2, ReadKeeps
<1>3. CASE Flush
  BY <1>3, FlushKeeps
<1>4. ASSUME NEW offset \in Offsets, Seek(offset) PROVE MisuseInv'
  <2>1. offset \in Int
    BY ProgramAssumption
  <2> QED BY <1>4, <2>1, SeekKeeps
<1>5. CASE UNCHANGED allVars
  BY <1>5 DEF allVars, vars, MisuseInv, OutsideByOne, PendingKept, Pending, ReadAheadClean
<1> QED BY <1>1, <1>2, <1>3, <1>4, <1>5 DEF MisuseNext

(* MisuseContained (stdio.cpp:22-53, 241-257, 459-469): for any buffer,    *)
(* file, and failing and short calls, and any order of fputc, fgetc,       *)
(* fflush and fseek, each broken rule does the harm it can do and no       *)
(* other.                                                                  *)
THEOREM Misused == BUFSIZE > 0 /\ MisuseSpec => []MisuseContained
<1>1. BUFSIZE > 0 /\ [MisuseNext]_allVars => (BUFSIZE > 0)'
  OBVIOUS
<1>2. MisuseInv => MisuseContained
  BY DEF MisuseInv, MisuseContained
<1> QED BY <1>1, <1>2, MisuseInitInv, MisuseNextInv, PTL DEF MisuseSpec

(* WritesFronts (stdio.cpp:29-36): in a stream fopen makes, which is not   *)
(* line-buffered, a write puts a front of what was promised in its place.  *)
THEOREM Fronts == BUFSIZE > 0 /\ ~ LINE_BUFFERED /\ MisuseSpec => WritesFronts
<1> DEFINE Front1 == stream'.file # stream.file /\ slips' \subseteq {ShortWrite} =>
               \E n \in 1 .. Len(put) : stream'.file = Overlay(stream.file, stream.offset, SubSeq(put, 1, n))
<1>1. ASSUME BUFSIZE > 0, ~ LINE_BUFFERED, MisuseInv, [MisuseNext]_allVars PROVE Front1
  <2> SUFFICES ASSUME stream'.file # stream.file, slips' \subseteq {ShortWrite}
               PROVE  \E n \in 1 .. Len(put) : stream'.file = Overlay(stream.file, stream.offset, SubSeq(put, 1, n))
    OBVIOUS
  <2>1. Wide(stream) /\ stream \in WIDE /\ stream.cursor \in Nat /\ BUFSIZE \in Nat
    BY <1>1, WideFields DEF MisuseInv, Wide
  <2>2. ASSUME NEW t, Emptied(stream, t), stream'.file = t.file, slips \subseteq slips'
        PROVE  \E n \in 1 .. Len(put) : stream'.file = Overlay(stream.file, stream.offset, SubSeq(put, 1, n))
    <3>1. slips \subseteq {ShortWrite} /\ stream.dirty
      BY <2>2 DEF Emptied
    <3>2. Buffered(stream, stream.cursor) = put /\ stream.cursor <= BUFSIZE
      BY <1>1, <3>1, MisuseDirty DEF Pending
    <3>3. PICK w \in 1 .. stream.cursor : t.file = Overlay(stream.file, stream.offset, Buffered(stream, w))
      BY <2>2 DEF Emptied
    <3>4. Len(put) = stream.cursor /\ put \in Seq(Byte)
      BY <2>1, <3>2, WideBuffered
    <3>5. Buffered(stream, w) = SubSeq(put, 1, w)
      <4>1. w \in Nat /\ w <= stream.cursor /\ w <= BUFSIZE + 1
        BY <2>1, <3>2, <3>3
      <4>2. Buffered(stream, w) \in Seq(Byte) /\ Len(Buffered(stream, w)) = w
        BY <2>1, <4>1, WideBuffered
      <4>3. SubSeq(put, 1, w) \in Seq(Byte) /\ Len(SubSeq(put, 1, w)) = w
        BY <2>1, <3>4, <4>1
      <4>4. ASSUME NEW i \in 1 .. w PROVE Buffered(stream, w)[i] = SubSeq(put, 1, w)[i]
        <5>1. SubSeq(put, 1, w)[i] = put[i] /\ i \in 1 .. stream.cursor
          BY <2>1, <3>4, <4>1
        <5>2. put[i] = stream.buffer[i - 1]
          BY <3>2, <5>1 DEF Buffered
        <5>3. Buffered(stream, w)[i] = stream.buffer[i - 1]
          BY DEF Buffered
        <5> QED BY <5>1, <5>2, <5>3
      <4> QED BY <4>2, <4>3, <4>4
    <3> QED BY <2>2, <3>3, <3>4, <3>5
  <2>3. ASSUME NEW c \in Byte, Write(c) PROVE Front1
    <3>1. PICK o \in Fputc(stream, c) : stream' = o.s /\ slips \subseteq slips'
      BY <2>3 DEF Write, Do
    <3>2. \/ o.s = stream
          \/ stream.cursor <= BUFSIZE /\ o.s = Stored(stream, c)
          \/ \E t : Wide(t) /\ Emptied(stream, t) /\ o.s = Stored(t, c)
      BY <1>1, <2>1, WideFputc
    <3>3. CASE stream.cursor <= BUFSIZE /\ o.s = Stored(stream, c)
      BY <2>1, <3>1, <3>3, WideStored
    <3>4. ASSUME NEW t, Wide(t), Emptied(stream, t), o.s = Stored(t, c) PROVE Front1
      <4>1. t.cursor <= BUFSIZE
        BY <2>1, <3>4 DEF Emptied
      <4>2. Stored(t, c).file = t.file
        BY <3>4, <4>1, WideStored
      <4>3. stream'.file = t.file
        BY <3>1, <3>4, <4>2, Zenon
      <4> QED BY <2>2, <3>1, <3>4, <4>3
    <3> QED BY <3>1, <3>2, <3>3, <3>4
  <2>4. CASE Read
    BY <1>1, <2>4, ReadKeeps
  <2>5. CASE Flush
    <3>1. PICK o \in Fflush(stream) : stream' = o.s /\ slips \subseteq slips'
      BY <2>5 DEF Flush, Do
    <3>2. o.s = stream \/ Emptied(stream, o.s)
      BY <2>1, WideFlush
    <3> QED BY <2>2, <3>1, <3>2
  <2>6. ASSUME NEW offset \in Offsets, Seek(offset) PROVE Front1
    <3>1. PICK o \in Fseek(stream, offset, SEEK_SET) : stream' = o.s /\ slips \subseteq slips'
      BY <2>6 DEF Seek, Do
    <3>2. o.s.file = stream.file \/ \E t : Emptied(stream, t) /\ o.s.file = t.file
      BY <2>1, ProgramAssumption, WideFseek
    <3> QED BY <2>2, <3>1, <3>2
  <2>7. CASE UNCHANGED allVars
    BY <2>7 DEF allVars, vars
  <2> QED BY <1>1, <2>3, <2>4, <2>5, <2>6, <2>7 DEF MisuseNext
<1>2. BUFSIZE > 0 /\ ~ LINE_BUFFERED /\ [MisuseNext]_allVars => (BUFSIZE > 0 /\ ~ LINE_BUFFERED)'
  OBVIOUS
<1> QED BY <1>1, <1>2, MisuseInitInv, MisuseNextInv, PTL DEF MisuseSpec, WritesFronts

===============================================================================
