------------------------------- MODULE Stream -------------------------------
(***************************************************************************)
(* A stdio stream (src/src/stdio.cpp): struct _FILE, its one buffer shared *)
(* by reading ahead and writing behind, the push-back word of ungetc, and  *)
(* the file behind its descriptor, which the kernel's read, write and      *)
(* lseek move.  A function of stdio.cpp is an operator that gives the set  *)
(* of its outcomes, one for each answer of the kernel.                     *)
(***************************************************************************)
EXTENDS Integers, Sequences, FiniteSetsExt, SequencesExt

CONSTANTS
    BUFSIZE,        \* stdio.cpp:205: 1024; 0 for stderr
    UNGET_MAX,      \* stdio.cpp:232: 4, the bytes of ungetc_buf
    Byte,           \* the bytes in use, of 0 .. 255
    NEWLINE,        \* the byte '\n'
    LINE_BUFFERED,  \* whether flags holds _IOLBF, as stdout's do
    START_LIMIT,    \* limit when the stream is made: 0, or 1024 for stdout
    RECYCLED,       \* whether fopen's malloc gives it the memory of an old FILE
    ReadFails,      \* whether the kernel's read may answer -1
    WriteFails,     \* whether the kernel's write may answer -1
    ShortReads,     \* whether read may deliver less than there is
    ShortWrites     \* whether write may take less than it is given

ASSUME StreamAssumption ==
    /\ BUFSIZE \in Nat /\ UNGET_MAX \in Nat \ {0}
    /\ Byte \subseteq 0 .. 255
    /\ START_LIMIT \in 0 .. BUFSIZE
    /\ {LINE_BUFFERED, RECYCLED, ReadFails, WriteFails, ShortReads, ShortWrites} \subseteq BOOLEAN

VARIABLES
    stream,  \* the FILE, with the file and the offset of its descriptor
    mode,    \* what the program may do next without fflush or fseek
    call,    \* the fread, fwrite or fgets in progress
    result   \* what the last call, or the last step of one, returned

vars == <<stream, mode, call, result>>

EOF == -1
FAIL == -1
DONE == 0
Index == 0 .. (BUFSIZE - 1)

(* stdio.cpp:11-21; unget_count and ungetc_buf are a stack of bytes. *)
FILE == [file : Seq(Byte), offset : Nat, buffer : [Index -> Byte],
         cursor : 0 .. BUFSIZE, limit : 0 .. BUFSIZE,
         unget : Seq(Byte), dirty : BOOLEAN]

Buffered(s, n) == [i \in 1 .. n |-> s.buffer[i - 1]]

Overlay(file, at, bytes) ==
    [i \in 1 .. Max({Len(file), at + Len(bytes)}) |->
        IF i \in at + 1 .. at + Len(bytes) THEN bytes[i - at] ELSE file[i]]

-----------------------------------------------------------------------------
(* The kernel: read and write move the offset by what they answer. *)

Available(s) == Len(s.file) - s.offset

KernelRead(s, n) ==
    LET most == Min({n, Available(s)})
    IN  (IF ShortReads /\ most > 0 THEN 1 .. most ELSE {most})
            \cup (IF ReadFails THEN {-1} ELSE {})

KernelWrite(n) == (IF ShortWrites THEN 1 .. n ELSE {n}) \cup (IF WriteFails THEN {-1} ELSE {})

Lseek(s, target) ==
    IF target \in 0 .. Len(s.file)
    THEN [s |-> [s EXCEPT !.offset = target], ret |-> DONE]
    ELSE [s |-> s, ret |-> FAIL]

-----------------------------------------------------------------------------
(* The functions of stdio.cpp. *)

\* error: fflush forgets the buffer when write fails
FlushForgets(s) ==
    IF ~s.dirty \/ s.cursor = 0 THEN {[s |-> s, ret |-> DONE]}
    ELSE {IF w < 0 THEN [s |-> [s EXCEPT !.cursor = 0, !.dirty = FALSE], ret |-> FAIL]
          ELSE [s |-> [s EXCEPT !.file = Overlay(@, s.offset, Buffered(s, w)),
                                !.offset = @ + w,
                                !.cursor = 0, !.dirty = FALSE],
                ret |-> DONE] : w \in KernelWrite(s.cursor)}

\* error: the stream stays dirty
FlushStaysDirty(s) ==
    IF ~s.dirty \/ s.cursor = 0 THEN {[s |-> s, ret |-> DONE]}
    ELSE {IF w < 0 THEN [s |-> s, ret |-> FAIL]
          ELSE [s |-> [s EXCEPT !.file = Overlay(@, s.offset, Buffered(s, w)),
                                !.offset = @ + w, !.cursor = 0],
                ret |-> DONE] : w \in KernelWrite(s.cursor)}

\* error: the whole buffer is written, not the bytes in it
FlushWhole(s) ==
    IF ~s.dirty \/ s.cursor = 0 THEN {[s |-> s, ret |-> DONE]}
    ELSE {IF w < 0 THEN [s |-> s, ret |-> FAIL]
          ELSE [s |-> [s EXCEPT !.file = Overlay(@, s.offset, Buffered(s, w)),
                                !.offset = @ + w, !.cursor = 0, !.dirty = FALSE],
                ret |-> DONE] : w \in KernelWrite(BUFSIZE)}

(* stdio.cpp:22-38 *)
Fflush(s) ==
    IF ~s.dirty \/ s.cursor = 0 THEN {[s |-> s, ret |-> DONE]}
    ELSE {IF w < 0 THEN [s |-> s, ret |-> FAIL]
          ELSE [s |-> [s EXCEPT !.file = Overlay(@, s.offset, Buffered(s, w)),
                                !.offset = @ + w,
                                !.cursor = 0, !.dirty = FALSE],
                ret |-> DONE] : w \in KernelWrite(s.cursor)}

Stored(s, c) ==
    [s EXCEPT !.buffer[s.cursor] = c, !.cursor = @ + 1, !.dirty = TRUE]

\* error: the line test comes before the byte is in the buffer
FputcFlushFirst(s, c) ==
    UNION {IF r.ret # DONE THEN {[s |-> r.s, ret |-> EOF]}
           ELSE {[s |-> Stored(r.s, c), ret |-> c]} :
             r \in IF s.cursor >= BUFSIZE \/ (LINE_BUFFERED /\ c = NEWLINE)
                   THEN Fflush(s) ELSE {[s |-> s, ret |-> DONE]}}

\* error: the buffer counts as full one byte late
FputcLate(s, c) ==
    UNION {IF r.ret # DONE THEN {[s |-> r.s, ret |-> EOF]}
           ELSE {[s |-> Stored(r.s, c), ret |-> c]} :
             r \in IF s.cursor > BUFSIZE
                   THEN Fflush(s) ELSE {[s |-> s, ret |-> DONE]}}

(* stdio.cpp:39-53 *)
Fputc(s, c) ==
    UNION {IF r.ret # DONE THEN {[s |-> r.s, ret |-> EOF]}
           ELSE {[s |-> q.s, ret |-> c] :
                   q \in IF LINE_BUFFERED /\ c = NEWLINE THEN Fflush(Stored(r.s, c))
                         ELSE {[s |-> Stored(r.s, c), ret |-> DONE]}} :
             r \in IF s.cursor >= BUFSIZE THEN Fflush(s) ELSE {[s |-> s, ret |-> DONE]}}

(* stdio.cpp:231-240 *)
Ungetc(s, c) ==
    IF Len(s.unget) < UNGET_MAX
    THEN [s |-> [s EXCEPT !.unget = Append(@, c)], ret |-> c]
    ELSE [s |-> s, ret |-> EOF]

(* A byte of the push-back word goes through a char (stdio.cpp:244). *)
SignedChar(b) == IF b < 128 THEN b ELSE b - 256

(* The buffer after a read that answered n > 0 (stdio.cpp:250-254,         *)
(* 420-424).                                                               *)
Refilled(s, n) ==
    [s EXCEPT !.buffer = [i \in DOMAIN @ |-> IF i < n THEN s.file[s.offset + i + 1] ELSE @[i]],
              !.offset = @ + n, !.limit = n, !.cursor = 0]

Next1(s) == [s |-> [s EXCEPT !.cursor = @ + 1], ret |-> s.buffer[s.cursor]]

\* error: the refilled buffer is read from where the old one ended
FgetcKeepsCursor(s) ==
    IF s.unget # <<>>
    THEN {[s |-> [s EXCEPT !.unget = Front(@)], ret |-> SignedChar(Last(s.unget))]}
    ELSE IF s.cursor < s.limit THEN {Next1(s)}
    ELSE {IF n <= 0 THEN [s |-> s, ret |-> EOF]
          ELSE Next1([Refilled(s, n) EXCEPT !.cursor = Min({s.cursor, n - 1})]) :
            n \in KernelRead(s, BUFSIZE)}

(* stdio.cpp:241-257 *)
Fgetc(s) ==
    IF s.unget # <<>>
    THEN {[s |-> [s EXCEPT !.unget = Front(@)], ret |-> SignedChar(Last(s.unget))]}
    ELSE IF s.cursor < s.limit THEN {Next1(s)}
    ELSE {IF n <= 0 THEN [s |-> s, ret |-> EOF] ELSE Next1(Refilled(s, n)) :
            n \in KernelRead(s, BUFSIZE)}

SEEK_SET == 0
SEEK_CUR == 1
SEEK_END == 2

(* The bytes of the file the program has not read yet, read ahead or       *)
(* pushed back, count against a seek from the current position             *)
(* (stdio.cpp:461-464).                                                    *)
Ahead(s) == s.limit - s.cursor + Len(s.unget)

Target(s, offset, whence) ==
    CASE whence = SEEK_SET -> offset
      [] whence = SEEK_CUR -> s.offset + offset - Ahead(s)
      [] whence = SEEK_END -> Len(s.file) + offset

\* error: the read-ahead is not dropped
FseekKeepsLimit(s, offset, whence) ==
    {Lseek([r.s EXCEPT !.cursor = 0, !.unget = <<>>], Target(r.s, offset, whence)) :
        r \in Fflush(s)}

(* stdio.cpp:459-469 *)
Fseek(s, offset, whence) ==
    {Lseek([r.s EXCEPT !.cursor = 0, !.limit = 0, !.unget = <<>>],
           Target(r.s, offset, whence)) : r \in Fflush(s)}

\* error: the position of the descriptor is not corrected
FtellRaw(s) == {[s |-> r.s, ret |-> r.s.offset] : r \in Fflush(s)}

(* stdio.cpp:470-478 *)
Ftell(s) == {[s |-> r.s, ret |-> r.s.offset - Ahead(r.s)] : r \in Fflush(s)}

(* fopen assigns neither limit nor unget_count (stdio.cpp:210-219): they   *)
(* are what the memory holds, 0 or what an old FILE left there.            *)
Leftovers ==
    IF RECYCLED
    THEN [limit : 0 .. BUFSIZE, unget : {<<>>} \cup {<<b>> : b \in Byte}]
    ELSE {[limit |-> START_LIMIT, unget |-> <<>>]}

(* stdio.cpp:202-221, of a file that is there *)
Opened(s) == {[s EXCEPT !.offset = 0, !.cursor = 0, !.dirty = FALSE,
                        !.limit = l.limit, !.unget = l.unget] : l \in Leftovers}

(* The loops of fread with left bytes still to deliver: the bytes handed   *)
(* back first, then those of the buffer, and with the buffer empty either  *)
(* whole buffers straight from the kernel or a refill.                     *)
Segment(s, n) == SubSeq(s.file, s.offset + 1, s.offset + n)
Whole(left) == (left \div BUFSIZE) * BUFSIZE

\* error: a read that answers 0 does not end the loop
Fread1NoEof(s, left) ==
    IF s.cursor < s.limit
    THEN LET take == Min({s.limit - s.cursor, left})
         IN  {[s |-> [s EXCEPT !.cursor = @ + take],
               took |-> [i \in 1 .. take |-> s.buffer[s.cursor + i - 1]], stop |-> FALSE]}
    ELSE {[s |-> Refilled(s, n), took |-> <<>>, stop |-> FALSE] : n \in KernelRead(s, BUFSIZE)}

\* error: the end of the buffer is taken for the end of the file
Fread1OneBuffer(s, left) ==
    {IF n <= 0 THEN [s |-> s, took |-> <<>>, stop |-> TRUE]
     ELSE LET r == Refilled(s, n)
              take == Min({n, left})
          IN  [s |-> [r EXCEPT !.cursor = take],
               took |-> [i \in 1 .. take |-> r.buffer[i - 1]], stop |-> TRUE] :
        n \in KernelRead(s, BUFSIZE)}

(* How much of left the buffer gives: limit - cursor is unsigned, and past *)
(* limit, where a program that reads after writing without a seek may be,  *)
(* it is more than anyone asks for (stdio.cpp:396-399).                    *)
FromBuffer(s, left) == IF s.cursor < s.limit THEN Min({s.limit - s.cursor, left}) ELSE left

(* stdio.cpp:389-428: one turn, what it delivers, and whether it breaks. *)
Fread1(s, left) ==
    IF s.unget # <<>>
    THEN {[s |-> [s EXCEPT !.unget = Front(@)], took |-> <<Last(s.unget)>>, stop |-> FALSE]}
    ELSE IF s.cursor # s.limit
    THEN LET take == FromBuffer(s, left)
         IN  {[s |-> [s EXCEPT !.cursor = @ + take],
               took |-> [i \in 1 .. take |-> s.buffer[s.cursor + i - 1]], stop |-> FALSE]}
    ELSE IF left >= BUFSIZE
    THEN {IF n <= 0 THEN [s |-> s, took |-> <<>>, stop |-> TRUE]
          ELSE [s |-> [s EXCEPT !.offset = @ + n], took |-> Segment(s, n),
                stop |-> n < Whole(left)] : n \in KernelRead(s, Whole(left))}
    ELSE {IF n <= 0 THEN [s |-> s, took |-> <<>>, stop |-> TRUE]
          ELSE [s |-> Refilled(s, n), took |-> <<>>, stop |-> FALSE] :
            n \in KernelRead(s, BUFSIZE)}

-----------------------------------------------------------------------------
(* A program that uses the stream as the C standard allows: between output *)
(* and input it calls fflush or fseek, and when write may fail it calls    *)
(* fflush, whose answer it sees, before fseek, which does not tell.        *)

CONSTANTS
    Counts,   \* the item counts, and line lengths, the program asks for
    Offsets,  \* the offsets it seeks to
    MaxFile   \* bound: the length the file grows to

ASSUME ProgramAssumption ==
    Counts \subseteq Nat /\ Offsets \subseteq Int /\ MaxFile \in Nat \ {0}

NoCall == [op |-> "none", size |-> 1, total |-> 0, left |-> 0]
Call == [op : {"none", "fread", "fwrite", "fgets"}, size : Nat, total : Nat, left : Nat]

Init ==
    /\ \E file \in {<<>>} \cup [1 .. MaxFile - 1 -> Byte], b \in Byte, l \in Leftovers :
         stream = [file |-> file, offset |-> 0, buffer |-> [i \in Index |-> b], cursor |-> 0,
                   limit |-> l.limit, unget |-> l.unget, dirty |-> FALSE]
    /\ mode = "idle"
    /\ call = NoCall
    /\ result = [took |-> <<>>, ret |-> DONE]

Room == MaxFile - (stream.offset + stream.cursor)
Free == call.op = "none" /\ mode # "closed"
MayRead == Free /\ mode # "writing"
MayWrite(n) == Free /\ mode # "reading" /\ n <= Room

Answer(o, took) ==
    /\ stream' = o.s
    /\ result' = [took |-> took, ret |-> o.ret]

fputc(c) ==
    /\ MayWrite(1)
    /\ \E o \in Fputc(stream, c) : Answer(o, <<>>)
    /\ mode' = "writing"
    /\ UNCHANGED call

fflush ==
    /\ Free
    /\ \E o \in Fflush(stream) :
         /\ Answer(o, <<>>)
         /\ mode' = IF mode = "writing" /\ o.ret = DONE THEN "idle" ELSE mode
    /\ UNCHANGED call

fgetc ==
    /\ MayRead
    /\ \E o \in Fgetc(stream) : Answer(o, IF o.ret = EOF THEN <<>> ELSE <<o.ret>>)
    /\ mode' = "reading"
    /\ UNCHANGED call

ungetc(c) ==
    /\ MayRead
    /\ Answer(Ungetc(stream, c), <<>>)
    /\ mode' = "reading"
    /\ UNCHANGED call

fseek(offset, whence) ==
    /\ Free /\ (WriteFails => mode # "writing")
    /\ \E o \in Fseek(stream, offset, whence) : Answer(o, <<>>)
    /\ mode' = "idle"
    /\ UNCHANGED call

(* stdio.cpp:479-481 *)
rewind == fseek(0, SEEK_SET)

ftell ==
    /\ Free
    /\ \E o \in Ftell(stream) : Answer(o, <<>>)
    /\ UNCHANGED <<mode, call>>

(* stdio.cpp:222-230: what fflush answers is not looked at. *)
fclose ==
    /\ Free
    /\ \E o \in Fflush(stream) : Answer([o EXCEPT !.ret = DONE], <<>>)
    /\ mode' = "closed"
    /\ UNCHANGED call

fopen ==
    /\ mode = "closed"
    /\ \E s \in Opened(stream) : Answer([s |-> s, ret |-> DONE], <<>>)
    /\ mode' = "idle"
    /\ UNCHANGED call

(* stdio.cpp:383-386, 432-434, 446-448 *)
Begin(op, size, n) ==
    /\ IF op = "fwrite" THEN MayWrite(size * n) ELSE MayRead
    /\ call' = [op |-> op, size |-> size, total |-> size * n, left |-> size * n]
    /\ mode' = IF op = "fwrite" THEN "writing" ELSE "reading"
    /\ result' = [took |-> <<>>, ret |-> DONE]
    /\ UNCHANGED stream

fread(size, nmemb) == Begin("fread", size, nmemb)
fwrite(size, nmemb) == Begin("fwrite", size, nmemb)
fgets(n) == n > 0 /\ Begin("fgets", 1, n - 1)

(* The answer of fread and fwrite is the number of whole items, that of    *)
(* fgets the number of bytes in front of the final 0.                      *)
Return(c, o, took) ==
    /\ Answer([s |-> o.s, ret |-> (c.total - c.left) \div c.size], took)
    /\ call' = NoCall

FreadStep ==
    /\ call.op = "fread"
    /\ IF call.left = 0 THEN Return(call, [s |-> stream], <<>>)
       ELSE \E o \in Fread1(stream, call.left) :
              LET c == [call EXCEPT !.left = @ - Len(o.took)]
              IN  IF o.stop THEN Return(c, o, o.took)
                  ELSE /\ Answer([s |-> o.s, ret |-> DONE], o.took)
                       /\ call' = c
    /\ UNCHANGED mode

FwriteStep ==
    /\ call.op = "fwrite"
    /\ IF call.left = 0 THEN Return(call, [s |-> stream], <<>>)
       ELSE \E c \in Byte : \E o \in Fputc(stream, c) :
              IF o.ret < 0 THEN Return(call, o, <<>>)
              ELSE /\ Answer(o, <<>>)
                   /\ call' = [call EXCEPT !.left = @ - 1]
    /\ UNCHANGED mode

FgetsStep ==
    /\ call.op = "fgets"
    /\ IF call.left = 0 THEN Return(call, [s |-> stream], <<>>)
       ELSE \E o \in Fgetc(stream) :
              LET c == [call EXCEPT !.left = @ - 1]
              IN  IF o.ret < 0
                  THEN Return(call, o, IF o.ret = EOF THEN <<>> ELSE <<o.ret>>)
                  ELSE IF o.ret = NEWLINE THEN Return(c, o, <<o.ret>>)
                  ELSE /\ Answer(o, <<o.ret>>)
                       /\ call' = c
    /\ UNCHANGED mode

Step == FreadStep \/ FwriteStep \/ FgetsStep

Next ==
    \/ \E c \in Byte : fputc(c) \/ ungetc(c)
    \/ fflush \/ fgetc \/ ftell \/ rewind \/ fclose \/ fopen
    \/ \E offset \in Offsets, whence \in {SEEK_SET, SEEK_CUR, SEEK_END} :
         fseek(offset, whence)
    \/ \E size \in {1, 2}, n \in Counts : fread(size, n) \/ fwrite(size, n)
    \/ \E n \in Counts : fgets(n)
    \/ Step

Spec == Init /\ [][Next]_vars
FairSpec == Spec /\ WF_vars(Step)
=============================================================================
