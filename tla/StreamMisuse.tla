----------------------------- MODULE StreamMisuse ----------------------------
(***************************************************************************)
(* The functions of Stream.tla under a program, and a kernel, that keep to *)
(* none of the rules there: reading and writing in turn without a seek,    *)
(* seeking when a flush has failed, and short writes.  What is kept then,  *)
(* and which slip loses what, are the questions.                           *)
(***************************************************************************)
EXTENDS Stream

VARIABLES
    put,    \* the bytes accepted from the program and given to no write yet,
            \* kept while write may have been short but no other rule broken
    slips   \* which of the rules have been broken

allVars == <<vars, put, slips>>

WroteAfterReading == "fputc with read-ahead in the buffer"
ReadAfterWriting == "fgetc with bytes pending"
SoughtAnyway == "fseek though its flush failed"
ShortWrite == "write took less than it was given"

(* The buffer has one byte of memory behind it, which is not its own.      *)
MisuseInit ==
    /\ \E n \in 0 .. MaxFile - 1 : \E file \in [1 .. n -> Byte], b \in Byte :
         stream = [file |-> file, offset |-> 0, buffer |-> [i \in 0 .. BUFSIZE |-> b], cursor |-> 0,
                   limit |-> START_LIMIT, unget |-> <<>>, dirty |-> FALSE]
    /\ mode = "idle" /\ call = NoCall /\ result = [took |-> <<>>, ret |-> DONE]
    /\ put = <<>> /\ slips = {}

Slip(which, made) == IF made THEN {which} ELSE {}

Do(o, made, waiting) ==
    /\ stream' = o.s
    /\ slips' = slips \cup made
    /\ put' = IF slips' \subseteq {ShortWrite} THEN waiting ELSE <<>>
    /\ UNCHANGED <<mode, call, result>>

Pending == Buffered(stream, stream.cursor)
Moved(o) == o.s.offset # stream.offset
Short(o) == Moved(o) /\ stream.dirty /\ o.s.offset < stream.offset + stream.cursor

(* Each action calls a function of Stream.tla; the rest is what is seen    *)
(* from outside.                                                           *)
Write(c) ==
    /\ Room > 0 /\ Len(stream.file) <= MaxFile
    /\ \E o \in Fputc(stream, c) :
         Do(o, Slip(WroteAfterReading, stream.limit > 0) \cup Slip(ShortWrite, Short(o)),
            IF o.ret = EOF THEN put
            ELSE IF ~ o.s.dirty THEN <<>>
            ELSE IF Moved(o) THEN <<c>> ELSE Append(put, c))

Read == \E o \in Fgetc(stream) : Do(o, Slip(ReadAfterWriting, put # <<>>), put)

Flush == \E o \in Fflush(stream) : Do(o, Slip(ShortWrite, Short(o)), IF o.ret = DONE THEN <<>> ELSE put)

Seek(offset) ==
    \E o \in Fseek(stream, offset, SEEK_SET) :
        Do(o, Slip(SoughtAnyway, o.s.dirty /\ put # <<>>)
                \cup Slip(ShortWrite, ~ o.s.dirty /\ o.s.file # Overlay(stream.file, stream.offset, put)), <<>>)

MisuseNext == (\E c \in Byte : Write(c)) \/ Read \/ Flush \/ \E offset \in Offsets : Seek(offset)
MisuseSpec == MisuseInit /\ [][MisuseNext]_allVars

-----------------------------------------------------------------------------
(* Properties. *)

(* fputc stores behind the buffer one byte at most, and only after a read  *)
(* has used up a full buffer: fflush then has nothing to flush and leaves  *)
(* cursor where it is (stdio.cpp:23, 40-46).                               *)
OutsideByOne ==
    stream.cursor > BUFSIZE =>
        /\ stream.cursor = BUFSIZE + 1 /\ stream.limit = BUFSIZE
        /\ WroteAfterReading \in slips

(* The bytes that wait in the buffer are the program's, in order, also     *)
(* after failed and short writes, and after a seek that did not flush, as  *)
(* long as nothing is read before the next flush.                          *)
PendingKept ==
    slips \subseteq {ShortWrite} => IF stream.dirty THEN Pending = put ELSE put = <<>>

(* A buffer that holds bytes read ahead is not marked dirty, which would   *)
(* write them back behind themselves, but for one of three slips; short    *)
(* writes do not lead there.                                               *)
ReadAheadClean ==
    stream.limit > 0 /\ stream.dirty =>
        slips \cap {WroteAfterReading, ReadAfterWriting, SoughtAnyway} # {}

(* Each misuse does the damage it can do and no other.                     *)
MisuseContained == OutsideByOne /\ PendingKept /\ ReadAheadClean

(* What a flush puts into the file is the front of what the program has    *)
(* been promised, at its place; a short write loses the rest, since fflush *)
(* empties the buffer all the same (stdio.cpp:29-36).                      *)
WritesFronts ==
    [][stream'.file # stream.file /\ slips' \subseteq {ShortWrite} =>
        \E n \in 1 .. Len(put) : stream'.file = Overlay(stream.file, stream.offset, SubSeq(put, 1, n))]_allVars
===============================================================================
