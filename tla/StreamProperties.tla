-------------------------- MODULE StreamProperties --------------------------
(***************************************************************************)
(* What makes the streams of src/src/stdio.cpp correct.                    *)
(***************************************************************************)
EXTENDS Stream

(* The type of every variable; cursor and limit stay inside the buffer, so *)
(* that no store of fputc falls behind it (stdio.cpp:40-46).               *)
TypeOK ==
    /\ stream \in FILE
    /\ mode \in {"idle", "reading", "writing", "closed"}
    /\ call \in Call
    /\ result.ret \in Int

(* The one buffer is never used both ways: the bytes in it still to be     *)
(* read are what the file holds in front of the descriptor's offset, byte  *)
(* by byte, and there are none while the program writes.  A read past the  *)
(* buffer moves the offset, but only when the buffer is used up.           *)
BufferMirrorsFile ==
    LET s == stream
    IN  s.limit > 0 =>
          /\ ~s.dirty
          /\ \A i \in s.cursor .. s.limit - 1 :
               LET at == s.offset - s.limit + i + 1
               IN  at \in 1 .. Len(s.file) /\ s.buffer[i] = s.file[at]

(* A line-buffered stream holds no completed line back.                    *)
CompleteLinesOut ==
    LINE_BUFFERED /\ stream.dirty =>
        \A i \in 0 .. stream.cursor - 1 : stream.buffer[i] # NEWLINE

(* Where the program is in the file, whatever the buffer holds. *)
Position == stream.offset - stream.limit + stream.cursor

(* ftell tells, and fseek counts from, the position the program is at, and *)
(* not where the descriptor is after reading ahead, writing behind and     *)
(* pushing back (stdio.cpp:461-464, 474-477).                              *)
PositionsAgree ==
    [][/\ ftell => result'.ret = Position - Len(stream.unget)
       /\ \A offset \in Offsets :
            /\ fseek(offset, SEEK_SET) /\ result'.ret = DONE => Position' = offset
            /\ fseek(offset, SEEK_CUR) /\ result'.ret = DONE /\ mode # "writing" =>
                 Position' = Position - Len(stream.unget) + offset]_vars

(* fgetc and fread report the end only when every byte has been delivered  *)
(* (or the kernel has failed): not at the end of a buffer.                 *)
EndOnlyAtEnd ==
    [][(fgetc /\ result'.took = <<>>)
            \/ (FreadStep /\ call'.op = "none" /\ Len(result'.took) < call.left)
        => ReadFails \/ ShortReads
             \/ (stream'.offset = Len(stream'.file) /\ stream'.cursor >= stream'.limit)]_vars

(* What AbstractStream promises, of every sequence of calls. *)
Abstract == INSTANCE AbstractStream WITH
                Lossy <- WriteFails,
                data <- stream.file,
                pos <- Position,
                pending <- IF stream.dirty THEN Buffered(stream, stream.cursor) ELSE <<>>,
                pushed <- stream.unget,
                took <- result.took
AbstractSpec == Abstract!Spec

(* What fread takes out of the buffer, or straight from the kernel, stands *)
(* in the file: it asks whether data remains in the buffer (stdio.cpp:395- *)
(* 396) before it asks the kernel.  Bytes pushed back are the program's,   *)
(* whatever they are, and go first (stdio.cpp:389-392).                    *)
FreadReadsTheFile ==
    [][FreadStep /\ stream.unget = <<>> => \E at \in 0 .. Len(stream.file) - Len(result'.took) :
            result'.took = SubSeq(stream.file, at + 1, at + Len(result'.took))]_vars

(* ftell subtracts what has been read ahead (stdio.cpp:474), and nothing   *)
(* for a program that has only written.                                    *)
TellsWhatIsWritten ==
    [][ftell /\ mode = "writing" /\ ~WriteFails => result'.ret = stream'.offset]_vars

(* The loops of fread, fwrite and fgets end, at the end of the file and    *)
(* when the kernel fails, too.                                             *)
CallsEnd == call.op # "none" ~> call.op = "none"
=============================================================================
