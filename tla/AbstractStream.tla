--------------------------- MODULE AbstractStream ---------------------------
(***************************************************************************)
(* What a stdio stream promises: a position in a file; bytes read are the  *)
(* file's bytes from that position on, after the bytes pushed back; bytes  *)
(* accepted reach the file in order, each once, where they were written,   *)
(* though some may be pending.  No buffer is read ahead here.              *)
(***************************************************************************)
EXTENDS Integers, Sequences

CONSTANTS
    Byte,
    Lossy   \* closing may lose pending bytes: write fails, fclose is silent

VARIABLES
    data,     \* the file
    pos,      \* where the next byte is read or written
    pending,  \* bytes accepted and not in the file yet: those before pos
    pushed,   \* bytes pushed back, the last first to come
    took      \* the bytes the last step delivered

vars == <<data, pos, pending, pushed, took>>

Write(file, at, bytes) ==
    LET end == at + Len(bytes)
    IN  [i \in 1 .. IF end > Len(file) THEN end ELSE Len(file) |->
            IF i \in at + 1 .. end THEN bytes[i - at] ELSE file[i]]

(* The first k of the bytes in all, which end before position end, are     *)
(* saved, and the others are pending.                                      *)
Save(all, end, k) ==
    /\ data' = Write(data, end - Len(all), SubSeq(all, 1, k))
    /\ pending' = SubSeq(all, k + 1, Len(all))

Init ==
    /\ data \in Seq(Byte) /\ pos = 0 /\ pending = <<>> /\ pushed = <<>> /\ took = <<>>

Put(c) ==
    /\ \E k \in 0 .. Len(pending) + 1 : Save(Append(pending, c), pos + 1, k)
    /\ pos' = pos + 1
    /\ took' = <<>>
    /\ UNCHANGED pushed

Flush ==
    /\ Save(pending, pos, Len(pending))
    /\ took' = <<>>
    /\ UNCHANGED <<pos, pushed>>

Take(k) ==
    /\ pending = <<>> /\ pushed = <<>>
    /\ took' = SubSeq(data, pos + 1, pos + k)
    /\ pos' = pos + k
    /\ UNCHANGED <<data, pending, pushed>>

(* A byte pushed back may come as a negative char. *)
TakePushed ==
    /\ pending = <<>> /\ pushed # <<>>
    /\ pushed' = SubSeq(pushed, 1, Len(pushed) - 1)
    /\ took' \in {<<pushed[Len(pushed)]>>, <<pushed[Len(pushed)] - 256>>}
    /\ UNCHANGED <<data, pos, pending>>

Push(c) ==
    /\ pushed' = Append(pushed, c)
    /\ took' = <<>>
    /\ UNCHANGED <<data, pos, pending>>

(* After a seek that fails the position is unspecified. *)
Seek(to) ==
    /\ Save(pending, pos, Len(pending))
    /\ pos' = to /\ pushed' = <<>> /\ took' = <<>>

(* An end of file, a failure, a call that delivers nothing. *)
Nothing == took' = <<>> /\ UNCHANGED <<data, pos, pending, pushed>>

Reopen ==
    /\ pending = <<>> \/ Lossy
    /\ pos' = 0 /\ pending' = <<>> /\ pushed' = <<>> /\ took' = <<>>
    /\ UNCHANGED data

Next ==
    \/ \E c \in Byte : Put(c) \/ Push(c)
    \/ \E k \in 1 .. Len(data) - pos : Take(k)
    \/ \E to \in 0 .. Len(data) + Len(pending) : Seek(to)
    \/ Flush \/ TakePushed \/ Nothing \/ Reopen

Spec == Init /\ [][Next]_vars
=============================================================================
