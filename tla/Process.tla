-------------------------------- MODULE Process ------------------------------
(***************************************************************************)
(* Two processes on the system calls of src/src/unistd.cpp, one object of  *)
(* class Pipe (src/src/pipe.cpp, src/include/pipe), which fork copies with *)
(* the rest of the memory, and stdout's buffer, which it copies too.  Each *)
(* process runs a script of calls; the kernel's part is external.  It is   *)
(* taken to accept whole what is written to a descriptor that is open.     *)
(***************************************************************************)
EXTENDS Integers, Sequences, FiniteSetsExt, SequencesExt

CONSTANTS
    Scripts,   \* pairs of scripts, of the first process and of its child
    MaxFd      \* bound: the highest descriptor

Calls == {"Pipe", "close_read", "close_write", "~Pipe", "redirect_stdin", "redirect_stdout", "drain", "drain_stdin",
          "print", "fflush", "_exit", "execv", "fork", "wait", "open", "dup3", "sched_yield"}
ProcessAssumption ==
    /\ MaxFd \in Nat /\ MaxFd >= 4
    /\ \A s \in Scripts : s[1] \in Seq(Calls) /\ s[2] \in Seq(Calls)

VARIABLES
    proc,      \* of each process: status, table (its descriptors), pipe (its copy of the
               \* object), buffer (stdout's), script, and for the properties careless
               \* (it closed an end by itself, or had none) and foreign (Pipe closed
               \* what is not an end of the pipe)
    device,    \* what was written to the terminal, to a file, and lies in the pipe
    received,  \* what was read from the pipe
    said,      \* the number of texts printed; they are 1 .. said
    lost,      \* the texts that ended with a buffer or met a closed descriptor
    twins      \* the texts that were in a buffer when it was copied

vars == <<proc, device, received, said, lost, twins>>

First == 1
Child == 2
Fds == 0 .. MaxFd
None == [read_fd |-> -1, write_fd |-> -1]
Ends == {"r", "w"}
Lowest(table) == Min(Fds \ DOMAIN table)
With(table, fd, x) == [f \in DOMAIN table \cup {fd} |-> IF f = fd THEN x ELSE table[f]]
Held(end) == \E p \in DOMAIN proc : \E fd \in DOMAIN proc[p].table : proc[p].table[fd] = end

At(p, call) == proc[p].status = "running" /\ proc[p].script # <<>> /\ Head(proc[p].script) = call
Becomes(p, r) == proc' = [proc EXCEPT ![p] = [r EXCEPT !.script = Tail(@)]]
NoText == UNCHANGED <<device, received, said, lost, twins>>

-----------------------------------------------------------------------------
(* Pipe. *)

(* unistd.cpp:38-48, called by Pipe for the descriptor it holds.           *)
Closed(r, fd) ==
    [r EXCEPT !.table = [f \in DOMAIN @ \ {fd} |-> @[f]],
              !.foreign = @ \/ IF fd \in DOMAIN r.table THEN r.table[fd] \notin Ends ELSE FALSE]

\* error: the copy's source is closed as well, as shells do
DupAndClose(table, oldfd, newfd) ==
    IF oldfd \in DOMAIN table /\ oldfd # newfd
    THEN LET copied == With(table, newfd, table[oldfd]) IN [f \in DOMAIN copied \ {oldfd} |-> copied[f]]
    ELSE table

(* unistd.cpp:23-33 *)
dup2(table, oldfd, newfd) == IF oldfd \in DOMAIN table THEN With(table, newfd, table[oldfd]) ELSE table

(* pipe.cpp:17-22 *)
close_read(r) == Closed(r, r.pipe.read_fd)

close_write(r) == Closed(r, r.pipe.write_fd)

(* pipe.cpp:13-16 *)
Destroyed(r) == [close_read(close_write(r)) EXCEPT !.pipe = None]

(* pipe.cpp:2-12; when the call fails fds is read as it is.                *)
Pipe(p) ==
    LET r == proc[p]
        rd == Lowest(r.table)
        readable == With(r.table, rd, "r")
        wr == Lowest(readable)
    IN  /\ At(p, "Pipe")
        /\ \/ /\ Fds \ DOMAIN readable # {}
              /\ Becomes(p, [r EXCEPT !.table = With(readable, wr, "w"), !.pipe = [read_fd |-> rd, write_fd |-> wr]])
           \/ \E a, b \in {0, 1, MaxFd} : Becomes(p, [r EXCEPT !.pipe = [read_fd |-> a, write_fd |-> b], !.careless = TRUE])
        /\ NoText

CloseEnd(p) ==
    /\ \/ At(p, "close_read") /\ Becomes(p, [close_read(proc[p]) EXCEPT !.careless = TRUE])
       \/ At(p, "close_write") /\ Becomes(p, [close_write(proc[p]) EXCEPT !.careless = TRUE])
    /\ NoText

Destructor(p) == At(p, "~Pipe") /\ Becomes(p, Destroyed(proc[p])) /\ NoText

(* include/pipe:17-18 *)
Redirect(p) ==
    /\ \/ At(p, "redirect_stdin") /\ Becomes(p, [proc[p] EXCEPT !.table = dup2(@, proc[p].pipe.read_fd, 0)])
       \/ At(p, "redirect_stdout") /\ Becomes(p, [proc[p] EXCEPT !.table = dup2(@, proc[p].pipe.write_fd, 1)])
    /\ NoText

(* pipe.cpp:23-25 and unistd.cpp:3-12: some of what lies in the pipe, 0    *)
(* when nobody can write any more, -1 for what cannot be read; with a      *)
(* writer left the call waits.  drain calls until nothing comes.           *)
Read(p) ==
    LET r == proc[p]
        fd == IF At(p, "drain_stdin") THEN 0 ELSE r.pipe.read_fd
        piped == IF fd \in DOMAIN r.table THEN r.table[fd] = "r" ELSE FALSE
    IN  /\ At(p, "drain") \/ At(p, "drain_stdin")
        /\ \/ \E n \in 1 .. Len(device["pipe"]) :
                /\ piped
                /\ received' = received \o SubSeq(device["pipe"], 1, n)
                /\ device' = [device EXCEPT !["pipe"] = SubSeq(@, n + 1, Len(@))]
                /\ UNCHANGED <<proc, said, lost, twins>>
           \/ (piped => device["pipe"] = <<>> /\ ~ Held("w")) /\ Becomes(p, r) /\ NoText

-----------------------------------------------------------------------------
(* stdout and the end of a process. *)

(* unistd.cpp:13-22: where text goes that is written to descriptor 1; none *)
(* when write answers -1.                                                  *)
Where(r) ==
    LET to == IF 1 \in DOMAIN r.table THEN r.table[1] ELSE "closed"
    IN  CASE to = "w" /\ Held("r") -> {"pipe"} [] to \in {"tty", "file"} -> {to} [] OTHER -> {}
Written(r) ==
    /\ device' = [d \in DOMAIN device |-> IF d \in Where(r) THEN device[d] \o r.buffer ELSE device[d]]
    /\ UNCHANGED <<received, said, twins>>

(* stdio.cpp:84-90: text without a newline stays in the buffer.            *)
Printf(p) ==
    /\ At(p, "print")
    /\ said' = said + 1 /\ Becomes(p, [proc[p] EXCEPT !.buffer = Append(@, said + 1)])
    /\ UNCHANGED <<device, received, lost, twins>>

(* stdio.cpp:22-37; the text stays when write fails.                       *)
Fflush(p) ==
    /\ At(p, "fflush") /\ Written(proc[p]) /\ UNCHANGED lost
    /\ Becomes(p, [proc[p] EXCEPT !.buffer = IF Where(proc[p]) = {} THEN @ ELSE <<>>])

Gone(r) == [r EXCEPT !.status = "ended", !.table = <<>>, !.buffer = <<>>, !.pipe = None]

(* stdlib.cpp:271-274: main returns, exit flushes stdout.                  *)
Exit(p) ==
    /\ proc[p].status = "running" /\ proc[p].script = <<>>
    /\ Written(proc[p]) /\ proc' = [proc EXCEPT ![p] = Gone(@)]
    /\ lost' = IF Where(proc[p]) = {} THEN lost \cup ToSet(proc[p].buffer) ELSE lost

(* unistd.cpp:80-89 *)
_exit(p) ==
    /\ At(p, "_exit") /\ Becomes(p, Gone(proc[p]))
    /\ lost' = lost \cup ToSet(proc[p].buffer)
    /\ UNCHANGED <<device, received, said, twins>>

(* unistd.cpp:90-99: the descriptors stay, the memory goes.                *)
execv(p) ==
    /\ At(p, "execv")
    /\ \/ Becomes(p, [proc[p] EXCEPT !.buffer = <<>>, !.pipe = None]) /\ lost' = lost \cup ToSet(proc[p].buffer)
       \/ Becomes(p, proc[p]) /\ UNCHANGED lost
    /\ UNCHANGED <<device, received, said, twins>>

(* unistd.cpp:69-78; or -1.                                                *)
fork(p) ==
    /\ At(p, "fork")
    /\ \/ /\ proc[Child].status = "none"
          /\ proc' = [proc EXCEPT ![p].script = Tail(@), ![Child] = [proc[p] EXCEPT !.script = proc[Child].script]]
          /\ twins' = twins \cup ToSet(proc[p].buffer)
          /\ UNCHANGED <<device, received, said, lost>>
       \/ Becomes(p, proc[p]) /\ NoText

(* include/sys/wait.h:5-15: waits for a child that runs.                   *)
wait(p) == At(p, "wait") /\ proc[Child].status # "running" /\ Becomes(p, proc[p]) /\ NoText

(* unistd.cpp:34-37 and fcntl.cpp:5-18 *)
OpenOrDup(p) ==
    /\ \/ At(p, "open") /\ Fds \ DOMAIN proc[p].table # {}
          /\ Becomes(p, [proc[p] EXCEPT !.table = With(@, Lowest(@), "file")])
       \/ At(p, "dup3") /\ Becomes(p, [proc[p] EXCEPT !.table = dup2(@, 1, 2)])
    /\ NoText

(* sched.cpp:3-10 *)
sched_yield(p) == At(p, "sched_yield") /\ Becomes(p, proc[p]) /\ NoText

Init ==
    /\ \E s \in Scripts :
        proc = [p \in {First, Child} |->
                  [status |-> IF p = First THEN "running" ELSE "none", pipe |-> None, buffer |-> <<>>, script |-> s[p],
                   table |-> IF p = First THEN [f \in 0 .. 2 |-> "tty"] ELSE <<>>, careless |-> FALSE, foreign |-> FALSE]]
    /\ device = [d \in {"tty", "file", "pipe"} |-> <<>>] /\ received = <<>>
    /\ said = 0 /\ lost = {} /\ twins = {}

Run(p) ==
    \/ Pipe(p) \/ CloseEnd(p) \/ Destructor(p) \/ Redirect(p) \/ Read(p)
    \/ Printf(p) \/ Fflush(p) \/ Exit(p) \/ _exit(p) \/ execv(p) \/ fork(p) \/ wait(p)
    \/ OpenOrDup(p) \/ sched_yield(p)

Next == \E p \in DOMAIN proc : Run(p)

(* Every process is scheduled.                                             *)
Spec == Init /\ [][Next]_vars /\ \A p \in {First, Child} : WF_vars(Run(p))

-----------------------------------------------------------------------------
(* Properties. *)

(* The destructor, which closes both ends again whatever was closed before *)
(* (pipe.cpp:13-16), hits the descriptor of something else only in a       *)
(* program that closed an end itself, or whose pipe was never made.        *)
OwnEndsClosed == \A p \in DOMAIN proc : proc[p].foreign => proc[p].careless

(* A text appears twice only when it waited in stdout's buffer while fork  *)
(* copied it, and then at most twice (unistd.cpp:70 flushes nothing).      *)
Everywhere == device["tty"] \o device["file"] \o device["pipe"] \o received
Copies(text) == Cardinality({i \in DOMAIN Everywhere : Everywhere[i] = text})
TextOnce == \A text \in 1 .. said : Copies(text) <= IF text \in twins THEN 2 ELSE 1

(* When all have ended, every text has been written somewhere, or went     *)
(* with a buffer that nobody flushed or that led nowhere.                  *)
TextArrives ==
    (\A p \in DOMAIN proc : proc[p].status \in {"none", "ended"}) => 1 .. said \subseteq ToSet(Everywhere) \cup lost

(* A pipe passes the child's texts in the order of their printing.         *)
PipeInOrder == \A i, j \in DOMAIN received : i < j => received[i] < received[j]

(* Progress is that Busy ends: a reader that keeps no writing end of its   *)
(* own comes to the end of the pipe, and the parent to its end.            *)
Busy == proc[First].status # "ended"
===============================================================================
