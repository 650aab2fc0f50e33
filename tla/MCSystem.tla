-------------------------------- MODULE MCSystem -----------------------------
(***************************************************************************)
(* Values for System: the programs, the directories and the addresses TLC  *)
(* takes.                                                                  *)
(***************************************************************************)
EXTENDS System

(* Any three calls of the first process after its pipe, or one after its   *)
(* fork, and any call of the child.  A destroyed pipe is not used again.   *)
Calls == {"close_read", "close_write", "~Pipe", "redirect_stdout", "open", "dup3", "print", "fflush", "_exit", "execv"}
OnceDestroyed(s) ==
    \A k, l \in DOMAIN s : k < l /\ s[k] \in {"~Pipe", "execv"} => s[l] \in {"open", "dup3", "print", "fflush", "_exit"}
AnyScripts ==
    {<<<<"print", "Pipe">> \o s, <<>>>> : s \in {t \in [1 .. 4 -> Calls] : OnceDestroyed(t)}}
    \cup {<<<<"Pipe", "print", "fork">> \o s, <<c, d>>>> : s \in [1 .. 1 -> Calls], c \in {"close_write", "print", "fflush"}, d \in Calls}

(* A parent reads what its child prints.                                   *)
Parents == {<<"Pipe", "fork", "close_write", "drain", "wait", "~Pipe">>,
            <<"Pipe", "fork", "redirect_stdin", "~Pipe", "drain_stdin", "sched_yield", "wait">>}
Children == {<<"redirect_stdout", "~Pipe", "print", "print">>,
             <<"redirect_stdout", "~Pipe", "print", "fflush", "print">>,
             <<"close_read", "redirect_stdout", "close_write", "print", "fflush", "print", "execv", "print", "_exit">>}
Pipelines == Parents \X Children

(* Names of three bytes, too long for d_name, too long for a record, and   *)
(* exactly the longest that is read.                                       *)
Record(name) == [rest |-> name + 6, name |-> name]
Directories == {<<Record(270), Record(294)>>, <<Record(3), Record(295)>>}

(* Addresses whose bytes tell the orders apart.                            *)
Addresses == {<<1, 2, 3, 4>>, <<255, 0, 128, 127>>}
==============================================================================
