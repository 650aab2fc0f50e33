------------------------------- MODULE Directory -------------------------------
(***************************************************************************)
(* Directory streams (src/src/dirent.cpp): a pool of DIR entries, handles  *)
(* that point into it, and a stream of records that readdir reads in two   *)
(* pieces, either of which may fail or be short.  A program uses its       *)
(* handles as it likes, closed ones too.                                   *)
(***************************************************************************)
EXTENDS Integers, Sequences, FiniteSetsExt, SequencesExt

CONSTANTS
    MAX_DIRS,   \* 8
    Handles,    \* the program's variables of type DIR*
    Listings,   \* the directories: sequences of records [rest, name], in bytes
    Stale,      \* how long a name may be in memory that no read has set
    MaxCalls    \* bound: the calls of readdir on the streams that are open

(* The rest of a record is a type, a size of four bytes, the name and its  *)
(* 0 (include/dirent.h:24).                                                *)
Records == {r \in [rest : Nat, name : Nat] : r.name + 6 <= r.rest}
DirectoryAssumption ==
    MAX_DIRS \in Nat \ {0} /\ MaxCalls \in Nat /\ Stale \subseteq Nat /\ Listings \subseteq Seq(Records)

VARIABLES
    dir_pool,   \* of each entry: [fd, in_use]
    files,      \* the kernel's open directories, by descriptor: the listing, the next
                \* record, inside one or at its start, and what readdir answered:
                \* calls, got (as [record, name], record 0 for what is none),
                \* ended by null, a read failed or was short
    handle,     \* of each variable: the entry it points to, 0 for null
    open,       \* the variables opened and not closed through themselves
    misused     \* a stream was closed through a variable closed before

vars == <<dir_pool, files, handle, open, misused>>

NULL == 0
Entries == 1 .. MAX_DIRS
REST == 300    \* sizeof(rest)
NAME == 255    \* d_name without its 0
Freshest(fds) == Min((3 .. 3 + MAX_DIRS) \ fds)
Without(f, x) == [y \in DOMAIN f \ {x} |-> f[y]]
Calls == MapThenSumSet(LAMBDA fd : files[fd].calls, DOMAIN files)
Usable(h) == IF handle[h] = NULL THEN FALSE ELSE dir_pool[handle[h]].in_use
Opened(listing) ==
    [listing |-> listing, next |-> 1, inside |-> FALSE, calls |-> 0, got |-> <<>>, ended |-> FALSE, failed |-> FALSE]

-----------------------------------------------------------------------------
(* dirent.cpp:17-18 *)
Free == {i \in Entries : ~ dir_pool[i].in_use}

(* dirent.cpp:16-27; null when open fails or the pool is full.  A variable *)
(* that still held an open stream leaks its entry.                         *)
opendir(h, listing, ok) ==
    /\ UNCHANGED misused
    /\ IF ok /\ Free # {}
       THEN LET i == Min(Free)
                fd == Freshest(DOMAIN files)
            IN  /\ dir_pool' = [dir_pool EXCEPT ![i] = [fd |-> fd, in_use |-> TRUE]]
                /\ files' = [f \in DOMAIN files \cup {fd} |-> IF f = fd THEN Opened(listing) ELSE files[f]]
                /\ handle' = [handle EXCEPT ![h] = i] /\ open' = open \cup {h}
       ELSE handle' = [handle EXCEPT ![h] = NULL] /\ open' = open \ {h} /\ UNCHANGED <<dir_pool, files>>

(* One call of readdir leaves the kernel's file at f and answers an entry, *)
(* or null for none.                                                       *)
Answer(h, f, entry) ==
    /\ files' = [files EXCEPT ![dir_pool[handle[h]].fd] =
                    [f EXCEPT !.calls = @ + 1, !.got = @ \o entry, !.ended = @ \/ entry = <<>>]]
    /\ UNCHANGED <<dir_pool, handle, open, misused>>

(* dirent.cpp:41-46 *)
Name(length) == Min({length, NAME})
Entry(k, length) == <<[record |-> k, name |-> Name(length)]>>

(* dirent.cpp:36 *)
TooLong(record) == record.rest > REST

(* dirent.cpp:33, 38 ask only whether a read gave anything.  After a short *)
(* one, or from inside of a record, what is taken for a length may be any, *)
(* the file is left anywhere further on, and of the entry that is answered *)
(* some bytes were never read.  So it is with a second read that fails.    *)
Misread(h, f) ==
    \E k \in f.next .. Len(f.listing) + 1, within \in BOOLEAN :
        /\ k = f.next => within
        /\ k > Len(f.listing) => ~ within
        /\ LET g == [f EXCEPT !.next = k, !.inside = within, !.failed = TRUE]
           IN  Answer(h, g, <<>>) \/ \E length \in Stale : Answer(h, g, Entry(0, length))

(* dirent.cpp:29-48.  The first read may fail (or find the end), and one   *)
(* of them may be short.                                                   *)
readdir(h) ==
    LET f == files[dir_pool[handle[h]].fd]
        record == f.listing[f.next]
    IN  /\ Usable(h) /\ Calls < MaxCalls
        /\ \/ Answer(h, [f EXCEPT !.failed = TRUE], <<>>)
           \/ f.next > Len(f.listing) /\ Answer(h, f, <<>>)
           \/ /\ f.next <= Len(f.listing) /\ ~ f.inside /\ TooLong(record)
              /\ Answer(h, [f EXCEPT !.inside = TRUE], <<>>)
           \/ /\ f.next <= Len(f.listing) /\ ~ f.inside /\ ~ TooLong(record)
              /\ Answer(h, [f EXCEPT !.next = @ + 1], Entry(f.next, record.name))
           \/ Misread(h, f)

\* error: the entry is free, its descriptor stays open
CloseKeeps(h) ==
    /\ Usable(h)
    /\ dir_pool' = [dir_pool EXCEPT ![handle[h]].in_use = FALSE]
    /\ open' = open \ {h} /\ misused' = (misused \/ h \notin open)
    /\ UNCHANGED <<files, handle>>

(* dirent.cpp:50-55 *)
closedir(h) ==
    /\ Usable(h)
    /\ files' = Without(files, dir_pool[handle[h]].fd)
    /\ dir_pool' = [dir_pool EXCEPT ![handle[h]].in_use = FALSE]
    /\ open' = open \ {h} /\ misused' = (misused \/ h \notin open)
    /\ UNCHANGED handle

(* dirent.cpp:30, 51: the guard that a handle of a free entry meets.       *)
Refused(h) == ~ Usable(h) /\ UNCHANGED vars

Init ==
    /\ dir_pool = [i \in Entries |-> [fd |-> 0, in_use |-> FALSE]]
    /\ files = <<>>
    /\ handle = [h \in Handles |-> NULL] /\ open = {}
    /\ misused = FALSE

Next ==
    \E h \in Handles :
        \/ \E listing \in Listings, ok \in BOOLEAN : opendir(h, listing, ok)
        \/ readdir(h)
        \/ closedir(h)
        \/ Refused(h)

Spec == Init /\ [][Next]_vars

-----------------------------------------------------------------------------
(* Properties. *)

Used == {i \in Entries : dir_pool[i].in_use}

(* Every entry in use has a descriptor of its own, and no directory is     *)
(* open that no entry knows, however handles are opened, closed and used   *)
(* again after closing (dirent.cpp:18-23, 52-53).                          *)
PoolOwnsFiles ==
    /\ DOMAIN files = {dir_pool[i].fd : i \in Used}
    /\ \A i, j \in Used : dir_pool[i].fd = dir_pool[j].fd => i = j

(* Two open variables share an entry only after a stream was closed        *)
(* through a variable closed before (dirent.cpp:30, 51 look at the entry,  *)
(* not at who holds it).                                                   *)
HandlesApart ==
    \A g, h \in open : g # h /\ handle[g] = handle[h] => misused

(* A stream answers the records of its directory in order, and null means  *)
(* the end of the directory, as long as no read failed or was short and no *)
(* record is longer than the 308 bytes readdir takes (dirent.cpp:33,       *)
(* 37-38).  After such a read nothing is claimed of what comes.            *)
RecordsInOrder ==
    \A fd \in DOMAIN files :
        LET f == files[fd]
        IN  ~ f.failed /\ (\A k \in DOMAIN f.listing : f.listing[k].rest <= 300) =>
                /\ [k \in DOMAIN f.got |-> f.got[k].record] = [k \in 1 .. Len(f.got) |-> k]
                /\ f.ended => Len(f.got) = Len(f.listing)

(* A name fits into d_name with its 0, whatever the memory that it is      *)
(* copied from held, and a record's name is cut off only there.            *)
NamesFit ==
    \A fd \in DOMAIN files : \A entry \in ToSet(files[fd].got) :
        /\ entry.name <= 255
        /\ entry.record # 0 => entry.name = Min({255, files[fd].listing[entry.record].name})
===============================================================================
