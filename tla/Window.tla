-------------------------------- MODULE Window --------------------------------
(***************************************************************************)
(* A program's windows (src/src/myos.cpp:231-297): the constructor's       *)
(* handshake with the window server, process 0, over the one queue of      *)
(* messages the process has, in which keys, mouse and timers arrive too.   *)
(* Shared memory, the queues and the server are the kernel's.              *)
(***************************************************************************)
EXTENDS Integers, Sequences, FiniteSets

CONSTANTS
    Windows,     \* the Window objects of the program
    MaxEvents,   \* bound: the events that arrive
    MaxQueue,    \* the messages the server's queue holds
    MaxCalls     \* bound: the calls of draw_frame, destroy and rezorder

WindowAssumption ==
    /\ Windows \subseteq Nat \ {0} /\ IsFiniteSet(Windows)
    /\ MaxEvents \in Nat /\ MaxQueue \in Nat \ {0} /\ MaxCalls \in Nat

VARIABLES
    phase,      \* of each window: "new", "made" when its constructor returned
    id, gbuf,   \* of each window: its shared memory, 0 and FALSE for none
    ginfo,      \* whether Window::ginfo was asked for
    at, who,    \* where in the constructor of which window the program is
    toServer,   \* the server's queue
    inbox,      \* the process's queue
    shown,      \* the server's windows
    refused,    \* the ids of the drawing requests for no window of the server's
    destroyed,  \* the ids destroy was called with
    count       \* [events, calls, lost, stray]: lost events were taken by a
                \* constructor, stray answers by the program's own loop

vars == <<phase, id, gbuf, ginfo, at, who, toServer, inbox, shown, refused, destroyed, count>>

NoWindow == 0
Message(type, shm) == [type |-> type, id |-> shm]
Of(type, queue) == Cardinality({k \in DOMAIN queue : queue[k].type = type})
Bump(field) == [count EXCEPT ![field] = @ + 1]
Library == at = "program"

-----------------------------------------------------------------------------
(* The kernel. *)

(* myos.cpp:31-40: is_block is TRUE in every call, so send_msg waits for   *)
(* room.                                                                   *)
send_msg(type, shm) ==
    /\ Len(toServer) < MaxQueue
    /\ toServer' = Append(toServer, Message(type, shm))

(* myos.cpp:41-50: the oldest message. *)
receive_msg == inbox # <<>> /\ inbox' = Tail(inbox)

(* myos.cpp:179-189: a new id and its memory, or null and the id stays 0.  *)
create(w, ok) ==
    /\ id' = [id EXCEPT ![w] = IF ok THEN Cardinality({v \in Windows : id[v] # 0}) + 1 ELSE 0]
    /\ gbuf' = [gbuf EXCEPT ![w] = ok]

(* A key, the mouse, or a timer set with set_timer. *)
Event ==
    /\ count.events < MaxEvents
    /\ inbox' = Append(inbox, Message("event", 0))
    /\ count' = Bump("events")
    /\ UNCHANGED <<phase, id, gbuf, ginfo, at, who, toServer, shown, refused, destroyed>>

(* The server answers every MSG_MAKE_WINDOW, or the constructor would wait *)
(* for ever; without shared memory there is no window to make.             *)
Server ==
    /\ toServer # <<>>
    /\ LET m == Head(toServer)
       IN  /\ shown' = CASE m.type = "make" /\ m.id # 0 -> shown \cup {m.id}
                         [] m.type = "destroy" -> shown \ {m.id}
                         [] OTHER -> shown
           /\ inbox' = IF m.type = "make" THEN Append(inbox, Message("answer", m.id)) ELSE inbox
           /\ refused' = IF m.type = "draw" /\ m.id \notin shown THEN refused \cup {m.id} ELSE refused
    /\ toServer' = Tail(toServer)
    /\ UNCHANGED <<phase, id, gbuf, ginfo, at, who, destroyed, count>>

-----------------------------------------------------------------------------
(* The constructor, myos.cpp:231-271. *)

Construct(w, ok) ==
    /\ Library /\ phase[w] = "new"
    /\ ginfo' = TRUE
    /\ create(w, ok)
    /\ at' = "send" /\ who' = w
    /\ UNCHANGED <<phase, toServer, inbox, shown, refused, destroyed, count>>

\* error: without memory there is nothing to ask for
AskWithMemory ==
    /\ at = "send"
    /\ IF gbuf[who] THEN send_msg("make", id[who]) ELSE UNCHANGED toServer
    /\ at' = "wait"
    /\ UNCHANGED <<phase, id, gbuf, ginfo, who, inbox, shown, refused, destroyed, count>>

\* error: the request is sent and nothing waited for
AskAndReturn ==
    /\ at = "send"
    /\ send_msg("make", id[who])
    /\ at' = "program" /\ phase' = [phase EXCEPT ![who] = "made"] /\ who' = NoWindow
    /\ UNCHANGED <<id, gbuf, ginfo, inbox, shown, refused, destroyed, count>>

(* The request leaves even when create failed; rect.x and rect.y are 0     *)
(* from here on.                                                           *)
Ask ==
    /\ at = "send"
    /\ send_msg("make", id[who])
    /\ at' = "wait"
    /\ UNCHANGED <<phase, id, gbuf, ginfo, who, inbox, shown, refused, destroyed, count>>

(* myos.cpp:142-149, 267 *)
wait_for_msg ==
    /\ at = "wait" /\ inbox # <<>>
    /\ at' = "receive"
    /\ UNCHANGED <<phase, id, gbuf, ginfo, who, toServer, inbox, shown, refused, destroyed, count>>

(* myos.cpp:268-269: whatever came first passes for the answer. *)
Response ==
    /\ at = "receive"
    /\ receive_msg
    /\ count' = IF Head(inbox).type = "event" THEN Bump("lost") ELSE count
    /\ at' = "program" /\ who' = NoWindow
    /\ phase' = [phase EXCEPT ![who] = "made"]
    /\ UNCHANGED <<id, gbuf, ginfo, toServer, shown, refused, destroyed>>

-----------------------------------------------------------------------------
(* The other members, and the program's own wait_for_msg and receive_msg.  *)

Request(type, shm) ==
    /\ Library /\ count.calls < MaxCalls
    /\ send_msg(type, shm)
    /\ count' = Bump("calls")
    /\ destroyed' = IF type = "destroy" THEN destroyed \cup {shm} ELSE destroyed
    /\ UNCHANGED <<phase, id, gbuf, ginfo, at, who, inbox, shown, refused>>

(* myos.cpp:282-293 *)
draw_frame(w) == phase[w] = "made" /\ gbuf[w] /\ Request("draw", id[w])

(* myos.cpp:294-297: id and gbuf stay as they are. *)
destroy(w) == phase[w] = "made" /\ Request("destroy", id[w])

(* myos.cpp:272-281 *)
rezorder == Request("rezorder", 0)

Program ==
    /\ Library
    /\ receive_msg
    /\ count' = IF Head(inbox).type = "answer" THEN Bump("stray") ELSE count
    /\ UNCHANGED <<phase, id, gbuf, ginfo, at, who, toServer, shown, refused, destroyed>>

-----------------------------------------------------------------------------
Init ==
    /\ phase = [w \in Windows |-> "new"]
    /\ id = [w \in Windows |-> 0] /\ gbuf = [w \in Windows |-> FALSE]
    /\ ginfo = FALSE
    /\ at = "program" /\ who = NoWindow
    /\ toServer = <<>> /\ inbox = <<>> /\ shown = {} /\ refused = {} /\ destroyed = {}
    /\ count = [events |-> 0, calls |-> 0, lost |-> 0, stray |-> 0]

Constructor == Ask \/ wait_for_msg \/ Response

Next ==
    \/ \E w \in Windows, ok \in BOOLEAN : Construct(w, ok)
    \/ Constructor
    \/ \E w \in Windows : draw_frame(w) \/ destroy(w)
    \/ rezorder
    \/ Program
    \/ Event
    \/ Server

(* The program runs, and the server serves. *)
Spec == Init /\ [][Next]_vars /\ WF_vars(Constructor) /\ WF_vars(Server)

-----------------------------------------------------------------------------
(* Properties. *)

Made == {w \in Windows : phase[w] = "made"}
Unanswered == IF at \in {"wait", "receive"} THEN 1 ELSE 0

(* The types; a window has memory exactly when it has an id.               *)
TypeOK ==
    /\ phase \in [Windows -> {"new", "made"}]
    /\ gbuf = [w \in Windows |-> id[w] # 0]
    /\ at \in {"program", "send", "wait", "receive"}
    /\ (at = "program") = (who = NoWindow)
    /\ Len(toServer) <= MaxQueue
    /\ \A v, w \in Windows : v # w /\ id[v] = id[w] => id[v] = 0

(* Behind every event a constructor took stands an answer that nobody has  *)
(* asked for: on its way, in the inbox, or already found by the program's  *)
(* loop (myos.cpp:263-269).                                                *)
AnswersOwed ==
    Of("make", toServer) + Of("answer", inbox) + count.stray = count.lost + Unanswered

(* The windows whose constructor returned although the server has not made *)
(* them yet are no more than the events lost whose answers are still owed: *)
(* without an event in the way a window is there when its constructor is   *)
(* through (myos.cpp:267-269).                                             *)
LateWindows ==
    Cardinality({w \in Made : gbuf[w] /\ Message("make", id[w]) \in {toServer[i] : i \in DOMAIN toServer}})
        <= count.lost - count.stray

(* No constructor takes more than one event from the program.              *)
OneEventEach == count.lost <= Cardinality(Made)

(* The server is asked to draw a window it has not only after destroy,     *)
(* which leaves gbuf as it is, so that draw_frame cannot tell              *)
(* (myos.cpp:283, 294-297): never a window without memory, and never one   *)
(* that is still to be made, however its constructor ended.                *)
FramesKnown == refused \subseteq destroyed

(* Progress is that Busy ends: every constructor returns, with the         *)
(* server's answer or what came first.                                     *)
Busy == at # "program"
===============================================================================
