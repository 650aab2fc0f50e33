-------------------------------- MODULE Network ------------------------------
(***************************************************************************)
(* Sockets (src/src/myos.cpp:709-769), the network settings (src/src/      *)
(* net.cpp) and byte order (myos.cpp:770-781, src/include/net:10-16).  A   *)
(* call is one system call whose answer, 64 bits with -1 for failure, is   *)
(* cut to what the function returns.  32-bit values are four bytes, the    *)
(* highest first.  The kernel's tables and queues are external.            *)
(***************************************************************************)
EXTENDS Integers, Sequences, FiniteSetsExt

CONSTANTS
    Devices,   \* the number of devices
    Ips,       \* the addresses a program sets
    Sizes,     \* the sizes of datagrams, and of the buffers that take them
    MaxSockets, MaxQueue   \* bounds

NetworkAssumption ==
    /\ Devices \in Nat /\ Ips \subseteq [1 .. 4 -> 0 .. 255]
    /\ Sizes \subseteq Nat /\ (\A size \in Sizes : size < 65536) /\ MaxSockets \in Nat /\ MaxQueue \in Nat

VARIABLES
    addr,      \* the kernel's address of each device
    routes,    \* the kernel's routes: [dest, mask, dev], and the prefix meant
    sockets,   \* the kernel's sockets, by number: [queue (of sizes), blocking]
    handles,   \* the numbers that objects of class Socket hold
    intended,  \* what the program last set with success, of each device
    answer     \* of the last call: its function, its result, and what was true then

vars == <<addr, routes, sockets, handles, intended, answer>>

FAILED == -1
Kernel == UNCHANGED <<addr, routes, sockets>>
Program == UNCHANGED <<handles, intended>>
IsDevice(dev) == dev \in 0 .. Devices - 1
UNSET == <<0, 0, 0, 0>>

-----------------------------------------------------------------------------
(* Byte order. *)

(* myos.cpp:773-775, 779-781 *)
htonl(n) == <<n[4], n[3], n[2], n[1]>>

(* myos.cpp:770-772, 776-778, of a number of 16 bits.                      *)
htons(n) == ((n * 256) % 65536) + (n \div 256)

order ==
    /\ \/ \E ip \in Ips : answer' = [call |-> "htonl", dev |-> 0, of |-> ip, result |-> htonl(ip)]
       \/ \E n \in Sizes : answer' = [call |-> "htons", dev |-> 0, of |-> n, result |-> htons(n)]
    /\ Kernel /\ Program

(* A number of 32 bits as it lies in memory, lowest byte first.            *)
Stored(n) == <<n[4], n[3], n[2], n[1]>>

\* error: the shift is by the prefix
LowBits(prefix) == [i \in 1 .. 4 |-> LET n == Max({0, Min({8, prefix - 8 * (4 - i)})}) IN 2 ^ n - 1]

(* include/net:14-16: all but the lowest 32 - prefix bits.                 *)
netmask(prefix) == [i \in 1 .. 4 |-> LET n == Max({0, Min({8, prefix - 8 * (i - 1)})}) IN 256 - 2 ^ (8 - n)]

-----------------------------------------------------------------------------
(* net.cpp *)

(* net.cpp:35-44: -1 is 255.255.255.255 in 32 bits.                        *)
get(dev) ==
    /\ answer' = [call |-> "get", dev |-> dev, result |-> IF IsDevice(dev) THEN addr[dev] ELSE <<255, 255, 255, 255>>]
    /\ Kernel /\ Program

(* net.cpp:28, 54, 75, 86: the sign of the answer.                         *)
Success(ret) == ret >= 0

(* net.cpp:46-55; the kernel may refuse.                                   *)
set(dev, ip) ==
    \E ret \in IF IsDevice(dev) THEN {0, FAILED} ELSE {FAILED} :
        /\ addr' = IF ret = FAILED THEN addr ELSE [addr EXCEPT ![dev] = ip]
        /\ intended' = IF IsDevice(dev) /\ Success(ret) THEN [intended EXCEPT ![dev] = ip] ELSE intended
        /\ answer' = [call |-> "set", dev |-> dev, result |-> Success(ret)]
        /\ UNCHANGED <<routes, sockets, handles>>

(* net.cpp:61-76 *)
add(dest, prefix, dev) ==
    \E ret \in IF IsDevice(dev) THEN {0, FAILED} ELSE {FAILED} :
        /\ routes' = IF ret = FAILED THEN routes ELSE routes \cup {[dest |-> dest, mask |-> netmask(prefix), prefix |-> prefix, dev |-> dev]}
        /\ answer' = [call |-> "add", dev |-> dev, result |-> Success(ret)]
        /\ UNCHANGED <<addr, sockets, handles, intended>>

(* net.cpp:78-87 *)
del(dev) ==
    LET ret == IF IsDevice(dev) THEN 0 ELSE FAILED
    IN  /\ routes' = {r \in routes : r.dev # dev}
        /\ answer' = [call |-> "del", dev |-> dev, result |-> Success(ret)]
        /\ UNCHANGED <<addr, sockets, handles, intended>>

(* net.cpp:9-29: the number of devices, and whether one has an address of  *)
(* its own.                                                                *)
count == answer' = [call |-> "count", dev |-> 0, result |-> Devices] /\ Kernel /\ Program
mac(dev) ==
    /\ answer' = [call |-> "mac", dev |-> dev, result |-> Success(IF IsDevice(dev) THEN 0 ELSE FAILED)]
    /\ Kernel /\ Program

-----------------------------------------------------------------------------
(* Socket *)

(* myos.cpp:709-715; the number is -1 when the kernel makes none.          *)
Socket_ ==
    LET s == Len(sockets) + 1
    IN  /\ IF s <= MaxSockets
           THEN sockets' = Append(sockets, [queue |-> <<>>, blocking |-> FALSE]) /\ handles' = handles \cup {s}
           ELSE handles' = handles \cup {FAILED} /\ UNCHANGED sockets
        /\ answer' = [call |-> "Socket", dev |-> 0, result |-> 0]
        /\ UNCHANGED <<addr, routes, intended>>

(* myos.cpp:716: nothing is closed.                                        *)
Destroyed(s) ==
    /\ handles' = handles \ {s}
    /\ answer' = [call |-> "~Socket", dev |-> 0, result |-> 0]
    /\ Kernel /\ UNCHANGED intended

(* myos.cpp:735-743; connect and set_device, 717-734, are alike: a call    *)
(* that answers nothing.                                                   *)
set_option(s, blocking) ==
    /\ s # FAILED /\ sockets' = [sockets EXCEPT ![s].blocking = blocking]
    /\ answer' = [call |-> "set_option", dev |-> 0, result |-> 0]
    /\ UNCHANGED <<addr, routes>> /\ Program

(* myos.cpp:744-755: to a peer, who sends back as much, later or never.    *)
send(s, size) ==
    /\ s # FAILED /\ Len(sockets[s].queue) < MaxQueue
    /\ sockets' \in {sockets, [sockets EXCEPT ![s].queue = Append(@, size)]}
    /\ answer' = [call |-> "send", dev |-> 0, result |-> 0]
    /\ UNCHANGED <<addr, routes>> /\ Program

(* myos.cpp:768 *)
Cut(result) == result % 65536

(* myos.cpp:756-769: a datagram's size, as far as the buffer takes it; -1  *)
(* when none is there, unless the socket waits.                            *)
recv(s, capacity) ==
    LET queue == IF s = FAILED THEN <<>> ELSE sockets[s].queue
        result == IF queue = <<>> THEN FAILED ELSE Min({Head(queue), capacity})
    IN  /\ (IF s = FAILED THEN FALSE ELSE sockets[s].blocking) => queue # <<>>
        /\ sockets' = IF queue = <<>> THEN sockets ELSE [sockets EXCEPT ![s].queue = Tail(@)]
        /\ answer' = [call |-> "recv", dev |-> 0, result |-> Cut(result), kernel |-> result, capacity |-> capacity]
        /\ UNCHANGED <<addr, routes>> /\ Program

Init ==
    /\ addr = [d \in 0 .. Devices - 1 |-> UNSET] /\ intended = addr
    /\ routes = {} /\ sockets = <<>> /\ handles = {}
    /\ answer = [call |-> "none", dev |-> 0, result |-> 0]

Settings(dev) ==
    \/ get(dev) \/ mac(dev) \/ del(dev)
    \/ \E ip \in Ips : set(dev, ip)
    \/ \E ip \in Ips, prefix \in {-1, 0, 1, 12, 31, 32, 33} : routes = {} /\ add(ip, prefix, dev)
Sockets ==
    \/ Socket_
    \/ \E s \in handles :
          \/ Destroyed(s) \/ \E b \in BOOLEAN : set_option(s, b)
          \/ \E size \in Sizes : send(s, size) \/ recv(s, size)

Next == order \/ count \/ Sockets \/ \E dev \in -1 .. Devices : Settings(dev)

Spec == Init /\ [][Next]_vars

-----------------------------------------------------------------------------
(* Properties. *)

(* A network number has its highest byte first in memory, whatever the     *)
(* address, and going there and back changes nothing (myos.cpp:770-781).   *)
NetworkOrder ==
    /\ answer.call = "htonl" => Stored(answer.result) = answer.of /\ htonl(answer.result) = answer.of
    /\ answer.call = "htons" => /\ answer.result % 256 = answer.of \div 256 /\ answer.result \div 256 = answer.of % 256
                                /\ htons(answer.result) = answer.of

(* A mask of a route is its prefix in ones, then zeros (include/net:15),   *)
(* below 0, at 0, where the shift would be by 32, and above 32.             *)
Bits(n) == [k \in 1 .. 32 |-> (n[((k - 1) \div 8) + 1] \div 2 ^ (7 - ((k - 1) % 8))) % 2]
MasksArePrefixes ==
    \A r \in routes : Bits(r.mask) = [k \in 1 .. 32 |-> IF k <= r.prefix THEN 1 ELSE 0]

(* Addr::get answers what the last successful Addr::set put there, for     *)
(* whichever device, after refused calls too; only for what is no device   *)
(* it answers an address (net.cpp:43, 54).                                 *)
ReadsBack ==
    answer.call = "get" => answer.result = IF IsDevice(answer.dev) THEN intended[answer.dev] ELSE <<255, 255, 255, 255>>

(* recv answers the size of the datagram that was there, no more than the  *)
(* buffer takes; and that there was none is never taken for a datagram     *)
(* shorter than 65535 bytes.  A longest one is not told from none: the -1  *)
(* promised (include/myos:266) is cut to 16 bits (myos.cpp:768).           *)
Shorter == 0 .. 65534
SizesTold ==
    answer.call = "recv" =>
        /\ answer.kernel # FAILED => answer.result = answer.kernel /\ answer.result <= answer.capacity
        /\ answer.kernel = FAILED => answer.result \notin Shorter
===============================================================================
