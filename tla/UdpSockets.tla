------------------------------ MODULE UdpSockets ------------------------------
(***************************************************************************)
(* The socket table of driver/eth/udp.c as operators on a function from    *)
(* socket handles to sockets.  A socket is free when its local port is 0.  *)
(* All sockets of the program talk to one remote address, so a socket is   *)
(* its two ports; its application routine goes with the local port.        *)
(***************************************************************************)
EXTENDS Integers, FiniteSets, FiniteSetsExt

CONSTANT MAX_UDP_SOCKET \* 3 in udp.c

ASSUME UdpSocketAssumption == MAX_UDP_SOCKET \in Nat \ {0}

Handles == 0 .. MAX_UDP_SOCKET - 1

\* The local ports in use: the BOOTP client port, and 1234 for TFTP.
LocalPorts == {"bootpc", "tftp"}

FreeSocket == [local_port |-> "0", remote_port |-> "0"]

UdpInit == [s \in Handles |-> FreeSocket]

OpenHandles(socks) == {s \in Handles : socks[s].local_port # "0"}

SockIsOpen(socks, sock) == sock \in OpenHandles(socks)

OpenedHandle(socks) ==
    IF OpenHandles(socks) = Handles THEN -1 ELSE Min(Handles \ OpenHandles(socks))

SockOpen(socks, local_port, remote_port) ==
    IF OpenHandles(socks) = Handles THEN socks
    ELSE [socks EXCEPT ![OpenedHandle(socks)] =
             [local_port |-> local_port, remote_port |-> remote_port]]

\* Any handle in range is cleared, whoever the socket belongs to by now.
SockClose(socks, sock) == [s \in Handles |-> IF s = sock THEN FreeSocket ELSE socks[s]]

\* udp_receive demultiplexes on the destination port alone: neither the
\* sender's address nor its port is compared with the socket's.
Listeners(socks, port) == {s \in Handles : socks[s].local_port = port}
==============================================================================
