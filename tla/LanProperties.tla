---------------------------- MODULE LanProperties ----------------------------
(***************************************************************************)
(* What makes the board's side of the network correct: descriptors are     *)
(* neither lost nor shared, the transmit packet is always given back, and  *)
(* datagrams reach the host that takes them further.                       *)
(***************************************************************************)
EXTENDS Lan

\* The ranges of the variables.
TypeOK ==
    /\ queues \in [QueueNames -> Seq(Descriptors)]
    /\ rx_data \in [Descriptors -> Frames]
    /\ device \in [mac : BOOLEAN, dma : BOOLEAN, pa : BOOLEAN]
    /\ tx_packet \in Frames
    /\ txuse \in BOOLEAN
    /\ net_arp_cache \in [ip : Addresses, mac : Addresses, pending : Seq(Frames)]
    /\ rt_table \in [network : BOOLEAN, default : BOOLEAN]
    /\ ip_address \in {Board, NoAddress}
    /\ config \in LanConfigurations
    /\ pc \in {"off", "poll", "alloc", "fill", "mac", "undefined"}
    /\ job \in Jobs
    /\ asked \in 0 .. LastRequest
    /\ wire \in SUBSET Frames
    /\ budget \in [troubles : 0 .. MaxTroubles, sessions : 0 .. MaxSessions]
    /\ in_order \in BOOLEAN

\* The queues of a session that was set up in order.
Operating == in_order /\ pc \notin {"off", "undefined"}

\* Every descriptor is on exactly one queue, whatever the program and the
\* hardware do (device/c66x/c66x.c): one that is lost is never found again,
\* and one on two queues is written by the program while the hardware reads it.
NoneLost(q) ==
    \A d \in Descriptors : \E name \in QueueNames :
        \E i \in 1 .. Len(q[name]) : q[name][i] = d

NoneShared(q) ==
    \A m, n \in QueueNames :
        \A i \in 1 .. Len(q[m]), j \in 1 .. Len(q[n]) :
            q[m][i] = q[n][j] => m = n /\ i = j

DescriptorsConserved == Operating => NoneLost(queues) /\ NoneShared(queues)

\* Whatever way a packet takes through ip_send and arp_resolve, it has been
\* freed when the program polls again: net_alloc_tx_packet would refuse every
\* later packet.  A packet being sent has been allocated.
TransmitPacketFreed ==
    /\ pc \in {"poll", "alloc"} => ~txuse
    /\ pc \in {"fill", "mac"} => txuse

\* The packet that waits in the ARP cache waits for its own next hop, which
\* has not been found yet, and it is the application's latest.
PendingAwaitsItsHop ==
    pc = "poll" /\ net_arp_cache.pending # << >> =>
        LET packet == Head(net_arp_cache.pending) IN
        /\ net_arp_cache.mac = NoAddress
        /\ net_arp_cache.ip = NextHop(packet.to)
        /\ packet.data = asked

\* An IP packet sent at once, not after waiting, goes to everyone if it is
\* meant to and else to the host that is its next hop, whoever has been written
\* to the ARP cache meanwhile.
DatagramsReachNextHop ==
    pc = "mac" /\ job = "datagram" =>
        tx_packet.dst = IF tx_packet.to = Everyone THEN Everyone ELSE TrueNextHop

\* targetMacSend waits for a descriptor without a bound: the hardware brings
\* one back.
SendReturns == in_order /\ pc = "mac" ~> pc # "mac"

\* A configuration that can work: an address the server can be reached from,
\* and a BOOTP reply the program accepts.  A static configuration has no route
\* beyond its own network.
Workable ==
    /\ config.remote => config.bootp /\ config.router
    /\ config.bootp /\ config.unicast => config.use_bootp_server_ip

\* Lost frames, frames overwritten while they wait to be sent, packets sent to
\* another host's address and receive overruns only delay a datagram: in a
\* session that goes on it is answered.
EveryRequestAnswered ==
    \A k \in 0 .. LastRequest - 1 :
        (Operating /\ Workable /\ asked = k) ~> (asked # k \/ pc = "off")

-----------------------------------------------------------------------------

\* "It is assumed that all queues are currently empty" (hwQmSetup in qm.c): a
\* session never sets up the queue manager under queues that are not.
QueuesEmptyAtSetup == pc # "undefined"
==============================================================================
