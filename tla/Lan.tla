--------------------------------- MODULE Lan ---------------------------------
(***************************************************************************)
(* The board on its local network: routes (driver/eth/ip.c), address       *)
(* resolution (arp.c), the one transmit packet (net.c) and the descriptor  *)
(* queues shared with the DMA hardware (module Qm), from hwQmSetup to the  *)
(* end of the session (ethboot/ethboot.c).                                 *)
(*                                                                         *)
(* On top is an application that stands for BOOTP and TFTP: it sends       *)
(* datagram 0 to everyone if it needs an address, then datagrams 1, 2, ... *)
(* to the server, each once the one before is answered, and again when a   *)
(* timer expires; the last one needs no answer.  Below is the hardware,    *)
(* which moves descriptors whenever it likes: it reads the packet it sends *)
(* when it sends it, not when it was handed over.                          *)
(*                                                                         *)
(* A host's name stands for its IP address and for its MAC address, so an  *)
(* address pair is right if its halves are equal.                          *)
(***************************************************************************)
EXTENDS Qm

CONSTANTS
    LanConfigs,     \* the configurations tried, see LanConfigurations
    LastRequest,    \* the datagram that needs no answer
    MaxTroubles,    \* bound on the frames lost on the wire, and on the ARP
                    \* packets other hosts start
    MaxSessions     \* bound on the sessions

VARIABLES
    queues,      \* the descriptor queues
    rx_data,     \* the frame in the buffer of a receive descriptor
    device,      \* what runs: [mac, dma, pa : BOOLEAN]
    tx_packet,   \* the frame in the transmit packet
    txuse,       \* the transmit packet is allocated
    net_arp_cache, rt_table,
    ip_address,  \* the board's own address
    config, pc,
    job,         \* the frame being sent, see Jobs
    asked,       \* the datagram the application waits to be answered
    wire,        \* the frames on their way to the board
    budget,      \* troubles and sessions so far
    in_order     \* the queues were empty at set-up and the accelerator started

hardware == <<queues, rx_data, device>>
software == <<tx_packet, txuse, net_arp_cache, rt_table, ip_address>>
session == <<config, pc, job, asked, in_order>>
lanVars == <<hardware, software, session, wire, budget>>

-----------------------------------------------------------------------------
(* Hosts and frames.                                                       *)

\* Is BOOTP asked for an address, does its reply name a router, is it sent to
\* the address it offers; is the server in another network; are all ports of
\* the switch used.
LanConfigurations ==
    [bootp : BOOLEAN, router : BOOLEAN, unicast : BOOLEAN,
     use_bootp_server_ip : BOOLEAN, remote : BOOLEAN, all_ports : BOOLEAN]

ASSUME LanAssumption ==
    /\ LanConfigs \subseteq LanConfigurations
    /\ LastRequest \in Nat \ {0}
    /\ MaxTroubles \in Nat /\ MaxSessions \in Nat

Board == "board"
Server == "server"
Gateway == "gateway"
Everyone == "everyone"
NoAddress == "none"

OnLink == {Gateway, "other"} \cup (IF config.remote THEN {} ELSE {Server})

Hosts == {Board, Server, Gateway, "other"}
Addresses == Hosts \cup {Everyone, NoAddress}

Frames == [dst : Addresses, kind : {"request", "reply", "ip", "blank"},
           from : Addresses, to : Addresses, data : 0 .. LastRequest]

ArpFrame(dst, kind, from, to) ==
    [dst |-> dst, kind |-> kind, from |-> from, to |-> to, data |-> 0]

\* An IP packet before it has an Ethernet header.
Datagram(from, to, data) ==
    [dst |-> NoAddress, kind |-> "ip", from |-> from, to |-> to, data |-> data]

\* What a packet holds that is being built.
Blank == ArpFrame(NoAddress, "blank", NoAddress, NoAddress)

\* Where the network hands a packet for the server: it or the router.
TrueNextHop == IF config.remote THEN Gateway ELSE Server

\* What the hosts answer to a frame of the board.
Answers(f) ==
    CASE f.kind = "request" /\ f.to \in OnLink ->
            {ArpFrame(Board, "reply", f.to, Board)}
      [] f.kind = "ip" /\ f.to = Everyone ->
            {[dst |-> IF config.unicast THEN Board ELSE Everyone, kind |-> "ip", from |-> Server,
              to |-> IF config.unicast THEN Board ELSE Everyone, data |-> 0]}
      [] f.kind = "ip" /\ f.to = Server /\ f.dst = TrueNextHop /\ f.data < LastRequest ->
            {[dst |-> Board, kind |-> "ip", from |-> Server, to |-> Board, data |-> f.data]}
      [] OTHER -> {}

-----------------------------------------------------------------------------
(* The hardware.                                                           *)

\* The accelerator takes its configuration and returns the descriptor.
PaRuns ==
    /\ queues["PA_CFG"] # << >> /\ device.pa
    /\ queues' = Moved(queues, "PA_CFG", "LNK_BUF")
    /\ UNCHANGED <<rx_data, device, software, session, wire, budget>>

\* The frame that leaves is the one the packet holds now.  It may get lost.
Transmit ==
    /\ queues["ETH_TX"] # << >> /\ device.dma
    /\ queues' = Moved(queues, "ETH_TX", "TX")
    /\ \/ wire' = wire \cup Answers(tx_packet) /\ UNCHANGED budget
       \/ /\ budget.troubles < MaxTroubles
          /\ budget' = [budget EXCEPT !.troubles = @ + 1]
          /\ UNCHANGED wire
    /\ UNCHANGED <<rx_data, device, software, session>>

\* The accelerator passes what is for the board or for everyone.
Arrive(f) ==
    /\ device.mac /\ device.dma /\ device.pa
    /\ queues["LNK_BUF"] # << >> /\ queues["PA_CFG"] = << >>
    /\ queues' = Moved(queues, "LNK_BUF", "RCV")
    /\ rx_data' = [rx_data EXCEPT ![Head(queues["LNK_BUF"])] = f]
    /\ wire' = wire \ {f}
    /\ UNCHANGED <<device, software, session, budget>>

\* A frame that finds no descriptor, or nobody listening, is lost.
Overrun(f) ==
    /\ ~device.mac \/ ~device.dma \/ ~device.pa \/ queues["LNK_BUF"] = << >>
    /\ wire' = wire \ {f}
    /\ UNCHANGED <<hardware, software, session, budget>>

\* Another host asks for the address of some host, the board or not.
Chatter(host, target) ==
    /\ budget.troubles < MaxTroubles
    /\ ip_address = Board
    /\ wire' = wire \cup {ArpFrame(Everyone, "request", host, target)}
    /\ budget' = [budget EXCEPT !.troubles = @ + 1]
    /\ UNCHANGED <<hardware, software, session>>

-----------------------------------------------------------------------------
(* Sending.                                                                *)

\* A datagram of the application, an ARP request or reply, or the datagram
\* that waited for the reply.
Jobs == {"none", "datagram", "request", "reply", "pending"}

NoCacheEntry == [ip |-> NoAddress, mac |-> NoAddress, pending |-> << >>]

Send(kind) == pc' = "alloc" /\ job' = kind

Done == pc' = "poll" /\ job' = "none"

\* net_alloc_tx_packet clears the packet, or finds it in use.
Alloc ==
    /\ pc = "alloc"
    /\ IF txuse
       THEN Done /\ UNCHANGED <<txuse, tx_packet>>
       ELSE /\ txuse' = TRUE
            /\ tx_packet' = Blank
            /\ pc' = "fill"
            /\ UNCHANGED job
    /\ UNCHANGED <<hardware, net_arp_cache, rt_table, ip_address, config, asked, in_order,
                   wire, budget>>

\* An Ethernet header goes in front, and the frame is ready to be sent.
AddHeader(packet, mac) ==
    /\ tx_packet' = [packet EXCEPT !.dst = mac]
    /\ pc' = "mac"
    /\ UNCHANGED <<txuse, job>>

\* The address a packet is handed to: rt_table has a route to the network and
\* one to everywhere else.
Routed(to) == to = Everyone \/ (rt_table.network /\ to \in OnLink) \/ rt_table.default

NextHop(to) ==
    IF to = Everyone \/ (rt_table.network /\ to \in OnLink) THEN to ELSE Gateway

\* The datagram the application has put into the packet.
Asking == Datagram(ip_address, IF asked = 0 THEN Everyone ELSE Server, asked)

\* A variant that keeps a packet without a route allocated.
NoRouteKeepsPacket ==
    /\ job = "datagram" /\ ~Routed(Asking.to)
    /\ Done
    /\ UNCHANGED <<txuse, tx_packet, net_arp_cache>>

\* ip_send drops what has no route.
NoRoute ==
    /\ job = "datagram" /\ ~Routed(Asking.to)
    /\ txuse' = FALSE
    /\ Done
    /\ UNCHANGED <<tx_packet, net_arp_cache>>

\* A variant that takes an entry for resolved before it is.
ResolvedByAddress(hop) == net_arp_cache.ip = hop

\* arp_resolve finds the address in its cache.
Resolved(hop) == net_arp_cache.ip = hop /\ net_arp_cache.mac # NoAddress

SendResolved ==
    /\ job = "datagram" /\ Routed(Asking.to)
    /\ LET hop == NextHop(Asking.to) IN
       \/ hop = Everyone /\ AddHeader(Asking, Everyone)
       \/ hop # Everyone /\ Resolved(hop) /\ AddHeader(Asking, net_arp_cache.mac)
    /\ UNCHANGED net_arp_cache

\* A variant that clears the address but not what waited for it.
AskAddressKeepsPending ==
    /\ job = "datagram" /\ Routed(Asking.to)
    /\ LET hop == NextHop(Asking.to) IN
       /\ hop # Everyone /\ ~Resolved(hop)
       /\ net_arp_cache' = [ip |-> hop, mac |-> NoAddress,
                            pending |-> IF net_arp_cache.pending = << >>
                                        THEN <<Asking>> ELSE net_arp_cache.pending]
    /\ txuse' = FALSE
    /\ Send("request")
    /\ UNCHANGED tx_packet

\* Or it starts the cache again with this packet waiting, and asks.
AskAddress ==
    /\ job = "datagram" /\ Routed(Asking.to)
    /\ LET hop == NextHop(Asking.to) IN
       /\ hop # Everyone /\ ~Resolved(hop)
       /\ net_arp_cache' = [ip |-> hop, mac |-> NoAddress, pending |-> <<Asking>>]
    /\ txuse' = FALSE
    /\ Send("request")
    /\ UNCHANGED tx_packet

FillArp ==
    /\ \/ /\ job = "request"
          /\ AddHeader(ArpFrame(NoAddress, "request", ip_address, net_arp_cache.ip), Everyone)
       \/ /\ job = "reply"
          /\ AddHeader(ArpFrame(NoAddress, "reply", ip_address, net_arp_cache.ip),
                       net_arp_cache.mac)
       \/ /\ job = "pending"
          /\ AddHeader(Head(net_arp_cache.pending), net_arp_cache.mac)
    /\ UNCHANGED net_arp_cache

Fill ==
    /\ pc = "fill"
    /\ NoRoute \/ SendResolved \/ AskAddress \/ FillArp
    /\ UNCHANGED <<hardware, rt_table, ip_address, config, asked, in_order, wire, budget>>

\* targetMacSend waits for a transmit descriptor, for as long as it takes, and
\* the packet is freed at once.  After an ARP reply the packet that waited for
\* the sender's address goes out.
MacSend ==
    /\ pc = "mac"
    /\ queues["TX"] # << >>
    /\ queues' = targetMacSend(queues)
    /\ txuse' = FALSE
    /\ net_arp_cache' = IF job = "pending" THEN [net_arp_cache EXCEPT !.pending = << >>]
                        ELSE net_arp_cache
    /\ IF job = "reply" /\ net_arp_cache.pending # << >> THEN Send("pending") ELSE Done
    /\ UNCHANGED <<rx_data, device, tx_packet, rt_table, ip_address, config, asked, in_order,
                   wire, budget>>

-----------------------------------------------------------------------------
(* Receiving: one call of proc_packet.                                     *)

\* targetMacRcv has copied the frame and returned its descriptor.
Received(f) ==
    /\ pc = "poll"
    /\ queues["RCV"] # << >>
    /\ f = rx_data[Head(queues["RCV"])]
    /\ queues' = targetMacRcv(queues)
    /\ UNCHANGED <<rx_data, device, tx_packet, txuse, config, in_order, wire, budget>>

\* An ARP packet of somebody else, about the board's address.
ArpForBoard(f) ==
    /\ f.kind \in {"request", "reply"}
    /\ f.dst \in {Board, Everyone} /\ f.from # Board
    /\ f.to = ip_address

\* The sender takes the place of whoever is in the cache, and gets the packet
\* that waits there.
ArpReceive(f) ==
    /\ Received(f) /\ ArpForBoard(f)
    /\ net_arp_cache' = [net_arp_cache EXCEPT !.ip = f.from, !.mac = f.from]
    /\ IF f.kind = "request" THEN Send("reply")
       ELSE IF net_arp_cache.pending # << >> THEN Send("pending")
       ELSE UNCHANGED <<pc, job>>
    /\ UNCHANGED <<rt_table, ip_address, asked>>

\* A variant that takes any answer for the one it waits for.
AwaitedAnyData(f) ==
    /\ f.kind = "ip" /\ f.dst \in {Board, Everyone}
    /\ config.use_bootp_server_ip \/ f.to \in {ip_address, Everyone}

\* An IP packet ip_receive accepts, and the application has waited for.
Awaited(f) ==
    /\ f.kind = "ip" /\ f.dst \in {Board, Everyone}
    /\ config.use_bootp_server_ip \/ f.to \in {ip_address, Everyone}
    /\ f.data = asked

\* The address a BOOTP reply assigns replaces the route to the network; a route
\* to elsewhere exists if the reply names a router.
Configure ==
    IF asked = 0
    THEN /\ ip_address' = Board
         /\ rt_table' = [network |-> TRUE, default |-> rt_table.default \/ config.router]
    ELSE UNCHANGED <<ip_address, rt_table>>

IpReceive(f) ==
    /\ Received(f) /\ Awaited(f)
    /\ Configure
    /\ asked' = asked + 1
    /\ Send("datagram")
    /\ UNCHANGED net_arp_cache

Ignore(f) ==
    /\ Received(f) /\ ~ArpForBoard(f) /\ ~Awaited(f)
    /\ UNCHANGED <<pc, job, asked, net_arp_cache, rt_table, ip_address>>

\* A timer of the application expires, long after the frame has left.
Timeout ==
    /\ pc = "poll" /\ asked < LastRequest
    /\ queues["ETH_TX"] = << >>
    /\ Send("datagram")
    /\ UNCHANGED <<hardware, software, config, asked, in_order, wire, budget>>

-----------------------------------------------------------------------------
(* Sessions.                                                               *)

\* Set-up in iblEthBoot, then net_open.  What the queue manager does with a
\* descriptor that is pushed while still on a queue is not defined.
Start(conf, paStarts) ==
    /\ pc = "off" /\ budget.sessions < MaxSessions
    /\ budget' = [budget EXCEPT !.sessions = @ + 1]
    /\ config' = conf
    /\ \/ /\ queues # QueuesEmpty
          /\ pc' = "undefined" /\ in_order' = FALSE
          /\ UNCHANGED <<hardware, software, job, asked>>
       \/ /\ queues = QueuesEmpty
          /\ queues' = targetPaConfig(targetInitQs(hwQmSetup(queues)), paStarts)
          /\ device' = [mac |-> TRUE, dma |-> TRUE, pa |-> paStarts]
          /\ in_order' = paStarts
          /\ net_arp_cache' = NoCacheEntry
          /\ txuse' = FALSE /\ tx_packet' = Blank
          /\ ip_address' = IF conf.bootp THEN NoAddress ELSE Board
          /\ rt_table' = [network |-> ~conf.bootp, default |-> FALSE]
          /\ asked' = IF conf.bootp THEN 0 ELSE 1
          /\ Send("datagram")
          /\ UNCHANGED rx_data
    /\ UNCHANGED wire

\* cpmac_drv_stop does nothing if all ports are in use.
MacStops == device.mac /\ config.all_ports

\* The session ends before it has loaded anything: nothing but the net module
\* is closed.
Abandon ==
    /\ pc = "poll"
    /\ pc' = "off"
    /\ device' = [device EXCEPT !.mac = MacStops]
    /\ UNCHANGED <<queues, rx_data, software, config, job, asked, in_order, wire, budget>>

\* It ends in order, and no one waits for the last frame to leave.
Finish ==
    /\ pc = "poll"
    /\ asked = LastRequest
    /\ pc' = "off"
    /\ device' = [mac |-> MacStops, dma |-> FALSE, pa |-> FALSE]
    /\ queues' = targetFreeQs(queues)
    /\ UNCHANGED <<rx_data, software, config, job, asked, in_order, wire, budget>>

-----------------------------------------------------------------------------

Arrivals == \E f \in wire : Arrive(f) \/ Overrun(f)

Sending == Alloc \/ Fill \/ MacSend

Receiving ==
    \E d \in Descriptors :
        ArpReceive(rx_data[d]) \/ IpReceive(rx_data[d]) \/ Ignore(rx_data[d])

LanInit ==
    /\ queues = QueuesEmpty
    /\ rx_data = [d \in Descriptors |-> Blank]
    /\ device = [mac |-> FALSE, dma |-> FALSE, pa |-> FALSE]
    /\ tx_packet = Blank /\ txuse = FALSE
    /\ net_arp_cache = NoCacheEntry
    /\ rt_table = [network |-> FALSE, default |-> FALSE]
    /\ ip_address = NoAddress
    /\ config \in LanConfigs
    /\ pc = "off" /\ job = "none" /\ asked = 0
    /\ wire = {}
    /\ budget = [troubles |-> 0, sessions |-> 0]
    /\ in_order = TRUE

LanNext ==
    \/ PaRuns \/ Transmit \/ Arrivals
    \/ Sending \/ Receiving
    \/ Timeout \/ Abandon \/ Finish
    \/ \E host \in OnLink, target \in {Board, Gateway} : Chatter(host, target)
    \/ \E conf \in LanConfigs, paStarts \in BOOLEAN : Start(conf, paStarts)

\* The hardware runs, timers expire, and the polling loop looks for a frame
\* after every timer it has run.
LanSpec ==
    /\ LanInit /\ [][LanNext]_lanVars
    /\ WF_lanVars(PaRuns) /\ WF_lanVars(Transmit) /\ WF_lanVars(Arrivals)
    /\ WF_lanVars(Sending) /\ SF_lanVars(Receiving) /\ WF_lanVars(Timeout)
==============================================================================
