------------------------------ MODULE LanProofs ------------------------------
(***************************************************************************)
(* What TLAPS proves of the board on its network, for every number of      *)
(* descriptors, every set of configurations and every number of datagrams. *)
(***************************************************************************)
EXTENDS LanProperties, SequenceTheorems, TLAPS

Queues == [QueueNames -> Seq(Descriptors)]

Conserved(q) == NoneLost(q) /\ NoneShared(q)

-----------------------------------------------------------------------------
(* Queues.                                                                 *)

\* What a move does to the two queues it touches.
LEMMA MovedQueues ==
    ASSUME NEW q \in Queues, NEW from \in QueueNames, NEW to \in QueueNames,
           from # to, q[from] # << >>
    PROVE  /\ Moved(q, from, to) \in Queues
           /\ Moved(q, from, to)[from] = Tail(q[from])
           /\ Moved(q, from, to)[to] = Append(q[to], Head(q[from]))
           /\ \A name \in QueueNames \ {from, to} : Moved(q, from, to)[name] = q[name]
  <1>1. q[from] \in Seq(Descriptors) /\ q[to] \in Seq(Descriptors)
    BY DEF Queues
  <1>2. Head(q[from]) \in Descriptors /\ Tail(q[from]) \in Seq(Descriptors)
    BY <1>1, HeadTailProperties
  <1>3. Append(q[to], Head(q[from])) \in Seq(Descriptors)
    BY <1>1, <1>2, AppendProperties
  <1> QED
    BY <1>2, <1>3 DEF Moved, hwQmQueuePush, hwQmQueuePop, Queues

\* A move neither loses nor duplicates.
LEMMA MovedConserves ==
    ASSUME NEW q \in Queues, NEW from \in QueueNames, NEW to \in QueueNames,
           from # to, q[from] # << >>, Conserved(q)
    PROVE  Conserved(Moved(q, from, to))
  <1> DEFINE p == Moved(q, from, to)
  <1>1. q[from] \in Seq(Descriptors) /\ q[to] \in Seq(Descriptors)
    BY DEF Queues
  <1>2. /\ p[from] = Tail(q[from])
        /\ p[to] = Append(q[to], Head(q[from]))
        /\ \A name \in QueueNames \ {from, to} : p[name] = q[name]
    BY MovedQueues
  <1> HIDE DEF p
  <1>3. /\ Len(q[from]) \in Nat \ {0}
        /\ Len(p[from]) = Len(q[from]) - 1
        /\ \A i \in 1 .. Len(p[from]) : p[from][i] = q[from][i + 1]
    BY <1>1, <1>2, HeadTailProperties, EmptySeq, LenProperties
  <1>4. /\ Len(q[to]) \in Nat
        /\ Len(p[to]) = Len(q[to]) + 1
        /\ \A i \in 1 .. Len(q[to]) : p[to][i] = q[to][i]
        /\ p[to][Len(q[to]) + 1] = q[from][1]
    <2>1. Head(q[from]) \in Descriptors /\ Head(q[from]) = q[from][1]
      BY <1>1, HeadTailProperties
    <2> QED
      BY <1>1, <1>2, <2>1, AppendProperties, LenProperties
  <1>5. NoneLost(p)
    <2> SUFFICES ASSUME NEW d \in Descriptors
                 PROVE  \E name \in QueueNames : \E i \in 1 .. Len(p[name]) : p[name][i] = d
      BY DEF NoneLost
    <2>1. PICK n \in QueueNames : \E i \in 1 .. Len(q[n]) : q[n][i] = d
      BY DEF Conserved, NoneLost
    <2>2. PICK i \in 1 .. Len(q[n]) : q[n][i] = d
      BY <2>1
    <2>3. CASE n \notin {from, to}
      BY <2>2, <2>3, <1>2
    <2>4. CASE n = to
      <3>1. i \in 1 .. Len(p[to]) /\ p[to][i] = d
        BY <2>2, <2>4, <1>4
      <3> QED
        BY <3>1
    <2>5. CASE n = from /\ i = 1
      <3>1. Len(q[to]) + 1 \in 1 .. Len(p[to]) /\ p[to][Len(q[to]) + 1] = d
        BY <2>2, <2>5, <1>4
      <3> QED
        BY <3>1
    <2>6. CASE n = from /\ i # 1
      <3>1. i - 1 \in 1 .. Len(p[from]) /\ p[from][i - 1] = d
        BY <2>2, <2>6, <1>3
      <3> QED
        BY <3>1
    <2> QED
      BY <2>3, <2>4, <2>5, <2>6
  <1>6. NoneShared(p)
    \* Where an entry of a queue was before the move.
    <2> DEFINE Before(n, i) == IF n = from THEN <<from, i + 1>>
                               ELSE IF n = to /\ i = Len(q[to]) + 1 THEN <<from, 1>>
                               ELSE <<n, i>>
    <2>1. \A n \in QueueNames : \A i \in 1 .. Len(p[n]) :
             /\ Before(n, i)[1] \in QueueNames
             /\ Before(n, i)[2] \in 1 .. Len(q[Before(n, i)[1]])
             /\ q[Before(n, i)[1]][Before(n, i)[2]] = p[n][i]
      <3> SUFFICES ASSUME NEW n \in QueueNames, NEW i \in 1 .. Len(p[n])
                   PROVE  /\ Before(n, i)[1] \in QueueNames
                          /\ Before(n, i)[2] \in 1 .. Len(q[Before(n, i)[1]])
                          /\ q[Before(n, i)[1]][Before(n, i)[2]] = p[n][i]
        OBVIOUS
      <3>1. CASE n = from
        BY <3>1, <1>3
      <3>2. CASE n = to
        BY SMTT(30), <3>2, <1>3, <1>4
      <3>3. CASE n \notin {from, to}
        BY <3>3, <1>2
      <3> QED
        BY <3>1, <3>2, <3>3
    <2>2. \A m, n \in QueueNames : \A i \in 1 .. Len(p[m]), j \in 1 .. Len(p[n]) :
             Before(m, i) = Before(n, j) => m = n /\ i = j
      <3> SUFFICES ASSUME NEW m \in QueueNames, NEW n \in QueueNames,
                          NEW i \in 1 .. Len(p[m]), NEW j \in 1 .. Len(p[n]),
                          Before(m, i) = Before(n, j)
                   PROVE  m = n /\ i = j
        OBVIOUS
      <3>1. CASE m = from
        BY <3>1, <1>3
      <3>2. CASE n = from
        BY <3>2, <1>3
      <3>3. CASE m # from /\ n # from
        BY <3>3, <1>4
      <3> QED
        BY <3>1, <3>2, <3>3
    <2> HIDE DEF Before
    <2> SUFFICES ASSUME NEW m \in QueueNames, NEW n \in QueueNames,
                        NEW i \in 1 .. Len(p[m]), NEW j \in 1 .. Len(p[n]),
                        p[m][i] = p[n][j]
                 PROVE  m = n /\ i = j
      BY DEF NoneShared
    <2>3. /\ Before(m, i)[1] = Before(n, j)[1]
          /\ Before(m, i)[2] = Before(n, j)[2]
      <3> DEFINE m0 == Before(m, i)[1]
                 i0 == Before(m, i)[2]
                 n0 == Before(n, j)[1]
                 j0 == Before(n, j)[2]
      <3>1. m0 \in QueueNames /\ i0 \in 1 .. Len(q[m0]) /\ q[m0][i0] = p[m][i]
        BY <2>1
      <3>2. n0 \in QueueNames /\ j0 \in 1 .. Len(q[n0]) /\ q[n0][j0] = p[n][j]
        BY <2>1
      <3> HIDE DEF m0, i0, n0, j0
      <3>3. m0 = n0 /\ i0 = j0
        BY SMTT(30), <3>1, <3>2 DEF Conserved, NoneShared
      <3> QED
        BY <3>3 DEF m0, i0, n0, j0
    <2>4. Before(m, i) = Before(n, j)
      BY <2>3 DEF Before
    <2> QED
      BY <2>2, <2>4
  <1> QED
    BY <1>5, <1>6 DEF Conserved, p

\* A session that begins with empty queues begins with every descriptor on one.
LEMMA SetupConserves ==
    LET q == targetInitQs(hwQmSetup(QueuesEmpty))
    IN q \in Queues /\ Conserved(q) /\ q["LNK_BUF"] # << >>
  <1> DEFINE N == DEVICE_NUM_CPPIS
             R == DEVICE_NUM_RX_CPPIS
             all == [i \in Descriptors |-> i]
             q == targetInitQs(hwQmSetup(QueuesEmpty))
             rx == SubSeq(all, 1, R)
             tx == SubSeq(all, R + 1, N)
  <1>1. R \in Nat \ {0} /\ N \in Nat /\ R < N
    BY QmAssumption DEF DEVICE_NUM_CPPIS
  <1>2. all \in Seq(Descriptors) /\ Len(all) = N
    BY <1>1 DEF Descriptors
  <1>3. hwQmSetup(QueuesEmpty) = [QueuesEmpty EXCEPT !["FREE"] = all]
    <2>1. QueuesEmpty["FREE"] = << >>
      BY DEF QueuesEmpty, QueueNames
    <2>2. << >> \o all = all
      BY <1>2, ConcatEmptySeq
    <2> QED
      BY <2>1, <2>2 DEF hwQmSetup
  <1>4. /\ rx \in Seq(Descriptors) /\ Len(rx) = R
        /\ \A i \in 1 .. R : rx[i] = i
    BY <1>1, <1>2, SubSeqProperties DEF Descriptors
  <1>5. /\ tx \in Seq(Descriptors) /\ Len(tx) = N - R
        /\ \A i \in 1 .. N - R : tx[i] = R + i
    BY <1>1, <1>2, SubSeqProperties DEF Descriptors
  <1>6. SubSeq(all, N + 1, Len(all)) = << >>
    BY <1>1, <1>2, SubSeqProperties
  <1>7. << >> \o rx = rx /\ << >> \o tx = tx
    BY <1>4, <1>5, ConcatEmptySeq
  <1> HIDE DEF all, rx, tx, N, R
  <1>8. q = [QueuesEmpty EXCEPT !["LNK_BUF"] = rx, !["TX"] = tx, !["FREE"] = << >>]
    BY <1>2, <1>3, <1>6, <1>7 DEF targetInitQs, QueuesEmpty, QueueNames, all, rx, tx, N, R
  <1>9. /\ q \in Queues
        /\ q["LNK_BUF"] = rx /\ q["TX"] = tx
        /\ \A name \in QueueNames \ {"LNK_BUF", "TX"} : q[name] = << >>
    <2>1. q = [name \in QueueNames |-> IF name = "LNK_BUF" THEN rx
                                      ELSE IF name = "TX" THEN tx ELSE << >>]
      BY <1>8 DEF QueuesEmpty, QueueNames
    <2>2. << >> \in Seq(Descriptors)
      BY EmptySeq
    <2> HIDE DEF q
    <2>3. q \in Queues
      BY <2>1, <2>2, <1>4, <1>5 DEF Queues
    <2>4. "LNK_BUF" \in QueueNames /\ "TX" \in QueueNames
      BY DEF QueueNames
    <2> QED
      BY <2>1, <2>3, <2>4
  <1> HIDE DEF q
  <1>10. NoneLost(q)
    <2> SUFFICES ASSUME NEW d \in Descriptors
                 PROVE  \E name \in QueueNames : \E i \in 1 .. Len(q[name]) : q[name][i] = d
      BY DEF NoneLost
    <2>1. CASE d <= R
      <3>1. d \in 1 .. Len(q["LNK_BUF"]) /\ q["LNK_BUF"][d] = d
        BY <2>1, <1>1, <1>4, <1>9 DEF Descriptors, N
      <3> QED
        BY <3>1 DEF QueueNames
    <2>2. CASE d > R
      <3>1. d - R \in 1 .. Len(q["TX"]) /\ q["TX"][d - R] = d
        BY <2>2, <1>1, <1>5, <1>9 DEF Descriptors, N
      <3> QED
        BY <3>1 DEF QueueNames
    <2> QED
      BY <2>1, <2>2, <1>1 DEF Descriptors, N
  <1>11. NoneShared(q)
    <2> SUFFICES ASSUME NEW m \in QueueNames, NEW n \in QueueNames,
                        NEW i \in 1 .. Len(q[m]), NEW j \in 1 .. Len(q[n]),
                        q[m][i] = q[n][j]
                 PROVE  m = n /\ i = j
      BY DEF NoneShared
    <2>1. m \in {"LNK_BUF", "TX"} /\ n \in {"LNK_BUF", "TX"}
      BY <1>9, EmptySeq
    <2>2. m = "LNK_BUF" => i \in 1 .. R /\ q[m][i] = i
      BY <1>4, <1>9
    <2>3. m = "TX" => i \in 1 .. N - R /\ q[m][i] = R + i
      BY <1>5, <1>9
    <2>4. n = "LNK_BUF" => j \in 1 .. R /\ q[n][j] = j
      BY <1>4, <1>9
    <2>5. n = "TX" => j \in 1 .. N - R /\ q[n][j] = R + j
      BY <1>5, <1>9
    <2> QED
      BY <2>1, <2>2, <2>3, <2>4, <2>5, <1>1
  <1>12. q["LNK_BUF"] # << >>
    BY <1>1, <1>4, <1>9
  <1> QED
    BY <1>9, <1>10, <1>11, <1>12 DEF Conserved, q

-----------------------------------------------------------------------------
(* Descriptors.                                                            *)

\* Outside of a session descriptors may be lost: targetFreeQs forgets them.
QueuesInv ==
    /\ queues \in Queues
    /\ DescriptorsConserved

\* A step that moves one descriptor, and begins no session.
LEMMA MoveKeeps ==
    ASSUME QueuesInv, Operating' => Operating,
           NEW from \in QueueNames, NEW to \in QueueNames,
           from # to, queues[from] # << >>, queues' = Moved(queues, from, to)
    PROVE  QueuesInv'
  <1>1. queues' \in Queues
    BY MovedQueues DEF QueuesInv
  <1>2. Operating' => Conserved(queues')
    BY MovedConserves DEF QueuesInv, DescriptorsConserved, Conserved
  <1> QED
    BY <1>1, <1>2 DEF QueuesInv, DescriptorsConserved, Conserved, NoneLost, NoneShared

LEMMA StutterKeeps ==
    ASSUME QueuesInv, Operating' => Operating, queues' = queues
    PROVE  QueuesInv'
  BY DEF QueuesInv, DescriptorsConserved, NoneLost, NoneShared

LEMMA StartKeeps ==
    ASSUME QueuesInv, NEW conf \in LanConfigs, NEW paStarts \in BOOLEAN, Start(conf, paStarts)
    PROVE  QueuesInv'
  <1> DEFINE q == targetInitQs(hwQmSetup(QueuesEmpty))
  <1>1. CASE queues # QueuesEmpty
    <2>1. ~Operating' /\ queues' = queues
      BY <1>1 DEF Start, Operating, hardware
    <2> QED
      BY <2>1, StutterKeeps
  <1>2. CASE queues = QueuesEmpty /\ paStarts
    <2>1. queues' = Moved(q, "LNK_BUF", "PA_CFG")
      BY <1>2 DEF Start, targetPaConfig
    <2>2. q \in Queues /\ Conserved(q) /\ q["LNK_BUF"] # << >>
      BY SetupConserves
    <2>3. "LNK_BUF" \in QueueNames /\ "PA_CFG" \in QueueNames
      BY DEF QueueNames
    <2> HIDE DEF q
    <2>4. queues' \in Queues /\ Conserved(queues')
      BY <2>1, <2>2, <2>3, MovedQueues, MovedConserves
    <2> QED
      BY <2>4 DEF QueuesInv, DescriptorsConserved, Conserved, NoneLost, NoneShared
  <1>3. CASE queues = QueuesEmpty /\ ~paStarts
    <2>1. queues' = hwQmQueuePop(q, "LNK_BUF") /\ ~in_order'
      BY <1>3 DEF Start, targetPaConfig
    <2>2. q \in Queues /\ q["LNK_BUF"] # << >>
      BY SetupConserves
    <2> HIDE DEF q
    <2>3. q["LNK_BUF"] \in Seq(Descriptors)
      BY <2>2 DEF Queues, QueueNames
    <2>4. Tail(q["LNK_BUF"]) \in Seq(Descriptors)
      BY <2>2, <2>3, HeadTailProperties
    <2>5. queues' \in Queues
      BY <2>1, <2>2, <2>4 DEF hwQmQueuePop, Queues, QueueNames
    <2> QED
      BY <2>1, <2>5 DEF QueuesInv, DescriptorsConserved, Operating
  <1> QED
    BY <1>1, <1>2, <1>3

LEMMA FinishKeeps ==
    ASSUME QueuesInv, Finish
    PROVE  QueuesInv'
  <1>1. << >> \in Seq(Descriptors)
    BY EmptySeq
  <1>2. queues' \in Queues
    BY <1>1 DEF QueuesInv, Finish, targetFreeQs, Queues, QueueNames
  <1>3. ~Operating'
    BY DEF Finish, Operating
  <1> QED
    BY <1>2, <1>3 DEF QueuesInv, DescriptorsConserved

LEMMA QueuesInvNext == QueuesInv /\ [LanNext]_lanVars => QueuesInv'
  <1> SUFFICES ASSUME QueuesInv, [LanNext]_lanVars PROVE QueuesInv'
    OBVIOUS
  <1> USE DEF hardware, software, session
  <1>1. CASE PaRuns
    <2>1. Operating' => Operating
      BY <1>1 DEF PaRuns, Operating
    <2> QED
      BY <1>1, <2>1, MoveKeeps DEF PaRuns, QueueNames
  <1>2. CASE Transmit
    <2>1. Operating' => Operating
      BY <1>2 DEF Transmit, Operating
    <2> QED
      BY <1>2, <2>1, MoveKeeps DEF Transmit, QueueNames
  <1>3. CASE Arrivals
    <2>1. PICK f \in wire : Arrive(f) \/ Overrun(f)
      BY <1>3 DEF Arrivals
    <2>2. Operating' => Operating
      BY <2>1 DEF Arrive, Overrun, Operating
    <2>3. CASE Arrive(f)
      BY <2>2, <2>3, MoveKeeps DEF Arrive, QueueNames
    <2>4. CASE Overrun(f)
      BY <2>2, <2>4, StutterKeeps DEF Overrun
    <2> QED
      BY <2>1, <2>3, <2>4
  <1>4. CASE Alloc \/ Fill
    <2>1. queues' = queues
      BY <1>4 DEF Alloc, Fill
    <2>2. Operating' => Operating
      BY <1>4 DEF Alloc, Fill, Operating
    <2> QED
      BY <2>1, <2>2, StutterKeeps
  <1>5. CASE MacSend
    <2>1. Operating' => Operating
      BY <1>5 DEF MacSend, Operating
    <2> QED
      BY <1>5, <2>1, MoveKeeps DEF MacSend, targetMacSend, QueueNames
  <1>6. CASE Receiving
    <2>1. PICK f : Received(f)
      BY <1>6 DEF Receiving, ArpReceive, IpReceive, Ignore
    <2>2. Operating' => Operating
      BY <2>1 DEF Received, Operating
    <2> QED
      BY <2>1, <2>2, MoveKeeps DEF Received, targetMacRcv, QueueNames
  <1>7. CASE Timeout
    <2>1. queues' = queues /\ (Operating' => Operating)
      BY <1>7 DEF Timeout, Operating
    <2> QED
      BY <2>1, StutterKeeps
  <1>8. CASE Abandon
    <2>1. queues' = queues /\ (Operating' => Operating)
      BY <1>8 DEF Abandon, Operating
    <2> QED
      BY <2>1, StutterKeeps
  <1>9. CASE Finish
    BY <1>9, FinishKeeps
  <1>10. CASE \E host \in OnLink, target \in {Board, Gateway} : Chatter(host, target)
    <2>1. queues' = queues /\ (Operating' => Operating)
      BY <1>10 DEF Chatter, Operating
    <2> QED
      BY <2>1, StutterKeeps
  <1>11. CASE \E conf \in LanConfigs, paStarts \in BOOLEAN : Start(conf, paStarts)
    BY <1>11, StartKeeps
  <1>12. CASE UNCHANGED lanVars
    <2>1. queues' = queues /\ (Operating' => Operating)
      BY <1>12 DEF lanVars, Operating
    <2> QED
      BY <2>1, StutterKeeps
  <1> QED
    BY <1>1, <1>2, <1>3, <1>4, <1>5, <1>6, <1>7, <1>8, <1>9, <1>10, <1>11, <1>12
       DEF LanNext, Sending

LEMMA QueuesInvInit == LanInit => QueuesInv
  <1>1. << >> \in Seq(Descriptors)
    BY EmptySeq
  <1> QED
    BY <1>1 DEF LanInit, QueuesInv, Queues, QueuesEmpty, DescriptorsConserved, Operating

\* However the program and the hardware take turns, from the set-up of a
\* session to its end every descriptor stays on exactly one queue.
THEOREM DescriptorsStayConserved == LanSpec => []DescriptorsConserved
  <1>1. QueuesInv => DescriptorsConserved
    BY DEF QueuesInv
  <1> QED
    BY <1>1, QueuesInvInit, QueuesInvNext, PTL DEF LanSpec

-----------------------------------------------------------------------------
(* Sending.                                                                *)

\* A packet that waits for an address waits for the hop to the server.
CacheWaits ==
    net_arp_cache.pending # << >> =>
        /\ net_arp_cache.mac = NoAddress
        /\ net_arp_cache.ip = NextHop(Server)
        /\ Head(net_arp_cache.pending).to = Server
        /\ asked # 0 /\ Routed(Server)

\* And it is the application's latest.
LatestWaits ==
    /\ CacheWaits
    /\ net_arp_cache.pending # << >> => Head(net_arp_cache.pending).data = asked

CacheRecord ==
    /\ net_arp_cache = [ip |-> net_arp_cache.ip, mac |-> net_arp_cache.mac,
                        pending |-> net_arp_cache.pending]
    /\ net_arp_cache.mac # NoAddress => net_arp_cache.mac = net_arp_cache.ip

\* The application's next datagram can make the waiting one out of date, until
\* arp_resolve has seen it; an answer to an ARP request lets it go.
Waiting ==
    /\ pc = "poll" => LatestWaits
    /\ pc \in {"alloc", "fill", "mac"} => job \in {"datagram", "request", "reply", "pending"}
    /\ pc \in {"alloc", "fill"} /\ job = "datagram" => CacheWaits
    /\ pc \in {"alloc", "fill", "mac"} /\ job = "request" => LatestWaits
    /\ pc = "mac" /\ job = "datagram" => net_arp_cache.pending = << >>

SendInv ==
    /\ asked \in Nat
    /\ pc \notin {"off", "undefined"} /\ asked # 0 => rt_table.network
    /\ TransmitPacketFreed
    /\ CacheRecord
    /\ Waiting
    /\ DatagramsReachNextHop

\* The parts of the invariant are about these variables only.
sendVars == <<tx_packet, txuse, net_arp_cache, rt_table, ip_address, config, pc, job, asked>>

LEMMA SendStutter == SendInv /\ UNCHANGED sendVars => SendInv'
  BY DEF sendVars, SendInv, TransmitPacketFreed, CacheRecord, Waiting, DatagramsReachNextHop,
         LatestWaits, CacheWaits, NextHop, Routed, OnLink, TrueNextHop

\* The hop to the server, if it has a route, is a host the network has.
LEMMA HopToServer ==
    ASSUME rt_table.network
    PROVE  NextHop(Server) = TrueNextHop /\ NextHop(Server) \notin {Everyone, NoAddress}
  BY DEF NextHop, TrueNextHop, OnLink, Server, Gateway, Everyone, NoAddress

LEMMA AllocKeeps == SendInv /\ Alloc => SendInv'
  <1> SUFFICES ASSUME SendInv, Alloc PROVE SendInv'
    OBVIOUS
  <1>1. ~txuse
    BY DEF SendInv, TransmitPacketFreed, Alloc
  <1>2. pc = "alloc" /\ pc' = "fill" /\ job' = job /\ txuse' = TRUE
        /\ UNCHANGED <<net_arp_cache, rt_table, ip_address, config, asked>>
    BY <1>1 DEF Alloc
  <1> QED
    BY <1>2 DEF SendInv, TransmitPacketFreed, CacheRecord, Waiting, DatagramsReachNextHop,
                LatestWaits, CacheWaits, NextHop, Routed, OnLink

LEMMA AskingTo == Asking.to = IF asked = 0 THEN Everyone ELSE Server
  BY DEF Asking, Datagram

LEMMA FillKeeps == SendInv /\ Fill => SendInv'
  <1> SUFFICES ASSUME SendInv, Fill PROVE SendInv'
    OBVIOUS
  <1>1. pc = "fill" /\ txuse /\ UNCHANGED <<rt_table, ip_address, config, asked>>
    BY DEF Fill, SendInv, TransmitPacketFreed
  <1> USE DEF SendInv, TransmitPacketFreed, CacheRecord, Waiting, DatagramsReachNextHop,
              LatestWaits, CacheWaits
  <1>2. asked # 0 => rt_table.network
    BY <1>1
  <1>3. CASE NoRoute
    <2>1. net_arp_cache.pending = << >>
      BY <1>1, <1>3, AskingTo DEF NoRoute, Routed
    <2> QED
      BY <1>1, <1>2, <1>3, <2>1 DEF NoRoute, Done
  <1>4. CASE SendResolved
    <2>1. net_arp_cache.pending = << >> /\ net_arp_cache' = net_arp_cache
      BY <1>1, <1>2, <1>4, AskingTo, HopToServer DEF SendResolved, Resolved, Everyone, Server
    <2>2. /\ tx_packet'.to = Asking.to
          /\ tx_packet'.dst = IF Asking.to = Everyone THEN Everyone ELSE TrueNextHop
      <3>1. CASE Asking.to = Everyone
        <4>1. NextHop(Asking.to) = Everyone
          BY <3>1 DEF NextHop
        <4> QED
          BY <4>1, <3>1, <1>4 DEF SendResolved, AddHeader, Asking, Datagram
      <3>2. CASE Asking.to # Everyone
        <4>1. asked # 0 /\ Asking.to = Server
          BY <3>2, AskingTo
        <4>2. NextHop(Asking.to) = TrueNextHop /\ NextHop(Asking.to) # Everyone
          BY <4>1, <1>2, HopToServer
        <4> QED
          BY <4>2, <3>2, <1>4 DEF SendResolved, AddHeader, Resolved, Asking, Datagram
      <3> QED
        BY <3>1, <3>2
    <2>3. pc' = "mac" /\ job' = job /\ txuse' = txuse /\ job = "datagram"
      BY <1>4 DEF SendResolved, AddHeader
    <2>4. TrueNextHop' = TrueNextHop
      BY <1>1 DEF TrueNextHop
    <2> QED
      BY <1>1, <1>2, <2>1, <2>2, <2>3, <2>4
  <1>5. CASE AskAddress
    <2>1. NextHop(Asking.to) # Everyone /\ Routed(Asking.to)
      BY <1>5 DEF AskAddress
    <2>2. asked # 0 /\ Asking.to = Server
      BY <2>1, AskingTo DEF NextHop
    <2>3. /\ net_arp_cache' = [ip |-> NextHop(Server), mac |-> NoAddress, pending |-> <<Asking>>]
          /\ txuse' = FALSE /\ pc' = "alloc" /\ job' = "request"
      BY <1>5, <2>2 DEF AskAddress, Send
    <2>4. /\ Head(net_arp_cache'.pending) = Asking
          /\ Asking.data = asked
      BY <2>3 DEF Asking, Datagram
    <2>5. NextHop(Server)' = NextHop(Server) /\ Routed(Server)' = Routed(Server)
      BY <1>1 DEF NextHop, Routed, OnLink
    <2> QED
      BY <1>1, <1>2, <2>1, <2>2, <2>3, <2>4, <2>5
  <1>6. CASE FillArp
    <2>1. /\ pc' = "mac" /\ job' = job /\ txuse' = txuse /\ job # "datagram"
          /\ net_arp_cache' = net_arp_cache
      BY <1>6 DEF FillArp, AddHeader
    <2>2. NextHop(Server)' = NextHop(Server) /\ Routed(Server)' = Routed(Server)
      BY <1>1 DEF NextHop, Routed, OnLink
    <2> QED
      BY <1>1, <1>2, <2>1, <2>2
  <1> QED
    BY <1>3, <1>4, <1>5, <1>6 DEF Fill

LEMMA MacSendKeeps == SendInv /\ MacSend => SendInv'
  <1> SUFFICES ASSUME SendInv, MacSend PROVE SendInv'
    OBVIOUS
  <1>1. /\ pc = "mac" /\ txuse' = FALSE
        /\ UNCHANGED <<rt_table, ip_address, config, asked>>
        /\ net_arp_cache' = IF job = "pending" THEN [net_arp_cache EXCEPT !.pending = << >>]
                            ELSE net_arp_cache
        /\ IF job = "reply" /\ net_arp_cache.pending # << >>
           THEN pc' = "alloc" /\ job' = "pending" ELSE pc' = "poll" /\ job' = "none"
    BY DEF MacSend, Send, Done
  <1>2. NextHop(Server)' = NextHop(Server) /\ Routed(Server)' = Routed(Server)
    BY <1>1 DEF NextHop, Routed, OnLink
  <1>3. CacheRecord'
    BY <1>1 DEF SendInv, CacheRecord
  <1>4. job = "pending" => net_arp_cache'.pending = << >>
    BY <1>1 DEF SendInv, CacheRecord
  <1>5. Waiting'
    BY <1>1, <1>2, <1>4 DEF SendInv, Waiting, LatestWaits, CacheWaits
  <1> QED
    BY <1>1, <1>3, <1>5 DEF SendInv, TransmitPacketFreed, DatagramsReachNextHop

LEMMA ReceivingKeeps == SendInv /\ Receiving => SendInv'
  <1> SUFFICES ASSUME SendInv, Receiving PROVE SendInv'
    OBVIOUS
  <1>1. PICK d \in Descriptors :
            ArpReceive(rx_data[d]) \/ IpReceive(rx_data[d]) \/ Ignore(rx_data[d])
    BY DEF Receiving
  <1> DEFINE f == rx_data[d]
  <1>2. pc = "poll" /\ ~txuse /\ UNCHANGED <<tx_packet, txuse, config>>
    BY <1>1 DEF ArpReceive, IpReceive, Ignore, Received, SendInv, TransmitPacketFreed
  <1>3. CASE ArpReceive(f)
    <2>1. /\ net_arp_cache' = [net_arp_cache EXCEPT !.ip = f.from, !.mac = f.from]
          /\ UNCHANGED <<rt_table, ip_address, asked>>
          /\ \/ pc' = "alloc" /\ job' \in {"reply", "pending"}
             \/ pc' = "poll" /\ net_arp_cache.pending = << >>
      BY <1>2, <1>3 DEF ArpReceive, Send
    <2>2. CacheRecord' /\ net_arp_cache'.pending = net_arp_cache.pending
      BY <2>1 DEF SendInv, CacheRecord
    <2> QED
      BY <1>2, <2>1, <2>2
         DEF SendInv, TransmitPacketFreed, Waiting, DatagramsReachNextHop, LatestWaits, CacheWaits
  <1>4. CASE IpReceive(f)
    <2>1. /\ pc' = "alloc" /\ job' = "datagram" /\ net_arp_cache' = net_arp_cache
          /\ asked' = asked + 1 /\ Configure
      BY <1>4 DEF IpReceive, Send
    <2>2. asked \in Nat /\ asked' # 0 /\ asked' \in Nat
      BY <2>1 DEF SendInv
    <2>3. rt_table'.network
      BY <1>2, <2>1, <2>2 DEF Configure, SendInv
    <2>4. CacheWaits'
      <3>1. CASE asked = 0
        BY <1>2, <2>1, <3>1 DEF SendInv, Waiting, LatestWaits, CacheWaits
      <3>2. CASE asked # 0
        <4>1. rt_table' = rt_table
          BY <2>1, <3>2 DEF Configure
        <4>2. NextHop(Server)' = NextHop(Server) /\ Routed(Server)' = Routed(Server)
          BY <1>2, <4>1 DEF NextHop, Routed, OnLink
        <4> QED
          BY <1>2, <2>1, <2>2, <4>2 DEF SendInv, Waiting, LatestWaits, CacheWaits
      <3> QED
        BY <3>1, <3>2
    <2> QED
      BY <1>2, <2>1, <2>2, <2>3, <2>4
         DEF SendInv, TransmitPacketFreed, CacheRecord, Waiting, DatagramsReachNextHop
  <1>5. CASE Ignore(f)
    BY <1>2, <1>5, SendStutter DEF Ignore, sendVars
  <1> QED
    BY <1>1, <1>3, <1>4, <1>5

LEMMA StartSends ==
    ASSUME SendInv, NEW conf \in LanConfigs, NEW paStarts \in BOOLEAN, Start(conf, paStarts)
    PROVE  SendInv'
  <1>1. CASE queues # QueuesEmpty
    <2>1. pc' = "undefined" /\ UNCHANGED <<net_arp_cache, rt_table, job, asked>>
      BY <1>1 DEF Start, software, hardware
    <2> QED
      BY <2>1 DEF SendInv, TransmitPacketFreed, CacheRecord, Waiting, DatagramsReachNextHop
  <1>2. CASE queues = QueuesEmpty
    <2>1. /\ net_arp_cache' = NoCacheEntry /\ txuse' = FALSE
          /\ rt_table' = [network |-> ~conf.bootp, default |-> FALSE]
          /\ asked' = IF conf.bootp THEN 0 ELSE 1
          /\ pc' = "alloc" /\ job' = "datagram"
      BY <1>2 DEF Start, Send
    <2>2. asked' \in Nat /\ (asked' # 0 => rt_table'.network)
      BY <2>1
    <2>3. net_arp_cache'.pending = << >> /\ CacheRecord'
      BY <2>1 DEF NoCacheEntry, CacheRecord
    <2> QED
      BY <2>1, <2>2, <2>3 DEF SendInv, TransmitPacketFreed, Waiting, CacheWaits,
                              DatagramsReachNextHop
  <1> QED
    BY <1>1, <1>2

LEMMA SendInvNext == SendInv /\ [LanNext]_lanVars => SendInv'
  <1> SUFFICES ASSUME SendInv, [LanNext]_lanVars PROVE SendInv'
    OBVIOUS
  <1> USE DEF hardware, software, session
  <1>1. CASE PaRuns \/ Transmit \/ Arrivals
    BY <1>1, SendStutter DEF PaRuns, Transmit, Arrivals, Arrive, Overrun, sendVars
  <1>2. CASE \E host \in OnLink, target \in {Board, Gateway} : Chatter(host, target)
    BY <1>2, SendStutter DEF Chatter, sendVars
  <1>3. CASE Timeout
    <2>1. /\ pc = "poll" /\ pc' = "alloc" /\ job' = "datagram"
          /\ UNCHANGED <<net_arp_cache, rt_table, txuse, tx_packet, asked, config>>
      BY <1>3 DEF Timeout, Send
    <2> QED
      BY <2>1 DEF SendInv, TransmitPacketFreed, CacheRecord, Waiting, DatagramsReachNextHop,
                  LatestWaits, CacheWaits, NextHop, Routed, OnLink
  <1>4. CASE Abandon \/ Finish
    <2>1. pc' = "off" /\ UNCHANGED <<net_arp_cache, asked>>
      BY <1>4 DEF Abandon, Finish
    <2> QED
      BY <2>1 DEF SendInv, TransmitPacketFreed, CacheRecord, Waiting, DatagramsReachNextHop
  <1>5. CASE UNCHANGED lanVars
    BY <1>5, SendStutter DEF lanVars, sendVars
  <1> QED
    BY <1>1, <1>2, <1>3, <1>4, <1>5, AllocKeeps, FillKeeps, MacSendKeeps, ReceivingKeeps,
       StartSends DEF LanNext, Sending

LEMMA SendInvInit == LanInit => SendInv
  BY DEF LanInit, SendInv, TransmitPacketFreed, CacheRecord, NoCacheEntry, Waiting,
         DatagramsReachNextHop

\* Whatever way a packet takes, it has been given back when the program polls
\* again, so every later packet finds it free.
THEOREM TransmitPacketIsFreed == LanSpec => []TransmitPacketFreed
  <1>1. SendInv => TransmitPacketFreed
    BY DEF SendInv
  <1> QED
    BY <1>1, SendInvInit, SendInvNext, PTL DEF LanSpec

\* A datagram sent at once goes to the host that takes it further.
THEOREM DatagramsGoToNextHop == LanSpec => []DatagramsReachNextHop
  <1>1. SendInv => DatagramsReachNextHop
    BY DEF SendInv
  <1> QED
    BY <1>1, SendInvInit, SendInvNext, PTL DEF LanSpec

\* A packet never waits in the cache for an address that is known, or for that
\* of another host.
THEOREM PendingWaitsForItsHop == LanSpec => []PendingAwaitsItsHop
  <1>1. SendInv => PendingAwaitsItsHop
    BY DEF SendInv, Waiting, LatestWaits, CacheWaits, PendingAwaitsItsHop
  <1> QED
    BY <1>1, SendInvInit, SendInvNext, PTL DEF LanSpec

-----------------------------------------------------------------------------
(* Types.                                                                  *)

\* Nobody answers the datagram that needs no answer.
Answerable(f) == f.kind = "ip" => f.data < LastRequest

\* The packet that is about to be sent from the cache is there.
LanTypes ==
    /\ TypeOK
    /\ pc \in {"alloc", "fill"} /\ job = "pending" => net_arp_cache.pending # << >>
    /\ \A f \in wire : Answerable(f)
    /\ \A d \in Descriptors : Answerable(rx_data[d])

LEMMA FramesBuilt ==
    /\ Blank \in Frames /\ Answerable(Blank)
    /\ \A dst, from, to \in Addresses, kind \in {"request", "reply"} :
          /\ ArpFrame(dst, kind, from, to) \in Frames
          /\ Answerable(ArpFrame(dst, kind, from, to))
    /\ \A from, to \in Addresses, data \in 0 .. LastRequest : Datagram(from, to, data) \in Frames
    /\ \A f \in Frames, mac \in Addresses : [f EXCEPT !.dst = mac] \in Frames
  <1>1. 0 \in 0 .. LastRequest /\ NoAddress \in Addresses
    BY LanAssumption DEF Addresses
  <1> QED
    BY <1>1 DEF Blank, ArpFrame, Datagram, Frames, Answerable

LEMMA HostsAreAddresses ==
    /\ OnLink \subseteq Addresses
    /\ {Board, Server, Gateway, Everyone, NoAddress} \subseteq Addresses
  BY DEF OnLink, Addresses, Hosts

LEMMA AnswersEveryone ==
    ASSUME NEW f, f.kind = "ip", f.to = Everyone
    PROVE  Answers(f) = {[dst |-> IF config.unicast THEN Board ELSE Everyone, kind |-> "ip",
                          from |-> Server,
                          to |-> IF config.unicast THEN Board ELSE Everyone, data |-> 0]}
  <1> DEFINE asks == f.kind = "request" /\ f.to \in OnLink
             requests == f.kind = "ip" /\ f.to = Everyone
             continues == f.kind = "ip" /\ f.to = Server /\ f.dst = TrueNextHop
                              /\ f.data < LastRequest
             to == IF config.unicast THEN Board ELSE Everyone
             found == {ArpFrame(Board, "reply", f.to, Board)}
             given == {[dst |-> to, kind |-> "ip", from |-> Server, to |-> to, data |-> 0]}
             block == {[dst |-> Board, kind |-> "ip", from |-> Server, to |-> Board,
                        data |-> f.data]}
  <1>1. Answers(f) = CASE asks -> found [] requests -> given [] continues -> block [] OTHER -> {}
    BY Zenon DEF Answers
  <1>2. ~asks /\ requests /\ ~continues
    BY DEF Server, Everyone
  <1>3. Answers(f) = given
    <2> HIDE DEF asks, requests, continues, found, given, block
    <2> QED
      BY <1>1, <1>2
  <1> QED
    BY <1>3, Zenon

LEMMA AnswersBuilt ==
    ASSUME NEW f \in Frames
    PROVE  Answers(f) \subseteq Frames /\ \A g \in Answers(f) : Answerable(g)
  <1>1. CASE f.kind = "request" /\ f.to \in OnLink
    BY <1>1, FramesBuilt, HostsAreAddresses DEF Answers
  <1>2. CASE f.kind = "ip" /\ f.to = Everyone
    <2>1. PICK to \in {Board, Everyone} :
             Answers(f) = {[dst |-> to, kind |-> "ip", from |-> Server, to |-> to, data |-> 0]}
      <3> DEFINE to == IF config.unicast THEN Board ELSE Everyone
      <3>1. Answers(f) = {[dst |-> to, kind |-> "ip", from |-> Server, to |-> to, data |-> 0]}
        BY <1>2, AnswersEveryone
      <3>2. to \in {Board, Everyone}
        OBVIOUS
      <3> HIDE DEF to
      <3> QED
        BY <3>1, <3>2
    <2>2. 0 \in 0 .. LastRequest /\ 0 < LastRequest
      BY LanAssumption
    <2> QED
      BY <2>1, <2>2, HostsAreAddresses DEF Frames, Answerable
  <1>3. CASE f.kind = "ip" /\ f.to = Server /\ f.dst = TrueNextHop /\ f.data < LastRequest
    <2>1. Answers(f) = {[dst |-> Board, kind |-> "ip", from |-> Server, to |-> Board,
                         data |-> f.data]}
      BY <1>3 DEF Answers, Server, Everyone
    <2>2. f.data \in 0 .. LastRequest /\ f.data < LastRequest
      BY <1>3 DEF Frames
    <2> QED
      BY <2>1, <2>2, HostsAreAddresses DEF Frames, Answerable
  <1>4. CASE ~(f.kind = "request" /\ f.to \in OnLink) /\ ~(f.kind = "ip" /\ f.to = Everyone)
             /\ ~(f.kind = "ip" /\ f.to = Server /\ f.dst = TrueNextHop /\ f.data < LastRequest)
    <2>1. Answers(f) = {}
      BY <1>4 DEF Answers
    <2> QED
      BY <2>1
  <1> QED
    BY <1>1, <1>2, <1>3, <1>4

\* What a step of the program that does not touch the hardware has to keep.
LEMMA ProgramTypes ==
    ASSUME LanTypes, queues' \in Queues, UNCHANGED <<rx_data, device, config, wire, budget, in_order>>,
           tx_packet' \in Frames, txuse' \in BOOLEAN,
           net_arp_cache' \in [ip : Addresses, mac : Addresses, pending : Seq(Frames)],
           rt_table' \in [network : BOOLEAN, default : BOOLEAN],
           ip_address' \in {Board, NoAddress},
           pc' \in {"off", "poll", "alloc", "fill", "mac", "undefined"}, job' \in Jobs,
           asked' \in 0 .. LastRequest,
           pc' \in {"alloc", "fill"} /\ job' = "pending" => net_arp_cache'.pending # << >>
    PROVE  LanTypes'
  BY DEF LanTypes, TypeOK, Queues, Answerable

\* What a step of the hardware has to keep.
LEMMA HardwareTypes ==
    ASSUME LanTypes, queues' \in Queues, UNCHANGED <<device, software, session>>,
           rx_data' \in [Descriptors -> Frames], wire' \subseteq Frames,
           \A f \in wire' : Answerable(f), \A d \in Descriptors : Answerable(rx_data'[d]),
           budget' \in [troubles : 0 .. MaxTroubles, sessions : 0 .. MaxSessions]
    PROVE  LanTypes'
  BY DEF LanTypes, TypeOK, Queues, Answerable, software, session

LEMMA TroubleCounted ==
    ASSUME LanTypes, budget.troubles < MaxTroubles
    PROVE  [budget EXCEPT !.troubles = @ + 1]
               \in [troubles : 0 .. MaxTroubles, sessions : 0 .. MaxSessions]
  BY SMTT(60), LanAssumption DEF LanTypes, TypeOK

LEMMA HardwareStep ==
    ASSUME LanTypes, queues' \in Queues,
           \/ PaRuns \/ Transmit \/ Arrivals
           \/ \E host \in OnLink, target \in {Board, Gateway} : Chatter(host, target)
    PROVE  LanTypes'
  <1> USE DEF hardware
  <1>1. /\ rx_data \in [Descriptors -> Frames] /\ wire \subseteq Frames
        /\ \A f \in wire : Answerable(f)
        /\ \A d \in Descriptors : Answerable(rx_data[d])
        /\ budget \in [troubles : 0 .. MaxTroubles, sessions : 0 .. MaxSessions]
        /\ tx_packet \in Frames /\ queues \in Queues
    BY DEF LanTypes, TypeOK, Queues
  <1>2. CASE PaRuns
    BY <1>1, <1>2, HardwareTypes DEF PaRuns
  <1>3. CASE Transmit
    <2>1. /\ wire' \subseteq Frames /\ \A f \in wire' : Answerable(f)
          /\ budget' \in [troubles : 0 .. MaxTroubles, sessions : 0 .. MaxSessions]
      BY <1>1, <1>3, AnswersBuilt, TroubleCounted DEF Transmit
    <2>2. UNCHANGED <<device, software, session, rx_data>>
      BY <1>3 DEF Transmit
    <2> QED
      BY <1>1, <2>1, <2>2, HardwareTypes
  <1>4. CASE Arrivals
    <2>1. PICK f \in wire : Arrive(f) \/ Overrun(f)
      BY <1>4 DEF Arrivals
    <2>2. CASE Arrive(f)
      <3>1. Head(queues["LNK_BUF"]) \in Descriptors
        BY <1>1, <2>2, HeadTailProperties DEF Arrive, Queues, QueueNames
      <3> DEFINE h == Head(queues["LNK_BUF"])
      <3>2. /\ rx_data' = [rx_data EXCEPT ![h] = f] /\ wire' = wire \ {f}
            /\ UNCHANGED <<device, software, session, budget>>
        BY <2>2 DEF Arrive
      <3> HIDE DEF h
      <3>3. h \in Descriptors
        BY <3>1 DEF h
      <3>4. rx_data' \in [Descriptors -> Frames]
            /\ \A d \in Descriptors : Answerable(rx_data'[d])
        BY <1>1, <2>1, <3>2, <3>3
      <3> QED
        BY <1>1, <3>2, <3>4, HardwareTypes
    <2>3. CASE Overrun(f)
      BY <1>1, <2>3, HardwareTypes DEF Overrun
    <2> QED
      BY <2>1, <2>2, <2>3
  <1>5. CASE \E host \in OnLink, target \in {Board, Gateway} : Chatter(host, target)
    <2>1. PICK host \in OnLink, target \in {Board, Gateway} : Chatter(host, target)
      BY <1>5
    <2>2. ArpFrame(Everyone, "request", host, target) \in Frames
          /\ Answerable(ArpFrame(Everyone, "request", host, target))
      BY FramesBuilt, HostsAreAddresses
    <2>3. budget' \in [troubles : 0 .. MaxTroubles, sessions : 0 .. MaxSessions]
      BY <2>1, TroubleCounted DEF Chatter
    <2>4. wire' \subseteq Frames /\ \A f \in wire' : Answerable(f)
      BY <1>1, <2>1, <2>2 DEF Chatter
    <2>5. UNCHANGED <<device, software, session, rx_data>>
      BY <2>1 DEF Chatter
    <2> QED
      BY <1>1, <2>3, <2>4, <2>5, HardwareTypes
  <1> QED
    BY <1>2, <1>3, <1>4, <1>5

Caches == [ip : Addresses, mac : Addresses, pending : Seq(Frames)]

LEMMA FillTypes ==
    ASSUME LanTypes, queues' \in Queues, Fill
    PROVE  LanTypes'
  <1>1. /\ tx_packet \in Frames /\ txuse \in BOOLEAN /\ net_arp_cache \in Caches
        /\ rt_table \in [network : BOOLEAN, default : BOOLEAN]
        /\ ip_address \in {Board, NoAddress} /\ asked \in 0 .. LastRequest
        /\ job \in Jobs
    BY DEF LanTypes, TypeOK, Caches
  <1>2. /\ pc = "fill" /\ UNCHANGED <<rx_data, device, rt_table, ip_address, config, asked, in_order,
                                      wire, budget>>
    BY DEF Fill, hardware
  <1>3. /\ ip_address \in Addresses
        /\ Asking \in Frames
        /\ \A to \in Addresses : NextHop(to) \in Addresses
    BY <1>1, FramesBuilt, HostsAreAddresses DEF Asking, NextHop
  <1>4. net_arp_cache.ip \in Addresses /\ net_arp_cache.mac \in Addresses
        /\ net_arp_cache.pending \in Seq(Frames)
    BY <1>1 DEF Caches
  <1>5. ASSUME NEW packet \in Frames, NEW mac \in Addresses, AddHeader(packet, mac),
               net_arp_cache' = net_arp_cache
        PROVE  LanTypes'
    <2>1. tx_packet' \in Frames /\ pc' = "mac" /\ txuse' = txuse /\ job' = job
      BY <1>5, FramesBuilt DEF AddHeader
    <2> QED
      BY <1>1, <1>2, <1>5, <2>1, ProgramTypes DEF Caches
  <1>6. CASE NoRoute
    <2>1. tx_packet' = tx_packet /\ txuse' = FALSE /\ pc' = "poll" /\ job' = "none"
          /\ net_arp_cache' = net_arp_cache
      BY <1>6 DEF NoRoute, Done
    <2> QED
      BY <1>1, <1>2, <2>1, ProgramTypes DEF Caches, Jobs
  <1>7. CASE SendResolved
    <2>1. \/ AddHeader(Asking, Everyone)
          \/ AddHeader(Asking, net_arp_cache.mac)
      BY <1>7 DEF SendResolved
    <2>2. net_arp_cache' = net_arp_cache
      BY <1>7 DEF SendResolved
    <2> QED
      BY <1>3, <1>4, <1>5, <2>1, <2>2, HostsAreAddresses
  <1>8. CASE AskAddress
    <2>1. Asking.to \in Addresses
      BY <1>3 DEF Frames
    <2>2. /\ net_arp_cache' = [ip |-> NextHop(Asking.to), mac |-> NoAddress, pending |-> <<Asking>>]
          /\ txuse' = FALSE /\ pc' = "alloc" /\ job' = "request" /\ tx_packet' = tx_packet
      BY <1>8 DEF AskAddress, Send
    <2>3. net_arp_cache' \in Caches
      BY <1>3, <2>1, <2>2, HostsAreAddresses DEF Caches
    <2> QED
      BY <1>1, <1>2, <2>2, <2>3, ProgramTypes DEF Caches, Jobs
  <1>9. CASE FillArp
    <2>1. net_arp_cache' = net_arp_cache
      BY <1>9 DEF FillArp
    <2>2. CASE job = "request"
               /\ AddHeader(ArpFrame(NoAddress, "request", ip_address, net_arp_cache.ip), Everyone)
      BY <1>3, <1>4, <1>5, <2>1, <2>2, FramesBuilt, HostsAreAddresses
    <2>3. CASE job = "reply"
               /\ AddHeader(ArpFrame(NoAddress, "reply", ip_address, net_arp_cache.ip),
                            net_arp_cache.mac)
      BY <1>3, <1>4, <1>5, <2>1, <2>3, FramesBuilt, HostsAreAddresses
    <2>4. CASE job = "pending" /\ AddHeader(Head(net_arp_cache.pending), net_arp_cache.mac)
      <3>1. net_arp_cache.pending # << >>
        BY <1>2, <2>4 DEF LanTypes
      <3>2. Head(net_arp_cache.pending) \in Frames
        BY <1>4, <3>1, HeadTailProperties
      <3> QED
        BY <1>4, <1>5, <2>1, <2>4, <3>2
    <2> QED
      BY <1>9, <2>2, <2>3, <2>4 DEF FillArp
  <1> QED
    BY <1>6, <1>7, <1>8, <1>9 DEF Fill

LEMMA SendingTypes ==
    ASSUME LanTypes, queues' \in Queues, Alloc \/ MacSend \/ Timeout
    PROVE  LanTypes'
  <1>1. /\ tx_packet \in Frames /\ txuse \in BOOLEAN /\ net_arp_cache \in Caches
        /\ rt_table \in [network : BOOLEAN, default : BOOLEAN]
        /\ ip_address \in {Board, NoAddress} /\ asked \in 0 .. LastRequest
        /\ job \in Jobs
        /\ pc \in {"alloc", "fill"} /\ job = "pending" => net_arp_cache.pending # << >>
    BY DEF LanTypes, TypeOK, Caches
  <1>2. CASE Alloc
    <2>1. /\ UNCHANGED <<rx_data, device, net_arp_cache, rt_table, ip_address, config, asked,
                         in_order, wire, budget>>
          /\ pc = "alloc"
          /\ \/ pc' = "poll" /\ job' = "none" /\ UNCHANGED <<txuse, tx_packet>>
             \/ pc' = "fill" /\ job' = job /\ txuse' = TRUE /\ tx_packet' = Blank
      BY <1>2 DEF Alloc, Done, hardware
    <2> QED
      BY <1>1, <2>1, FramesBuilt, ProgramTypes DEF Caches, Jobs
  <1>3. CASE MacSend
    <2>1. /\ UNCHANGED <<rx_data, device, tx_packet, rt_table, ip_address, config, asked,
                         in_order, wire, budget>>
          /\ txuse' = FALSE
          /\ net_arp_cache' = IF job = "pending" THEN [net_arp_cache EXCEPT !.pending = << >>]
                              ELSE net_arp_cache
          /\ IF job = "reply" /\ net_arp_cache.pending # << >>
             THEN pc' = "alloc" /\ job' = "pending" ELSE pc' = "poll" /\ job' = "none"
      BY <1>3 DEF MacSend, Send, Done
    <2>2. net_arp_cache' \in Caches
      BY <1>1, <2>1, EmptySeq DEF Caches
    <2> QED
      BY <1>1, <2>1, <2>2, ProgramTypes DEF Caches, Jobs
  <1>4. CASE Timeout
    <2>1. /\ UNCHANGED <<rx_data, device, software, config, asked, in_order, wire, budget>>
          /\ pc' = "alloc" /\ job' = "datagram"
      BY <1>4 DEF Timeout, Send, hardware
    <2> QED
      BY <1>1, <2>1, ProgramTypes DEF Caches, Jobs, software
  <1> QED
    BY <1>2, <1>3, <1>4

LEMMA ReceivingTypes ==
    ASSUME LanTypes, queues' \in Queues, Receiving
    PROVE  LanTypes'
  <1>1. PICK d \in Descriptors :
            ArpReceive(rx_data[d]) \/ IpReceive(rx_data[d]) \/ Ignore(rx_data[d])
    BY DEF Receiving
  <1> DEFINE f == rx_data[d]
  <1>2. /\ f \in Frames /\ Answerable(f)
        /\ tx_packet \in Frames /\ txuse \in BOOLEAN /\ net_arp_cache \in Caches
        /\ rt_table \in [network : BOOLEAN, default : BOOLEAN]
        /\ ip_address \in {Board, NoAddress} /\ asked \in 0 .. LastRequest
        /\ job \in Jobs /\ config \in LanConfigurations
    BY DEF LanTypes, TypeOK, Caches
  <1>3. pc = "poll" /\ UNCHANGED <<rx_data, device, tx_packet, txuse, config, in_order, wire, budget>>
    BY <1>1 DEF ArpReceive, IpReceive, Ignore, Received
  <1> HIDE DEF f
  <1>4. CASE ArpReceive(f)
    <2>1. /\ net_arp_cache' = [net_arp_cache EXCEPT !.ip = f.from, !.mac = f.from]
          /\ UNCHANGED <<rt_table, ip_address, asked>>
          /\ \/ pc' = "alloc" /\ job' = "reply"
             \/ pc' = "alloc" /\ job' = "pending" /\ net_arp_cache.pending # << >>
             \/ pc' = pc /\ job' = job
      BY <1>4 DEF ArpReceive, Send
    <2>2. f.from \in Addresses
      BY <1>2 DEF Frames
    <2>3. net_arp_cache' \in Caches /\ net_arp_cache'.pending = net_arp_cache.pending
      BY <1>2, <2>1, <2>2 DEF Caches
    <2> QED
      BY <1>2, <1>3, <2>1, <2>3, ProgramTypes DEF Caches, Jobs
  <1>5. CASE IpReceive(f)
    <2>1. /\ asked' = asked + 1 /\ pc' = "alloc" /\ job' = "datagram"
          /\ net_arp_cache' = net_arp_cache /\ Configure /\ Awaited(f)
      BY <1>5 DEF IpReceive, Send
    <2>2. asked' \in 0 .. LastRequest
      BY <1>2, <2>1, LanAssumption DEF Awaited, Answerable
    <2>3. /\ ip_address' \in {Board, NoAddress}
          /\ rt_table' \in [network : BOOLEAN, default : BOOLEAN]
      <3>1. (rt_table.default \/ config.router) \in BOOLEAN
        BY Zenon
      <3>2. PICK routed \in BOOLEAN :
               /\ rt_table' \in {rt_table, [network |-> TRUE, default |-> routed]}
               /\ ip_address' \in {ip_address, Board}
        <4>1. CASE asked = 0
          <5>1. /\ rt_table' = [network |-> TRUE, default |-> (rt_table.default \/ config.router)]
                /\ ip_address' = Board
            BY <2>1, <4>1, Zenon DEF Configure
          <5> QED
            BY <3>1, <5>1, Zenon
        <4>2. CASE asked # 0
          <5>1. rt_table' = rt_table /\ ip_address' = ip_address
            BY <2>1, <4>2, Zenon DEF Configure
          <5> QED
            BY <5>1, Zenon
        <4> QED
          BY <4>1, <4>2
      <3>3. [network |-> TRUE, default |-> routed] \in [network : BOOLEAN, default : BOOLEAN]
        OBVIOUS
      <3> QED
        BY <1>2, <3>2, <3>3, Zenon
    <2> QED
      BY <1>2, <1>3, <2>1, <2>2, <2>3, ProgramTypes DEF Caches, Jobs
  <1>6. CASE Ignore(f)
    <2>1. UNCHANGED <<pc, job, asked, net_arp_cache, rt_table, ip_address>>
      BY <1>6 DEF Ignore
    <2> QED
      BY <1>2, <1>3, <2>1, ProgramTypes DEF Caches, Jobs
  <1> QED
    BY <1>1, <1>4, <1>5, <1>6 DEF f

LEMMA SessionCounted ==
    ASSUME budget \in [troubles : 0 .. MaxTroubles, sessions : 0 .. MaxSessions],
           budget.sessions < MaxSessions
    PROVE  [budget EXCEPT !.sessions = @ + 1]
               \in [troubles : 0 .. MaxTroubles, sessions : 0 .. MaxSessions]
  <1>1. budget.sessions + 1 \in 0 .. MaxSessions
    BY LanAssumption
  <1> QED
    BY <1>1

LEMMA SessionTypes ==
    ASSUME LanTypes, queues' \in Queues,
           \/ Abandon \/ Finish
           \/ \E conf \in LanConfigs, paStarts \in BOOLEAN : Start(conf, paStarts)
    PROVE  LanTypes'
  <1> USE DEF LanTypes, TypeOK, Queues
  <1>1. CASE Abandon \/ Finish
    <2>1. /\ UNCHANGED <<rx_data, software, config, job, asked, in_order, wire, budget>>
          /\ pc' = "off"
      BY <1>1 DEF Abandon, Finish
    <2>2. device' \in [mac : BOOLEAN, dma : BOOLEAN, pa : BOOLEAN]
      <3>1. MacStops \in BOOLEAN
        BY Zenon DEF MacStops
      <3>2. PICK stops \in BOOLEAN :
               \/ device' = [device EXCEPT !.mac = stops]
               \/ device' = [mac |-> stops, dma |-> FALSE, pa |-> FALSE]
        <4>1. \/ device' = [device EXCEPT !.mac = MacStops]
              \/ device' = [mac |-> MacStops, dma |-> FALSE, pa |-> FALSE]
          BY <1>1, Zenon DEF Abandon, Finish
        <4> QED
          BY <3>1, <4>1, Zenon
      <3>3. device \in [mac : BOOLEAN, dma : BOOLEAN, pa : BOOLEAN]
        OBVIOUS
      <3>4. CASE device' = [device EXCEPT !.mac = stops]
        <4>1. device' = [mac |-> stops, dma |-> device.dma, pa |-> device.pa]
          BY <3>3, <3>4
        <4> QED
          BY <3>3, <4>1
      <3>5. [mac |-> stops, dma |-> FALSE, pa |-> FALSE]
                \in [mac : BOOLEAN, dma : BOOLEAN, pa : BOOLEAN]
        OBVIOUS
      <3> QED
        BY <3>2, <3>4, <3>5, Zenon
    <2>3. queues' \in [QueueNames -> Seq(Descriptors)]
      OBVIOUS
    <2>4. UNCHANGED <<rx_data, tx_packet, txuse, net_arp_cache, rt_table, ip_address, config, job,
                      asked, in_order, wire, budget>>
      BY <2>1 DEF software
    <2> QED
      BY <2>1, <2>2, <2>3, <2>4 DEF Answerable
  <1>2. ASSUME NEW conf \in LanConfigs, NEW paStarts \in BOOLEAN, Start(conf, paStarts)
        PROVE  LanTypes'
    <2>1. /\ config' \in LanConfigurations /\ wire' = wire
          /\ budget' \in [troubles : 0 .. MaxTroubles, sessions : 0 .. MaxSessions]
      <3>1. conf \in LanConfigurations
        BY LanAssumption
      <3>2. /\ budget.sessions < MaxSessions /\ config' = conf /\ wire' = wire
            /\ budget' = [budget EXCEPT !.sessions = @ + 1]
        BY <1>2 DEF Start
      <3> QED
        BY <3>1, <3>2, SessionCounted, Zenon
    <2>2. CASE queues # QueuesEmpty
      <3>1. /\ UNCHANGED <<queues, rx_data, device, tx_packet, txuse, net_arp_cache, rt_table,
                           ip_address, job, asked>>
            /\ pc' = "undefined" /\ in_order' = FALSE
        BY <1>2, <2>2 DEF Start, hardware, software
      <3> QED
        BY <2>1, <3>1 DEF Answerable
    <2>3. CASE queues = QueuesEmpty
      <3>1. /\ device' = [mac |-> TRUE, dma |-> TRUE, pa |-> paStarts]
            /\ in_order' = paStarts
            /\ net_arp_cache' = NoCacheEntry
            /\ txuse' = FALSE /\ tx_packet' = Blank
            /\ ip_address' = IF conf.bootp THEN NoAddress ELSE Board
            /\ rt_table' = [network |-> ~conf.bootp, default |-> FALSE]
            /\ asked' = IF conf.bootp THEN 0 ELSE 1
            /\ pc' = "alloc" /\ job' = "datagram" /\ rx_data' = rx_data
        BY <1>2, <2>3 DEF Start, Send
      <3>2. asked' \in 0 .. LastRequest /\ conf.bootp \in BOOLEAN
        BY <3>1, LanAssumption DEF LanConfigurations
      <3>4. rt_table' \in [network : BOOLEAN, default : BOOLEAN]
        <4>1. (~conf.bootp) \in BOOLEAN
          BY Zenon
        <4> QED
          BY <3>1, <4>1
      <3>3. net_arp_cache' \in Caches
        BY <3>1, HostsAreAddresses, EmptySeq DEF NoCacheEntry, Caches
      <3> QED
        BY <2>1, <3>1, <3>2, <3>3, <3>4, FramesBuilt DEF Answerable, Caches, Jobs
    <2> QED
      BY <2>2, <2>3
  <1> QED
    BY <1>1, <1>2

LEMMA LanTypesNext == LanTypes /\ QueuesInv' /\ [LanNext]_lanVars => LanTypes'
  <1> SUFFICES ASSUME LanTypes, QueuesInv', [LanNext]_lanVars PROVE LanTypes'
    OBVIOUS
  <1>1. queues' \in Queues
    BY DEF QueuesInv, Queues
  <1>2. CASE UNCHANGED lanVars
    BY <1>2 DEF lanVars, hardware, software, session, LanTypes, TypeOK, Answerable
  <1> QED
    BY <1>1, <1>2, HardwareStep, FillTypes, SendingTypes, ReceivingTypes, SessionTypes
       DEF LanNext, Sending

LEMMA LanTypesInit == LanInit => LanTypes
  <1> SUFFICES ASSUME LanInit PROVE LanTypes
    OBVIOUS
  <1>1. queues \in Queues
    BY QueuesInvInit DEF QueuesInv
  <1>2. net_arp_cache \in Caches
    BY HostsAreAddresses, EmptySeq DEF LanInit, NoCacheEntry, Caches
  <1>3. /\ config \in LanConfigurations
        /\ asked \in 0 .. LastRequest
        /\ budget \in [troubles : 0 .. MaxTroubles, sessions : 0 .. MaxSessions]
    BY LanAssumption DEF LanInit
  <1>4. rx_data \in [Descriptors -> Frames] /\ \A d \in Descriptors : Answerable(rx_data[d])
    BY FramesBuilt DEF LanInit
  <1>5. /\ device \in [mac : BOOLEAN, dma : BOOLEAN, pa : BOOLEAN]
        /\ rt_table \in [network : BOOLEAN, default : BOOLEAN]
        /\ tx_packet \in Frames /\ txuse \in BOOLEAN /\ in_order \in BOOLEAN
        /\ ip_address \in {Board, NoAddress} /\ pc = "off" /\ job = "none" /\ wire = {}
    BY FramesBuilt DEF LanInit
  <1> QED
    BY <1>1, <1>2, <1>3, <1>4, <1>5 DEF LanTypes, TypeOK, Queues, Caches, Jobs

\* Every variable of the board and its network keeps its range; the application never
\* asks beyond its last datagram, since only what can be answered is (Awaited).
THEOREM LanTypesKept == LanSpec => []TypeOK
  <1>1. QueuesInv /\ LanTypes /\ [LanNext]_lanVars => (QueuesInv /\ LanTypes)'
    BY QueuesInvNext, LanTypesNext
  <1>2. QueuesInv /\ LanTypes => TypeOK
    BY DEF LanTypes
  <1> QED
    BY <1>1, <1>2, QueuesInvInit, LanTypesInit, PTL DEF LanSpec
==============================================================================
