----------------------------- MODULE EthBootProofs -----------------------------
(***************************************************************************)
(* Theorems about booting over ethernet, for every value of the constants: *)
(* any file, any number of sessions and seeks, any network.  First what    *)
(* the operations of the network client do: the tables of timers and       *)
(* sockets, the bytes of the file, and each handler of tftp.c and bootp.c  *)
(* as a map from client to client.  Then, under "The shape of a reachable  *)
(* state", the invariant.                                                  *)
(***************************************************************************)
EXTENDS EthBootProperties, FiniteSetTheorems, WellFoundedInduction, TLAPS

-----------------------------------------------------------------------------
(* Least and greatest elements.                                            *)

LEMMA MinOf ==
    ASSUME NEW S, S \subseteq Nat, S # {}
    PROVE  Min(S) \in S /\ \A y \in S : Min(S) <= y
  <1> DEFINE R == {ss \in Nat \X Nat : ss[1] < ss[2]}
  <1>1. IsWellFoundedOn(R, Nat)
    BY NatLessThanWellFounded DEF OpToRel
  <1>2. PICK x \in S : \A y \in S : ~(<<y, x>> \in R)
    BY <1>1, WFMin
  <1>3. \A y \in S : x <= y
    <2> TAKE y \in S
    <2>1. x \in Nat /\ y \in Nat
      OBVIOUS
    <2>2. ~(y < x)
      BY <1>2, <2>1
    <2> QED
      BY <2>1, <2>2
  <1> QED
    BY <1>3 DEF Min

LEMMA MinIsZero == ASSUME NEW S, S \subseteq Nat, 0 \in S PROVE Min(S) = 0
  <1>1. Min(S) \in S /\ Min(S) <= 0
    BY MinOf
  <1>2. Min(S) \in Nat
    BY <1>1
  <1> QED
    BY <1>1, <1>2

LEMMA MinOfTwo ==
    ASSUME NEW a \in Int, NEW b \in Int
    PROVE  Min({a, b}) = IF a <= b THEN a ELSE b
  <1> DEFINE m == IF a <= b THEN a ELSE b
  <1>1. m \in {a, b} /\ \A y \in {a, b} : m <= y
    OBVIOUS
  <1>2. \A x \in {a, b} : (\A y \in {a, b} : x <= y) => x = m
    OBVIOUS
  <1> QED
    BY <1>1, <1>2 DEF Min

LEMMA MaxOf ==
    ASSUME NEW n \in Nat, NEW S, S \subseteq 0 .. n, S # {}
    PROVE  Max(S) \in S /\ \A y \in S : y <= Max(S)
  <1> DEFINE T == {n - x : x \in S}
  <1>1. T \subseteq Nat /\ T # {}
    OBVIOUS
  <1>2. PICK t \in T : \A y \in T : t <= y
    BY <1>1, MinOf
  <1>3. PICK x \in S : t = n - x
    OBVIOUS
  <1>4. \A y \in S : x >= y
    <2> TAKE y \in S
    <2>1. n - y \in T
      OBVIOUS
    <2>2. t <= n - y
      BY <1>2, <2>1
    <2> QED
      BY <1>3, <2>2
  <1>5. Max(S) \in S /\ \A y \in S : Max(S) >= y
    BY <1>4 DEF Max
  <1> QED
    BY <1>5

-----------------------------------------------------------------------------
(* Sockets.  The client has one open at a time, so it is always the first. *)

OneSocket(local_port, remote_port) ==
    [s \in Handles |-> IF s = 0
                       THEN [local_port |-> local_port, remote_port |-> remote_port]
                       ELSE FreeSocket]

BootpSocket == OneSocket("bootpc", "bootps")

RemotePorts == Ports \cup {"tftpd", "bootps"}

LEMMA ZeroIsAHandle == 0 \in Handles /\ Handles \subseteq Nat
  BY UdpSocketAssumption DEF Handles

LEMMA NoSocket ==
    /\ OpenHandles(UdpInit) = {}
    /\ OpenedHandle(UdpInit) = 0
    /\ \A h : SockClose(UdpInit, h) = UdpInit
    /\ \A p \in LocalPorts : Listeners(UdpInit, p) = {}
  <1>1. OpenHandles(UdpInit) = {}
    BY DEF OpenHandles, UdpInit, FreeSocket
  <1>2. OpenedHandle(UdpInit) = 0
    BY <1>1, ZeroIsAHandle, MinIsZero DEF OpenedHandle
  <1> QED
    BY <1>1, <1>2 DEF SockClose, UdpInit, Listeners, FreeSocket, LocalPorts

LEMMA FirstSocket ==
    ASSUME NEW l \in LocalPorts, NEW r
    PROVE  SockOpen(UdpInit, l, r) = OneSocket(l, r)
  <1>1. OpenHandles(UdpInit) # Handles
    BY NoSocket, ZeroIsAHandle
  <1> QED
    BY <1>1, NoSocket DEF SockOpen, OneSocket, UdpInit

LEMMA OnlySocket ==
    ASSUME NEW l \in LocalPorts, NEW r
    PROVE  /\ OpenHandles(OneSocket(l, r)) = {0}
           /\ SockClose(OneSocket(l, r), 0) = UdpInit
           /\ \A p \in LocalPorts \ {l} : Listeners(OneSocket(l, r), p) = {}
           /\ Listeners(OneSocket(l, r), l) = {0}
           /\ Min(Listeners(OneSocket(l, r), l)) = 0
           /\ OneSocket(l, r) # UdpInit
           /\ OneSocket(l, r)[0] = [local_port |-> l, remote_port |-> r]
  <1>1. l # "0"
    BY DEF LocalPorts
  <1>2. OpenHandles(OneSocket(l, r)) = {0}
    BY <1>1, ZeroIsAHandle DEF OpenHandles, OneSocket, FreeSocket
  <1>3. SockClose(OneSocket(l, r), 0) = UdpInit
    BY DEF SockClose, OneSocket, UdpInit
  <1>4. \A p \in LocalPorts \ {l} : Listeners(OneSocket(l, r), p) = {}
    BY <1>1, ZeroIsAHandle DEF Listeners, OneSocket, FreeSocket, LocalPorts
  <1>5. Listeners(OneSocket(l, r), l) = {0}
    BY <1>1, ZeroIsAHandle DEF Listeners, OneSocket, FreeSocket
  <1>6. Min(Listeners(OneSocket(l, r), l)) = 0
    BY <1>5, MinIsZero
  <1>7. OneSocket(l, r) # UdpInit
    BY <1>2, NoSocket
  <1> QED
    BY <1>2, <1>3, <1>4, <1>5, <1>6, <1>7, ZeroIsAHandle DEF OneSocket

-----------------------------------------------------------------------------
(* Timers.  One runs at a time unless a session left one running, so it is *)
(* always the first.                                                       *)

TimerBlock == [expiry : Expiries \cup {"NULL"}, org_timeout : Int, timeout : Int]

Timers == [timer : [Blocks -> TimerBlock], num_active_timers : Int, timer_created : BOOLEAN]

OneTimer(block) ==
    [timer |-> [i \in Blocks |-> IF i = 0 THEN block ELSE FreeBlock],
     num_active_timers |-> 1,
     timer_created |-> TRUE]

\* A timer block before its last tick.
Running(expiry) == [expiry : {expiry}, org_timeout : Nat \ {0}, timeout : Nat \ {0}]

LEMMA ZeroIsABlock == 0 \in Blocks /\ Blocks \subseteq Nat
  BY TimerBlocksAssumption DEF Blocks

LEMMA FreeBlockType == FreeBlock \in TimerBlock
  BY DEF FreeBlock, TimerBlock, Expiries

LEMMA TimerTypes ==
    ASSUME NEW t \in Timers
    PROVE  /\ \A timeout \in Int, e \in Expiries : TimerAdd(t, timeout, e) \in Timers
           /\ \A h : TimerDelete(t, h) \in Timers
           /\ \A i \in Blocks : CountDown(t, i) \in Timers
  <1>1. ASSUME NEW timeout \in Int, NEW e \in Expiries
        PROVE  TimerAdd(t, timeout, e) \in Timers
    <2> DEFINE h == AddedHandle(t)
    <2> DEFINE b == [expiry |-> e, org_timeout |-> timeout, timeout |-> timeout]
    <2>1. b \in TimerBlock
      BY DEF TimerBlock
    <2>2. TimerAdd(t, timeout, e) = IF CanAdd(t)
                                    THEN [timer |-> [t.timer EXCEPT ![h] = b],
                                          num_active_timers |-> t.num_active_timers + 1,
                                          timer_created |-> TRUE]
                                    ELSE t
      BY DEF TimerAdd
    <2> HIDE DEF h, b
    <2>3. [t.timer EXCEPT ![h] = b] \in [Blocks -> TimerBlock]
      BY <2>1 DEF Timers
    <2> QED
      BY <2>2, <2>3 DEF Timers
  <1>2. ASSUME NEW h PROVE TimerDelete(t, h) \in Timers
    <2>1. [i \in Blocks |-> IF i = h THEN FreeBlock ELSE t.timer[i]] \in [Blocks -> TimerBlock]
      BY FreeBlockType DEF Timers
    <2> QED
      BY <2>1 DEF TimerDelete, Timers
  <1>3. ASSUME NEW i \in Blocks PROVE CountDown(t, i) \in Timers
    <2> DEFINE n == IF Expires(t, i) THEN t.timer[i].org_timeout ELSE t.timer[i].timeout - 1
    <2>1. t.timer[i] \in TimerBlock
      BY DEF Timers
    <2>2. n \in Int
      BY <2>1 DEF TimerBlock
    <2>3. CountDown(t, i) = IF t.timer[i].expiry = "NULL" THEN t
                            ELSE [t EXCEPT !.timer[i].timeout = n]
      BY DEF CountDown
    <2> HIDE DEF n
    <2>4. [t.timer[i] EXCEPT !.timeout = n] \in TimerBlock
      BY <2>1, <2>2 DEF TimerBlock
    <2>5. [t.timer EXCEPT ![i] = [t.timer[i] EXCEPT !.timeout = n]] \in [Blocks -> TimerBlock]
      BY <2>4 DEF Timers
    <2>6. [t EXCEPT !.timer[i].timeout = n] =
             [t EXCEPT !.timer = [t.timer EXCEPT ![i] = [t.timer[i] EXCEPT !.timeout = n]]]
      OBVIOUS
    <2> QED
      BY <2>3, <2>5, <2>6 DEF Timers
  <1> QED
    BY <1>1, <1>2, <1>3

LEMMA NoTimer ==
    /\ TimerInit \in Timers
    /\ Armed(TimerInit) = {}
    /\ AddedHandle(TimerInit) = 0
    /\ \A h : TimerDelete(TimerInit, h) = TimerInit
    /\ \A i \in Blocks : CountDown(TimerInit, i) = TimerInit /\ ~Expires(TimerInit, i)
    /\ ~CanTick(TimerInit)
  <1>1. TimerInit \in Timers
    BY FreeBlockType DEF TimerInit, Timers
  <1>2. Armed(TimerInit) = {}
    BY DEF Armed, TimerInit, FreeBlock
  <1>3. CanAdd(TimerInit)
    BY <1>2, ZeroIsABlock DEF CanAdd, TimerInit
  <1>4. AddedHandle(TimerInit) = 0
    BY <1>2, <1>3, ZeroIsABlock, MinIsZero DEF AddedHandle
  <1>5. \A h : TimerDelete(TimerInit, h) = TimerInit
    BY DEF TimerDelete, TimerInit
  <1>6. \A i \in Blocks : CountDown(TimerInit, i) = TimerInit /\ ~Expires(TimerInit, i)
    BY DEF CountDown, Expires, TimerInit, FreeBlock
  <1>7. ~CanTick(TimerInit)
    BY DEF CanTick, TimerInit
  <1> QED
    BY <1>1, <1>2, <1>4, <1>5, <1>6, <1>7

LEMMA FirstTimer ==
    ASSUME NEW timeout, NEW e
    PROVE  TimerAdd(TimerInit, timeout, e) =
              OneTimer([expiry |-> e, org_timeout |-> timeout, timeout |-> timeout])
  <1>1. CanAdd(TimerInit)
    BY NoTimer, ZeroIsABlock DEF CanAdd, TimerInit
  <1> DEFINE b == [expiry |-> e, org_timeout |-> timeout, timeout |-> timeout]
  <1>2. TimerAdd(TimerInit, timeout, e) =
           [timer |-> [TimerInit.timer EXCEPT ![0] = b],
            num_active_timers |-> TimerInit.num_active_timers + 1,
            timer_created |-> TRUE]
    BY <1>1, NoTimer DEF TimerAdd
  <1> HIDE DEF b
  <1>3. [TimerInit.timer EXCEPT ![0] = b] = [i \in Blocks |-> IF i = 0 THEN b ELSE FreeBlock]
    BY DEF TimerInit
  <1>4. TimerInit.num_active_timers + 1 = 1
    BY DEF TimerInit
  <1>5. TimerAdd(TimerInit, timeout, e) = OneTimer(b)
    BY <1>2, <1>3, <1>4 DEF OneTimer
  <1> QED
    BY <1>5 DEF b

LEMMA RunningType ==
    ASSUME NEW e \in Expiries, NEW b \in Running(e)
    PROVE  OneTimer(b) \in Timers
  <1>1. b \in TimerBlock
    BY DEF Running, TimerBlock
  <1>2. [i \in Blocks |-> IF i = 0 THEN b ELSE FreeBlock] \in [Blocks -> TimerBlock]
    BY <1>1, FreeBlockType
  <1> QED
    BY <1>2 DEF OneTimer, Timers

LEMMA OnlyTimer ==
    ASSUME NEW e \in Expiries, NEW b \in Running(e)
    PROVE  /\ Armed(OneTimer(b)) = {0}
           /\ TimerDelete(OneTimer(b), 0) = TimerInit
           /\ OneTimer(b).timer[0] = b
           /\ \A i \in Blocks : Expires(OneTimer(b), i) <=> i = 0 /\ b.timeout = 1
           /\ \A i \in Blocks \ {0} : CountDown(OneTimer(b), i) = OneTimer(b)
           /\ \E d \in Running(e) :
                 /\ CountDown(OneTimer(b), 0) = OneTimer(d)
                 /\ d.timeout = IF b.timeout = 1 THEN b.org_timeout ELSE b.timeout - 1
                 /\ d.org_timeout = b.org_timeout
  <1>1. b.expiry = e /\ e # "NULL" /\ b.timeout \in Nat \ {0} /\ b.org_timeout \in Nat \ {0}
    BY DEF Running, Expiries
  <1>2. Armed(OneTimer(b)) = {0}
    BY <1>1, ZeroIsABlock DEF Armed, OneTimer, FreeBlock
  <1>3. TimerDelete(OneTimer(b), 0) = TimerInit
    <2>1. [i \in Blocks |-> IF i = 0 THEN FreeBlock ELSE OneTimer(b).timer[i]] =
             [i \in Blocks |-> FreeBlock]
      BY DEF OneTimer
    <2>2. OneTimer(b).num_active_timers = 1
      BY DEF OneTimer
    <2>3. TimerDelete(OneTimer(b), 0) =
             [timer |-> [i \in Blocks |-> FreeBlock],
              num_active_timers |-> 1 - 1,
              timer_created |-> OneTimer(b).timer_created /\ 1 # 1]
      BY <2>1, <2>2, TimerBlocksAssumption DEF TimerDelete
    <2>4. (OneTimer(b).timer_created /\ 1 # 1) = FALSE /\ 1 - 1 = 0
      OBVIOUS
    <2> QED
      BY <2>3, <2>4 DEF TimerInit
  <1>4. OneTimer(b).timer[0] = b
    BY ZeroIsABlock DEF OneTimer
  <1>5. \A i \in Blocks : Expires(OneTimer(b), i) <=> i = 0 /\ b.timeout = 1
    BY <1>1 DEF Expires, OneTimer, FreeBlock
  <1>6. \A i \in Blocks \ {0} : CountDown(OneTimer(b), i) = OneTimer(b)
    BY DEF CountDown, OneTimer, FreeBlock
  <1> DEFINE n == IF b.timeout = 1 THEN b.org_timeout ELSE b.timeout - 1
  <1> DEFINE d == [b EXCEPT !.timeout = n]
  <1>7. n \in Nat \ {0}
    BY <1>1
  <1>8. CountDown(OneTimer(b), 0) = [OneTimer(b) EXCEPT !.timer[0].timeout = n]
    BY <1>1, <1>4, <1>5, ZeroIsABlock DEF CountDown
  <1> HIDE DEF n
  <1>9. d \in Running(e) /\ d.timeout = n /\ d.org_timeout = b.org_timeout
    BY <1>7 DEF Running
  <1>10. [OneTimer(b) EXCEPT !.timer[0].timeout = n] = OneTimer(d)
    <2> HIDE DEF d
    <2> DEFINE f == [i \in Blocks |-> IF i = 0 THEN d ELSE FreeBlock]
    <2> DEFINE t == OneTimer(b)
    <2>1. [t.timer[0] EXCEPT !.timeout = n] = d
      BY <1>4 DEF d
    <2>2. [t.timer EXCEPT ![0] = d] = f
      BY DEF OneTimer
    <2>3. [t EXCEPT !.timer = f] = OneTimer(d)
      <3>1. f \in [Blocks -> TimerBlock]
        BY <1>9, FreeBlockType DEF Running, TimerBlock
      <3>2. t \in Timers /\ OneTimer(d) \in Timers
        BY <1>9, RunningType
      <3>3. OneTimer(d).timer = f /\ OneTimer(d).num_active_timers = t.num_active_timers
            /\ OneTimer(d).timer_created = t.timer_created
        BY DEF OneTimer
      <3> HIDE DEF f, t
      <3> QED
        BY <3>1, <3>2, <3>3 DEF Timers
    <2> HIDE DEF t, f
    <2>4. [t EXCEPT !.timer[0].timeout = n] =
             [t EXCEPT !.timer = [t.timer EXCEPT ![0] = [t.timer[0] EXCEPT !.timeout = n]]]
      OBVIOUS
    <2>5. [t EXCEPT !.timer[0].timeout = n] = OneTimer(d)
      BY <2>1, <2>2, <2>3, <2>4
    <2> QED
      BY <2>5 DEF t
  <1> QED
    BY <1>2, <1>3, <1>4, <1>5, <1>6, <1>8, <1>9, <1>10 DEF n
-----------------------------------------------------------------------------
(* The bytes of the file and its blocks.                                   *)

D == TFTP_DATA_SIZE

LEMMA Sizes ==
    /\ D \in Nat \ {0} /\ D <= MAX_SIZE_STREAM_BUFFER
    /\ MAX_SIZE_STREAM_BUFFER \in Nat \ {0} /\ FileLen \in Nat
  BY StreamSizeAssumption, TftpAssumption, NetAssumption DEF D

\* The blocks before the last are full, the last one is short.
LEMMA Blocks1 ==
    /\ LastBlock \in Nat \ {0}
    /\ (LastBlock - 1) * D <= FileLen
    /\ FileLen < LastBlock * D
  BY Sizes DEF LastBlock, D

LEMMA Multiples ==
    ASSUME NEW a \in Nat, NEW b \in Nat, a <= b
    PROVE  a * D \in Nat /\ b * D \in Nat /\ a * D <= b * D
  BY Sizes

LEMMA NextMultiple ==
    ASSUME NEW a \in Nat \ {0}
    PROVE  (a - 1) * D + D = a * D /\ (a - 1) * D \in Nat /\ a * D \in Nat
  BY Sizes

BlockLen(num) == IF num < LastBlock THEN D ELSE FileLen - (LastBlock - 1) * D

LEMMA BlockLengths ==
    ASSUME NEW num \in 1 .. LastBlock
    PROVE  /\ BlockLen(num) \in 0 .. D
           /\ BlockLen(num) < D <=> num = LastBlock
           /\ (num - 1) * D \in Nat
           /\ (num - 1) * D + BlockLen(num) <= FileLen
           /\ num = LastBlock => (num - 1) * D + BlockLen(num) = FileLen
           /\ num < LastBlock => (num - 1) * D + BlockLen(num) = num * D
           /\ BlockLen(num) = Min({D, FileLen - (num - 1) * D})
  <1>1. /\ num \in Nat \ {0} /\ LastBlock \in Nat \ {0}
        /\ (LastBlock - 1) * D \in Nat /\ (LastBlock - 1) * D + D = LastBlock * D
        /\ (num - 1) * D \in Nat /\ (num - 1) * D + D = num * D
    BY Blocks1, NextMultiple
  <1>2. CASE num = LastBlock
    <2>1. BlockLen(num) = FileLen - (num - 1) * D
      BY <1>1, <1>2 DEF BlockLen
    <2>2. BlockLen(num) \in 0 .. D /\ BlockLen(num) < D
      BY <1>1, <1>2, <2>1, Blocks1, Sizes
    <2>3. Min({D, FileLen - (num - 1) * D}) = FileLen - (num - 1) * D
      BY <2>1, <2>2, <1>1, Sizes, MinOfTwo
    <2> QED
      BY <1>1, <1>2, <2>1, <2>2, <2>3, Sizes
  <1>3. CASE num # LastBlock
    <2>1. num < LastBlock /\ num <= LastBlock - 1 /\ LastBlock - 1 \in Nat
      BY <1>1, <1>3
    <2>2. BlockLen(num) = D
      BY <2>1 DEF BlockLen
    <2>3. num * D <= (LastBlock - 1) * D
      BY <1>1, <2>1, Multiples
    <2>4. (num - 1) * D + D <= FileLen
      BY <1>1, <2>3, Blocks1, Sizes
    <2>5. Min({D, FileLen - (num - 1) * D}) = D
      BY <1>1, <2>4, Sizes, MinOfTwo
    <2> QED
      BY <1>1, <2>1, <2>2, <2>4, <2>5, Sizes
  <1> QED
    BY <1>2, <1>3

LEMMA BlockIsFileBytes ==
    ASSUME NEW num \in 1 .. LastBlock
    PROVE  BlockData(num) = FileBytes((num - 1) * D, BlockLen(num))
  BY BlockLengths DEF BlockData, FileBytes, D

LEMMA FileBytesLen ==
    ASSUME NEW start \in Nat, NEW n \in Nat
    PROVE  /\ FileBytes(start, n) \in Seq(Nat)
           /\ Len(FileBytes(start, n)) = n
           /\ \A i \in 1 .. n : FileBytes(start, n)[i] = start + i
           /\ FileBytes(start, n) = << >> <=> n = 0
           /\ start + n <= FileLen => FileBytes(start, n) \in Seq(Byte)
  <1>1. FileBytes(start, n) \in [1 .. n -> Nat]
    BY DEF FileBytes
  <1>2. FileBytes(start, n) \in Seq(Nat) /\ Len(FileBytes(start, n)) = n
    BY <1>1
  <1>3. \A i \in 1 .. n : FileBytes(start, n)[i] = start + i
    BY DEF FileBytes
  <1>4. FileBytes(start, n) = << >> <=> n = 0
    BY <1>2
  <1>5. ASSUME start + n <= FileLen PROVE FileBytes(start, n) \in Seq(Byte)
    <2>1. \A i \in 1 .. n : start + i \in Byte
      BY <1>5, NetAssumption
    <2>2. FileBytes(start, n) \in [1 .. n -> Byte]
      BY <2>1 DEF FileBytes
    <2> QED
      BY <2>2
  <1> QED
    BY <1>2, <1>3, <1>4, <1>5

LEMMA FileBytesPeek ==
    ASSUME NEW start \in Nat, NEW n \in Nat, NEW k \in 0 .. n
    PROVE  /\ SubSeq(FileBytes(start, n), 1, k) = FileBytes(start, k)
           /\ SubSeq(FileBytes(start, n), k + 1, n) = FileBytes(start + k, n - k)
  BY DEF FileBytes

LEMMA FileBytesJoin ==
    ASSUME NEW start \in Nat, NEW n \in Nat, NEW k \in Nat
    PROVE  FileBytes(start, n) \o FileBytes(start + n, k) = FileBytes(start, n + k)
  BY FileBytesLen DEF FileBytes
-----------------------------------------------------------------------------
(* The client.                                                             *)

Sockets == [Handles -> [local_port : LocalPorts \cup {"0"},
                        remote_port : RemotePorts \cup {"0"}]]

\* A handle is one the table has, or -1.
TimerHandles == Blocks \cup {-1}

TftpBlock == [state : {"0", "READ_REQUEST", "DATA_RECEIVE"},
              sock : {0},
              timer : TimerHandles,
              block_num : Nat,
              num_retransmits : Nat]

BootpBlock == [sock : {0}, bootp_timer : TimerHandles, num_request : Nat]

Message == [type : {"RRQ", "ACK", "BOOTREQ"}, port : RemotePorts \cup {"0"}, block : Nat]

Client == [stream : StreamType, timers : Timers, socks : Sockets,
           tftp : TftpBlock, bootp : BootpBlock,
           error_flag : BOOLEAN, fileOffset : Nat,
           have_server : BOOLEAN, use_server : BOOLEAN, have_params : BOOLEAN,
           sent : SUBSET Message]

\* What no handler changes.
Frame(d, e) ==
    /\ e.fileOffset = d.fileOffset
    /\ e.use_server = d.use_server

LEMMA SocketTypes ==
    /\ UdpInit \in Sockets
    /\ \A s \in Sockets : \A h : SockClose(s, h) \in Sockets
    /\ \A l \in LocalPorts, r \in RemotePorts : OneSocket(l, r) \in Sockets
  BY DEF Sockets, UdpInit, FreeSocket, SockClose, OneSocket

LEMMA AddedHandleType == ASSUME NEW t PROVE AddedHandle(t) \in TimerHandles
  <1>1. CASE CanAdd(t)
    <2>1. Blocks \ Armed(t) # {} /\ Blocks \ Armed(t) \subseteq Nat
      BY <1>1, ZeroIsABlock DEF CanAdd, Armed
    <2>2. Min(Blocks \ Armed(t)) \in Blocks
      BY <2>1, MinOf
    <2> QED
      BY <1>1, <2>2 DEF AddedHandle, TimerHandles
  <1> QED
    BY <1>1 DEF AddedHandle, TimerHandles

LEMMA HandleTypes == 0 \in TimerHandles /\ -1 \in TimerHandles /\ TimerHandles \subseteq Int
  BY ZeroIsABlock DEF TimerHandles

LEMMA ModType == ASSUME NEW n \in Int PROVE Mod(n) \in Nat /\ Mod(n) \in 0 .. BLOCK_NUMBERS - 1
  BY TftpAssumption DEF Mod

\* udp_sock_send: at most one message is added to what is sent.
LEMMA SockSendEffect ==
    ASSUME NEW d \in Client, NEW type \in {"RRQ", "ACK", "BOOTREQ"}, NEW block \in Nat,
           NEW e, e = SockSend(d, 0, type, block)
    PROVE  /\ e = [d EXCEPT !.sent = e.sent]
           /\ e.sent \in SUBSET Message
           /\ \A n \in e.sent : n \in d.sent \/ (n.type = type /\ n.block = block)
  <1> DEFINE m == [type |-> type, port |-> d.socks[0].remote_port, block |-> block]
  <1>1. m \in Message /\ m.type = type /\ m.block = block
    BY ZeroIsAHandle DEF Client, Sockets, Message
  <1>2. /\ d.sent \in SUBSET Message
        /\ [d EXCEPT !.sent = d.sent] = d
        /\ [d EXCEPT !.sent = d.sent \cup {m}].sent = d.sent \cup {m}
    BY DEF Client
  <1>3. CASE SockIsOpen(d.socks, 0)
    <2>1. e = [d EXCEPT !.sent = d.sent \cup {m}]
      BY <1>3 DEF SockSend
    <2> HIDE DEF m
    <2>2. e.sent = d.sent \cup {m}
      BY <1>2, <2>1
    <2> QED
      BY <1>1, <1>2, <2>1, <2>2
  <1>4. CASE ~SockIsOpen(d.socks, 0)
    <2>1. e = d
      BY <1>4 DEF SockSend
    <2> QED
      BY <1>2, <2>1
  <1> QED
    BY <1>3, <1>4

\* tftp_cleanup followed by net_set_error, or by nothing.
LEMMA TftpCleanupEffect ==
    ASSUME NEW d \in Client
    PROVE  /\ TftpCleanup(d) \in Client
           /\ Frame(d, TftpCleanup(d))
           /\ TftpCleanup(d).have_params = d.have_params
           /\ TftpCleanup(d).stream = CloseStream(d.stream)
           /\ TftpCleanup(d).timers = TimerDelete(d.timers, d.tftp.timer)
           /\ TftpCleanup(d).socks = SockClose(d.socks, 0)
           /\ TftpCleanup(d).tftp.timer = -1
           /\ TftpCleanup(d).tftp.num_retransmits = d.tftp.num_retransmits
           /\ TftpCleanup(d).tftp.block_num = d.tftp.block_num
           /\ TftpCleanup(d).tftp.state = d.tftp.state
           /\ TftpCleanup(d).bootp = d.bootp
           /\ TftpCleanup(d).error_flag = d.error_flag
           /\ TftpCleanup(d).sent = d.sent
  <1> DEFINE t == TimerDelete(d.timers, d.tftp.timer)
             so == SockClose(d.socks, 0)
             st == CloseStream(d.stream)
             mcb == [d.tftp EXCEPT !.timer = -1]
  <1>1. t \in Timers /\ so \in Sockets /\ st \in StreamType
    BY TimerTypes, SocketTypes DEF Client, CloseStream, StreamType
  <1>2. d.tftp \in TftpBlock /\ d.tftp.sock = 0
    BY DEF Client, TftpBlock
  <1>3. /\ mcb \in TftpBlock /\ mcb.timer = -1 /\ mcb.num_retransmits = d.tftp.num_retransmits
        /\ mcb.block_num = d.tftp.block_num /\ mcb.state = d.tftp.state
    BY <1>2, HandleTypes DEF TftpBlock
  <1>4. TftpCleanup(d) = [d EXCEPT !.timers = t, !.tftp = mcb, !.socks = so, !.stream = st]
    BY <1>2 DEF TftpCleanup, Client
  <1> HIDE DEF t, so, st, mcb
  <1>5. [d EXCEPT !.timers = t, !.tftp = mcb, !.socks = so, !.stream = st] \in Client
    BY <1>1, <1>3 DEF Client
  <1> QED
    BY <1>1, <1>3, <1>4, <1>5 DEF Frame, Client, t, so, st

LEMMA TftpFailEffect ==
    ASSUME NEW d \in Client
    PROVE  /\ TftpFail(d) \in Client
           /\ Frame(d, TftpFail(d))
           /\ TftpFail(d).have_params = d.have_params
           /\ TftpFail(d).stream = CloseStream(d.stream)
           /\ TftpFail(d).timers = TimerDelete(d.timers, d.tftp.timer)
           /\ TftpFail(d).socks = SockClose(d.socks, 0)
           /\ TftpFail(d).tftp.timer = -1
           /\ TftpFail(d).tftp.num_retransmits = d.tftp.num_retransmits
           /\ TftpFail(d).tftp.block_num = d.tftp.block_num
           /\ TftpFail(d).tftp.state = d.tftp.state
           /\ TftpFail(d).bootp = d.bootp
           /\ TftpFail(d).error_flag
           /\ TftpFail(d).sent = d.sent
  <1> DEFINE e == TftpCleanup(d)
  <1>1. TftpFail(d) = [e EXCEPT !.error_flag = TRUE]
    BY DEF TftpFail, NetSetError
  <1>2. /\ e \in Client
        /\ Frame(d, e)
        /\ e.have_params = d.have_params
        /\ e.stream = CloseStream(d.stream)
        /\ e.timers = TimerDelete(d.timers, d.tftp.timer)
        /\ e.socks = SockClose(d.socks, 0)
        /\ e.tftp.timer = -1
        /\ e.tftp.num_retransmits = d.tftp.num_retransmits
        /\ e.tftp.block_num = d.tftp.block_num
        /\ e.tftp.state = d.tftp.state
        /\ e.bootp = d.bootp
        /\ e.sent = d.sent
    BY TftpCleanupEffect
  <1> HIDE DEF e
  <1> QED
    BY <1>1, <1>2 DEF Client, Frame

\* tftp_send_ack: the block acknowledged is the one expected, and the next one
\* is expected after it.
LEMMA TftpSendAckEffect ==
    ASSUME NEW d \in Client
    PROVE  /\ TftpSendAck(d) \in Client
           /\ Frame(d, TftpSendAck(d))
           /\ TftpSendAck(d).have_params = d.have_params
           /\ TftpSendAck(d).stream = d.stream
           /\ TftpSendAck(d).timers = d.timers
           /\ TftpSendAck(d).socks = d.socks
           /\ TftpSendAck(d).bootp = d.bootp
           /\ TftpSendAck(d).error_flag = d.error_flag
           /\ TftpSendAck(d).tftp.state = d.tftp.state
           /\ TftpSendAck(d).tftp.timer = d.tftp.timer
           /\ TftpSendAck(d).tftp.num_retransmits = d.tftp.num_retransmits
           /\ TftpSendAck(d).tftp.block_num = Mod(d.tftp.block_num + 1)
           /\ \A n \in TftpSendAck(d).sent :
                 n \in d.sent \/ (n.type = "ACK" /\ n.block = d.tftp.block_num)
  <1> DEFINE e == SockSend(d, 0, "ACK", d.tftp.block_num)
             b == Mod(d.tftp.block_num + 1)
             mcb == [d.tftp EXCEPT !.block_num = b]
  <1>1. d.tftp \in TftpBlock /\ d.tftp.sock = 0 /\ d.tftp.block_num \in Nat
    BY TftpAssumption DEF Client, TftpBlock
  <1>2. b \in Nat
    BY <1>1, ModType
  <1>3. /\ e = [d EXCEPT !.sent = e.sent]
        /\ e.sent \in SUBSET Message
        /\ \A n \in e.sent : n \in d.sent \/ (n.type = "ACK" /\ n.block = d.tftp.block_num)
    BY <1>1, SockSendEffect
  <1>4. TftpSendAck(d) = [e EXCEPT !.tftp.block_num = Mod(@ + 1)]
    BY <1>1 DEF TftpSendAck
  <1>5. e \in Client /\ e.tftp = d.tftp
    <2> HIDE DEF e
    <2>1. [d EXCEPT !.sent = e.sent] \in Client /\ [d EXCEPT !.sent = e.sent].tftp = d.tftp
      BY <1>3 DEF Client
    <2> QED
      BY <1>3, <2>1
  <1>6. mcb \in TftpBlock /\ mcb.block_num = b /\ mcb.state = d.tftp.state
        /\ mcb.timer = d.tftp.timer /\ mcb.num_retransmits = d.tftp.num_retransmits
    <2> HIDE DEF b
    <2> QED
      BY <1>1, <1>2 DEF TftpBlock
  <1>7. TftpSendAck(d) = [e EXCEPT !.tftp = mcb]
    <2> HIDE DEF e
    <2>1. TftpSendAck(d) = [e EXCEPT !.tftp = [e.tftp EXCEPT !.block_num = Mod(e.tftp.block_num + 1)]]
      BY <1>4
    <2> QED
      BY <1>5, <2>1
  <1> HIDE DEF e, b, mcb
  <1>8. [e EXCEPT !.tftp = mcb] \in Client
    BY <1>5, <1>6 DEF Client
  <1>9. /\ e.stream = d.stream /\ e.timers = d.timers /\ e.socks = d.socks /\ e.bootp = d.bootp
        /\ e.error_flag = d.error_flag /\ e.have_params = d.have_params
        /\ e.fileOffset = d.fileOffset /\ e.use_server = d.use_server
    BY <1>3 DEF Client
  <1>10. /\ [e EXCEPT !.tftp = mcb].stream = d.stream
         /\ [e EXCEPT !.tftp = mcb].timers = d.timers
         /\ [e EXCEPT !.tftp = mcb].socks = d.socks
         /\ [e EXCEPT !.tftp = mcb].bootp = d.bootp
         /\ [e EXCEPT !.tftp = mcb].error_flag = d.error_flag
         /\ [e EXCEPT !.tftp = mcb].have_params = d.have_params
         /\ [e EXCEPT !.tftp = mcb].fileOffset = d.fileOffset
         /\ [e EXCEPT !.tftp = mcb].use_server = d.use_server
         /\ [e EXCEPT !.tftp = mcb].tftp = mcb
         /\ [e EXCEPT !.tftp = mcb].sent = e.sent
    BY <1>5, <1>9 DEF Client
  <1> QED
    BY <1>3, <1>6, <1>7, <1>8, <1>10 DEF Frame, b

\* What a TFTP timer that runs out does: it gives up, or it sends the read
\* request again.
GaveUp(d, e) ==
    /\ e.error_flag
    /\ e.stream = CloseStream(d.stream)
    /\ e.timers = TimerDelete(d.timers, d.tftp.timer)
    /\ e.socks = SockClose(d.socks, 0)
    /\ e.sent = d.sent

RequestedAgain(d, e) ==
    /\ e.error_flag = d.error_flag
    /\ e.stream = d.stream
    /\ e.timers = d.timers
    /\ e.socks = d.socks
    /\ e.tftp.timer = d.tftp.timer
    /\ e.tftp.num_retransmits <= MAX_TFTP_RETRANSMITS
    /\ \A n \in e.sent : n \in d.sent \/ n.type = "RRQ"

LEMMA TftpTimerExpiryEffect ==
    ASSUME NEW d \in Client
    PROVE  /\ TftpTimerExpiry(d) \in Client
           /\ Frame(d, TftpTimerExpiry(d))
           /\ TftpTimerExpiry(d).have_params = d.have_params
           /\ TftpTimerExpiry(d).bootp = d.bootp
           /\ TftpTimerExpiry(d).tftp.state = d.tftp.state
           /\ TftpTimerExpiry(d).tftp.block_num = d.tftp.block_num
           /\ TftpTimerExpiry(d).tftp.num_retransmits \in
                 {d.tftp.num_retransmits, d.tftp.num_retransmits + 1}
           /\ GaveUp(d, TftpTimerExpiry(d)) \/ RequestedAgain(d, TftpTimerExpiry(d))
  <1> DEFINE mcb == [d.tftp EXCEPT !.num_retransmits = @ + 1]
             f == [d EXCEPT !.tftp = mcb]
  <1>1. d.tftp \in TftpBlock /\ d.tftp.sock = 0 /\ d.tftp.num_retransmits \in Nat
    BY DEF Client, TftpBlock
  <1>2. /\ mcb \in TftpBlock /\ mcb.num_retransmits = d.tftp.num_retransmits + 1
        /\ mcb.state = d.tftp.state /\ mcb.timer = d.tftp.timer /\ mcb.sock = 0
        /\ mcb.block_num = d.tftp.block_num
    BY <1>1 DEF TftpBlock
  <1>3. [d EXCEPT !.tftp.num_retransmits = @ + 1] = f
    OBVIOUS
  <1> HIDE DEF mcb
  <1>4. /\ f \in Client /\ f.tftp = mcb /\ Frame(d, f) /\ f.bootp = d.bootp
        /\ f.error_flag = d.error_flag /\ f.have_params = d.have_params
        /\ f.stream = d.stream /\ f.timers = d.timers /\ f.socks = d.socks /\ f.sent = d.sent
    BY <1>2 DEF Client, Frame
  <1> HIDE DEF f
  <1>5. CASE d.tftp.state # "READ_REQUEST"
    <2>1. TftpTimerExpiry(d) = TftpFail(d)
      BY <1>5 DEF TftpTimerExpiry
    <2> QED
      BY <2>1, TftpFailEffect DEF GaveUp
  <1>6. CASE d.tftp.state = "READ_REQUEST" /\ mcb.num_retransmits > MAX_TFTP_RETRANSMITS
    <2>1. TftpTimerExpiry(d) = TftpFail(f)
      BY <1>3, <1>4, <1>6 DEF TftpTimerExpiry
    <2>2. GaveUp(d, TftpFail(f))
      BY <1>2, <1>4, TftpFailEffect DEF GaveUp
    <2> QED
      BY <1>2, <1>4, <2>1, <2>2, TftpFailEffect DEF Frame
  <1>7. CASE d.tftp.state = "READ_REQUEST" /\ ~(mcb.num_retransmits > MAX_TFTP_RETRANSMITS)
    <2> DEFINE e == SockSend(f, 0, "RRQ", 0)
    <2>1. TftpTimerExpiry(d) = e
      BY <1>2, <1>3, <1>4, <1>7 DEF TftpTimerExpiry, SendReadRequest
    <2>2. /\ e = [f EXCEPT !.sent = e.sent]
          /\ e.sent \in SUBSET Message
          /\ \A n \in e.sent : n \in d.sent \/ n.type = "RRQ"
      BY <1>4, SockSendEffect
    <2> HIDE DEF e
    <2>3. /\ e \in Client /\ e.tftp = mcb /\ Frame(d, e) /\ e.bootp = d.bootp
          /\ e.error_flag = d.error_flag /\ e.have_params = d.have_params
          /\ e.stream = d.stream /\ e.timers = d.timers /\ e.socks = d.socks
      BY <1>4, <2>2 DEF Client, Frame
    <2>4. RequestedAgain(d, e)
      BY <1>1, <1>2, <1>7, <2>2, <2>3, TftpAssumption DEF RequestedAgain
    <2> QED
      BY <1>2, <2>1, <2>3, <2>4
  <1> QED
    BY <1>5, <1>6, <1>7

\* bootp_send leaves everything but the count of requests as it was.
LEMMA BootpSendEffect ==
    ASSUME NEW d \in Client, NEW e, e = BootpSend(d)
    PROVE  /\ e \in Client
           /\ Frame(d, e)
           /\ e.stream = d.stream /\ e.timers = d.timers /\ e.socks = d.socks
           /\ e.tftp = d.tftp /\ e.error_flag = d.error_flag
           /\ e.have_params = d.have_params
           /\ e.bootp.bootp_timer = d.bootp.bootp_timer
           /\ e.bootp.num_request = d.bootp.num_request + 1
           /\ \A n \in e.sent : n \in d.sent \/ n.type = "BOOTREQ"
  <1> DEFINE s == SockSend(d, 0, "BOOTREQ", 0)
             mcb == [d.bootp EXCEPT !.num_request = @ + 1]
  <1>1. d.bootp \in BootpBlock /\ d.bootp.sock = 0
    BY DEF Client, BootpBlock
  <1>2. /\ mcb \in BootpBlock /\ mcb.bootp_timer = d.bootp.bootp_timer
        /\ mcb.num_request = d.bootp.num_request + 1
    BY <1>1 DEF BootpBlock
  <1>3. /\ s = [d EXCEPT !.sent = s.sent]
        /\ s.sent \in SUBSET Message
        /\ \A n \in s.sent : n \in d.sent \/ n.type = "BOOTREQ"
    BY SockSendEffect
  <1>4. e = [s EXCEPT !.bootp.num_request = @ + 1]
    BY <1>1 DEF BootpSend
  <1> HIDE DEF s
  <1>5. /\ s \in Client /\ s.bootp = d.bootp /\ s.tftp = d.tftp /\ s.stream = d.stream
        /\ s.timers = d.timers /\ s.socks = d.socks /\ s.error_flag = d.error_flag
        /\ s.have_params = d.have_params /\ Frame(d, s)
    BY <1>3 DEF Client, Frame
  <1>6. e = [s EXCEPT !.bootp = mcb]
    <2>1. e = [s EXCEPT !.bootp = [s.bootp EXCEPT !.num_request = @ + 1]]
      BY <1>4
    <2> QED
      BY <1>5, <2>1
  <1> HIDE DEF mcb
  <1> QED
    BY <1>2, <1>3, <1>5, <1>6 DEF Client, Frame

\* What the BOOTP timer does when it runs out: it gives up, or fails to start
\* again, or starts again with a longer timeout.
BootpGaveUp(d, e) ==
    /\ e.error_flag
    /\ e.stream \in {d.stream, CloseStream(d.stream)}
    /\ e.socks = SockClose(d.socks, 0)
    /\ \/ e.timers = TimerDelete(d.timers, d.bootp.bootp_timer)
       \/ ~CanAdd(TimerDelete(d.timers, d.bootp.bootp_timer))

BackedOff(d, e) ==
    /\ e.error_flag = d.error_flag
    /\ e.stream = d.stream
    /\ e.socks = d.socks
    /\ e.bootp.num_request <= BOOTP_MAX_RETRIES
    /\ e.bootp.bootp_timer = AddedHandle(TimerDelete(d.timers, d.bootp.bootp_timer))
    /\ e.timers = TimerAdd(TimerDelete(d.timers, d.bootp.bootp_timer),
                           BOOTP_SEED_TIMEOUT * e.bootp.num_request, "bootp_tmr_expiry")

LEMMA AddedHandleSign == ASSUME NEW t PROVE AddedHandle(t) < 0 <=> ~CanAdd(t)
  <1>1. CASE CanAdd(t)
    <2>1. Blocks \ Armed(t) # {} /\ Blocks \ Armed(t) \subseteq Nat
      BY <1>1, ZeroIsABlock DEF CanAdd, Armed
    <2>2. Min(Blocks \ Armed(t)) \in Nat
      BY <2>1, MinOf
    <2> QED
      BY <1>1, <2>2 DEF AddedHandle
  <1> QED
    BY <1>1 DEF AddedHandle

LEMMA BootpFailEffect ==
    ASSUME NEW d \in Client, NEW e, e = CloseBootpSock(NetSetError(d))
    PROVE  /\ e \in Client
           /\ Frame(d, e)
           /\ e.stream = d.stream /\ e.timers = d.timers /\ e.tftp = d.tftp
           /\ e.bootp = d.bootp /\ e.have_params = d.have_params /\ e.sent = d.sent
           /\ e.socks = SockClose(d.socks, 0)
           /\ e.error_flag
  <1> DEFINE so == SockClose(d.socks, 0)
  <1>1. so \in Sockets
    BY SocketTypes DEF Client
  <1>2. d.bootp \in BootpBlock /\ d.bootp.sock = 0
    BY DEF Client, BootpBlock
  <1>3. e = [d EXCEPT !.error_flag = TRUE, !.socks = so]
    BY <1>2 DEF CloseBootpSock, NetSetError, Client
  <1> HIDE DEF so
  <1> QED
    BY <1>1, <1>3 DEF Client, Frame, so

LEMMA BootpTmrExpiryEffect ==
    ASSUME NEW d \in Client
    PROVE  /\ BootpTmrExpiry(d) \in Client
           /\ Frame(d, BootpTmrExpiry(d))
           /\ BootpTmrExpiry(d).have_params = d.have_params
           /\ BootpTmrExpiry(d).tftp = d.tftp
           /\ BootpTmrExpiry(d).bootp.num_request = d.bootp.num_request + 1
           /\ BootpGaveUp(d, BootpTmrExpiry(d)) \/ BackedOff(d, BootpTmrExpiry(d))
           /\ \A n \in BootpTmrExpiry(d).sent : n \in d.sent \/ n.type = "BOOTREQ"
  <1> DEFINE s == BootpSend(d)
             t == TimerDelete(d.timers, d.bootp.bootp_timer)
             a == TimerAdd(t, BOOTP_SEED_TIMEOUT * s.bootp.num_request, "bootp_tmr_expiry")
             h == AddedHandle(t)
             mcb == [s.bootp EXCEPT !.bootp_timer = h]
             f == [s EXCEPT !.timers = TimerDelete(@, s.bootp.bootp_timer)]
             g == [f EXCEPT !.timers = TimerAdd(@, BOOTP_SEED_TIMEOUT * f.bootp.num_request,
                                                "bootp_tmr_expiry"),
                            !.bootp.bootp_timer = AddedHandle(f.timers)]
             k == [g EXCEPT !.stream = CloseStream(@)]
  <1>1. /\ s \in Client /\ Frame(d, s)
        /\ s.stream = d.stream /\ s.timers = d.timers /\ s.socks = d.socks
        /\ s.tftp = d.tftp /\ s.error_flag = d.error_flag /\ s.have_params = d.have_params
        /\ s.bootp.bootp_timer = d.bootp.bootp_timer
        /\ s.bootp.num_request = d.bootp.num_request + 1
        /\ \A n \in s.sent : n \in d.sent \/ n.type = "BOOTREQ"
    BY BootpSendEffect
  <1>2. BootpTmrExpiry(d) =
           IF f.bootp.num_request > BOOTP_MAX_RETRIES THEN CloseBootpSock(NetSetError(f))
           ELSE IF g.bootp.bootp_timer < 0 THEN CloseBootpSock(NetSetError(k))
           ELSE g
    BY DEF BootpTmrExpiry
  <1> HIDE DEF s
  <1>3. s.bootp \in BootpBlock /\ s.bootp.num_request \in Nat
    BY <1>1 DEF Client, BootpBlock
  <1>4. t \in Timers /\ a \in Timers /\ h \in TimerHandles
    <2>1. t \in Timers
      BY TimerTypes DEF Client
    <2>2. BOOTP_SEED_TIMEOUT * s.bootp.num_request \in Int
      BY <1>3, BootpAssumption
    <2> HIDE DEF t
    <2> QED
      BY <2>1, <2>2, TimerTypes, AddedHandleType DEF Expiries
  <1> HIDE DEF t, a, h
  <1>5. mcb \in BootpBlock /\ mcb.bootp_timer = h /\ mcb.num_request = s.bootp.num_request
    BY <1>3, <1>4 DEF BootpBlock
  <1> HIDE DEF mcb
  <1>6. f = [s EXCEPT !.timers = t]
    BY <1>1 DEF t
  <1> HIDE DEF f
  <1>7. /\ f \in Client /\ f.timers = t /\ f.bootp = s.bootp
        /\ f.stream = s.stream /\ f.socks = s.socks /\ f.tftp = s.tftp
        /\ f.error_flag = s.error_flag /\ f.have_params = s.have_params
        /\ f.sent = s.sent /\ Frame(s, f)
    BY <1>1, <1>4, <1>6 DEF Client, Frame
  <1>8. g = [f EXCEPT !.timers = a, !.bootp = mcb]
    <2>1. g = [f EXCEPT !.timers = TimerAdd(f.timers, BOOTP_SEED_TIMEOUT * f.bootp.num_request,
                                            "bootp_tmr_expiry"),
                        !.bootp = [f.bootp EXCEPT !.bootp_timer = AddedHandle(f.timers)]]
      OBVIOUS
    <2> HIDE DEF g
    <2> QED
      BY <1>7, <2>1 DEF a, h, mcb
  <1> HIDE DEF g
  <1>9. /\ g \in Client /\ g.timers = a /\ g.bootp = mcb
        /\ g.stream = s.stream /\ g.socks = s.socks /\ g.tftp = s.tftp
        /\ g.error_flag = s.error_flag /\ g.have_params = s.have_params
        /\ g.sent = s.sent /\ Frame(s, g)
    BY <1>4, <1>5, <1>7, <1>8 DEF Client, Frame
  <1>10. /\ k \in Client /\ k.timers = a /\ k.bootp = mcb
         /\ k.stream = CloseStream(s.stream) /\ k.socks = s.socks /\ k.tftp = s.tftp
         /\ k.have_params = s.have_params /\ k.sent = s.sent /\ Frame(s, k)
    <2> DEFINE cl == CloseStream(g.stream)
    <2>1. cl \in StreamType
      BY <1>9 DEF Client, StreamType, CloseStream
    <2>2. k = [g EXCEPT !.stream = cl]
      OBVIOUS
    <2>3. cl = CloseStream(s.stream)
      BY <1>9
    <2> HIDE DEF cl, k
    <2> QED
      BY <1>9, <2>1, <2>2, <2>3 DEF Client, Frame
  <1> HIDE DEF k
  <1>11. CASE f.bootp.num_request > BOOTP_MAX_RETRIES
    <2> DEFINE e == CloseBootpSock(NetSetError(f))
    <2>1. /\ e \in Client /\ Frame(f, e)
          /\ e.stream = f.stream /\ e.timers = f.timers /\ e.tftp = f.tftp
          /\ e.bootp = f.bootp /\ e.have_params = f.have_params /\ e.sent = f.sent
          /\ e.socks = SockClose(f.socks, 0) /\ e.error_flag
      BY <1>7, BootpFailEffect
    <2>2. BootpTmrExpiry(d) = e
      BY <1>2, <1>11
    <2> HIDE DEF e
    <2>3. BootpGaveUp(d, e)
      BY <1>1, <1>7, <2>1 DEF BootpGaveUp, t
    <2> QED
      BY <1>1, <1>7, <2>1, <2>2, <2>3 DEF Frame
  <1>12. CASE ~(f.bootp.num_request > BOOTP_MAX_RETRIES) /\ g.bootp.bootp_timer < 0
    <2> DEFINE e == CloseBootpSock(NetSetError(k))
    <2>1. /\ e \in Client /\ Frame(k, e)
          /\ e.stream = k.stream /\ e.timers = k.timers /\ e.tftp = k.tftp
          /\ e.bootp = k.bootp /\ e.have_params = k.have_params /\ e.sent = k.sent
          /\ e.socks = SockClose(k.socks, 0) /\ e.error_flag
      BY <1>10, BootpFailEffect
    <2>2. BootpTmrExpiry(d) = e
      BY <1>2, <1>12
    <2> HIDE DEF e
    <2>3. ~CanAdd(t)
      BY <1>5, <1>9, <1>12, AddedHandleSign DEF h
    <2>4. BootpGaveUp(d, e)
      BY <1>1, <1>10, <2>1, <2>3 DEF BootpGaveUp, t
    <2> QED
      BY <1>1, <1>5, <1>10, <2>1, <2>2, <2>4 DEF Frame
  <1>13. CASE ~(f.bootp.num_request > BOOTP_MAX_RETRIES) /\ ~(g.bootp.bootp_timer < 0)
    <2>1. BootpTmrExpiry(d) = g
      BY <1>2, <1>13
    <2>2. g.bootp.num_request = s.bootp.num_request /\ g.bootp.num_request <= BOOTP_MAX_RETRIES
      BY <1>3, <1>5, <1>7, <1>9, <1>13, BootpAssumption
    <2>3. BackedOff(d, g)
      BY <1>1, <1>5, <1>9, <2>2 DEF BackedOff, t, a, h
    <2> QED
      BY <1>1, <1>9, <2>1, <2>2, <2>3 DEF Frame
  <1> QED
    BY <1>11, <1>12, <1>13

-----------------------------------------------------------------------------
(* A data block.                                                           *)

\* The timers once the one of this transfer is stopped, and once the server
\* timer is started in its place.
Stopped(d) == TimerDelete(d.timers, d.tftp.timer)
Rearmed(d) == TimerAdd(Stopped(d), TFTP_SERVER_TIMEOUT, "tftp_timer_expiry")

\* What tftp_receive does first with any data block.
DataSocket(d, port) ==
    IF d.tftp.state = "READ_REQUEST" THEN OpenDataSocket(d, 0, port) ELSE d

DataTimer(d, port) == RestartServerTimer(DataSocket(d, port))

\* A transfer listens on its one socket.
OnTftpSocket(d) == \E r \in RemotePorts : d.socks = OneSocket("tftp", r)

LEMMA SocketsDiffer ==
    /\ BootpSocket # UdpInit
    /\ \A r : OneSocket("tftp", r) \notin {UdpInit, BootpSocket}
  <1>1. ASSUME NEW l, NEW r PROVE OneSocket(l, r)[0].local_port = l
    BY ZeroIsAHandle DEF OneSocket
  <1>2. BootpSocket[0].local_port = "bootpc"
    BY <1>1 DEF BootpSocket
  <1>3. ASSUME NEW r PROVE OneSocket("tftp", r)[0].local_port = "tftp"
    BY <1>1
  <1>4. UdpInit[0].local_port = "0"
    BY ZeroIsAHandle DEF UdpInit, FreeSocket
  <1> QED
    BY <1>2, <1>3, <1>4

LEMMA StoppedTypes ==
    ASSUME NEW d \in Client
    PROVE  /\ Stopped(d) \in Timers /\ Rearmed(d) \in Timers
           /\ AddedHandle(Stopped(d)) \in TimerHandles
  <1>1. Stopped(d) \in Timers
    BY TimerTypes DEF Stopped, Client
  <1>2. TFTP_SERVER_TIMEOUT \in Int
    BY TftpAssumption
  <1> QED
    BY <1>1, <1>2, TimerTypes, AddedHandleType DEF Rearmed, Expiries

LEMMA DataSocketEffect ==
    ASSUME NEW d \in Client, NEW port \in Ports, OnTftpSocket(d), NEW e, e = DataSocket(d, port),
           d.tftp.state \in {"READ_REQUEST", "DATA_RECEIVE"}
    PROVE  /\ e \in Client
           /\ Frame(d, e)
           /\ e.stream = d.stream /\ e.bootp = d.bootp /\ e.sent = d.sent
           /\ e.have_params = d.have_params /\ e.error_flag = d.error_flag
           /\ e.tftp.state = "DATA_RECEIVE"
           /\ e.tftp.block_num = d.tftp.block_num
           /\ e.tftp.num_retransmits \in {0, d.tftp.num_retransmits}
           /\ OnTftpSocket(e)
           /\ Stopped(e) = Stopped(d)
  <1>1. CASE d.tftp.state = "DATA_RECEIVE"
    <2>1. e = d
      BY <1>1 DEF DataSocket
    <2> QED
      BY <1>1, <2>1 DEF Frame
  <1>2. CASE d.tftp.state = "READ_REQUEST"
    <2> DEFINE so == OneSocket("tftp", port)
               t == Stopped(d)
               mcb == [d.tftp EXCEPT !.state = "DATA_RECEIVE", !.num_retransmits = 0,
                                     !.timer = -1, !.sock = 0]
    <2>1. SockClose(d.socks, 0) = UdpInit
      BY OnlySocket DEF OnTftpSocket, LocalPorts
    <2>2. SockOpen(UdpInit, "tftp", port) = so /\ OpenedHandle(UdpInit) = 0
      BY FirstSocket, NoSocket DEF LocalPorts
    <2>3. so \in Sockets /\ port \in RemotePorts
      BY SocketTypes DEF LocalPorts, RemotePorts
    <2>4. t \in Timers
      BY StoppedTypes
    <2>5. d.tftp \in TftpBlock
      BY DEF Client
    <2> DEFINE m1 == [d.tftp EXCEPT !.state = "DATA_RECEIVE"]
               m2 == [m1 EXCEPT !.num_retransmits = 0]
               m3 == [m2 EXCEPT !.timer = -1]
               m4 == [m3 EXCEPT !.sock = 0]
    <2>6. m1 \in TftpBlock /\ m1.state = "DATA_RECEIVE" /\ m1.block_num = d.tftp.block_num
      BY <2>5 DEF TftpBlock
    <2>7. /\ m2 \in TftpBlock /\ m2.state = m1.state /\ m2.block_num = m1.block_num
           /\ m2.num_retransmits = 0
      <3> HIDE DEF m1
      <3> QED
        BY <2>6 DEF TftpBlock
    <2>8. /\ m3 \in TftpBlock /\ m3.state = m2.state /\ m3.block_num = m2.block_num
           /\ m3.num_retransmits = 0 /\ m3.timer = -1
      <3> HIDE DEF m2
      <3> QED
        BY <2>7, HandleTypes DEF TftpBlock
    <2>9. /\ m4 \in TftpBlock /\ m4.state = m2.state /\ m4.block_num = m2.block_num
           /\ m4.num_retransmits = 0 /\ m4.timer = -1
      <3> HIDE DEF m3
      <3> QED
        BY <2>8 DEF TftpBlock
    <2>10. m4 = mcb
      OBVIOUS
    <2> HIDE DEF m1, m2, m3, m4, mcb
    <2>11. /\ mcb \in TftpBlock
          /\ mcb.state = "DATA_RECEIVE" /\ mcb.block_num = d.tftp.block_num
          /\ mcb.num_retransmits = 0 /\ mcb.timer = -1
      BY <2>6, <2>7, <2>8, <2>9, <2>10
    <2>12. e = [d EXCEPT !.socks = so, !.tftp = mcb, !.timers = t]
      <3> DEFINE r1 == [d EXCEPT !.socks = so]
                 r2 == [r1 EXCEPT !.tftp = m1]
                 r3 == [r2 EXCEPT !.tftp = m2]
                 r4 == [r3 EXCEPT !.timers = t]
                 r5 == [r4 EXCEPT !.tftp = m3]
                 r6 == [r5 EXCEPT !.tftp = m4]
      <3>1. e = [[[[[[d EXCEPT !.socks = so] EXCEPT !.tftp.state = "DATA_RECEIVE"]
                      EXCEPT !.tftp.num_retransmits = 0] EXCEPT !.timers = t]
                      EXCEPT !.tftp.timer = -1] EXCEPT !.tftp.sock = 0]
        BY <1>2, <2>1, <2>2 DEF DataSocket, OpenDataSocket, Stopped
      <3>2. m4 = mcb /\ m1 \in TftpBlock /\ m2 \in TftpBlock /\ m3 \in TftpBlock /\ m4 \in TftpBlock
        BY <2>6, <2>7, <2>8, <2>9, <2>10
      <3> HIDE DEF so, t
      <3>3. r1 \in Client /\ r2 \in Client /\ r3 \in Client /\ r4 \in Client /\ r5 \in Client
        BY <2>3, <2>4, <3>2 DEF Client
      <3>4. e = r6
        BY <3>1, <3>3 DEF Client, m1, m2, m3, m4
      <3>5. r6 = [d EXCEPT !.socks = so, !.tftp = m4, !.timers = t]
        BY <2>3, <2>4, <3>2, <3>3 DEF Client
      <3> QED
        BY <3>2, <3>4, <3>5
    <2> HIDE DEF so, t, mcb
    <2>14. /\ e \in Client /\ Frame(d, e) /\ e.timers = t /\ e.tftp = mcb /\ e.socks = so
          /\ e.stream = d.stream /\ e.bootp = d.bootp /\ e.sent = d.sent
          /\ e.have_params = d.have_params /\ e.error_flag = d.error_flag
      BY ZenonT(60), <2>3, <2>4, <2>11, <2>12 DEF Client, Frame
    <2>15. Stopped(e) = t
      BY <2>11, <2>14 DEF Stopped, TimerDelete
    <2>16. OnTftpSocket(e)
      BY <2>3, <2>14 DEF OnTftpSocket, so
    <2> QED
      BY <2>11, <2>14, <2>15, <2>16 DEF t
  <1> QED
    BY <1>1, <1>2

LEMMA DataTimerEffect ==
    ASSUME NEW d \in Client, NEW port \in Ports, OnTftpSocket(d), NEW e, e = DataTimer(d, port),
           d.tftp.state \in {"READ_REQUEST", "DATA_RECEIVE"}
    PROVE  /\ e \in Client
           /\ Frame(d, e)
           /\ e.stream = d.stream /\ e.bootp = d.bootp /\ e.sent = d.sent
           /\ e.have_params = d.have_params /\ e.error_flag = d.error_flag
           /\ e.tftp.state = "DATA_RECEIVE"
           /\ e.tftp.block_num = d.tftp.block_num
           /\ e.tftp.num_retransmits \in {0, d.tftp.num_retransmits}
           /\ OnTftpSocket(e)
           /\ e.timers = Rearmed(d)
           /\ e.tftp.timer = AddedHandle(Stopped(d))
  <1> DEFINE f == DataSocket(d, port)
             t == Rearmed(d)
             h == AddedHandle(Stopped(d))
             mcb == [f.tftp EXCEPT !.timer = h]
  <1>1. /\ f \in Client /\ Frame(d, f)
        /\ f.stream = d.stream /\ f.bootp = d.bootp /\ f.sent = d.sent
        /\ f.have_params = d.have_params /\ f.error_flag = d.error_flag
        /\ f.tftp.state = "DATA_RECEIVE" /\ f.tftp.block_num = d.tftp.block_num
        /\ f.tftp.num_retransmits \in {0, d.tftp.num_retransmits}
        /\ OnTftpSocket(f) /\ Stopped(f) = Stopped(d)
    BY DataSocketEffect
  <1>2. t \in Timers /\ h \in TimerHandles
    BY StoppedTypes
  <1>3. e = RestartServerTimer(f)
    BY DEF DataTimer
  <1> HIDE DEF f, t, h
  <1>4. /\ mcb \in TftpBlock /\ mcb.timer = h /\ mcb.state = f.tftp.state
        /\ mcb.block_num = f.tftp.block_num /\ mcb.num_retransmits = f.tftp.num_retransmits
    BY <1>1, <1>2 DEF TftpBlock, Client
  <1>5. e = [f EXCEPT !.timers = t, !.tftp = mcb]
    <2>1. TimerDelete(f.timers, f.tftp.timer) = Stopped(d)
      BY <1>1 DEF Stopped
    <2> QED
      BY <1>3, <2>1 DEF RestartServerTimer, t, h, Rearmed
  <1> HIDE DEF mcb
  <1>6. /\ e \in Client /\ Frame(d, e) /\ e.tftp = mcb /\ e.timers = t
        /\ e.stream = d.stream /\ e.bootp = d.bootp /\ e.sent = d.sent /\ e.socks = f.socks
        /\ e.have_params = d.have_params /\ e.error_flag = d.error_flag
    BY <1>1, <1>2, <1>4, <1>5 DEF Client, Frame
  <1>7. OnTftpSocket(e)
    BY <1>1, <1>6 DEF OnTftpSocket
  <1> QED
    BY <1>1, <1>4, <1>6, <1>7 DEF t, h

\* A block that is not the one expected: too many, or the last acknowledgement
\* again.
AcknowledgedAgain(d, e) ==
    /\ e.error_flag = d.error_flag
    /\ e.stream = d.stream
    /\ e.timers = d.timers
    /\ e.socks = d.socks
    /\ e.tftp.timer = d.tftp.timer
    /\ e.tftp.block_num = Mod(Mod(d.tftp.block_num - 1) + 1)
    /\ e.tftp.num_retransmits <= MAX_TFTP_RETRANSMITS
    /\ \A n \in e.sent : n \in d.sent \/ (n.type = "ACK" /\ n.block = Mod(d.tftp.block_num - 1))

LEMMA UnexpectedBlockEffect ==
    ASSUME NEW d \in Client, NEW m, NEW e, e = UnexpectedBlock(d, m)
    PROVE  /\ e \in Client
           /\ Frame(d, e)
           /\ e.have_params = d.have_params /\ e.bootp = d.bootp
           /\ e.tftp.state = d.tftp.state
           /\ e.tftp.num_retransmits = d.tftp.num_retransmits + 1
           /\ \/ GaveUp(d, e) /\ e.tftp.block_num = d.tftp.block_num
              \/ AcknowledgedAgain(d, e)
  <1> DEFINE mcb == [d.tftp EXCEPT !.num_retransmits = @ + 1]
             b == Mod(d.tftp.block_num - 1)
             mcb2 == [mcb EXCEPT !.block_num = b]
             f == [d EXCEPT !.tftp = mcb]
             g == [f EXCEPT !.tftp = mcb2]
  <1>1. d.tftp \in TftpBlock /\ d.tftp.num_retransmits \in Nat /\ d.tftp.block_num \in Nat
    BY DEF Client, TftpBlock
  <1>2. /\ mcb \in TftpBlock /\ mcb.num_retransmits = d.tftp.num_retransmits + 1
        /\ mcb.state = d.tftp.state /\ mcb.timer = d.tftp.timer
        /\ mcb.block_num = d.tftp.block_num
    BY <1>1 DEF TftpBlock
  <1>3. [d EXCEPT !.tftp.num_retransmits = @ + 1] = f
    OBVIOUS
  <1>4. b \in Nat
    BY <1>1, ModType
  <1> HIDE DEF mcb, b
  <1>5. /\ mcb2 \in TftpBlock /\ mcb2.num_retransmits = d.tftp.num_retransmits + 1
        /\ mcb2.state = d.tftp.state /\ mcb2.timer = d.tftp.timer /\ mcb2.block_num = b
    BY <1>2, <1>4 DEF TftpBlock
  <1>6. /\ f \in Client /\ f.tftp = mcb /\ Frame(d, f) /\ f.bootp = d.bootp
        /\ f.error_flag = d.error_flag /\ f.have_params = d.have_params
        /\ f.stream = d.stream /\ f.timers = d.timers /\ f.socks = d.socks /\ f.sent = d.sent
    BY <1>2 DEF Client, Frame
  <1> HIDE DEF f
  <1>7. [f EXCEPT !.tftp.block_num = Mod(@ - 1)] = g
    <2>1. [f EXCEPT !.tftp.block_num = Mod(@ - 1)] =
             [f EXCEPT !.tftp = [f.tftp EXCEPT !.block_num = Mod(f.tftp.block_num - 1)]]
      OBVIOUS
    <2> QED
      BY <1>2, <1>6, <2>1 DEF b
  <1> HIDE DEF mcb2
  <1>8. /\ g \in Client /\ g.tftp = mcb2 /\ Frame(d, g) /\ g.bootp = d.bootp
        /\ g.error_flag = d.error_flag /\ g.have_params = d.have_params
        /\ g.stream = d.stream /\ g.timers = d.timers /\ g.socks = d.socks /\ g.sent = d.sent
    BY <1>5, <1>6 DEF Client, Frame
  <1> HIDE DEF g
  <1>9. CASE mcb.num_retransmits > MAX_TFTP_RETRANSMITS
    <2>1. e = TftpFail(f)
      BY <1>3, <1>6, <1>9 DEF UnexpectedBlock
    <2>2. GaveUp(d, e)
      BY <1>2, <1>6, <2>1, TftpFailEffect DEF GaveUp
    <2> QED
      BY <1>2, <1>6, <2>1, <2>2, TftpFailEffect DEF Frame
  <1>10. CASE ~(mcb.num_retransmits > MAX_TFTP_RETRANSMITS)
    <2>1. e = TftpSendAck(g)
      BY <1>3, <1>6, <1>7, <1>10 DEF UnexpectedBlock
    <2>2. mcb.num_retransmits <= MAX_TFTP_RETRANSMITS
      BY <1>1, <1>2, <1>10, TftpAssumption
    <2>3. AcknowledgedAgain(d, e)
      BY <1>2, <1>5, <1>8, <2>1, <2>2, TftpSendAckEffect DEF AcknowledgedAgain, b
    <2> QED
      BY <1>5, <1>8, <2>1, <2>3, TftpSendAckEffect DEF Frame
  <1> QED
    BY <1>9, <1>10

\* The block expected, when the stream has room for it: it is stored and
\* acknowledged, and a short one ends the transfer.
StoredBlock(d, e, bytes) ==
    /\ Len(bytes) >= TFTP_DATA_SIZE
    /\ e.stream = AfterWrite(d.stream, bytes)
    /\ e.timers = d.timers
    /\ e.socks = d.socks
    /\ e.tftp.timer = d.tftp.timer

StoredLast(d, e, bytes) ==
    /\ Len(bytes) < TFTP_DATA_SIZE
    /\ e.stream = CloseStream(AfterWrite(d.stream, bytes))
    /\ e.timers = TimerDelete(d.timers, d.tftp.timer)
    /\ e.socks = SockClose(d.socks, 0)

LEMMA ExpectedBlockEffect ==
    ASSUME NEW d \in Client, NEW m, m.data \in Seq(Byte), WriteFits(d.stream, m.data),
           NEW e, e = ExpectedBlock(d, m)
    PROVE  /\ e \in Client
           /\ Frame(d, e)
           /\ e.have_params = d.have_params /\ e.bootp = d.bootp
           /\ e.error_flag = d.error_flag
           /\ e.tftp.state = d.tftp.state
           /\ e.tftp.num_retransmits = 0
           /\ e.tftp.block_num = Mod(d.tftp.block_num + 1)
           /\ \A n \in e.sent : n \in d.sent \/ (n.type = "ACK" /\ n.block = d.tftp.block_num)
           /\ StoredBlock(d, e, m.data) \/ StoredLast(d, e, m.data)
  <1> DEFINE mcb == [d.tftp EXCEPT !.num_retransmits = 0]
             st == AfterWrite(d.stream, m.data)
             f == [d EXCEPT !.tftp = mcb]
             g == [f EXCEPT !.stream = st]
             a == TftpSendAck(g)
  <1>1. d.tftp \in TftpBlock /\ d.stream \in StreamType
    BY DEF Client
  <1>2. /\ mcb \in TftpBlock /\ mcb.num_retransmits = 0
        /\ mcb.state = d.tftp.state /\ mcb.timer = d.tftp.timer
        /\ mcb.block_num = d.tftp.block_num
    BY <1>1 DEF TftpBlock
  <1>3. [d EXCEPT !.tftp.num_retransmits = 0] = f
    OBVIOUS
  <1>4. st \in StreamType
    <2>1. d.stream.data \o m.data \in Seq(Byte)
      BY <1>1 DEF StreamType
    <2> QED
      BY <1>1, <2>1 DEF AfterWrite, StreamType
  <1> HIDE DEF mcb, st
  <1>5. /\ f \in Client /\ f.tftp = mcb /\ Frame(d, f) /\ f.bootp = d.bootp
        /\ f.error_flag = d.error_flag /\ f.have_params = d.have_params
        /\ f.stream = d.stream /\ f.timers = d.timers /\ f.socks = d.socks /\ f.sent = d.sent
    BY <1>2 DEF Client, Frame
  <1> HIDE DEF f
  <1>6. [f EXCEPT !.stream = AfterWrite(@, m.data)] = g
    BY <1>5 DEF st
  <1>7. /\ g \in Client /\ g.tftp = mcb /\ Frame(d, g) /\ g.bootp = d.bootp
        /\ g.error_flag = d.error_flag /\ g.have_params = d.have_params
        /\ g.stream = st /\ g.timers = d.timers /\ g.socks = d.socks /\ g.sent = d.sent
    BY <1>4, <1>5 DEF Client, Frame
  <1> HIDE DEF g
  <1>8. /\ a \in Client /\ Frame(d, a)
        /\ a.have_params = d.have_params /\ a.bootp = d.bootp
        /\ a.error_flag = d.error_flag /\ a.tftp.state = d.tftp.state
        /\ a.tftp.num_retransmits = 0 /\ a.tftp.block_num = Mod(d.tftp.block_num + 1)
        /\ a.stream = st /\ a.timers = d.timers /\ a.socks = d.socks
        /\ a.tftp.timer = d.tftp.timer
        /\ \A n \in a.sent : n \in d.sent \/ (n.type = "ACK" /\ n.block = d.tftp.block_num)
    BY <1>2, <1>7, TftpSendAckEffect DEF Frame
  <1>9. e = IF Len(m.data) < TFTP_DATA_SIZE THEN TftpCleanup(a) ELSE a
    <2> DEFINE d1 == [d EXCEPT !.tftp.num_retransmits = 0]
               g1 == [d1 EXCEPT !.stream = AfterWrite(@, m.data)]
    <2>1. d1 = f /\ g1 = g
      BY <1>3, <1>6
    <2>2. WriteFits(d1.stream, m.data)
      BY <1>3, <1>5
    <2>3. e = IF Len(m.data) < TFTP_DATA_SIZE THEN TftpCleanup(TftpSendAck(g1)) ELSE TftpSendAck(g1)
      BY <2>2 DEF ExpectedBlock
    <2> QED
      BY <2>1, <2>3
  <1> HIDE DEF a
  <1>10. Len(m.data) \in Int /\ TFTP_DATA_SIZE \in Int
    <2>1. Len(m.data) \in Nat
      OBVIOUS
    <2> QED
      BY <2>1, TftpAssumption
  <1>11. CASE Len(m.data) < TFTP_DATA_SIZE
    <2>1. StoredLast(d, e, m.data)
      BY <1>8, <1>9, <1>11, TftpCleanupEffect DEF StoredLast, st
    <2> QED
      BY <1>8, <1>9, <1>11, <2>1, TftpCleanupEffect DEF Frame
  <1>12. CASE ~(Len(m.data) < TFTP_DATA_SIZE)
    <2>1. StoredBlock(d, e, m.data)
      BY <1>8, <1>9, <1>10, <1>12 DEF StoredBlock, st
    <2> QED
      BY <1>8, <1>9, <1>12, <2>1
  <1> QED
    BY <1>11, <1>12

\* What tftp_receive makes of a data block.  The timers once the server timer
\* is started and stopped again are the ones a transfer leaves behind.
Disarmed(d) == TimerDelete(Rearmed(d), AddedHandle(Stopped(d)))

Rejected(d, e) ==
    /\ e.error_flag
    /\ e.stream = CloseStream(d.stream)
    /\ e.socks = UdpInit
    /\ e.timers = Disarmed(d)
    /\ e.tftp.block_num = d.tftp.block_num
    /\ e.sent = d.sent

GoesOn(d, e) ==
    /\ e.error_flag = d.error_flag
    /\ OnTftpSocket(e)
    /\ e.timers = Rearmed(d)
    /\ e.tftp.timer = AddedHandle(Stopped(d))
    /\ CanAdd(Stopped(d))

Duplicate(d, e) ==
    /\ GoesOn(d, e)
    /\ e.stream = d.stream
    /\ e.tftp.block_num = Mod(Mod(d.tftp.block_num - 1) + 1)
    /\ e.tftp.num_retransmits <= MAX_TFTP_RETRANSMITS
    /\ \A n \in e.sent : n \in d.sent \/ (n.type = "ACK" /\ n.block = Mod(d.tftp.block_num - 1))

Accepted(d, e) ==
    /\ e.tftp.block_num = Mod(d.tftp.block_num + 1)
    /\ e.tftp.num_retransmits = 0
    /\ \A n \in e.sent : n \in d.sent \/ (n.type = "ACK" /\ n.block = d.tftp.block_num)

Stored(d, e, m) ==
    /\ m.block = d.tftp.block_num
    /\ Len(m.data) >= TFTP_DATA_SIZE
    /\ e.stream = AfterWrite(d.stream, m.data)
    /\ GoesOn(d, e)
    /\ Accepted(d, e)

Finished(d, e, m) ==
    /\ m.block = d.tftp.block_num
    /\ Len(m.data) < TFTP_DATA_SIZE
    /\ e.stream = CloseStream(AfterWrite(d.stream, m.data))
    /\ e.error_flag = d.error_flag
    /\ e.socks = UdpInit
    /\ e.timers = Disarmed(d)
    /\ Accepted(d, e)

LEMMA TftpDataEffect ==
    ASSUME NEW d \in Client, OnTftpSocket(d), d.tftp.state \in {"READ_REQUEST", "DATA_RECEIVE"},
           NEW m, m.port \in Ports, m.data \in Seq(Byte), WriteFits(d.stream, m.data),
           NEW e, e = TftpData(d, 0, m)
    PROVE  /\ e \in Client
           /\ Frame(d, e)
           /\ e.have_params = d.have_params /\ e.bootp = d.bootp
           /\ e.tftp.state = "DATA_RECEIVE"
           /\ e.tftp.num_retransmits \in {0, 1, d.tftp.num_retransmits, d.tftp.num_retransmits + 1}
           /\ Rejected(d, e) \/ Duplicate(d, e) \/ Stored(d, e, m) \/ Finished(d, e, m)
  <1> DEFINE p == m.port
             s == DataSocket(d, p)
             f == DataTimer(d, p)
  <1>1. /\ f \in Client
        /\ Frame(d, f)
        /\ f.stream = d.stream /\ f.bootp = d.bootp /\ f.sent = d.sent
        /\ f.have_params = d.have_params /\ f.error_flag = d.error_flag
        /\ f.tftp.state = "DATA_RECEIVE"
        /\ f.tftp.block_num = d.tftp.block_num
        /\ f.tftp.num_retransmits \in {0, d.tftp.num_retransmits}
        /\ OnTftpSocket(f)
        /\ f.timers = Rearmed(d)
        /\ f.tftp.timer = AddedHandle(Stopped(d))
    BY DataTimerEffect
  <1>2. s \in Client
    BY DataSocketEffect
  <1>3. e = IF f.tftp.timer < 0 THEN TftpFail(f)
            ELSE IF m.block # f.tftp.block_num THEN UnexpectedBlock(f, m)
            ELSE ExpectedBlock(f, m)
    <2>1. ~(s.tftp.sock < 0)
      BY <1>2 DEF Client, TftpBlock
    <2> QED
      BY <2>1 DEF TftpData, DataTimer, DataSocket
  <1> HIDE DEF s, f, p
  <1>4. SockClose(f.socks, 0) = UdpInit
    BY <1>1, OnlySocket DEF OnTftpSocket, LocalPorts
  <1>5. TimerDelete(f.timers, f.tftp.timer) = Disarmed(d)
    BY <1>1 DEF Disarmed
  <1>6. f.tftp.num_retransmits \in Nat /\ d.tftp.num_retransmits \in Nat
    BY <1>1 DEF Client, TftpBlock
  <1>7. ASSUME GaveUp(f, e), e.tftp.block_num = f.tftp.block_num PROVE Rejected(d, e)
    BY <1>1, <1>4, <1>5, <1>7 DEF GaveUp, Rejected
  <1>8. CASE f.tftp.timer < 0
    <2>1. e = TftpFail(f)
      BY <1>3, <1>8
    <2>2. GaveUp(f, e)
      BY <1>1, <2>1, TftpFailEffect DEF GaveUp
    <2> QED
      BY <1>1, <1>7, <2>1, <2>2, TftpFailEffect DEF Frame
  <1>9. ASSUME ~(f.tftp.timer < 0) PROVE CanAdd(Stopped(d))
    BY <1>1, <1>9, AddedHandleSign
  <1>10. CASE ~(f.tftp.timer < 0) /\ m.block # f.tftp.block_num
    <2>1. e = UnexpectedBlock(f, m)
      BY <1>3, <1>10
    <2>2. /\ e \in Client
          /\ Frame(f, e)
          /\ e.have_params = f.have_params /\ e.bootp = f.bootp
          /\ e.tftp.state = f.tftp.state
          /\ e.tftp.num_retransmits = f.tftp.num_retransmits + 1
          /\ \/ GaveUp(f, e) /\ e.tftp.block_num = f.tftp.block_num
             \/ AcknowledgedAgain(f, e)
      BY <1>1, <2>1, UnexpectedBlockEffect
    <2>3. e.tftp.num_retransmits \in {1, d.tftp.num_retransmits + 1}
      BY <1>1, <1>6, <2>2
    <2>4. CASE GaveUp(f, e) /\ e.tftp.block_num = f.tftp.block_num
      BY <1>1, <1>7, <2>2, <2>3, <2>4 DEF Frame
    <2>5. CASE AcknowledgedAgain(f, e)
      <3>1. OnTftpSocket(e)
        BY <1>1, <2>5 DEF OnTftpSocket, AcknowledgedAgain
      <3>2. Duplicate(d, e)
        BY <1>1, <1>9, <1>10, <2>5, <3>1 DEF Duplicate, GoesOn, AcknowledgedAgain
      <3> QED
        BY <1>1, <2>2, <2>3, <3>2 DEF Frame
    <2> QED
      BY <2>2, <2>4, <2>5
  <1>11. CASE ~(f.tftp.timer < 0) /\ m.block = f.tftp.block_num
    <2>1. e = ExpectedBlock(f, m)
      BY <1>3, <1>11
    <2>2. /\ e \in Client
          /\ Frame(f, e)
          /\ e.have_params = f.have_params /\ e.bootp = f.bootp
          /\ e.error_flag = f.error_flag
          /\ e.tftp.state = f.tftp.state
          /\ e.tftp.num_retransmits = 0
          /\ e.tftp.block_num = Mod(f.tftp.block_num + 1)
          /\ \A n \in e.sent : n \in f.sent \/ (n.type = "ACK" /\ n.block = f.tftp.block_num)
          /\ StoredBlock(f, e, m.data) \/ StoredLast(f, e, m.data)
      BY <1>1, <2>1, ExpectedBlockEffect
    <2>3. Accepted(d, e)
      BY <1>1, <2>2 DEF Accepted
    <2>4. CASE StoredBlock(f, e, m.data)
      <3>1. OnTftpSocket(e)
        BY <1>1, <2>4 DEF OnTftpSocket, StoredBlock
      <3>2. Stored(d, e, m)
        BY <1>1, <1>9, <1>11, <2>2, <2>3, <2>4, <3>1 DEF Stored, GoesOn, StoredBlock
      <3> QED
        BY <1>1, <2>2, <3>2 DEF Frame
    <2>5. CASE StoredLast(f, e, m.data)
      <3>1. Finished(d, e, m)
        BY <1>1, <1>4, <1>5, <1>11, <2>2, <2>3, <2>5 DEF Finished, StoredLast
      <3> QED
        BY <1>1, <2>2, <3>1 DEF Frame
    <2> QED
      BY <2>2, <2>4, <2>5
  <1> QED
    BY <1>8, <1>10, <1>11

-----------------------------------------------------------------------------
(* Starting a transfer.                                                    *)

\* tftp_get_file has no server to ask, or no timer to ask with, or asks.
NoServer(d, e) ==
    /\ ~d.have_server
    /\ e.error_flag
    /\ e.stream = d.stream
    /\ e.timers = d.timers
    /\ e.socks = d.socks
    /\ e.tftp = d.tftp
    /\ e.sent = d.sent

NoTimerLeft(d, e) ==
    /\ ~CanAdd(d.timers)
    /\ e.error_flag
    /\ e.stream = CloseStream(OpenStream)
    /\ e.timers = d.timers
    /\ e.socks = UdpInit
    /\ e.tftp.state = "READ_REQUEST"
    /\ e.tftp.timer = -1
    /\ e.tftp.block_num = 1
    /\ e.tftp.num_retransmits = 0
    /\ e.sent = d.sent

Requested(d, e) ==
    /\ CanAdd(d.timers)
    /\ e.error_flag = d.error_flag
    /\ e.stream = OpenStream
    /\ e.timers = TimerAdd(d.timers, TFTP_TIMEOUT, "tftp_timer_expiry")
    /\ e.socks = OneSocket("tftp", "tftpd")
    /\ e.tftp.state = "READ_REQUEST"
    /\ e.tftp.timer = AddedHandle(d.timers)
    /\ e.tftp.block_num = 1
    /\ e.tftp.num_retransmits = 0
    /\ \A n \in e.sent : n \in d.sent \/ n.type = "RRQ"

LEMMA TftpGetFileEffect ==
    ASSUME NEW d \in Client, d.socks = UdpInit, NEW e, e = TftpGetFile(d)
    PROVE  /\ e \in Client
           /\ Frame(d, e)
           /\ e.have_params = d.have_params /\ e.bootp = d.bootp
           /\ NoServer(d, e) \/ NoTimerLeft(d, e) \/ Requested(d, e)
  <1>1. CASE ~d.have_server
    <2>1. e = [d EXCEPT !.error_flag = TRUE]
      BY <1>1 DEF TftpGetFile, NetSetError
    <2> QED
      BY <1>1, <2>1 DEF Client, Frame, NoServer
  <1>2. CASE d.have_server
    <2> DEFINE so == OneSocket("tftp", "tftpd")
               t == TimerAdd(d.timers, TFTP_TIMEOUT, "tftp_timer_expiry")
               h == AddedHandle(d.timers)
               m0 == [state |-> "0", sock |-> 0, timer |-> 0,
                      block_num |-> 0, num_retransmits |-> 0]
               m1 == [m0 EXCEPT !.state = "READ_REQUEST"]
               m2 == [m1 EXCEPT !.block_num = 1]
               m3 == [m2 EXCEPT !.timer = h]
               r1 == [d EXCEPT !.stream = OpenStream]
               r2 == [r1 EXCEPT !.socks = so]
               r3 == [r2 EXCEPT !.tftp = m0]
               r4 == [r3 EXCEPT !.tftp = m1]
               r5 == [r4 EXCEPT !.tftp = m2]
               r6 == [r5 EXCEPT !.timers = t]
               r7 == [r6 EXCEPT !.tftp = m3]
               c1 == [[[d EXCEPT !.stream = OpenStream] EXCEPT !.socks = so] EXCEPT !.tftp = m0]
               c2 == [[[[c1 EXCEPT !.tftp.state = "READ_REQUEST"] EXCEPT !.tftp.block_num = 1]
                         EXCEPT !.timers = TimerAdd(@, TFTP_TIMEOUT, "tftp_timer_expiry")]
                         EXCEPT !.tftp.timer = h]
    <2>1. SockOpen(d.socks, "tftp", "tftpd") = so /\ OpenedHandle(d.socks) = 0
      BY NoSocket, FirstSocket DEF LocalPorts
    <2>2. e = IF c2.tftp.timer < 0 THEN TftpFail(c2) ELSE SendReadRequest(c2)
      <3> DEFINE opened == SockOpen(d.socks, "tftp", "tftpd")
                 sock == OpenedHandle(d.socks)
                 d1 == [d EXCEPT !.stream = OpenStream,
                                 !.socks = opened,
                                 !.tftp = [state |-> "0", sock |-> sock, timer |-> 0,
                                           block_num |-> 0, num_retransmits |-> 0]]
                 e1 == [d1 EXCEPT !.tftp.state = "READ_REQUEST",
                                  !.tftp.block_num = 1,
                                  !.timers = TimerAdd(@, TFTP_TIMEOUT, "tftp_timer_expiry"),
                                  !.tftp.timer = AddedHandle(d.timers)]
      <3>1. e = IF sock < 0 THEN NetSetError([d1 EXCEPT !.stream = CloseStream(@)])
                ELSE IF e1.tftp.timer < 0 THEN TftpFail(e1) ELSE SendReadRequest(e1)
        BY <1>2 DEF TftpGetFile
      <3>2. d1 = c1
        BY <2>1
      <3> HIDE DEF d1, c1
      <3>3. e1 = c2
        BY <3>2
      <3> HIDE DEF e1, c2
      <3> QED
        BY <2>1, <3>1, <3>3
    <2>3. so \in Sockets /\ OpenStream \in StreamType
      BY SocketTypes DEF LocalPorts, RemotePorts, OpenStream, StreamType
    <2>4. t \in Timers /\ h \in TimerHandles
      <3>1. d.timers \in Timers /\ TFTP_TIMEOUT \in Int
        BY TftpAssumption DEF Client
      <3> QED
        BY <3>1, TimerTypes, AddedHandleType DEF Expiries
    <2>5. m0 \in TftpBlock /\ m0.block_num = 0 /\ m0.num_retransmits = 0
      BY HandleTypes DEF TftpBlock
    <2> HIDE DEF so, t, h, m0
    <2>6. m1 \in TftpBlock /\ m1.state = "READ_REQUEST" /\ m1.num_retransmits = 0
      BY <2>5 DEF TftpBlock
    <2> HIDE DEF m1
    <2>7. m2 \in TftpBlock /\ m2.state = "READ_REQUEST" /\ m2.num_retransmits = 0
          /\ m2.block_num = 1
      BY <2>6 DEF TftpBlock
    <2> HIDE DEF m2
    <2>8. m3 \in TftpBlock /\ m3.state = "READ_REQUEST" /\ m3.num_retransmits = 0
          /\ m3.block_num = 1 /\ m3.timer = h
      BY <2>4, <2>7 DEF TftpBlock
    <2> HIDE DEF m3
    <2>9. r1 \in Client /\ r2 \in Client /\ r3 \in Client /\ r4 \in Client
          /\ r5 \in Client /\ r6 \in Client
      BY <2>3, <2>4, <2>5, <2>6, <2>7 DEF Client
    <2>10. c1 = r3 /\ r3.tftp = m0 /\ r3.timers = d.timers
      <3>1. c1 = r3
        OBVIOUS
      <3> HIDE DEF c1
      <3> QED
        BY <2>3, <2>5, <2>9, <3>1 DEF Client
    <2>11. c2 = r7
      <3>1. [r3 EXCEPT !.tftp.state = "READ_REQUEST"] = r4
        BY <2>9, <2>10 DEF Client, m1
      <3>2. r4.tftp = m1
        BY <2>6, <2>9 DEF Client
      <3>3. [r4 EXCEPT !.tftp.block_num = 1] = r5
        BY <2>9, <3>2 DEF Client, m2
      <3>4. [r5 EXCEPT !.timers = TimerAdd(@, TFTP_TIMEOUT, "tftp_timer_expiry")] = r6
        <4>1. r5.timers = d.timers
          BY <2>6, <2>7, <2>9, <2>10 DEF Client
        <4> QED
          BY <4>1 DEF t
      <3>5. r6.tftp = m2
        BY <2>4, <2>7, <2>9 DEF Client
      <3>6. [r6 EXCEPT !.tftp.timer = h] = r7
        BY <2>9, <3>5 DEF Client, m3
      <3> HIDE DEF r3, r4, r5, r6, r7, c1
      <3> QED
        BY <2>10, <3>1, <3>3, <3>4, <3>6
    <2>12. /\ r7 \in Client /\ Frame(d, r7)
           /\ r7.have_params = d.have_params /\ r7.bootp = d.bootp
           /\ r7.error_flag = d.error_flag /\ r7.sent = d.sent
           /\ r7.stream = OpenStream /\ r7.timers = t /\ r7.socks = so /\ r7.tftp = m3
      BY <2>3, <2>4, <2>5, <2>6, <2>7, <2>8 DEF Client, Frame
    <2> HIDE DEF r1, r2, r3, r4, r5, r6, c1, c2, r7
    <2>13. CASE h < 0
      <3>1. e = TftpFail(r7)
        BY <2>2, <2>8, <2>11, <2>12, <2>13
      <3>2. ~CanAdd(d.timers)
        BY <2>13, AddedHandleSign DEF h
      <3>3. TimerDelete(t, h) = d.timers
        BY <2>13, <3>2 DEF t, TimerAdd, TimerDelete
      <3>4. SockClose(so, 0) = UdpInit
        BY OnlySocket DEF so, LocalPorts
      <3>5. NoTimerLeft(d, e)
        BY <2>8, <2>12, <3>1, <3>2, <3>3, <3>4, TftpFailEffect DEF NoTimerLeft
      <3> QED
        BY <2>12, <3>1, <3>5, TftpFailEffect DEF Frame
    <2>14. CASE ~(h < 0)
      <3>1. e = SockSend(r7, 0, "RRQ", 0)
        BY <2>2, <2>8, <2>11, <2>12, <2>14 DEF SendReadRequest, TftpBlock
      <3>2. /\ e = [r7 EXCEPT !.sent = e.sent]
            /\ e.sent \in SUBSET Message
            /\ \A n \in e.sent : n \in d.sent \/ n.type = "RRQ"
        BY <2>12, <3>1, SockSendEffect
      <3>3. CanAdd(d.timers)
        BY <2>14, AddedHandleSign DEF h
      <3>4. /\ e \in Client /\ Frame(d, e)
            /\ e.have_params = d.have_params /\ e.bootp = d.bootp
            /\ e.error_flag = d.error_flag
            /\ e.stream = OpenStream /\ e.timers = t /\ e.socks = so /\ e.tftp = m3
        BY <2>12, <3>2 DEF Client, Frame
      <3>5. Requested(d, e)
        BY <2>8, <3>2, <3>3, <3>4 DEF Requested, t, h, so
      <3> QED
        BY <3>4, <3>5
    <2> QED
      BY <2>13, <2>14
  <1> QED
    BY <1>1, <1>2 DEF Client

\* bootp_receive hands over to the TFTP client, its own timer stopped and its
\* socket closed.
Answered(d, f) ==
    /\ f.timers = TimerDelete(d.timers, d.bootp.bootp_timer)
    /\ f.stream = CloseStream(d.stream)
    /\ f.socks = UdpInit
    /\ f.tftp = d.tftp /\ f.bootp = d.bootp
    /\ f.error_flag = d.error_flag /\ f.sent = d.sent
    /\ f.have_params

LEMMA BootpReceiveEffect ==
    ASSUME NEW d \in Client, d.socks = BootpSocket, NEW m, m.server \in BOOLEAN,
           NEW e, e = BootpReceive(d, 0, m)
    PROVE  /\ e \in Client
           /\ Frame(d, e)
           /\ e.have_params /\ e.bootp = d.bootp
           /\ \E f \in Client : /\ Answered(d, f)
                                /\ NoServer(f, e) \/ NoTimerLeft(f, e) \/ Requested(f, e)
  <1> DEFINE t == TimerDelete(d.timers, d.bootp.bootp_timer)
             has == IF d.use_server THEN m.server ELSE d.have_server
             st == CloseStream(d.stream)
             f == [d EXCEPT !.timers = t, !.have_server = has, !.stream = st,
                            !.socks = UdpInit, !.have_params = TRUE]
  <1>1. SockClose(d.socks, 0) = UdpInit
    BY OnlySocket DEF BootpSocket, LocalPorts
  <1>2. e = TftpGetFile(f)
    BY <1>1 DEF BootpReceive
  <1>3. t \in Timers /\ has \in BOOLEAN /\ st \in StreamType /\ UdpInit \in Sockets
    BY TimerTypes, SocketTypes DEF Client, CloseStream, StreamType
  <1> HIDE DEF t, has, st
  <1>4. /\ f \in Client /\ Frame(d, f)
        /\ f.timers = t /\ f.stream = st /\ f.socks = UdpInit /\ f.have_params
        /\ f.tftp = d.tftp /\ f.bootp = d.bootp
        /\ f.error_flag = d.error_flag /\ f.sent = d.sent
    BY <1>3 DEF Client, Frame
  <1>5. Answered(d, f)
    BY <1>4 DEF Answered, t, st
  <1> HIDE DEF f
  <1>6. /\ e \in Client /\ Frame(f, e) /\ e.have_params = f.have_params /\ e.bootp = f.bootp
        /\ NoServer(f, e) \/ NoTimerLeft(f, e) \/ Requested(f, e)
    BY <1>2, <1>4, TftpGetFileEffect
  <1> QED
    BY <1>4, <1>5, <1>6 DEF Frame

\* bootp_init has no timer to wait with, or asks.
BootpNotStarted(d, e) ==
    /\ ~CanAdd(d.timers)
    /\ e.error_flag
    /\ e.stream = CloseStream(OpenStream)
    /\ e.timers = d.timers
    /\ e.socks = UdpInit

BootpAsked(d, e) ==
    /\ CanAdd(d.timers)
    /\ e.error_flag = d.error_flag
    /\ e.stream = OpenStream
    /\ e.timers = TimerAdd(d.timers, BOOTP_SEED_TIMEOUT, "bootp_tmr_expiry")
    /\ e.socks = BootpSocket
    /\ e.bootp.bootp_timer = AddedHandle(d.timers)

LEMMA BootpInitEffect ==
    ASSUME NEW d \in Client, d.socks = UdpInit, NEW e, e = BootpInit(d)
    PROVE  /\ e \in Client
           /\ Frame(d, e)
           /\ e.have_params = d.have_params /\ e.tftp = d.tftp
           /\ e.bootp.num_request = 1
           /\ BootpNotStarted(d, e) \/ BootpAsked(d, e)
           /\ \A n \in e.sent : n \in d.sent \/ n.type = "BOOTREQ"
  <1> DEFINE m0 == [BootpCleared EXCEPT !.sock = 0]
             d1 == [d EXCEPT !.socks = BootpSocket, !.bootp = m0]
             d2 == [d1 EXCEPT !.stream = OpenStream]
             s == BootpSend(d2)
             t == TimerAdd(d.timers, BOOTP_SEED_TIMEOUT, "bootp_tmr_expiry")
             h == AddedHandle(d.timers)
             m1 == [s.bootp EXCEPT !.bootp_timer = h]
             f == [s EXCEPT !.timers = t, !.bootp = m1]
             f1 == [s EXCEPT !.timers = TimerAdd(@, BOOTP_SEED_TIMEOUT, "bootp_tmr_expiry"),
                             !.bootp.bootp_timer = AddedHandle(s.timers)]
             st == CloseStream(f.stream)
             g == [f EXCEPT !.stream = st]
  <1>1. SockOpen(d.socks, "bootpc", "bootps") = BootpSocket /\ OpenedHandle(d.socks) = 0
    BY NoSocket, FirstSocket DEF LocalPorts, BootpSocket
  <1>2. e = IF f1.bootp.bootp_timer < 0
            THEN NetSetError(CloseBootpSock([f1 EXCEPT !.stream = CloseStream(@)]))
            ELSE f1
    <2> DEFINE sock == OpenedHandle(d.socks)
               a1 == [d EXCEPT !.socks = SockOpen(@, "bootpc", "bootps"),
                               !.bootp = [BootpCleared EXCEPT !.sock = sock]]
               a2 == BootpSend([a1 EXCEPT !.stream = OpenStream])
               a3 == [a2 EXCEPT !.timers = TimerAdd(@, BOOTP_SEED_TIMEOUT, "bootp_tmr_expiry"),
                                !.bootp.bootp_timer = AddedHandle(a2.timers)]
    <2>1. e = IF sock < 0 THEN NetSetError(a1)
              ELSE IF a3.bootp.bootp_timer < 0
              THEN NetSetError(CloseBootpSock([a3 EXCEPT !.stream = CloseStream(@)]))
              ELSE a3
      BY DEF BootpInit
    <2>2. a1 = d1
      BY <1>1
    <2> HIDE DEF a1, d1
    <2>3. a2 = s
      BY <2>2
    <2> HIDE DEF a2, s
    <2>4. a3 = f1
      BY <2>3
    <2> HIDE DEF a3, f1
    <2> QED
      BY <1>1, <2>1, <2>4
  <1>3. m0 \in BootpBlock /\ m0.num_request = 0
    BY HandleTypes DEF BootpBlock, BootpCleared
  <1>4. BootpSocket \in Sockets /\ OpenStream \in StreamType
    BY SocketTypes DEF LocalPorts, RemotePorts, OpenStream, StreamType, BootpSocket
  <1>5. t \in Timers /\ h \in TimerHandles
    <2>1. d.timers \in Timers /\ BOOTP_SEED_TIMEOUT \in Int
      BY BootpAssumption DEF Client
    <2> QED
      BY <2>1, TimerTypes, AddedHandleType DEF Expiries
  <1> HIDE DEF t, h, m0
  <1>6. /\ d2 \in Client /\ Frame(d, d2) /\ d2.have_params = d.have_params
        /\ d2.tftp = d.tftp /\ d2.error_flag = d.error_flag /\ d2.sent = d.sent
        /\ d2.timers = d.timers /\ d2.socks = BootpSocket /\ d2.stream = OpenStream
        /\ d2.bootp = m0
    BY <1>3, <1>4 DEF Client, Frame
  <1> HIDE DEF d2
  <1>7. /\ s \in Client /\ Frame(d2, s)
        /\ s.stream = d2.stream /\ s.timers = d2.timers /\ s.socks = d2.socks
        /\ s.tftp = d2.tftp /\ s.error_flag = d2.error_flag
        /\ s.have_params = d2.have_params
        /\ s.bootp.num_request = d2.bootp.num_request + 1
        /\ \A n \in s.sent : n \in d2.sent \/ n.type = "BOOTREQ"
    BY <1>6, BootpSendEffect
  <1> HIDE DEF s
  <1>8. m1 \in BootpBlock /\ m1.bootp_timer = h /\ m1.num_request = 1
    BY <1>3, <1>5, <1>6, <1>7 DEF BootpBlock, Client
  <1>9. f1 = f
    BY <1>6, <1>7 DEF t, h
  <1> HIDE DEF m1, f1
  <1>10. /\ f \in Client /\ Frame(d, f) /\ f.have_params = d.have_params
         /\ f.tftp = d.tftp /\ f.error_flag = d.error_flag
         /\ f.timers = t /\ f.bootp = m1 /\ f.socks = BootpSocket /\ f.stream = OpenStream
         /\ \A n \in f.sent : n \in d.sent \/ n.type = "BOOTREQ"
    <2>1. /\ f \in Client /\ Frame(s, f) /\ f.have_params = s.have_params
          /\ f.tftp = s.tftp /\ f.error_flag = s.error_flag
          /\ f.timers = t /\ f.bootp = m1 /\ f.socks = s.socks /\ f.stream = s.stream
          /\ f.sent = s.sent
      BY <1>5, <1>7, <1>8 DEF Client, Frame
    <2> HIDE DEF f
    <2> QED
      BY <1>6, <1>7, <2>1 DEF Frame
  <1> HIDE DEF f
  <1>11. st \in StreamType /\ st = CloseStream(OpenStream)
    BY <1>10 DEF OpenStream, CloseStream, StreamType
  <1> HIDE DEF st
  <1>12. /\ g \in Client /\ Frame(f, g) /\ g.have_params = f.have_params
         /\ g.tftp = f.tftp /\ g.timers = f.timers /\ g.bootp = f.bootp /\ g.socks = f.socks
         /\ g.stream = st /\ g.sent = f.sent
    BY <1>10, <1>11 DEF Client, Frame
  <1>13. [f EXCEPT !.stream = CloseStream(@)] = g
    BY DEF st
  <1> HIDE DEF g
  <1>14. CASE h < 0
    <2> DEFINE k == [NetSetError(g) EXCEPT !.socks = UdpInit]
    <2>1. ~CanAdd(d.timers)
      BY <1>14, AddedHandleSign DEF h
    <2>2. t = d.timers
      BY <2>1 DEF t, TimerAdd
    <2>3. SockClose(BootpSocket, 0) = UdpInit
      BY OnlySocket DEF BootpSocket, LocalPorts
    <2>4. g.bootp.sock = 0
      BY <1>12 DEF Client, BootpBlock
    <2>5. e = NetSetError(CloseBootpSock(g))
      BY <1>2, <1>8, <1>9, <1>10, <1>13, <1>14
    <2>6. e = [[g EXCEPT !.socks = UdpInit] EXCEPT !.error_flag = TRUE]
      BY <1>10, <1>12, <2>3, <2>4, <2>5 DEF CloseBootpSock, NetSetError
    <2>7. /\ e \in Client /\ Frame(g, e) /\ e.have_params = g.have_params /\ e.tftp = g.tftp
          /\ e.timers = g.timers /\ e.bootp = g.bootp /\ e.socks = UdpInit
          /\ e.stream = g.stream /\ e.sent = g.sent /\ e.error_flag
      BY <1>12, <2>6, SocketTypes DEF Client, Frame
    <2>8. BootpNotStarted(d, e)
      BY <1>10, <1>11, <1>12, <2>1, <2>2, <2>7 DEF BootpNotStarted
    <2> QED
      BY <1>8, <1>10, <1>12, <2>7, <2>8 DEF Frame
  <1>15. CASE ~(h < 0)
    <2>1. e = f
      BY <1>2, <1>8, <1>9, <1>10, <1>15
    <2>2. CanAdd(d.timers)
      BY <1>15, AddedHandleSign DEF h
    <2>3. BootpAsked(d, e)
      BY <1>8, <1>10, <2>1, <2>2 DEF BootpAsked, t, h
    <2> QED
      BY <1>8, <1>10, <2>1, <2>3
  <1> QED
    BY <1>14, <1>15

-----------------------------------------------------------------------------
(* The shape of a reachable state.  The client has no socket, or it waits  *)
(* for a BOOTP reply with the stream open and empty, or a TFTP transfer    *)
(* listens on its one socket.                                              *)

Idle ==
    /\ c.socks = UdpInit
    /\ c.stream.is_open => c.error_flag

Asking ==
    /\ c.socks = BootpSocket
    /\ c.stream = OpenStream
    /\ ~c.have_params /\ ~c.error_flag
    /\ c.fileOffset = 0
    /\ app = "params" /\ ret = 0

Fetching ==
    /\ OnTftpSocket(c)
    /\ c.stream.is_open
    /\ c.tftp.state \in {"READ_REQUEST", "DATA_RECEIVE"}
    /\ c.have_params

Phase == Idle \/ Asking \/ Fetching

Seeking == call.restart # NotSeeking

Call == [op : {"none", "read", "peek", "skip"}, num_bytes : Nat, got : Seq(Byte),
         restart : Nat \cup {NotSeeking}, left : Nat]

Control ==
    /\ pc \in {"closed", "idle", "top", "scan", "copy", "packet", "complete"}
    /\ app \in {"closed", "params", "load", "drain"}
    /\ pc = "closed" <=> app = "closed"
    /\ scan \in Blocks /\ ret \in {0, -1} /\ transfers \in Nat
    /\ dataSize \in 0 .. MAX_SIZE_STREAM_BUFFER
    /\ Seeking => app = "load"
    /\ pc = "complete" => Seeking
    /\ pc \in {"top", "scan", "copy", "packet"} => call.op # "none"
    /\ pc \in {"closed", "idle"} => ~Seeking /\ call.op = "none"
    /\ pc \in {"closed", "idle", "complete"} => call.got = << >>
    /\ call.op = "skip" => app = "load" /\ call.got = << >> /\ ~Seeking
    /\ call.op = "peek" => call.num_bytes <= HEADER_BYTES
    /\ app = "params" => call.op \in {"none", "peek"}
    /\ app \in {"load", "drain"} => c.have_params

Room ==
    /\ Len(c.stream.data) <= MAX_SIZE_STREAM_BUFFER
    /\ RoomForBlock

\* A block on the network is one of the file, under its number.
Messages ==
    \A m \in net :
        /\ m.type = "DATA" => m.port \in Ports /\ m.num \in 1 .. LastBlock /\ m.block = Mod(m.num)
        /\ m.type = "BOOTREP" => m.server \in BOOLEAN

Shape ==
    /\ c \in Client /\ c.sent = {} /\ call \in Call
    /\ Phase
    /\ Control
    /\ Room
    /\ Messages

-----------------------------------------------------------------------------

LEMMA NoCallType ==
    /\ NoCall \in Call
    /\ NoCall.op = "none" /\ NoCall.got = << >> /\ NoCall.restart = NotSeeking
    /\ NoCall.left = 0 /\ NoCall.num_bytes = 0
  BY DEF NoCall, Call, NotSeeking

StartedCall(k, op, n, left) == [k EXCEPT !.op = op, !.num_bytes = n, !.left = left]

LEMMA StartedCallType ==
    ASSUME NEW k \in Call, NEW op \in {"read", "peek"}, NEW n \in Nat, NEW left \in Nat
    PROVE  /\ StartedCall(k, op, n, left) \in Call
           /\ StartedCall(k, op, n, left).op = op
           /\ StartedCall(k, op, n, left).num_bytes = n
           /\ StartedCall(k, op, n, left).left = left
           /\ StartedCall(k, op, n, left).got = k.got
           /\ StartedCall(k, op, n, left).restart = k.restart
  BY DEF Call, StartedCall

\* The calls a seek makes: of a read with no buffer, and of none yet.
LEMMA SeekCalls ==
    ASSUME NEW n \in Nat
    PROVE  /\ [NoCall EXCEPT !.op = "skip", !.num_bytes = n] \in Call
           /\ [NoCall EXCEPT !.op = "skip", !.num_bytes = n].op = "skip"
           /\ [NoCall EXCEPT !.op = "skip", !.num_bytes = n].num_bytes = n
           /\ [NoCall EXCEPT !.op = "skip", !.num_bytes = n].restart = NotSeeking
           /\ [NoCall EXCEPT !.op = "skip", !.num_bytes = n].got = << >>
           /\ [NoCall EXCEPT !.restart = n] \in Call
           /\ [NoCall EXCEPT !.restart = n].op = "none"
           /\ [NoCall EXCEPT !.restart = n].restart = n
           /\ [NoCall EXCEPT !.restart = n].got = << >>
           /\ n # NotSeeking
  <1>1. n # NotSeeking
    BY DEF NotSeeking
  <1>2. ASSUME NEW k \in Call
        PROVE  /\ [k EXCEPT !.op = "skip", !.num_bytes = n] \in Call
               /\ [k EXCEPT !.op = "skip", !.num_bytes = n].op = "skip"
               /\ [k EXCEPT !.op = "skip", !.num_bytes = n].num_bytes = n
               /\ [k EXCEPT !.op = "skip", !.num_bytes = n].restart = k.restart
               /\ [k EXCEPT !.op = "skip", !.num_bytes = n].got = k.got
    BY DEF Call
  <1>3. ASSUME NEW k \in Call
        PROVE  /\ [k EXCEPT !.restart = n] \in Call
               /\ [k EXCEPT !.restart = n].op = k.op
               /\ [k EXCEPT !.restart = n].restart = n
               /\ [k EXCEPT !.restart = n].got = k.got
    BY DEF Call
  <1> QED
    BY <1>1, <1>2, <1>3, NoCallType

\* A call that returns forgets all but the seek it is part of.
ReturnedCall(k) == [NoCall EXCEPT !.restart = k.restart, !.left = k.left]

LEMMA ReturnedCallType ==
    ASSUME NEW k \in Call
    PROVE  /\ ReturnedCall(k) \in Call
           /\ ReturnedCall(k).op = "none"
           /\ ReturnedCall(k).got = << >>
           /\ ReturnedCall(k).restart = k.restart
  BY NoCallType DEF Call, ReturnedCall

LEMMA LevelType ==
    ASSUME NEW s \in StreamType
    PROVE  /\ Len(s.data) \in Nat
           /\ StreamLevel(s) \in Int
           /\ StreamLevel(s) < 0 <=> ~s.is_open /\ s.data = << >>
           /\ StreamLevel(s) >= 0 => StreamLevel(s) = Len(s.data)
           /\ StreamLevel(s) > 0 => s.data # << >>
           /\ s.data = << >> <=> Len(s.data) = 0
  <1>1. s.data \in Seq(Byte)
    BY DEF StreamType
  <1>2. Len(s.data) \in Nat /\ (s.data = << >> <=> Len(s.data) = 0)
    BY <1>1
  <1> QED
    BY <1>2 DEF StreamLevel, StreamIsEmpty

LEMMA InitShape == Init => Shape
  <1> SUFFICES ASSUME Init PROVE Shape
    OBVIOUS
  <1> USE DEF Init, NetInit
  <1>1. 0 \in Byte
    BY NetAssumption
  <1>2. UnopenedStream \in StreamType /\ Len(UnopenedStream.data) = MAX_SIZE_STREAM_BUFFER
    <2>1. UnopenedStream.data \in [1 .. MAX_SIZE_STREAM_BUFFER -> Byte]
      BY <1>1 DEF UnopenedStream
    <2>2. UnopenedStream.data \in Seq(Byte)
      BY <2>1, Sizes
    <2>3. Len(UnopenedStream.data) = MAX_SIZE_STREAM_BUFFER
      BY <2>1, Sizes
    <2>4. UnopenedStream = [is_open |-> FALSE, data |-> UnopenedStream.data]
      BY DEF UnopenedStream
    <2>5. ASSUME NEW x \in Seq(Byte) PROVE [is_open |-> FALSE, data |-> x] \in StreamType
      BY DEF StreamType
    <2> HIDE DEF Init, NetInit
    <2> QED
      BY <2>2, <2>3, <2>4, <2>5
  <1>3. TftpCleared \in TftpBlock /\ BootpCleared \in BootpBlock
    BY HandleTypes DEF TftpCleared, TftpBlock, BootpCleared, BootpBlock
  <1>4. c \in Client /\ c.sent = {}
    <2> DEFINE Rec(st, t, so, tf, bo) ==
                   [stream |-> st, timers |-> t, socks |-> so, tftp |-> tf, bootp |-> bo,
                    error_flag |-> FALSE, fileOffset |-> 0, have_server |-> FALSE,
                    use_server |-> FALSE, have_params |-> FALSE, sent |-> {}]
    <2>1. ASSUME NEW st \in StreamType, NEW t \in Timers, NEW so \in Sockets,
                 NEW tf \in TftpBlock, NEW bo \in BootpBlock
          PROVE  Rec(st, t, so, tf, bo) \in Client /\ Rec(st, t, so, tf, bo).sent = {}
      BY DEF Client
    <2>2. c = Rec(UnopenedStream, TimerInit, UdpInit, TftpCleared, BootpCleared)
      OBVIOUS
    <2> HIDE DEF Rec, Init, NetInit
    <2> QED
      BY <1>2, <1>3, <2>1, <2>2, NoTimer, SocketTypes
  <1>5. Phase
    BY DEF Phase, Idle, UnopenedStream
  <1>6. Control
    BY NoCallType, ZeroIsABlock, Sizes DEF Control, Seeking
  <1>7. Room
    BY <1>2, Sizes DEF Room, RoomForBlock
  <1>8. Messages
    BY DEF Messages
  <1> QED
    BY <1>4, <1>5, <1>6, <1>7, <1>8, NoCallType DEF Shape

\* What a step that leaves the client alone has to show.
LEMMA SameClient ==
    ASSUME Shape, UNCHANGED <<c, net>>, Control', call' \in Call,
           Asking => app' = "params" /\ ret' = 0,
           pc' = "packet" => Len(c.stream.data) + TFTP_DATA_SIZE <= MAX_SIZE_STREAM_BUFFER
    PROVE  Shape'
  <1>1. Phase'
    BY DEF Shape, Phase, Idle, Asking, Fetching, OnTftpSocket
  <1>2. Room'
    BY DEF Shape, Room, RoomForBlock
  <1>3. Messages'
    BY DEF Shape, Messages
  <1> QED
    BY <1>1, <1>2, <1>3 DEF Shape

LEMMA BootShape == ASSUME Shape, Boot PROVE Shape'
  <1>0. call \in Call /\ Control /\ c \in Client
    BY DEF Shape
  <1>2. pc = "idle" /\ UNCHANGED <<c, net, scan>>
    BY DEF Boot, AwaitParams, ParamsFailed, NameDetectFails, ParamsKnown, DetectFormat,
           LoaderRead, LoaderPeek, LoaderSeek, LoaderDone, DrainRead, DrainQuery, DrainPeek,
           DrainDone, NetCall, NetClose, NetSeek, NetSeekFromEnd, StartCall, netVars
  <1>1. call \in Call /\ Control /\ c \in Client /\ pc' # "packet"
    BY <1>0, <1>2
       DEF Boot, AwaitParams, ParamsFailed, NameDetectFails, ParamsKnown, DetectFormat,
           LoaderRead, LoaderPeek, LoaderSeek, LoaderDone, DrainRead, DrainQuery, DrainPeek,
           DrainDone, NetCall, NetClose, NetSeek, NetSeekFromEnd, StartCall, netVars
  <1>3. /\ c.stream \in StreamType /\ c.fileOffset \in Nat
        /\ Len(c.stream.data) \in 0 .. MAX_SIZE_STREAM_BUFFER
    BY <1>1, LevelType, Sizes DEF Client, Shape, Room
  <1>4. ASSUME NEW op \in {"read", "peek"}, NEW n \in Nat, NetCall(op, n),
               op = "peek" => n <= HEADER_BYTES
        PROVE  /\ call' \in Call
               /\ call'.restart = call.restart /\ call'.got = call.got
               /\ \/ pc' = "top" /\ call'.op = op /\ call'.num_bytes = n /\ ret' = ret
                  \/ n = 0 /\ pc' = "idle" /\ call' = call /\ ret' = -1
    <2>1. CASE n # 0 /\ StartCall(op, n, 0)
      <3>1. call' = [call EXCEPT !.op = op, !.num_bytes = n, !.left = 0]
            /\ pc' = "top" /\ ret' = ret
        BY <2>1 DEF StartCall
      <3>2. call' = StartedCall(call, op, n, 0)
        BY <3>1 DEF StartedCall
      <3> QED
        BY <1>1, <3>1, <3>2, StartedCallType
    <2>2. CASE n = 0 /\ ret' = -1 /\ UNCHANGED <<c, call, pc, scan, net>>
      BY <1>1, <1>2, <2>2
    <2> QED
      BY <1>4, <2>1, <2>2 DEF NetCall
  <1>5. CASE AwaitParams \/ DetectFormat
    <2>1. HEADER_BYTES \in Nat \ {0}
      BY EthBootAssumption
    <2>2. NetCall("peek", HEADER_BYTES) /\ dataSize' = dataSize /\ transfers' = transfers
      BY <1>5 DEF AwaitParams, DetectFormat, appVars
    <2>3. Control' /\ call' \in Call /\ ret' = ret
      BY <1>1, <1>2, <1>4, <1>5, <2>1, <2>2
         DEF Control, Seeking, AwaitParams, DetectFormat, appVars
    <2>4. Asking => app' = "params" /\ ret' = 0
      BY <1>5, <2>3 DEF Asking, AwaitParams, DetectFormat, appVars
    <2> QED
      BY <1>1, <1>2, <2>3, <2>4, SameClient
  <1>6. CASE ParamsFailed \/ NameDetectFails \/ ParamsKnown
    <2>1. Control' /\ call' \in Call
      BY <1>1, <1>2, <1>6
         DEF Control, Seeking, ParamsFailed, NameDetectFails, ParamsKnown, NetClose, netVars
    <2>2. ~Asking
      BY <1>6 DEF Asking, ParamsFailed, NameDetectFails, ParamsKnown
    <2> QED
      BY <1>1, <1>2, <2>1, <2>2, SameClient
  <1>7. CASE (\E n \in ReadSizes : LoaderRead(n)) \/ LoaderPeek \/ DrainPeek \/ DrainRead
    <2>1. PICK op \in {"read", "peek"}, n \in Nat :
             /\ NetCall(op, n)
             /\ op = "peek" => n <= HEADER_BYTES
             /\ dataSize' \in 0 .. MAX_SIZE_STREAM_BUFFER
             /\ app' = app /\ app # "params" /\ transfers' = transfers
      <3>1. CASE \E n \in ReadSizes : LoaderRead(n)
        BY <1>1, <3>1, EthBootAssumption DEF LoaderRead, appVars, Control
      <3>2. CASE LoaderPeek \/ DrainPeek
        <4>1. NetCall("peek", 1) /\ UNCHANGED appVars /\ app # "params"
          BY <3>2 DEF LoaderPeek, DrainPeek
        <4>2. 1 <= HEADER_BYTES
          BY EthBootAssumption
        <4> QED
          BY <1>1, <4>1, <4>2 DEF appVars, Control
      <3>3. CASE DrainRead
        <4> DEFINE n == Min({dataSize, DRAIN_CHUNK})
        <4>1. dataSize \in Nat /\ DRAIN_CHUNK \in Nat \ {0} /\ MAX_SIZE_STREAM_BUFFER \in Nat
          BY <1>1, NetAssumption, Sizes DEF Control
        <4>2. n \in Nat /\ n <= dataSize
          BY <4>1, MinOfTwo
        <4>3. /\ NetCall("read", n) /\ dataSize' = dataSize - n
              /\ app = "drain" /\ app' = app /\ transfers' = transfers
          BY <3>3 DEF DrainRead
        <4> HIDE DEF n
        <4>4. dataSize' \in 0 .. MAX_SIZE_STREAM_BUFFER
          BY <1>1, <4>1, <4>2, <4>3 DEF Control
        <4> QED
          BY <4>2, <4>3, <4>4
      <3> QED
        BY <1>7, <3>1, <3>2, <3>3
    <2>2. Control' /\ call' \in Call
      BY <1>1, <1>2, <1>4, <2>1 DEF Control, Seeking
    <2>3. ~Asking
      BY <1>7 DEF Asking, LoaderRead, LoaderPeek, DrainRead, DrainPeek
    <2> QED
      BY <1>1, <1>2, <2>2, <2>3, SameClient
  <1>8. CASE LoaderSeek
    <2>1. call' \in Call
      <3>1. ASSUME NEW p \in SeekTargets, NetSeek(p) PROVE call' \in Call
        <4>1. p \in Nat
          BY EthBootAssumption
        <4>2. CASE p > c.fileOffset
          <5>1. p - c.fileOffset \in Nat
            BY <1>3, <4>1, <4>2
          <5>2. call' = [NoCall EXCEPT !.op = "skip", !.num_bytes = p - c.fileOffset]
            BY <1>3, <3>1, <4>1, <4>2 DEF NetSeek
          <5> QED
            BY <5>1, <5>2, SeekCalls
        <4>3. CASE p < c.fileOffset
          <5>1. call' = [NoCall EXCEPT !.restart = p]
            BY <1>3, <3>1, <4>1, <4>3 DEF NetSeek
          <5> QED
            BY <4>1, <5>1, SeekCalls
        <4> QED
          BY <1>1, <1>3, <3>1, <4>1, <4>2, <4>3 DEF NetSeek
      <3> QED
        BY <1>1, <1>8, <3>1 DEF LoaderSeek, NetSeekFromEnd
    <2>2. Control'
      <3>1. ASSUME NetSeekFromEnd PROVE Control'
        BY <1>1, <1>2, <1>8, <3>1 DEF Control, Seeking, NetSeekFromEnd, LoaderSeek
      <3>2. ASSUME NEW p \in SeekTargets, NetSeek(p) PROVE Control'
        <4>1. p \in Nat
          BY EthBootAssumption
        <4>2. /\ app' = "load" /\ app = "load" /\ dataSize' = dataSize /\ transfers' = transfers + 1
          BY <1>8 DEF LoaderSeek
        <4>3. \/ call' = call /\ pc' = "idle" /\ ret' = 0
              \/ call'.op = "skip" /\ call'.restart = NotSeeking /\ call'.got = << >>
                 /\ pc' = "top" /\ ret' = ret
              \/ call'.op = "none" /\ call'.restart # NotSeeking /\ call'.got = << >>
                 /\ pc' = "complete" /\ ret' = ret
          <5>1. CASE p > c.fileOffset
            <6>1. p - c.fileOffset \in Nat
              BY <1>3, <4>1, <5>1
            <6>2. call' = [NoCall EXCEPT !.op = "skip", !.num_bytes = p - c.fileOffset]
                  /\ pc' = "top" /\ ret' = ret
              BY <1>3, <3>2, <4>1, <5>1 DEF NetSeek
            <6> QED
              BY <6>1, <6>2, SeekCalls
          <5>2. CASE p < c.fileOffset
            <6>1. call' = [NoCall EXCEPT !.restart = p] /\ pc' = "complete" /\ ret' = ret
              BY <1>3, <3>2, <4>1, <5>2 DEF NetSeek
            <6>2. call'.op = "none" /\ call'.restart = p /\ call'.got = << >> /\ p # NotSeeking
              BY <4>1, <6>1, SeekCalls
            <6> QED
              BY <6>1, <6>2
          <5> QED
            BY <1>2, <1>3, <3>2, <4>1, <5>1, <5>2 DEF NetSeek
        <4> QED
          BY <1>1, <1>2, <4>2, <4>3 DEF Control, Seeking
      <3> QED
        BY <1>8, <3>1, <3>2 DEF LoaderSeek
    <2>3. ~Asking
      BY <1>8 DEF Asking, LoaderSeek
    <2> QED
      BY <1>1, <1>2, <2>1, <2>2, <2>3, SameClient
  <1>9. CASE LoaderDone \/ DrainQuery \/ DrainDone
    <2>1. Control' /\ call' \in Call
      <3>1. CASE LoaderDone
        BY <1>1, <3>1, Sizes DEF LoaderDone, Control, Seeking, netVars
      <3>2. CASE DrainQuery
        BY <1>1, <1>3, <3>2, LevelType DEF DrainQuery, Control, Seeking, netVars
      <3>3. CASE DrainDone
        BY <1>1, <1>2, <3>3 DEF DrainDone, NetClose, Control, Seeking
      <3> QED
        BY <1>9, <3>1, <3>2, <3>3
    <2>2. ~Asking
      BY <1>9 DEF Asking, LoaderDone, DrainQuery, DrainDone
    <2> QED
      BY <1>1, <1>2, <2>1, <2>2, SameClient
  <1> QED
    BY <1>5, <1>6, <1>7, <1>8, <1>9 DEF Boot

Quiet ==
    \/ ReturnError \/ ReturnClosed \/ TimerDue \/ TimerNotDue \/ StreamDry \/ NoPacket
    \/ CompleteRead \/ CompleteQuery \/ CompletePeek

LEMMA ReturnControl ==
    ASSUME call \in Call, Control, pc \in {"top", "copy"}, UNCHANGED <<scan, appVars>>,
           c'.have_params = c.have_params, NEW v \in {0, -1}, Return(v)
    PROVE  /\ Control' /\ call' \in Call
           /\ ret' = v /\ call'.op = "none" /\ call'.got = << >>
           /\ call'.restart = call.restart
           /\ pc' \in {"idle", "complete"}
  <1>1. /\ ret' = v /\ call' = ReturnedCall(call)
        /\ pc' = IF call.restart = NotSeeking THEN "idle" ELSE "complete"
    BY DEF Return, ReturnedCall
  <1>2. /\ call' \in Call /\ call'.op = "none" /\ call'.got = << >>
        /\ call'.restart = call.restart
    BY <1>1, ReturnedCallType
  <1>3. Control'
    BY <1>1, <1>2 DEF Control, Seeking, appVars
  <1> QED
    BY <1>1, <1>2, <1>3

LEMMA QuietShape == ASSUME Shape, Quiet, UNCHANGED appVars PROVE Shape'
  <1>1. call \in Call /\ Control /\ c \in Client /\ Phase
    BY DEF Shape
  <1>2. UNCHANGED <<c, net, scan>>
    BY DEF Quiet, ReturnError, ReturnClosed, TimerDue, TimerNotDue, StreamDry, NoPacket,
           CompleteRead, CompleteQuery, CompletePeek, StartCall
  <1>3. /\ c.stream \in StreamType
        /\ Len(c.stream.data) \in 0 .. MAX_SIZE_STREAM_BUFFER
    BY <1>1, LevelType, Sizes DEF Client, Shape, Room
  <1>4. CASE ReturnError
    <2>1. Return(-1) /\ pc = "top" /\ c.error_flag
      BY <1>4 DEF ReturnError
    <2>2. Control' /\ call' \in Call /\ pc' # "packet"
      BY <1>1, <1>2, <2>1, ReturnControl
    <2>3. ~Asking
      BY <2>1 DEF Asking
    <2> QED
      BY <1>2, <2>2, <2>3, SameClient
  <1>5. CASE ReturnClosed
    <2>1. PICK v \in {0, -1} : Return(v)
      BY <1>5 DEF ReturnClosed
    <2>2. pc = "top" /\ StreamLevel(c.stream) < 0
      BY <1>5 DEF ReturnClosed
    <2>3. Control' /\ call' \in Call /\ pc' # "packet"
      BY <1>1, <1>2, <2>1, <2>2, ReturnControl
    <2>4. ~Asking
      BY <1>3, <2>2, LevelType DEF Asking, OpenStream
    <2> QED
      BY <1>2, <2>3, <2>4, SameClient
  <1>6. CASE TimerDue \/ TimerNotDue \/ NoPacket
    <2>1. Control' /\ call' \in Call /\ pc' # "packet" /\ ret' = ret
      BY <1>1, <1>2, <1>6 DEF TimerDue, TimerNotDue, NoPacket, Control, Seeking, appVars
    <2>2. Asking => app' = "params" /\ ret' = 0
      BY <2>1 DEF Asking, appVars
    <2> QED
      BY <1>2, <2>1, <2>2, SameClient
  <1>7. CASE StreamDry
    <2>1. Control' /\ call' \in Call /\ ret' = ret
      BY <1>1, <1>2, <1>7 DEF StreamDry, Control, Seeking, appVars
    <2>2. Asking => app' = "params" /\ ret' = 0
      BY <2>1 DEF Asking, appVars
    <2>3. Len(c.stream.data) = 0
      BY <1>3, <1>7, LevelType DEF StreamDry, StreamIsEmpty
    <2>4. Len(c.stream.data) + TFTP_DATA_SIZE <= MAX_SIZE_STREAM_BUFFER
      BY <2>3, Sizes DEF D
    <2> QED
      BY <1>2, <2>1, <2>2, <2>4, SameClient
  <1>8. CASE CompleteRead \/ CompletePeek
    <2>1. PICK op \in {"read", "peek"}, n \in Nat, left \in Nat :
             /\ StartCall(op, n, left)
             /\ op = "peek" => n <= HEADER_BYTES
      <3>1. CASE CompleteRead
        <4> DEFINE n == Min({call.left, DRAIN_CHUNK})
        <4>1. call.left \in Nat /\ DRAIN_CHUNK \in Nat
          BY <1>1, NetAssumption DEF Call
        <4>2. n \in Nat /\ call.left - n \in Nat
          BY <4>1, MinOfTwo
        <4>3. StartCall("read", n, call.left - n)
          BY <3>1 DEF CompleteRead
        <4> HIDE DEF n
        <4> QED
          BY <4>2, <4>3
      <3>2. CASE CompletePeek
        <4>1. 1 <= HEADER_BYTES
          BY EthBootAssumption
        <4> QED
          BY <3>2, <4>1 DEF CompletePeek
      <3> QED
        BY <1>8, <3>1, <3>2
    <2>2. /\ call' = StartedCall(call, op, n, left) /\ pc' = "top" /\ ret' = ret
          /\ pc = "complete"
      BY <1>8, <2>1 DEF StartCall, StartedCall, CompleteRead, CompletePeek
    <2>3. /\ call' \in Call /\ call'.op = op /\ call'.num_bytes = n
          /\ call'.got = call.got /\ call'.restart = call.restart
      <3>1. call \in Call /\ op \in {"read", "peek"}
        BY <1>1
      <3> QED
        BY <2>2, <3>1 DEF Call, StartedCall
    <2>4. Control'
      BY <1>1, <1>2, <2>1, <2>2, <2>3 DEF Control, Seeking, appVars
    <2>5. ~Asking
      BY <1>1, <2>2 DEF Asking, Control
    <2> QED
      BY <1>2, <2>2, <2>3, <2>4, <2>5, SameClient
  <1>9. CASE CompleteQuery
    <2>1. pc = "complete" /\ pc' = "complete" /\ ret' = ret
          /\ call' = [call EXCEPT !.left = StreamLevel(c.stream)]
          /\ StreamLevel(c.stream) > 0
      BY <1>9 DEF CompleteQuery
    <2>2. StreamLevel(c.stream) \in Nat
      BY <1>3, <2>1, LevelType
    <2>3. /\ call' \in Call /\ call'.op = call.op /\ call'.num_bytes = call.num_bytes
          /\ call'.got = call.got /\ call'.restart = call.restart
      <3> DEFINE left == StreamLevel(c.stream)
      <3>1. left \in Nat /\ call' = [call EXCEPT !.left = left]
        BY <2>1, <2>2
      <3> HIDE DEF left
      <3> QED
        BY <1>1, <3>1 DEF Call
    <2>4. Control'
      BY <1>1, <1>2, <2>1, <2>3 DEF Control, Seeking, appVars
    <2>5. ~Asking
      BY <1>1, <2>1 DEF Asking, Control
    <2> QED
      BY <1>2, <2>1, <2>3, <2>4, <2>5, SameClient
  <1> QED
    BY <1>4, <1>5, <1>6, <1>7, <1>8, <1>9 DEF Quiet

\* What a server sends.
LEMMA ServersMessages ==
    ASSUME Messages, Servers
    PROVE  Messages' /\ UNCHANGED <<c, call, ret, pc, scan>>
  <1>1. UNCHANGED <<c, call, ret, pc, scan>>
    BY DEF Servers, TftpServerAccept, TftpServerNext, TftpServerError, BootpServerReply
  <1>2. ASSUME NEW port \in Ports, NEW num \in 1 .. LastBlock, SendData(port, num)
        PROVE  Messages'
    <2> DEFINE m == DataMessage(port, num)
    <2>1. m.type = "DATA" /\ m.port = port /\ m.num = num /\ m.block = Mod(num)
      BY DEF DataMessage
    <2>2. net' \subseteq net \cup {m}
      BY <1>2 DEF SendData
    <2> HIDE DEF m
    <2> QED
      BY <1>2, <2>1, <2>2 DEF Messages
  <1>3. ASSUME NEW port \in Ports, TftpServerAccept(port) PROVE Messages'
    <2>1. 1 \in 1 .. LastBlock
      BY Blocks1
    <2> QED
      BY <1>2, <1>3, <2>1 DEF TftpServerAccept
  <1>4. ASSUME NEW port \in Ports, TftpServerNext(port) PROVE Messages'
    <2> DEFINE S == {m.num : m \in DataSent(port)}
    <2>1. S \subseteq 0 .. LastBlock /\ S # {} /\ S \subseteq 1 .. LastBlock
      BY <1>4 DEF TftpServerNext, DataSent, Messages
    <2>2. LastBlock \in Nat
      BY Blocks1
    <2>3. Max(S) \in S
      BY <2>1, <2>2, MaxOf
    <2>4. Max(S) < LastBlock /\ SendData(port, Max(S) + 1)
      BY <1>4 DEF TftpServerNext
    <2>5. Max(S) + 1 \in 1 .. LastBlock
      BY <2>1, <2>2, <2>3, <2>4
    <2> QED
      BY <1>2, <2>4, <2>5
  <1>5. ASSUME NEW port \in Ports, TftpServerError(port) PROVE Messages'
    BY <1>5 DEF TftpServerError, Messages
  <1>6. ASSUME NEW server \in BOOLEAN, BootpServerReply(server) PROVE Messages'
    BY <1>6 DEF BootpServerReply, Messages
  <1> QED
    BY <1>1, <1>3, <1>4, <1>5, <1>6 DEF Servers

LEMMA ServersShape == ASSUME Shape, Servers, UNCHANGED appVars PROVE Shape'
  <1>1. Messages' /\ UNCHANGED <<c, call, ret, pc, scan, app, dataSize, transfers>>
    BY ServersMessages DEF Shape, appVars
  <1> QED
    BY <1>1 DEF Shape, Phase, Idle, Asking, Fetching, OnTftpSocket, Control, Seeking,
                Room, RoomForBlock

-----------------------------------------------------------------------------
(* What the steps that change the client do to it, with what the handlers  *)
(* are proved to do.                                                       *)

Committed(e) ==
    /\ c' \in Client /\ c'.sent = {}
    /\ c'.stream = e.stream /\ c'.timers = e.timers /\ c'.socks = e.socks
    /\ c'.tftp = e.tftp /\ c'.bootp = e.bootp
    /\ c'.error_flag = e.error_flag /\ c'.have_params = e.have_params
    /\ Frame(e, c')
    /\ net' = net \cup e.sent

LEMMA CommitEffect == ASSUME NEW e \in Client, Commit(e) PROVE Committed(e)
  BY DEF Commit, Committed, Client, Frame

\* What a server or a timer routine sends is no block and no reply.
LEMMA SentMessages ==
    ASSUME Messages, NEW e \in Client, Committed(e)
    PROVE  Messages'
  <1>1. \A m \in e.sent : m.type \in {"RRQ", "ACK", "BOOTREQ"}
    BY DEF Client, Message
  <1> QED
    BY <1>1 DEF Messages, Committed

\* The client after a tick, before the routine of the timer runs.
Ticked(d) ==
    /\ d.timers = CountDown(c.timers, scan)
    /\ d.stream = c.stream /\ d.socks = c.socks /\ d.tftp = c.tftp /\ d.bootp = c.bootp
    /\ d.error_flag = c.error_flag /\ d.have_params = c.have_params
    /\ d.sent = {}
    /\ Frame(c, d)

TftpExpired(d, e) ==
    /\ Frame(d, e)
    /\ e.have_params = d.have_params
    /\ e.bootp = d.bootp
    /\ e.tftp.state = d.tftp.state
    /\ e.tftp.block_num = d.tftp.block_num
    /\ e.tftp.num_retransmits \in {d.tftp.num_retransmits, d.tftp.num_retransmits + 1}
    /\ GaveUp(d, e) \/ RequestedAgain(d, e)

BootpExpired(d, e) ==
    /\ Frame(d, e)
    /\ e.have_params = d.have_params
    /\ e.tftp = d.tftp
    /\ e.bootp.num_request = d.bootp.num_request + 1
    /\ BootpGaveUp(d, e) \/ BackedOff(d, e)
    /\ \A n \in e.sent : n \in d.sent \/ n.type = "BOOTREQ"

Runs(expiry) == Expires(c.timers, scan) /\ c.timers.timer[scan].expiry = expiry

LEMMA ScanEffect ==
    ASSUME c \in Client, c.sent = {}, scan \in Blocks, ScanTimer
    PROVE  /\ pc = "scan" /\ pc' \in {"scan", "copy"} /\ scan' \in Blocks
           /\ pc' = "scan" <=> scan + 1 \in Blocks
           /\ pc' = "scan" => scan' = scan + 1
           /\ pc' = "copy" => scan' = 0
           /\ UNCHANGED <<call, ret>>
           /\ \E d \in Client, e \in Client :
                 /\ Ticked(d) /\ Committed(e)
                 /\ \/ e = d /\ ~Expires(c.timers, scan)
                    \/ Runs("tftp_timer_expiry") /\ TftpExpired(d, e)
                    \/ Runs("bootp_tmr_expiry") /\ BootpExpired(d, e)
  <1> DEFINE d == [c EXCEPT !.timers = CountDown(@, scan)]
             e == IF Expires(c.timers, scan)
                  THEN RunExpiry(d, c.timers.timer[scan].expiry) ELSE d
             t == CountDown(c.timers, scan)
  <1>1. /\ pc = "scan" /\ pc' \in {"scan", "copy"} /\ scan' \in Blocks
        /\ pc' = "scan" <=> scan + 1 \in Blocks
        /\ pc' = "scan" => scan' = scan + 1
        /\ pc' = "copy" => scan' = 0
        /\ UNCHANGED <<call, ret>>
    BY ZeroIsABlock DEF ScanTimer
  <1>2. t \in Timers
    BY TimerTypes DEF Client
  <1>3. d = [c EXCEPT !.timers = t]
    OBVIOUS
  <1>4. Commit(e)
    BY DEF ScanTimer
  <1> HIDE DEF t, d
  <1>5. d \in Client /\ Ticked(d)
    BY <1>2, <1>3 DEF Client, Ticked, Frame, t
  <1>6. c.timers.timer[scan].expiry \in Expiries \cup {"NULL"}
    BY DEF Client, Timers, TimerBlock
  <1>7. CASE ~Expires(c.timers, scan)
    <2>1. e = d
      BY <1>7
    <2> HIDE DEF e
    <2> QED
      BY <1>1, <1>4, <1>5, <1>7, <2>1, CommitEffect
  <1>8. CASE Runs("tftp_timer_expiry")
    <2>1. e = TftpTimerExpiry(d)
      BY <1>8 DEF Runs, RunExpiry
    <2> HIDE DEF e
    <2>2. e \in Client /\ TftpExpired(d, e)
      BY <1>5, <2>1, TftpTimerExpiryEffect DEF TftpExpired
    <2> QED
      BY <1>1, <1>4, <1>5, <1>8, <2>2, CommitEffect
  <1>9. CASE Runs("bootp_tmr_expiry")
    <2>1. e = BootpTmrExpiry(d)
      BY <1>9 DEF Runs, RunExpiry
    <2> HIDE DEF e
    <2>2. e \in Client /\ BootpExpired(d, e)
      BY <1>5, <2>1, BootpTmrExpiryEffect DEF BootpExpired
    <2> QED
      BY <1>1, <1>4, <1>5, <1>9, <2>2, CommitEffect
  <1>10. Expires(c.timers, scan) => Runs("tftp_timer_expiry") \/ Runs("bootp_tmr_expiry")
    BY <1>6 DEF Runs, Expires, Expiries
  <1> QED
    BY <1>7, <1>8, <1>9, <1>10

LEMMA ClosedSocket == ASSUME Phase PROVE SockClose(c.socks, 0) = UdpInit
  BY NoSocket, OnlySocket
     DEF Phase, Idle, Asking, Fetching, OnTftpSocket, BootpSocket, LocalPorts

\* A tick leaves the transfer as it was, or ends it in error.
Kept ==
    /\ c'.stream = c.stream /\ c'.socks = c.socks
    /\ c'.error_flag = c.error_flag
    /\ c'.tftp.state = c.tftp.state /\ c'.tftp.block_num = c.tftp.block_num

Lost ==
    /\ c'.error_flag
    /\ c'.socks = UdpInit
    /\ c'.stream \in {c.stream, CloseStream(c.stream)}

LEMMA ScanOutcome ==
    ASSUME Shape, ScanTimer
    PROVE  /\ c' \in Client /\ c'.sent = {}
           /\ c'.fileOffset = c.fileOffset /\ c'.have_params = c.have_params
           /\ Kept \/ Lost
           /\ Messages'
           /\ \A m \in net' \ net : m.type # "ACK"
  <1>1. c \in Client /\ c.sent = {} /\ scan \in Blocks /\ Phase /\ Messages
    BY DEF Shape, Control
  <1>2. PICK d \in Client, e \in Client :
                 /\ Ticked(d) /\ Committed(e)
                 /\ \/ e = d /\ ~Expires(c.timers, scan)
                    \/ Runs("tftp_timer_expiry") /\ TftpExpired(d, e)
                    \/ Runs("bootp_tmr_expiry") /\ BootpExpired(d, e)
    BY <1>1, ScanEffect
  <1>3. SockClose(d.socks, 0) = UdpInit
    BY <1>1, <1>2, ClosedSocket DEF Ticked
  <1>4. /\ c'.fileOffset = c.fileOffset /\ c'.have_params = c.have_params
        /\ Kept \/ Lost
        /\ \A m \in e.sent : m.type # "ACK"
    <2>1. CASE e = d
      BY <1>2, <2>1 DEF Ticked, Committed, Frame, Kept
    <2>2. CASE TftpExpired(d, e) /\ GaveUp(d, e)
      BY <1>2, <1>3, <2>2 DEF Ticked, Committed, Frame, Lost, TftpExpired, GaveUp
    <2>3. CASE TftpExpired(d, e) /\ RequestedAgain(d, e)
      BY <1>2, <1>3, <2>3 DEF Ticked, Committed, Frame, Kept, TftpExpired, RequestedAgain
    <2>4. CASE BootpExpired(d, e) /\ BootpGaveUp(d, e)
      BY <1>2, <1>3, <2>4 DEF Ticked, Committed, Frame, Lost, BootpExpired, BootpGaveUp
    <2>5. CASE BootpExpired(d, e) /\ BackedOff(d, e)
      BY <1>2, <1>3, <2>5 DEF Ticked, Committed, Frame, Kept, BootpExpired, BackedOff
    <2> QED
      BY <1>2, <2>1, <2>2, <2>3, <2>4, <2>5 DEF TftpExpired, BootpExpired
  <1>5. Messages'
    BY <1>1, <1>2, SentMessages
  <1> QED
    BY <1>2, <1>4, <1>5 DEF Committed

LEMMA ScanShape == ASSUME Shape, ScanTimer, UNCHANGED appVars PROVE Shape'
  <1>1. /\ c' \in Client /\ c'.sent = {}
        /\ c'.fileOffset = c.fileOffset /\ c'.have_params = c.have_params
        /\ Kept \/ Lost
        /\ Messages'
    BY ScanOutcome
  <1>2. /\ call \in Call /\ Control /\ Phase /\ Room /\ scan \in Blocks
        /\ c \in Client /\ c.sent = {}
    BY DEF Shape, Control
  <1>3. /\ pc = "scan" /\ pc' \in {"scan", "copy"} /\ scan' \in Blocks
        /\ UNCHANGED <<call, ret>>
    BY <1>2, ScanEffect
  <1>4. Phase'
    <2>1. CASE Kept
      BY <1>1, <1>2, <1>3, <2>1
         DEF Kept, Phase, Idle, Asking, Fetching, OnTftpSocket, appVars
    <2>2. CASE Lost
      BY <2>2 DEF Lost, Phase, Idle
    <2> QED
      BY <1>1, <2>1, <2>2
  <1>5. Control'
    BY <1>1, <1>2, <1>3 DEF Control, Seeking, appVars
  <1>6. Room'
    BY <1>1, <1>2, <1>3 DEF Room, RoomForBlock, Kept, Lost, CloseStream
  <1> QED
    BY <1>1, <1>2, <1>3, <1>4, <1>5, <1>6 DEF Shape

-----------------------------------------------------------------------------
(* Copying from the stream.                                                *)

Copied == Available(c.stream, call.num_bytes)

Taken == SubSeq(c.stream.data, 1, Copied)

LEMMA CopyEffect ==
    ASSUME c \in Client, c.sent = {}, call \in Call, CopyStream
    PROVE  /\ pc = "copy" /\ c.stream.data # << >> /\ UNCHANGED <<scan, net>>
           /\ Copied \in Nat /\ Copied <= Len(c.stream.data) /\ Copied <= call.num_bytes
           /\ Copied # call.num_bytes => Copied = Len(c.stream.data)
           /\ Taken \in Seq(Byte) /\ Len(Taken) = Copied
           /\ c' \in Client /\ c'.sent = {}
           /\ c'.timers = c.timers /\ c'.socks = c.socks /\ c'.tftp = c.tftp
           /\ c'.bootp = c.bootp /\ c'.error_flag = c.error_flag
           /\ c'.have_params = c.have_params /\ c'.use_server = c.use_server
           /\ c'.stream.is_open = c.stream.is_open
           /\ call.op \in {"read", "skip"} =>
                 /\ c'.stream.data = SubSeq(c.stream.data, Copied + 1, Len(c.stream.data))
                 /\ Len(c'.stream.data) = Len(c.stream.data) - Copied
                 /\ c'.fileOffset = c.fileOffset + Copied
           /\ call.op \notin {"read", "skip"} => c' = c
           /\ IF Copied = call.num_bytes
              THEN Return(IF c.error_flag THEN -1 ELSE 0)
              ELSE /\ pc' = "packet" /\ ret' = ret /\ call' \in Call
                   /\ call'.op = call.op /\ call'.restart = call.restart
                   /\ call'.num_bytes = call.num_bytes - Copied
                   /\ call'.got = IF call.op = "skip" THEN << >> ELSE call.got \o Taken
  <1> DEFINE n == call.num_bytes
             data == c.stream.data
             k == Copied
             st == AfterRead(c.stream, n)
             off == c.fileOffset + k
             got == IF call.op = "skip" THEN << >> ELSE call.got \o Taken
             left == n - k
  <1>1. c.stream \in StreamType /\ c.fileOffset \in Nat /\ n \in Nat
    BY DEF Client, Call
  <1>2. data \in Seq(Byte) /\ Len(data) \in Nat /\ c.stream.is_open \in BOOLEAN
    BY <1>1 DEF StreamType
  <1>3. /\ k \in Nat /\ k <= Len(data) /\ k <= n /\ (k # n => k = Len(data))
    BY <1>1, <1>2 DEF Copied, Available
  <1>4. Taken \in Seq(Byte) /\ Len(Taken) = k
    BY <1>2, <1>3 DEF Taken
  <1>5. /\ st.data = SubSeq(data, k + 1, Len(data)) /\ st.is_open = c.stream.is_open
        /\ st \in StreamType /\ Len(st.data) = Len(data) - k
    <2>1. SubSeq(data, k + 1, Len(data)) \in Seq(Byte)
          /\ Len(SubSeq(data, k + 1, Len(data))) = Len(data) - k
      BY <1>2, <1>3
    <2> QED
      BY <1>2, <2>1 DEF AfterRead, StreamType, Copied
  <1>6. off \in Nat /\ left \in Nat /\ got \in Seq(Byte)
    BY <1>1, <1>3, <1>4 DEF Call
  <1>7. PeekBytes(c.stream, n) = Taken
    BY DEF PeekBytes, Taken, Copied
  <1>8. /\ pc = "copy" /\ data # << >> /\ UNCHANGED <<scan, net>>
        /\ c' = IF call.op \in {"read", "skip"}
                THEN [c EXCEPT !.stream = st, !.fileOffset = off] ELSE c
        /\ IF left = 0
           THEN Return(IF c.error_flag THEN -1 ELSE 0)
           ELSE /\ call' = [call EXCEPT !.num_bytes = left, !.got = got]
                /\ pc' = "packet" /\ ret' = ret
    <2>1. got = Got(call.got, Taken)
      BY DEF Got
    <2> HIDE DEF got
    <2>2. /\ pc = "copy" /\ data # << >> /\ UNCHANGED <<scan, net>>
          /\ c' = IF call.op \in {"read", "skip"}
                  THEN [c EXCEPT !.stream = AfterRead(@, n), !.fileOffset = @ + Len(Taken)]
                  ELSE c
      BY <1>7 DEF CopyStream, StreamIsEmpty
    <2>3. IF n - Len(Taken) = 0
          THEN Return(IF c.error_flag THEN -1 ELSE 0)
          ELSE /\ call' = [call EXCEPT !.num_bytes = n - Len(Taken), !.got = Got(@, Taken)]
               /\ pc' = "packet" /\ ret' = ret
      BY <1>7 DEF CopyStream
    <2> QED
      BY <1>4, <2>1, <2>2, <2>3
  <1> HIDE DEF st, off, got, left
  <1>9. /\ c' \in Client /\ c'.sent = {}
        /\ c'.timers = c.timers /\ c'.socks = c.socks /\ c'.tftp = c.tftp
        /\ c'.bootp = c.bootp /\ c'.error_flag = c.error_flag
        /\ c'.have_params = c.have_params /\ c'.use_server = c.use_server
        /\ (call.op \in {"read", "skip"} => c'.stream = st /\ c'.fileOffset = off)
        /\ (call.op \notin {"read", "skip"} => c' = c)
    BY <1>5, <1>6, <1>8 DEF Client
  <1>10. c'.stream.is_open = c.stream.is_open
    BY <1>5, <1>9
  <1>11. IF k = n
         THEN Return(IF c.error_flag THEN -1 ELSE 0)
         ELSE /\ pc' = "packet" /\ ret' = ret /\ call' \in Call
              /\ call'.op = call.op /\ call'.restart = call.restart
              /\ call'.num_bytes = left /\ call'.got = got
    <2>1. left = 0 <=> k = n
      BY <1>1, <1>3 DEF left
    <2>2. CASE left = 0
      BY <1>8, <2>1, <2>2
    <2>3. CASE left # 0
      BY <1>6, <1>8, <2>1, <2>3 DEF Call
    <2> QED
      BY <2>2, <2>3
  <1> QED
    BY <1>3, <1>4, <1>5, <1>8, <1>9, <1>10, <1>11 DEF off, got, left

LEMMA CopyShape == ASSUME Shape, CopyStream, UNCHANGED appVars PROVE Shape'
  <1>1. /\ call \in Call /\ Control /\ Phase /\ Room /\ Messages
        /\ c \in Client /\ c.sent = {}
    BY DEF Shape
  <1>2. /\ pc = "copy" /\ c.stream.data # << >> /\ UNCHANGED <<scan, net>>
        /\ Copied \in Nat /\ Copied <= Len(c.stream.data) /\ Copied <= call.num_bytes
        /\ Copied # call.num_bytes => Copied = Len(c.stream.data)
        /\ c' \in Client /\ c'.sent = {}
        /\ c'.socks = c.socks /\ c'.tftp = c.tftp
        /\ c'.error_flag = c.error_flag /\ c'.have_params = c.have_params
        /\ c'.stream.is_open = c.stream.is_open
        /\ call.op \in {"read", "skip"} => Len(c'.stream.data) = Len(c.stream.data) - Copied
        /\ call.op \notin {"read", "skip"} => c' = c
        /\ IF Copied = call.num_bytes
           THEN Return(IF c.error_flag THEN -1 ELSE 0)
           ELSE /\ pc' = "packet" /\ ret' = ret /\ call' \in Call
                /\ call'.op = call.op /\ call'.restart = call.restart
                /\ call'.num_bytes = call.num_bytes - Copied
                /\ call'.got = IF call.op = "skip" THEN << >> ELSE call.got \o Taken
    BY <1>1, CopyEffect
  <1>3. ~Asking
    BY <1>2 DEF Asking, OpenStream
  <1>4. Phase'
    BY <1>1, <1>2, <1>3 DEF Phase, Idle, Fetching, OnTftpSocket
  <1>5. /\ Len(c.stream.data) \in Nat /\ Len(c'.stream.data) \in Nat /\ call.num_bytes \in Nat
        /\ TFTP_DATA_SIZE \in Nat /\ MAX_SIZE_STREAM_BUFFER \in Nat
    BY <1>1, <1>2, LevelType, Sizes DEF Client, Call, D
  <1>6. CASE Copied = call.num_bytes
    <2>1. Return(IF c.error_flag THEN -1 ELSE 0)
      BY <1>2, <1>6
    <2>2. PICK v \in {0, -1} : Return(v)
      BY <2>1
    <2>3. Control' /\ call' \in Call /\ pc' # "packet"
      BY <1>1, <1>2, <2>2, ReturnControl
    <2>4. Room'
      BY <1>1, <1>2, <1>5, <2>3 DEF Room, RoomForBlock
    <2> QED
      BY <1>1, <1>2, <1>4, <2>3, <2>4 DEF Shape, Messages
  <1>7. CASE Copied # call.num_bytes
    <2>1. Control'
      <3>1. call.op = "peek" => call'.num_bytes <= HEADER_BYTES
        BY <1>1, <1>2, <1>5, <1>7, EthBootAssumption DEF Control
      <3> QED
        BY <1>1, <1>2, <1>7, <3>1 DEF Control, Seeking, appVars
    <2>2. Len(c'.stream.data) + TFTP_DATA_SIZE <= MAX_SIZE_STREAM_BUFFER
      <3>1. CASE call.op \in {"read", "skip"}
        BY <1>2, <1>5, <1>7, <3>1, Sizes DEF D
      <3>2. CASE call.op = "peek"
        <4>1. Len(c'.stream.data) < call.num_bytes /\ call.num_bytes <= HEADER_BYTES
          BY <1>1, <1>2, <1>5, <1>7, <3>2 DEF Control
        <4> QED
          BY <1>5, <4>1, EthBootAssumption
      <3> QED
        BY <1>1, <1>2, <3>1, <3>2 DEF Call, Control
    <2>3. Room'
      BY <1>5, <2>2 DEF Room, RoomForBlock
    <2> QED
      BY <1>1, <1>2, <1>4, <1>7, <2>1, <2>3 DEF Shape, Messages
  <1> QED
    BY <1>6, <1>7

-----------------------------------------------------------------------------
(* A packet.                                                               *)

LEMMA OnlyListener ==
    ASSUME Phase, NEW p \in LocalPorts, Listeners(c.socks, p) # {}
    PROVE  /\ Min(Listeners(c.socks, p)) = 0
           /\ p = "bootpc" => Asking
           /\ p = "tftp" => Fetching
  <1>1. ~Idle
    BY NoSocket DEF Idle
  <1>2. CASE Asking
    <2>1. c.socks = OneSocket("bootpc", "bootps") /\ "bootpc" \in LocalPorts
      BY <1>2 DEF Asking, BootpSocket, LocalPorts
    <2>2. p = "bootpc"
      BY <2>1, OnlySocket
    <2> QED
      BY <1>2, <2>1, <2>2, OnlySocket
  <1>3. CASE Fetching
    <2>1. PICK r \in RemotePorts : c.socks = OneSocket("tftp", r)
      BY <1>3 DEF Fetching, OnTftpSocket
    <2>2. p = "tftp" /\ "tftp" \in LocalPorts
      BY <2>1, OnlySocket DEF LocalPorts
    <2> QED
      BY <1>3, <2>1, <2>2, OnlySocket
  <1> QED
    BY <1>1, <1>2, <1>3 DEF Phase

\* What the client makes of the three kinds of packet.
TakesReply(e) ==
    /\ Asking
    /\ e.have_params /\ e.bootp = c.bootp
    /\ \E f \in Client : /\ Answered(c, f)
                         /\ NoServer(f, e) \/ NoTimerLeft(f, e) \/ Requested(f, e)

TakesError(e) ==
    /\ Fetching
    /\ e.have_params = c.have_params /\ e.bootp = c.bootp
    /\ e.tftp.state = c.tftp.state
    /\ e.tftp.block_num = c.tftp.block_num
    /\ e.tftp.num_retransmits = c.tftp.num_retransmits
    /\ GaveUp(c, e)

TakesBlock(e, m) ==
    /\ Fetching
    /\ e.have_params = c.have_params /\ e.bootp = c.bootp
    /\ e.tftp.state = "DATA_RECEIVE"
    /\ e.tftp.num_retransmits \in {0, 1, c.tftp.num_retransmits, c.tftp.num_retransmits + 1}
    /\ Rejected(c, e) \/ Duplicate(c, e) \/ Stored(c, e, Packet(m)) \/ Finished(c, e, Packet(m))

\* The packet a block comes in.
LEMMA BlockPacket ==
    ASSUME Messages, NEW m \in net, m.type = "DATA"
    PROVE  /\ Packet(m).type = "DATA" /\ Packet(m).port = m.port /\ m.port \in Ports
           /\ Packet(m).block = m.block /\ m.block = Mod(m.num)
           /\ m.num \in 1 .. LastBlock
           /\ Packet(m).data = FileBytes((m.num - 1) * D, BlockLen(m.num))
           /\ Packet(m).data \in Seq(Byte)
           /\ Len(Packet(m).data) = BlockLen(m.num)
           /\ BlockLen(m.num) \in Nat /\ BlockLen(m.num) <= D
  <1>1. m.num \in 1 .. LastBlock /\ m.port \in Ports /\ m.block = Mod(m.num)
    BY DEF Messages
  <1>2. /\ Packet(m).type = "DATA" /\ Packet(m).port = m.port
        /\ Packet(m).block = m.block /\ Packet(m).data = BlockData(m.num)
    BY DEF Packet
  <1>3. ASSUME NEW num \in 1 .. LastBlock
        PROVE  /\ BlockLen(num) \in Nat /\ BlockLen(num) <= D /\ (num - 1) * D \in Nat
               /\ (num - 1) * D + BlockLen(num) <= FileLen
    <2>1. /\ BlockLen(num) \in 0 .. D /\ (num - 1) * D \in Nat
          /\ (num - 1) * D + BlockLen(num) <= FileLen
      BY BlockLengths
    <2> DEFINE len == BlockLen(num)
    <2>2. len \in 0 .. D
      BY <2>1
    <2> HIDE DEF len
    <2>3. len \in Nat /\ len <= D
      BY <2>2, Sizes
    <2> QED
      BY <2>1, <2>3 DEF len
  <1>4. Packet(m).data = FileBytes((m.num - 1) * D, BlockLen(m.num))
    BY <1>1, <1>2, BlockIsFileBytes
  <1>5. /\ BlockLen(m.num) \in Nat /\ BlockLen(m.num) <= D /\ (m.num - 1) * D \in Nat
        /\ (m.num - 1) * D + BlockLen(m.num) <= FileLen
    BY <1>1, <1>3
  <1>6. Packet(m).data \in Seq(Byte) /\ Len(Packet(m).data) = BlockLen(m.num)
    BY <1>4, <1>5, FileBytesLen
  <1> QED
    BY <1>1, <1>2, <1>4, <1>5, <1>6

LEMMA PacketEffect ==
    ASSUME Shape, NEW m \in FromServer, ProcPacket(m)
    PROVE  /\ pc = "packet" /\ pc' = "top" /\ UNCHANGED <<call, ret, scan>>
           /\ \E e \in Client :
                 /\ Committed(e) /\ Frame(c, e)
                 /\ \/ m.type = "BOOTREP" /\ TakesReply(e)
                    \/ m.type = "ERROR" /\ TakesError(e)
                    \/ m.type = "DATA" /\ TakesBlock(e, m)
  <1> DEFINE p == LocalPort(m)
             e == IF p = "bootpc"
                  THEN BootpReceive(c, 0, m)
                  ELSE TftpReceive(c, 0, Packet(m))
  <1>1. /\ pc = "packet" /\ pc' = "top" /\ UNCHANGED <<call, ret, scan>>
        /\ Listeners(c.socks, p) # {}
    BY DEF ProcPacket
  <1>2. m \in net /\ m.type \in {"DATA", "ERROR", "BOOTREP"}
    BY DEF FromServer
  <1>3. c \in Client /\ c.sent = {} /\ Phase /\ Messages /\ Room
    BY DEF Shape
  <1>4. p \in LocalPorts /\ (p = "bootpc" <=> m.type = "BOOTREP")
    BY <1>2 DEF LocalPort, LocalPorts
  <1>5. Min(Listeners(c.socks, p)) = 0 /\ (p = "bootpc" => Asking) /\ (p = "tftp" => Fetching)
    BY <1>1, <1>3, <1>4, OnlyListener
  <1>6. Commit(e)
    BY <1>5 DEF ProcPacket
  <1>7. CASE m.type = "BOOTREP"
    <2>1. e = BootpReceive(c, 0, m) /\ Asking /\ m.server \in BOOLEAN
      BY <1>2, <1>3, <1>4, <1>5, <1>7 DEF Messages
    <2> HIDE DEF e, p
    <2>2. e \in Client /\ Frame(c, e) /\ TakesReply(e)
      BY <1>3, <2>1, BootpReceiveEffect DEF Asking, TakesReply
    <2> QED
      BY <1>1, <1>6, <1>7, <2>2, CommitEffect
  <1>8. CASE m.type = "ERROR"
    <2>1. e = TftpFail(c) /\ Fetching
      BY <1>4, <1>5, <1>8 DEF LocalPorts, TftpReceive, Packet
    <2> HIDE DEF e, p
    <2>2. e \in Client /\ Frame(c, e) /\ TakesError(e)
      BY <1>3, <2>1, TftpFailEffect DEF TakesError, GaveUp
    <2> QED
      BY <1>1, <1>6, <1>8, <2>2, CommitEffect
  <1>9. CASE m.type = "DATA"
    <2> DEFINE q == Packet(m)
    <2>1. /\ q.type = "DATA" /\ q.port \in Ports /\ q.data \in Seq(Byte)
          /\ Len(q.data) \in Nat /\ Len(q.data) <= D
      BY <1>2, <1>3, <1>9, BlockPacket
    <2>2. e = TftpData(c, 0, q) /\ Fetching
      BY <1>4, <1>5, <1>9, <2>1 DEF LocalPorts, TftpReceive
    <2> HIDE DEF e, p, q
    <2>3. WriteFits(c.stream, q.data)
      <3>1. Len(c.stream.data) + D <= MAX_SIZE_STREAM_BUFFER
        BY <1>1, <1>3 DEF Room, RoomForBlock, D
      <3>2. Len(c.stream.data) \in Nat
        BY <1>3, LevelType DEF Client
      <3> QED
        <4> DEFINE x == Len(c.stream.data)
                   y == Len(q.data)
        <4>1. x \in Nat /\ y \in Nat /\ y <= D /\ x + D <= MAX_SIZE_STREAM_BUFFER
          BY <2>1, <3>1, <3>2 DEF q
        <4> HIDE DEF x, y
        <4>2. x + y <= MAX_SIZE_STREAM_BUFFER
          BY <4>1, Sizes
        <4> QED
          BY <4>2 DEF WriteFits, x, y
    <2>4. /\ e \in Client /\ Frame(c, e)
          /\ e.have_params = c.have_params /\ e.bootp = c.bootp
          /\ e.tftp.state = "DATA_RECEIVE"
          /\ e.tftp.num_retransmits \in {0, 1, c.tftp.num_retransmits, c.tftp.num_retransmits + 1}
          /\ Rejected(c, e) \/ Duplicate(c, e) \/ Stored(c, e, q) \/ Finished(c, e, q)
      BY <1>3, <2>1, <2>2, <2>3, TftpDataEffect DEF Fetching
    <2>5. TakesBlock(e, m)
      BY <2>2, <2>4 DEF TakesBlock, q
    <2> QED
      BY <1>1, <1>6, <1>9, <2>4, <2>5, CommitEffect
  <1> QED
    BY <1>2, <1>7, <1>8, <1>9

\* What a packet does to the transfer, unless it ends in error: it begins, or
\* stays where it is, or takes a block.
Began ==
    /\ Asking
    /\ c'.stream = OpenStream
    /\ c'.socks = OneSocket("tftp", "tftpd")
    /\ c'.error_flag = c.error_flag
    /\ c'.tftp.state = "READ_REQUEST"
    /\ c'.tftp.block_num = 1
    /\ \A n \in net' \ net : n.type = "RRQ"

Again ==
    /\ Fetching
    /\ c'.stream = c.stream
    /\ OnTftpSocket(c')
    /\ c'.error_flag = c.error_flag
    /\ c'.tftp.state = "DATA_RECEIVE"
    /\ c'.tftp.block_num = Mod(Mod(c.tftp.block_num - 1) + 1)
    /\ \A n \in net' \ net : n.type = "ACK" /\ n.block = Mod(c.tftp.block_num - 1)

Took(m) ==
    /\ Fetching
    /\ m.type = "DATA" /\ m.block = c.tftp.block_num
    /\ c'.error_flag = c.error_flag
    /\ c'.tftp.state = "DATA_RECEIVE"
    /\ c'.tftp.block_num = Mod(c.tftp.block_num + 1)
    /\ \A n \in net' \ net : n.type = "ACK" /\ n.block = c.tftp.block_num
    /\ c'.stream.data = c.stream.data \o Packet(m).data
    /\ Len(c'.stream.data) <= MAX_SIZE_STREAM_BUFFER
    /\ \/ m.num < LastBlock /\ c'.stream.is_open /\ OnTftpSocket(c')
       \/ m.num = LastBlock /\ ~c'.stream.is_open /\ c'.socks = UdpInit

LEMMA TookEffect ==
    ASSUME Shape, pc = "packet", NEW m \in net, m.type = "DATA", NEW e \in Client,
           Committed(e), Fetching, e.tftp.state = "DATA_RECEIVE",
           Stored(c, e, Packet(m)) \/ Finished(c, e, Packet(m))
    PROVE  Took(m)
  <1> DEFINE bytes == Packet(m).data
             data == c.stream.data
  <1>1. c \in Client /\ c.sent = {} /\ Messages /\ Room
    BY DEF Shape
  <1>2. /\ Packet(m).block = m.block /\ m.num \in 1 .. LastBlock
        /\ bytes \in Seq(Byte) /\ Len(bytes) = BlockLen(m.num)
    BY <1>1, BlockPacket
  <1>3. BlockLen(m.num) \in 0 .. D /\ (BlockLen(m.num) < D <=> m.num = LastBlock)
    BY <1>2, BlockLengths
  <1>4. data \in Seq(Byte) /\ Len(data) \in Nat /\ Len(data) + D <= MAX_SIZE_STREAM_BUFFER
    BY <1>1, LevelType DEF Client, StreamType, Room, RoomForBlock, D
  <1> HIDE DEF bytes, data
  <1>5. /\ Len(bytes) \in Nat /\ Len(bytes) <= D
        /\ (Len(bytes) < D <=> m.num = LastBlock)
        /\ (m.num # LastBlock => m.num < LastBlock)
    <2>1. \A k \in 1 .. LastBlock : k # LastBlock => k < LastBlock
      BY Blocks1
    <2>2. \A k \in 0 .. D : k \in Nat /\ k <= D
      BY Sizes
    <2> QED
      BY <1>2, <1>3, <2>1, <2>2
  <1>6. /\ data \o bytes \in Seq(Byte)
        /\ Len(data \o bytes) = Len(data) + Len(bytes)
        /\ Len(data \o bytes) <= MAX_SIZE_STREAM_BUFFER
    <2>1. /\ data \o bytes \in Seq(Byte)
          /\ Len(data \o bytes) = Len(data) + Len(bytes)
      BY <1>2, <1>4
    <2>2. Len(data) + Len(bytes) <= MAX_SIZE_STREAM_BUFFER
      BY <1>4, <1>5, Sizes
    <2> QED
      BY <2>1, <2>2
  <1>7. AfterWrite(c.stream, bytes) = [is_open |-> c.stream.is_open, data |-> data \o bytes]
    BY <1>6 DEF AfterWrite, WriteFits, data
  <1>8. \A n \in net' \ net : n.type = "ACK" /\ n.block = c.tftp.block_num
    BY <1>1 DEF Committed, Stored, Finished, Accepted
  <1>9. /\ m.block = c.tftp.block_num
        /\ c'.error_flag = c.error_flag
        /\ c'.tftp.state = "DATA_RECEIVE"
        /\ c'.tftp.block_num = Mod(c.tftp.block_num + 1)
    BY <1>2 DEF Committed, Stored, Finished, Accepted, GoesOn
  <1>10. CASE Stored(c, e, Packet(m))
    <2>1. c'.stream = AfterWrite(c.stream, bytes) /\ OnTftpSocket(c') /\ Len(bytes) >= D
      BY <1>10 DEF Committed, Stored, GoesOn, OnTftpSocket, bytes, D
    <2>2. c'.stream.data = data \o bytes /\ c'.stream.is_open = c.stream.is_open
      BY <1>7, <2>1
    <2>3. m.num < LastBlock
      BY <1>5, <2>1, Sizes
    <2> QED
      BY <1>6, <1>8, <1>9, <2>1, <2>2, <2>3 DEF Took, Fetching, data, bytes
  <1>11. CASE Finished(c, e, Packet(m))
    <2>1. c'.stream = CloseStream(AfterWrite(c.stream, bytes)) /\ c'.socks = UdpInit /\ Len(bytes) < D
      BY <1>11 DEF Committed, Finished, bytes, D
    <2>2. c'.stream.data = data \o bytes /\ ~c'.stream.is_open
      BY <1>7, <2>1 DEF CloseStream
    <2>3. m.num = LastBlock
      BY <1>5, <2>1
    <2> QED
      BY <1>6, <1>8, <1>9, <2>1, <2>2, <2>3 DEF Took, data, bytes
  <1> QED
    BY <1>10, <1>11

LEMMA PacketOutcome ==
    ASSUME Shape, NEW m \in FromServer, ProcPacket(m)
    PROVE  /\ c' \in Client /\ c'.sent = {}
           /\ c'.fileOffset = c.fileOffset /\ c'.have_params
           /\ \/ Lost /\ net' = net
              \/ Began
              \/ Again
              \/ Took(m)
           /\ Messages'
  <1>1. pc = "packet" /\ m \in net /\ c \in Client /\ c.sent = {} /\ Phase /\ Messages
    BY PacketEffect DEF Shape, FromServer
  <1>2. PICK e \in Client :
                 /\ Committed(e) /\ Frame(c, e)
                 /\ \/ m.type = "BOOTREP" /\ TakesReply(e)
                    \/ m.type = "ERROR" /\ TakesError(e)
                    \/ m.type = "DATA" /\ TakesBlock(e, m)
    BY PacketEffect
  <1>3. SockClose(c.socks, 0) = UdpInit
    BY <1>1, ClosedSocket
  <1>4. /\ c' \in Client /\ c'.sent = {} /\ net' = net \cup e.sent
        /\ c'.fileOffset = c.fileOffset /\ Messages'
        /\ c'.have_params = e.have_params
    BY <1>1, <1>2, SentMessages DEF Committed, Frame
  <1>5. CASE TakesReply(e)
    <2>1. PICK f \in Client : /\ Answered(c, f)
                              /\ NoServer(f, e) \/ NoTimerLeft(f, e) \/ Requested(f, e)
      BY <1>5 DEF TakesReply
    <2>2. c.stream = OpenStream /\ Asking /\ e.have_params
      BY <1>5 DEF TakesReply, Asking
    <2>3. CASE NoServer(f, e) \/ NoTimerLeft(f, e)
      <3>1. Lost /\ net' = net
        BY <1>1, <1>2, <2>1, <2>2, <2>3
           DEF Answered, NoServer, NoTimerLeft, Committed, Lost, CloseStream, OpenStream
      <3> QED
        BY <1>4, <2>2, <3>1
    <2>4. CASE Requested(f, e)
      <3>1. Began
        BY <1>1, <1>2, <2>1, <2>2, <2>4 DEF Answered, Requested, Committed, Began
      <3> QED
        BY <1>4, <2>2, <3>1
    <2> QED
      BY <2>1, <2>3, <2>4
  <1>6. CASE TakesError(e)
    <2>1. Lost /\ net' = net
      BY <1>1, <1>2, <1>3, <1>6 DEF TakesError, GaveUp, Committed, Lost
    <2>2. e.have_params
      BY <1>6 DEF TakesError, Fetching
    <2> QED
      BY <1>4, <2>1, <2>2
  <1>7. CASE m.type = "DATA" /\ TakesBlock(e, m)
    <2>1. Fetching /\ e.have_params /\ e.tftp.state = "DATA_RECEIVE"
      BY <1>7 DEF TakesBlock, Fetching
    <2>2. CASE Rejected(c, e)
      <3>1. Lost /\ net' = net
        BY <1>1, <1>2, <2>2 DEF Rejected, Committed, Lost
      <3> QED
        BY <1>4, <2>1, <3>1
    <2>3. CASE Duplicate(c, e)
      <3>1. Again
        BY <1>1, <1>2, <2>1, <2>3 DEF Duplicate, GoesOn, Committed, Again, OnTftpSocket
      <3> QED
        BY <1>4, <2>1, <3>1
    <2>4. CASE Stored(c, e, Packet(m)) \/ Finished(c, e, Packet(m))
      BY <1>1, <1>2, <1>4, <1>7, <2>1, <2>4, TookEffect
    <2> QED
      BY <1>7, <2>2, <2>3, <2>4 DEF TakesBlock
  <1> QED
    BY <1>2, <1>5, <1>6, <1>7

LEMMA PacketShape ==
    ASSUME Shape, NEW m \in FromServer, ProcPacket(m), UNCHANGED appVars
    PROVE  Shape'
  <1>1. /\ c' \in Client /\ c'.sent = {}
        /\ c'.fileOffset = c.fileOffset /\ c'.have_params
        /\ Lost \/ Began \/ Again \/ Took(m)
        /\ Messages'
    BY PacketOutcome
  <1>2. call \in Call /\ Control /\ Room /\ c \in Client
    BY DEF Shape
  <1>3. pc = "packet" /\ pc' = "top" /\ UNCHANGED <<call, ret, scan>>
    BY PacketEffect
  <1>4. Phase'
    <2>1. CASE Lost
      BY <2>1 DEF Lost, Phase, Idle
    <2>2. CASE Began
      <3>1. OnTftpSocket(c')
        BY <2>2 DEF Began, OnTftpSocket, RemotePorts
      <3> QED
        BY <1>1, <2>2, <3>1 DEF Began, Phase, Fetching, OpenStream, OnTftpSocket
    <2>3. CASE Again
      BY <1>1, <2>3 DEF Again, Phase, Fetching, OnTftpSocket
    <2>4. CASE Took(m)
      <3>1. CASE c'.stream.is_open /\ OnTftpSocket(c')
        BY <1>1, <2>4, <3>1 DEF Took, Phase, Fetching, OnTftpSocket
      <3>2. CASE ~c'.stream.is_open /\ c'.socks = UdpInit
        BY <3>2 DEF Phase, Idle
      <3>3. \/ c'.stream.is_open /\ OnTftpSocket(c')
            \/ ~c'.stream.is_open /\ c'.socks = UdpInit
        BY <2>4, Zenon DEF Took
      <3> QED
        BY <3>1, <3>2, <3>3
    <2> QED
      BY <1>1, <2>1, <2>2, <2>3, <2>4
  <1>5. Control'
    BY <1>1, <1>2, <1>3 DEF Control, Seeking, appVars
  <1>6. Room'
    <2>1. Len(OpenStream.data) = 0
      BY DEF OpenStream
    <2>2. Len(c'.stream.data) <= MAX_SIZE_STREAM_BUFFER
      <3>1. CASE Lost \/ Again
        BY <1>2, <3>1 DEF Room, Lost, Again, CloseStream
      <3>2. CASE Began
        BY <2>1, <3>2, Sizes DEF Began
      <3>3. CASE Took(m)
        BY <3>3, Zenon DEF Took
      <3> QED
        BY <1>1, <3>1, <3>2, <3>3
    <2> QED
      BY <1>3, <2>2 DEF Room, RoomForBlock
  <1> QED
    BY <1>1, <1>2, <1>3, <1>4, <1>5, <1>6 DEF Shape

-----------------------------------------------------------------------------
(* Requesting the file: a seek backwards, and opening the module.          *)

\* The client as a seek backwards finds it.
Rewound(d) ==
    /\ d.stream = c.stream /\ d.timers = c.timers /\ d.socks = c.socks
    /\ d.tftp = c.tftp /\ d.bootp = c.bootp
    /\ d.error_flag = c.error_flag /\ d.have_params = c.have_params
    /\ d.fileOffset = 0 /\ d.sent = {}

LEMMA RestartEffect ==
    ASSUME Shape, Restart
    PROVE  /\ pc = "complete" /\ pc' = "top" /\ UNCHANGED <<ret, scan>>
           /\ Idle /\ ~c.stream.is_open /\ c.stream.data = << >>
           /\ call.restart \in Nat /\ app = "load" /\ c.have_params
           /\ call' \in Call /\ call'.op = "skip" /\ call'.num_bytes = call.restart
           /\ call'.restart = NotSeeking /\ call'.got = << >>
           /\ \E d \in Client, e \in Client :
                 /\ Rewound(d) /\ Committed(e) /\ Frame(d, e)
                 /\ e.have_params = d.have_params /\ e.bootp = d.bootp
                 /\ NoServer(d, e) \/ NoTimerLeft(d, e) \/ Requested(d, e)
  <1> DEFINE d == [c EXCEPT !.fileOffset = 0]
             e == TftpGetFile(d)
  <1>1. c \in Client /\ c.sent = {} /\ Phase /\ Control /\ call \in Call
    BY DEF Shape
  <1>2. /\ pc = "complete" /\ pc' = "top" /\ UNCHANGED <<ret, scan>>
        /\ StreamLevel(c.stream) < 0
        /\ call' = [NoCall EXCEPT !.op = "skip", !.num_bytes = call.restart]
        /\ Commit(e)
    BY DEF Restart
  <1>3. ~c.stream.is_open /\ c.stream.data = << >>
    BY <1>1, <1>2, LevelType DEF Client
  <1>4. Idle
    BY <1>1, <1>3 DEF Phase, Asking, Fetching, OpenStream
  <1>5. call.restart \in Nat /\ app = "load" /\ c.have_params
    BY <1>1, <1>2 DEF Control, Seeking, Call
  <1>6. /\ call' \in Call /\ call'.op = "skip" /\ call'.num_bytes = call.restart
        /\ call'.restart = NotSeeking /\ call'.got = << >>
    BY <1>2, <1>5, SeekCalls
  <1>7. d \in Client /\ Rewound(d)
    BY <1>1 DEF Client, Rewound
  <1> HIDE DEF d
  <1>8. /\ e \in Client /\ Frame(d, e)
        /\ e.have_params = d.have_params /\ e.bootp = d.bootp
        /\ NoServer(d, e) \/ NoTimerLeft(d, e) \/ Requested(d, e)
    BY <1>4, <1>7, TftpGetFileEffect DEF Idle, Rewound
  <1> HIDE DEF e
  <1>9. Committed(e)
    BY <1>2, <1>8, CommitEffect
  <1> QED
    BY <1>2, <1>3, <1>4, <1>5, <1>6, <1>7, <1>8, <1>9

LEMMA RestartShape == ASSUME Shape, Restart, UNCHANGED appVars PROVE Shape'
  <1>1. /\ pc = "complete" /\ pc' = "top" /\ UNCHANGED <<ret, scan>>
        /\ Idle /\ ~c.stream.is_open /\ c.stream.data = << >>
        /\ app = "load" /\ c.have_params
        /\ call' \in Call /\ call'.op = "skip"
        /\ call'.restart = NotSeeking /\ call'.got = << >>
    BY RestartEffect
  <1>2. PICK d \in Client, e \in Client :
                 /\ Rewound(d) /\ Committed(e) /\ Frame(d, e)
                 /\ e.have_params = d.have_params /\ e.bootp = d.bootp
                 /\ NoServer(d, e) \/ NoTimerLeft(d, e) \/ Requested(d, e)
    BY RestartEffect
  <1>3. c \in Client /\ Control /\ Room /\ Messages
    BY DEF Shape
  <1>4. c' \in Client /\ c'.sent = {} /\ c'.have_params
    BY <1>1, <1>2 DEF Committed, Rewound
  <1>5. Phase'
    <2>1. CASE NoServer(d, e) \/ NoTimerLeft(d, e)
      BY <1>1, <1>2, <2>1 DEF NoServer, NoTimerLeft, Committed, Rewound, Phase, Idle
    <2>2. CASE Requested(d, e)
      <3>1. OnTftpSocket(c')
        BY <1>2, <2>2 DEF Requested, Committed, OnTftpSocket, RemotePorts
      <3> QED
        BY <1>2, <1>4, <2>2, <3>1
           DEF Requested, Committed, Phase, Fetching, OpenStream, OnTftpSocket
    <2> QED
      BY <1>2, <2>1, <2>2
  <1>6. Control'
    BY <1>1, <1>3, <1>4 DEF Control, Seeking, appVars
  <1>7. Room'
    <2>1. c'.stream.data = << >>
      BY <1>1, <1>2 DEF NoServer, NoTimerLeft, Requested, Committed, Rewound, OpenStream, CloseStream
    <2> QED
      BY <1>1, <2>1, Sizes DEF Room, RoomForBlock
  <1>8. Messages'
    BY <1>2, <1>3, SentMessages
  <1> QED
    BY <1>1, <1>4, <1>5, <1>6, <1>7, <1>8 DEF Shape

\* The client once net_open has reset it.
WasReset(d, config) ==
    /\ d.stream = c.stream /\ d.timers = c.timers /\ d.socks = UdpInit
    /\ d.tftp = c.tftp /\ d.bootp = c.bootp
    /\ ~d.error_flag /\ d.fileOffset = 0 /\ d.sent = {}
    /\ d.have_server = config.server
    /\ d.have_params = ~config.bootp

OpenedBootp(d, e) ==
    /\ e.tftp = d.tftp
    /\ e.bootp.num_request = 1
    /\ BootpNotStarted(d, e) \/ BootpAsked(d, e)
    /\ \A n \in e.sent : n.type = "BOOTREQ"

OpenedTftp(d, e) ==
    /\ e.bootp = d.bootp
    /\ NoServer(d, e) \/ NoTimerLeft(d, e) \/ Requested(d, e)

LEMMA OpenEffect ==
    ASSUME c \in Client, c.sent = {}, NEW config \in Configs, Open(config)
    PROVE  /\ pc = "closed" /\ pc' = "idle" /\ ret' = 0 /\ UNCHANGED <<call, scan, dataSize>>
           /\ app = "closed" /\ app' = "params"
           /\ transfers < MaxTransfers /\ transfers' = transfers + 1
           /\ \E d \in Client, e \in Client :
                 /\ WasReset(d, config) /\ Committed(e) /\ Frame(d, e)
                 /\ e.have_params = d.have_params
                 /\ \/ config.bootp /\ OpenedBootp(d, e)
                    \/ ~config.bootp /\ OpenedTftp(d, e)
  <1> DEFINE d == Reset(config)
             e == IF config.bootp THEN BootpInit(d) ELSE TftpGetFile(d)
  <1>1. /\ pc = "closed" /\ pc' = "idle" /\ ret' = 0 /\ UNCHANGED <<call, scan, dataSize>>
        /\ app = "closed" /\ app' = "params"
        /\ transfers < MaxTransfers /\ transfers' = transfers + 1
        /\ Commit(e)
    BY DEF Open, NetOpen
  <1>2. config.bootp \in BOOLEAN /\ config.server \in BOOLEAN
        /\ config.use_bootp_server_ip \in BOOLEAN
    BY EthBootAssumption DEF Configurations
  <1>3. d \in Client /\ WasReset(d, config)
    <2> DEFINE so == UdpInit
               no == ~config.bootp
    <2>1. so \in Sockets /\ no \in BOOLEAN
      BY SocketTypes
    <2>2. d = [c EXCEPT !.error_flag = FALSE, !.fileOffset = 0, !.socks = so,
                        !.have_server = config.server,
                        !.use_server = config.use_bootp_server_ip, !.have_params = no]
      BY DEF Reset
    <2> HIDE DEF so, no, d
    <2>3. /\ d \in Client
          /\ d.stream = c.stream /\ d.timers = c.timers /\ d.socks = so
          /\ d.tftp = c.tftp /\ d.bootp = c.bootp
          /\ ~d.error_flag /\ d.fileOffset = 0 /\ d.sent = {}
          /\ d.have_server = config.server
          /\ d.have_params = no
      BY <1>2, <2>1, <2>2 DEF Client
    <2> QED
      BY <2>3 DEF WasReset, so, no
  <1> HIDE DEF d
  <1>4. d.socks = UdpInit /\ d.sent = {}
    BY <1>3 DEF WasReset
  <1>5. CASE config.bootp
    <2>1. e = BootpInit(d)
      BY <1>5
    <2> HIDE DEF e
    <2>2. /\ e \in Client /\ Frame(d, e) /\ e.have_params = d.have_params /\ OpenedBootp(d, e)
      BY <1>3, <1>4, <2>1, BootpInitEffect DEF OpenedBootp
    <2> QED
      BY <1>1, <1>3, <1>5, <2>2, CommitEffect
  <1>6. CASE ~config.bootp
    <2>1. e = TftpGetFile(d)
      BY <1>6
    <2> HIDE DEF e
    <2>2. /\ e \in Client /\ Frame(d, e) /\ e.have_params = d.have_params /\ OpenedTftp(d, e)
      BY <1>3, <1>4, <2>1, TftpGetFileEffect DEF OpenedTftp
    <2> QED
      BY <1>1, <1>3, <1>6, <2>2, CommitEffect
  <1> QED
    BY <1>5, <1>6

LEMMA OpenShape == ASSUME Shape, NEW config \in Configs, Open(config) PROVE Shape'
  <1>1. c \in Client /\ c.sent = {} /\ call \in Call /\ Control /\ Room /\ Messages
    BY DEF Shape
  <1>2. /\ pc = "closed" /\ pc' = "idle" /\ ret' = 0 /\ UNCHANGED <<call, scan, dataSize>>
        /\ app = "closed" /\ app' = "params" /\ transfers' = transfers + 1
    BY <1>1, OpenEffect
  <1>3. PICK d \in Client, e \in Client :
                 /\ WasReset(d, config) /\ Committed(e) /\ Frame(d, e)
                 /\ e.have_params = d.have_params
                 /\ \/ config.bootp /\ OpenedBootp(d, e)
                    \/ ~config.bootp /\ OpenedTftp(d, e)
    BY <1>1, OpenEffect
  <1>4. c' \in Client /\ c'.sent = {} /\ c'.have_params = ~config.bootp /\ c'.fileOffset = 0
    BY <1>3 DEF Committed, WasReset, Frame
  <1>5. \/ BootpNotStarted(d, e) \/ NoTimerLeft(d, e) \/ NoServer(d, e)
        \/ config.bootp /\ BootpAsked(d, e)
        \/ ~config.bootp /\ Requested(d, e)
    BY <1>3 DEF OpenedBootp, OpenedTftp
  <1>6. Phase'
    <2>1. CASE BootpNotStarted(d, e) \/ NoTimerLeft(d, e) \/ NoServer(d, e)
      BY <1>3, <2>1 DEF BootpNotStarted, NoTimerLeft, NoServer, Committed, WasReset, Phase, Idle
    <2>2. CASE config.bootp /\ BootpAsked(d, e)
      BY <1>2, <1>3, <1>4, <2>2 DEF BootpAsked, Committed, WasReset, Phase, Asking
    <2>3. CASE ~config.bootp /\ Requested(d, e)
      <3>1. OnTftpSocket(c')
        BY <1>3, <2>3 DEF Requested, Committed, OnTftpSocket, RemotePorts
      <3>2. c'.stream.is_open /\ c'.tftp.state = "READ_REQUEST"
        BY <1>3, <2>3 DEF Requested, Committed, OpenStream
      <3>3. c'.have_params
        BY <1>4, <2>3
      <3> QED
        BY <3>1, <3>2, <3>3 DEF Phase, Fetching, OnTftpSocket
    <2> QED
      BY <1>5, <2>1, <2>2, <2>3
  <1>7. Control'
    BY <1>1, <1>2 DEF Control, Seeking
  <1>8. Room'
    <2>1. c'.stream.data \in {<< >>, c.stream.data}
      BY <1>3, <1>5 DEF BootpNotStarted, BootpAsked, NoTimerLeft, NoServer, Requested,
                        Committed, WasReset, OpenStream, CloseStream
    <2>2. Len(c'.stream.data) <= MAX_SIZE_STREAM_BUFFER
      BY <1>1, <2>1, Sizes DEF Room
    <2> QED
      BY <1>2, <2>2 DEF Room, RoomForBlock
  <1>9. Messages'
    BY <1>1, <1>3, SentMessages
  <1> QED
    BY <1>1, <1>2, <1>4, <1>6, <1>7, <1>8, <1>9 DEF Shape

LEMMA NextShape == ASSUME Shape, [Next]_vars PROVE Shape'
  <1>1. CASE UNCHANGED vars
    BY <1>1 DEF vars, netVars, appVars, Shape, Phase, Idle, Asking, Fetching, OnTftpSocket,
                Control, Seeking, Room, RoomForBlock, Messages
  <1>2. CASE Poll /\ UNCHANGED appVars
    <2>1. Quiet \/ ScanTimer \/ CopyStream \/ Restart \/ \E m \in FromServer : ProcPacket(m)
      BY <1>2, Zenon DEF Poll, Quiet
    <2> QED
      BY <1>2, <2>1, QuietShape, ScanShape, CopyShape, RestartShape, PacketShape
  <1> QED
    BY <1>1, <1>2, OpenShape, BootShape, ServersShape DEF Next

THEOREM ShapeInvariant == Spec => []Shape
  <1>1. Init => Shape
    BY InitShape
  <1>2. Shape /\ [Next]_vars => Shape'
    BY NextShape
  <1> QED
    BY <1>1, <1>2, PTL DEF Spec

\* When net_read_peek takes a packet there is room in the stream for a full
\* block, whatever was read, peeked and skipped before, so stream_write in
\* tftp_receive never refuses one.
THEOREM BlocksAlwaysFit == Spec => []RoomForBlock
  <1>1. Shape => RoomForBlock
    BY DEF Shape, Room
  <1> QED
    BY <1>1, ShapeInvariant, PTL
==============================================================================
