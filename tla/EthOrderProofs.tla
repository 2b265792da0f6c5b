----------------------------- MODULE EthOrderProofs -----------------------------
(***************************************************************************)
(* The bytes a loader gets are those of the file, in order and to the end: *)
(* for any number of sessions and seeks, any loader and any network, as    *)
(* long as the file has fewer blocks than there are block numbers.  A file *)
(* of more blocks comes round to block number 0, and a block of the last   *)
(* turn passes for the next one.                                           *)
(***************************************************************************)
EXTENDS EthBootProofs

NumbersDiffer == LastBlock < BLOCK_NUMBERS

-----------------------------------------------------------------------------
(* The steps that leave the client alone.                                  *)

LEMMA BootEffect ==
    ASSUME Shape, Boot
    PROVE  /\ pc = "idle" /\ UNCHANGED <<c, net, scan>>
           /\ app # "closed"
           /\ app' # "closed" => pc' # "closed"
           /\ \/ pc' \in {"idle", "top", "closed"} /\ ~Seeking'
              \/ pc' = "complete" /\ call'.restart \in SeekTargets /\ call'.restart < c.fileOffset
           /\ call'.got = << >>
           /\ call'.op = "skip" => c.fileOffset + call'.num_bytes \in SeekTargets
           /\ app' = "params" => app = "params"
           /\ app' = "closed" => app = "params" \/ StreamLevel(c.stream) < 0
  <1>1. /\ call \in Call /\ c.fileOffset \in Nat /\ Control
    BY DEF Shape, Client
  <1>2. pc = "idle" /\ UNCHANGED <<c, net, scan>>
    BY DEF Boot, AwaitParams, ParamsFailed, NameDetectFails, ParamsKnown, DetectFormat,
           LoaderRead, LoaderPeek, LoaderSeek, LoaderDone, DrainRead, DrainQuery, DrainPeek,
           DrainDone, NetCall, NetClose, NetSeek, NetSeekFromEnd, StartCall, netVars
  <1>3. ~Seeking /\ call.op = "none" /\ call.got = << >> /\ app # "closed"
    BY <1>1, <1>2 DEF Control
  <1>4. ASSUME NEW op \in {"read", "peek"}, NEW n, NetCall(op, n)
        PROVE  /\ pc' \in {"idle", "top"} /\ ~Seeking' /\ call'.got = << >>
               /\ call'.op = op \/ call'.op = "none"
    <2>1. \/ call' = [call EXCEPT !.op = op, !.num_bytes = n, !.left = 0] /\ pc' = "top"
          \/ call' = call /\ pc' = pc
      BY <1>4 DEF NetCall, StartCall
    <2> QED
      BY <1>1, <1>2, <1>3, <2>1 DEF Call, Seeking
  <1>5. CASE LoaderSeek
    <2>1. app' = "load" /\ app = "load"
      BY <1>5 DEF LoaderSeek
    <2>2. CASE NetSeekFromEnd
      BY <1>2, <1>3, <2>1, <2>2 DEF NetSeekFromEnd, Seeking
    <2>3. ASSUME NEW p \in SeekTargets, NetSeek(p)
          PROVE  /\ \/ pc' \in {"idle", "top", "closed"} /\ ~Seeking'
                    \/ /\ pc' = "complete"
                       /\ call'.restart \in SeekTargets /\ call'.restart < c.fileOffset
                 /\ call'.got = << >> /\ pc' # "closed"
                 /\ call'.op = "skip" => c.fileOffset + call'.num_bytes \in SeekTargets
      <3>1. p \in Nat
        BY EthBootAssumption
      <3>2. CASE p = c.fileOffset
        BY <1>1, <1>2, <1>3, <2>3, <3>1, <3>2 DEF NetSeek, Seeking
      <3>3. CASE p > c.fileOffset
        <4>1. p - c.fileOffset \in Nat /\ c.fileOffset + (p - c.fileOffset) = p
          BY <1>1, <3>1, <3>3
        <4>2. call' = [NoCall EXCEPT !.op = "skip", !.num_bytes = p - c.fileOffset] /\ pc' = "top"
          BY <1>1, <2>3, <3>1, <3>3 DEF NetSeek
        <4>3. /\ call'.op = "skip" /\ call'.num_bytes = p - c.fileOffset
              /\ call'.restart = NotSeeking /\ call'.got = << >>
          BY <4>1, <4>2, SeekCalls
        <4> QED
          BY <2>3, <4>1, <4>2, <4>3 DEF Seeking
      <3>4. CASE p < c.fileOffset
        <4>1. call' = [NoCall EXCEPT !.restart = p] /\ pc' = "complete"
          BY <1>1, <2>3, <3>1, <3>4 DEF NetSeek
        <4>2. call'.op = "none" /\ call'.restart = p /\ call'.got = << >>
          BY <3>1, <4>1, SeekCalls
        <4> QED
          BY <2>3, <3>4, <4>1, <4>2
      <3> QED
        BY <1>1, <3>1, <3>2, <3>3, <3>4
    <2> QED
      BY <1>2, <1>3, <1>5, <2>1, <2>2, <2>3 DEF LoaderSeek
  <1>6. CASE \/ AwaitParams \/ DetectFormat \/ LoaderPeek \/ DrainRead \/ DrainPeek
             \/ \E n \in ReadSizes : LoaderRead(n)
    <2>1. /\ \E op \in {"read", "peek"} : \E n : NetCall(op, n)
          /\ app' # "closed"
          /\ app' = "params" => app = "params"
      BY <1>3, <1>6 DEF AwaitParams, DetectFormat, LoaderRead, LoaderPeek, DrainRead, DrainPeek, appVars
    <2> QED
      BY <1>2, <1>3, <1>4, <2>1
  <1>7. CASE ParamsFailed \/ NameDetectFails \/ ParamsKnown \/ LoaderDone \/ DrainQuery \/ DrainDone
    <2>1. call' = call /\ pc' \in {"idle", "closed"} /\ (app' # "closed" => pc' # "closed")
      BY <1>2, <1>3, <1>7
         DEF ParamsFailed, NameDetectFails, ParamsKnown, LoaderDone, DrainQuery, DrainDone,
             NetClose, netVars
    <2>2. /\ app' = "params" => app = "params"
          /\ app' = "closed" => app = "params" \/ StreamLevel(c.stream) < 0
      BY <1>3, <1>7
         DEF ParamsFailed, NameDetectFails, ParamsKnown, LoaderDone, DrainQuery, DrainDone
    <2> QED
      BY <1>2, <1>3, <2>1, <2>2 DEF Seeking
  <1> QED
    BY <1>5, <1>6, <1>7 DEF Boot

LEMMA QuietEffect ==
    ASSUME Shape, Quiet
    PROVE  /\ UNCHANGED <<c, net, scan>>
           /\ pc \notin {"closed", "idle"} /\ pc' # "closed"
           /\ call'.restart = call.restart
           /\ call' = call \/ call'.got = << >>
           /\ c.error_flag /\ pc = "top" =>
                 pc' = (IF Seeking THEN "complete" ELSE "idle") /\ call'.got = << >>
           /\ call'.op = "skip" => call' = call
  <1>1. call \in Call /\ Control
    BY DEF Shape
  <1>2. UNCHANGED <<c, net, scan>> /\ pc \notin {"closed", "idle"} /\ pc' # "closed"
    BY DEF Quiet, ReturnError, ReturnClosed, TimerDue, TimerNotDue, StreamDry, NoPacket,
           CompleteRead, CompleteQuery, CompletePeek, StartCall, Return
  <1>3. CASE ReturnError \/ ReturnClosed
    <2>1. PICK v : Return(v)
      BY <1>3 DEF ReturnError, ReturnClosed
    <2>2. call' = ReturnedCall(call) /\ pc' = IF Seeking THEN "complete" ELSE "idle"
      BY <2>1 DEF Return, ReturnedCall, Seeking
    <2> QED
      BY <1>1, <1>2, <2>2, ReturnedCallType
  <1>4. CASE TimerDue \/ TimerNotDue \/ StreamDry \/ NoPacket
    BY <1>2, <1>4 DEF TimerDue, TimerNotDue, StreamDry, NoPacket
  <1>5. CASE CompleteRead \/ CompletePeek \/ CompleteQuery
    <2>1. pc = "complete" /\ call.got = << >>
      BY <1>1, <1>5 DEF Control, CompleteRead, CompletePeek, CompleteQuery
    <2>2. call'.restart = call.restart /\ call'.got = call.got
          /\ (call'.op \in {"read", "peek"} \/ call'.op = call.op)
      BY <1>1, <1>5 DEF Call, CompleteRead, CompletePeek, CompleteQuery, StartCall
    <2>3. call.op # "skip"
      BY <1>1, <2>1 DEF Control
    <2> QED
      BY <1>2, <2>1, <2>2, <2>3
  <1> QED
    BY <1>3, <1>4, <1>5 DEF Quiet

-----------------------------------------------------------------------------
(* The invariant.                                                          *)

\* Nothing was ever received: the stream is full of bytes nobody wrote, and
\* the session failed when it was opened.
Unopened ==
    /\ c.stream = UnopenedStream
    /\ c.fileOffset = 0
    /\ ~Seeking /\ call.got = << >>
    /\ app = "closed" \/ (c.error_flag /\ pc \in {"idle", "top"})

\* What waits in the stream comes next in the file.
Filled ==
    /\ c.stream.data = FileBytes(c.fileOffset, Len(c.stream.data))
    /\ Received <= FileLen

\* A read in progress has what it consumed.
ReadInOrder ==
    call.op = "read" =>
        /\ Len(call.got) <= c.fileOffset
        /\ call.got = FileBytes(c.fileOffset - Len(call.got), Len(call.got))

\* block_num counts the blocks received, and one more.
BlocksCounted ==
    Fetching =>
        /\ c.tftp.block_num \in 1 .. LastBlock
        /\ Received = (c.tftp.block_num - 1) * D

\* A session hands on what it received, or read it all.
Order ==
    /\ Unopened \/ Filled
    /\ BlocksCounted
    /\ app # "closed" /\ ~c.error_flag /\ ~c.stream.is_open => Received = FileLen
    /\ app = "params" => c.fileOffset = 0
    /\ app = "closed" => c.fileOffset = 0 \/ c.stream.data = << >>
    /\ ReadInOrder

LEMMA NumberOf ==
    ASSUME NumbersDiffer, NEW k \in 0 .. LastBlock
    PROVE  Mod(k) = k
  <1>1. LastBlock \in Nat /\ BLOCK_NUMBERS \in Nat \ {0}
    BY Blocks1, TftpAssumption
  <1>2. k \in Nat /\ k < BLOCK_NUMBERS
    BY <1>1 DEF NumbersDiffer
  <1> QED
    BY <1>1, <1>2 DEF Mod

LEMMA ReceivedType ==
    ASSUME c \in Client
    PROVE  /\ c.fileOffset \in Nat /\ Len(c.stream.data) \in Nat /\ Received \in Nat
           /\ Received = c.fileOffset + Len(c.stream.data)
  BY LevelType DEF Client, Received

LEMMA EmptyInOrder ==
    ASSUME NEW k \in Nat
    PROVE  << >> = FileBytes(k, 0) /\ Len(<< >>) = 0
  BY FileBytesLen

\* A step that leaves the client alone has to say where the session goes.
LEMMA SameOrder ==
    ASSUME Shape, Order, UNCHANGED c,
           Unopened => /\ ~Seeking' /\ call'.got = << >>
                       /\ app' = "closed" \/ (c.error_flag /\ pc' \in {"idle", "top"}),
           app' # "closed" => app # "closed",
           app' = "params" => app = "params",
           app' = "closed" => app \in {"params", "closed"} \/ StreamLevel(c.stream) < 0,
           call' = call \/ call'.got = << >>
    PROVE  Order'
  <1>1. c \in Client
    BY DEF Shape
  <1>2. c.fileOffset \in Nat
    BY <1>1, ReceivedType
  <1>3. (Unopened \/ Filled)'
    BY DEF Order, Unopened, Filled, Received
  <1>4. BlocksCounted'
    BY DEF Order, BlocksCounted, Received, Fetching, OnTftpSocket
  <1>5. app' # "closed" /\ ~c'.error_flag /\ ~c'.stream.is_open => Received' = FileLen
    BY DEF Order, Received
  <1>6. app' = "params" => c'.fileOffset = 0
    BY DEF Order
  <1>7. app' = "closed" => c'.fileOffset = 0 \/ c'.stream.data = << >>
    BY <1>1, LevelType DEF Order, Client
  <1>8. ReadInOrder'
    <2>1. CASE call' = call
      BY <2>1 DEF Order, ReadInOrder
    <2>2. CASE call'.got = << >>
      <3>1. c.fileOffset - 0 = c.fileOffset
        BY <1>2
      <3> QED
        BY <1>2, <2>2, <3>1, EmptyInOrder DEF ReadInOrder
    <2> QED
      BY <2>1, <2>2
  <1> QED
    BY <1>3, <1>4, <1>5, <1>6, <1>7, <1>8 DEF Order

LEMMA BootOrder == ASSUME Shape, Order, Boot PROVE Order'
  <1>1. pc = "idle" /\ UNCHANGED <<c, net, scan>>
           /\ app # "closed" /\ (app' # "closed" => pc' # "closed")
           /\ \/ pc' \in {"idle", "top", "closed"} /\ ~Seeking'
              \/ pc' = "complete" /\ call'.restart \in SeekTargets /\ call'.restart < c.fileOffset
           /\ call'.got = << >>
           /\ (app' = "params" => app = "params")
           /\ (app' = "closed" => app = "params" \/ StreamLevel(c.stream) < 0)
    BY BootEffect
  <1>2. Unopened => /\ ~Seeking' /\ call'.got = << >>
                    /\ app' = "closed" \/ (c.error_flag /\ pc' \in {"idle", "top"})
    <2> SUFFICES ASSUME Unopened
                 PROVE  /\ ~Seeking'
                        /\ app' = "closed" \/ (c.error_flag /\ pc' \in {"idle", "top"})
      BY <1>1
    <2>1. c.fileOffset = 0 /\ c.error_flag
      BY <1>1 DEF Unopened
    <2>2. ~(call'.restart \in SeekTargets /\ call'.restart < c.fileOffset)
      <3>1. \A p \in SeekTargets : ~(p < 0)
        BY EthBootAssumption
      <3> QED
        BY <2>1, <3>1
    <2> QED
      BY <1>1, <2>1, <2>2
  <1> QED
    BY <1>1, <1>2, SameOrder

LEMMA QuietOrder == ASSUME Shape, Order, Quiet, UNCHANGED appVars PROVE Order'
  <1>1. /\ UNCHANGED <<c, net, scan, app>>
        /\ pc \notin {"closed", "idle"} /\ pc' # "closed"
        /\ call'.restart = call.restart
        /\ call' = call \/ call'.got = << >>
        /\ c.error_flag /\ pc = "top" =>
              pc' = (IF Seeking THEN "complete" ELSE "idle") /\ call'.got = << >>
    BY QuietEffect DEF appVars
  <1>2. app # "closed"
    BY <1>1 DEF Shape, Control
  <1>3. Unopened => /\ ~Seeking' /\ call'.got = << >>
                    /\ c.error_flag /\ pc' \in {"idle", "top"}
    BY <1>1, <1>2 DEF Unopened, Seeking
  <1> QED
    BY <1>1, <1>2, <1>3, SameOrder

LEMMA ServersOrder == ASSUME Shape, Order, Servers, UNCHANGED appVars PROVE Order'
  <1>1. UNCHANGED <<c, call, ret, pc, scan, app>>
    BY ServersMessages DEF Shape, appVars
  <1> QED
    BY <1>1, SameOrder DEF Unopened, Seeking

\* While the loop copies, waits for a packet or requests the file again, the
\* stream was opened.
LEMMA OpenedByNow ==
    ASSUME Order, Control, pc \notin {"closed", "idle", "top"}
    PROVE  Filled /\ app # "closed"
  BY DEF Order, Unopened, Control

\* With no socket there is no transfer.
LEMMA NotFetching == ASSUME c'.socks = UdpInit PROVE ~Fetching'
  BY SocketsDiffer DEF Fetching, OnTftpSocket

LEMMA ScanOrder == ASSUME Shape, Order, ScanTimer, UNCHANGED appVars PROVE Order'
  <1>1. /\ c' \in Client /\ c'.fileOffset = c.fileOffset /\ c'.have_params = c.have_params
        /\ Kept \/ Lost
    BY ScanOutcome
  <1>2. c \in Client /\ c.sent = {} /\ scan \in Blocks /\ Control
    BY DEF Shape, Control
  <1>3. pc = "scan" /\ UNCHANGED <<call, ret, app>>
    BY <1>2, ScanEffect DEF appVars
  <1>4. Filled /\ app # "closed"
    BY <1>2, <1>3, OpenedByNow
  <1>5. c'.stream.data = c.stream.data
    BY <1>1 DEF Kept, Lost, CloseStream
  <1>6. Received' = Received /\ Filled'
    BY <1>1, <1>4, <1>5 DEF Filled, Received
  <1>7. BlocksCounted'
    <2>1. CASE Kept
      BY <1>1, <1>6, <2>1 DEF Order, BlocksCounted, Kept, Fetching, OnTftpSocket
    <2>2. CASE Lost
      BY <2>2, NotFetching DEF Lost, BlocksCounted
    <2> QED
      BY <1>1, <2>1, <2>2
  <1>8. app' # "closed" /\ ~c'.error_flag /\ ~c'.stream.is_open => Received' = FileLen
    BY <1>1, <1>3, <1>6 DEF Order, Kept, Lost
  <1>9. ReadInOrder'
    BY <1>1, <1>3 DEF Order, ReadInOrder
  <1> QED
    BY <1>1, <1>3, <1>4, <1>5, <1>6, <1>7, <1>8, <1>9 DEF Order

\* A block taken is the one expected, and the bytes of the file that come next.
LEMMA TookBytes ==
    ASSUME Shape, Order, Filled, NumbersDiffer,
           NEW m \in FromServer, ProcPacket(m), Took(m)
    PROVE  /\ c.tftp.block_num \in 1 .. LastBlock /\ m.num = c.tftp.block_num
           /\ Received = (c.tftp.block_num - 1) * D
           /\ Received' = (c.tftp.block_num - 1) * D + BlockLen(c.tftp.block_num)
           /\ c.tftp.block_num < LastBlock => Received' = c.tftp.block_num * D
           /\ c.tftp.block_num = LastBlock => Received' = FileLen
           /\ Received \in Nat /\ Received' \in Nat /\ Received <= Received'
           /\ Filled'
  <1>1. /\ c \in Client /\ Messages
        /\ c' \in Client /\ c'.fileOffset = c.fileOffset
    BY PacketOutcome DEF Shape
  <1> DEFINE b == c.tftp.block_num
             n == Len(c.stream.data)
             k == BlockLen(b)
             off == c.fileOffset
  <1>2. /\ Fetching /\ m.type = "DATA" /\ m \in net
        /\ m.block = b /\ c'.tftp.block_num = Mod(b + 1)
        /\ c'.stream.data = c.stream.data \o Packet(m).data
        /\ \/ m.num < LastBlock /\ c'.stream.is_open
           \/ m.num = LastBlock /\ ~c'.stream.is_open /\ c'.socks = UdpInit
    BY Zenon DEF Took, FromServer
  <1>3. b \in 1 .. LastBlock /\ Received = (b - 1) * D
    BY <1>2 DEF Order, BlocksCounted
  <1>4. m.num \in 1 .. LastBlock /\ m.block = Mod(m.num)
        /\ Packet(m).data = FileBytes((m.num - 1) * D, BlockLen(m.num))
    BY <1>1, <1>2, BlockPacket
  <1>5. m.num = b
    <2>1. \A j \in 1 .. LastBlock : j \in 0 .. LastBlock
      BY Blocks1
    <2> QED
      BY <1>2, <1>4, <2>1, NumberOf
  <1>6. off \in Nat /\ n \in Nat /\ Received = off + n
    BY <1>1, ReceivedType
  <1>7. /\ k \in Nat /\ (b - 1) * D + k <= FileLen
        /\ b = LastBlock => (b - 1) * D + k = FileLen
        /\ b < LastBlock => (b - 1) * D + k = b * D
    <2> HIDE DEF b
    <2>1. k \in 0 .. D /\ D \in Nat
      BY <1>3, BlockLengths, Sizes
    <2>2. /\ (b - 1) * D + k <= FileLen
          /\ b = LastBlock => (b - 1) * D + k = FileLen
          /\ b < LastBlock => (b - 1) * D + k = b * D
      BY <1>3, BlockLengths
    <2> HIDE DEF k
    <2> QED
      BY <2>1, <2>2
  <1>8. c'.stream.data = FileBytes(off, n + k)
    <2>1. c.stream.data = FileBytes(off, n)
      BY DEF Filled
    <2>2. Packet(m).data = FileBytes(off + n, k)
      BY <1>3, <1>4, <1>5, <1>6
    <2> HIDE DEF off, n, k, b
    <2>3. FileBytes(off, n) \o FileBytes(off + n, k) = FileBytes(off, n + k)
      BY <1>6, <1>7, FileBytesJoin
    <2> QED
      BY <1>2, <2>1, <2>2, <2>3
  <1>9. Len(c'.stream.data) = n + k
    <2> HIDE DEF off, n, k, b
    <2>1. off \in Nat /\ n + k \in Nat
      BY <1>6, <1>7
    <2> QED
      BY <1>8, <2>1, FileBytesLen
  <1>10. Received' = off + (n + k)
    BY <1>1, <1>9 DEF Received
  <1>11. Received' = (b - 1) * D + k
    <2> HIDE DEF off, n, k, b
    <2> QED
      BY <1>3, <1>6, <1>7, <1>10
  <1>12. Filled'
    BY <1>1, <1>7, <1>8, <1>9, <1>11 DEF Filled
  <1>13. Received \in Nat /\ Received' \in Nat /\ Received <= Received'
    <2> HIDE DEF off, n, k, b
    <2>1. off + n \in Nat /\ off + (n + k) \in Nat /\ off + n <= off + (n + k)
      BY <1>6, <1>7
    <2> QED
      BY <1>6, <1>10, <2>1
  <1> QED
    BY <1>3, <1>5, <1>7, <1>11, <1>12, <1>13

LEMMA PacketOrder ==
    ASSUME Shape, Order, NumbersDiffer, NEW m \in FromServer, ProcPacket(m), UNCHANGED appVars
    PROVE  Order'
  <1>1. /\ c' \in Client /\ c'.fileOffset = c.fileOffset
        /\ Lost \/ Began \/ Again \/ Took(m)
    BY PacketOutcome
  <1>2. c \in Client /\ Control /\ Messages
    BY DEF Shape
  <1>3. pc = "packet" /\ UNCHANGED <<call, ret, scan, app>>
    BY PacketEffect DEF appVars
  <1>4. Filled /\ app # "closed"
    BY <1>2, <1>3, OpenedByNow
  <1>5. ReadInOrder'
    BY <1>1, <1>3 DEF Order, ReadInOrder
  <1>6. app' = "params" => c'.fileOffset = 0
    BY <1>1, <1>3 DEF Order
  <1>7. CASE Lost
    <2>1. c'.stream.data = c.stream.data
      BY <1>7 DEF Lost, CloseStream
    <2>2. Received' = Received /\ Filled'
      BY <1>1, <1>4, <2>1 DEF Filled, Received
    <2>3. BlocksCounted'
      BY <1>7, NotFetching DEF Lost, BlocksCounted
    <2> QED
      BY <1>3, <1>4, <1>5, <1>6, <1>7, <2>2, <2>3 DEF Order, Lost
  <1>8. CASE Began
    <2>1. c.fileOffset = 0 /\ c.stream = OpenStream /\ c'.stream = OpenStream
      BY <1>8 DEF Began, Asking
    <2>2. c'.stream.is_open /\ c'.stream.data = << >>
      BY <2>1 DEF OpenStream
    <2>3. Received' = 0
      BY <1>1, <2>1, <2>2 DEF Received
    <2>4. Filled'
      BY <1>1, <1>4, <2>1 DEF Filled, Received
    <2>5. BlocksCounted'
      <3>1. c'.tftp.block_num = 1 /\ 1 \in 1 .. LastBlock /\ 0 = (1 - 1) * D
        BY <1>8, Blocks1, Sizes DEF Began
      <3> QED
        BY <2>3, <3>1 DEF BlocksCounted
    <2> QED
      BY <1>3, <1>4, <1>5, <1>6, <2>2, <2>4, <2>5 DEF Order
  <1>9. CASE Again
    <2> DEFINE b == c.tftp.block_num
    <2>1. Fetching /\ c'.stream = c.stream /\ c'.tftp.block_num = Mod(Mod(b - 1) + 1)
          /\ c'.stream.is_open
      BY <1>9 DEF Again, Fetching
    <2>2. b \in 1 .. LastBlock /\ Received = (b - 1) * D
      BY <2>1 DEF Order, BlocksCounted
    <2>3. Mod(Mod(b - 1) + 1) = b
      <3> HIDE DEF b
      <3>1. b - 1 \in 0 .. LastBlock /\ (b - 1) + 1 = b /\ b \in 0 .. LastBlock
        BY <2>2, Blocks1
      <3> QED
        BY <3>1, NumberOf
    <2>4. Received' = Received /\ Filled'
      BY <1>1, <1>4, <2>1 DEF Filled, Received
    <2>5. BlocksCounted'
      BY <2>1, <2>2, <2>3, <2>4 DEF BlocksCounted
    <2> QED
      BY <1>3, <1>4, <1>5, <1>6, <2>1, <2>4, <2>5 DEF Order
  <1>10. CASE Took(m)
    <2> DEFINE b == c.tftp.block_num
    <2>1. /\ c'.tftp.block_num = Mod(b + 1)
          /\ \/ m.num < LastBlock /\ c'.stream.is_open
             \/ m.num = LastBlock /\ ~c'.stream.is_open /\ c'.socks = UdpInit
      BY <1>10, Zenon DEF Took
    <2>2. /\ b \in 1 .. LastBlock /\ m.num = b
          /\ b < LastBlock => Received' = b * D
          /\ b = LastBlock => Received' = FileLen
          /\ Filled'
      BY <1>4, <1>10, TookBytes
    <2>3. CASE b < LastBlock
      <3>1. b + 1 \in 1 .. LastBlock /\ b + 1 \in 0 .. LastBlock /\ (b + 1) - 1 = b /\ b # LastBlock
        <4> HIDE DEF b
        <4> QED
          BY <2>2, <2>3, Blocks1
      <3>2. c'.tftp.block_num = b + 1 /\ c'.stream.is_open
        BY <2>1, <2>2, <3>1, NumberOf
      <3>3. BlocksCounted'
        BY <2>2, <2>3, <3>1, <3>2 DEF BlocksCounted
      <3> QED
        BY <1>3, <1>4, <1>5, <1>6, <2>2, <3>2, <3>3 DEF Order
    <2>4. CASE b = LastBlock
      <3>1. ~(b < LastBlock)
        BY <2>4, Blocks1
      <3>2. ~c'.stream.is_open
        BY <2>1, <2>2, <3>1
      <3>3. BlocksCounted'
        BY <3>2 DEF BlocksCounted, Fetching
      <3> QED
        BY <1>3, <1>4, <1>5, <1>6, <2>2, <2>4, <3>3 DEF Order
    <2>5. b < LastBlock \/ b = LastBlock
      BY <2>2, Blocks1
    <2> QED
      BY <2>3, <2>4, <2>5
  <1> QED
    BY <1>1, <1>7, <1>8, <1>9, <1>10

\* Copying moves bytes from the stream to the loader and loses none.
LEMMA CopyBytes == ASSUME Shape, Order, CopyStream PROVE Filled /\ Filled' /\ Received' = Received
  <1> DEFINE n == Len(c.stream.data)
             off == c.fileOffset
             k == Copied
  <1>1. c \in Client /\ c.sent = {} /\ call \in Call /\ Control
    BY DEF Shape
  <1>2. /\ pc = "copy" /\ k \in Nat /\ k <= n
        /\ c' \in Client
        /\ call.op \in {"read", "skip"} =>
              /\ c'.stream.data = SubSeq(c.stream.data, k + 1, n)
              /\ Len(c'.stream.data) = n - k
              /\ c'.fileOffset = off + k
        /\ call.op \notin {"read", "skip"} => c' = c
    BY <1>1, CopyEffect
  <1>3. Filled
    BY <1>1, <1>2, OpenedByNow
  <1>4. /\ off \in Nat /\ n \in Nat /\ c.stream.data = FileBytes(off, n)
        /\ Received = off + n
    BY <1>1, <1>3, ReceivedType DEF Filled
  <1>5. Filled' /\ Received' = Received
    <2>1. CASE call.op \in {"read", "skip"}
      <3>1. c'.stream.data = FileBytes(off + k, n - k)
        <4>1. k \in 0 .. n
          BY <1>2, <1>4
        <4> HIDE DEF n, off, k
        <4>2. SubSeq(FileBytes(off, n), k + 1, n) = FileBytes(off + k, n - k)
          BY <1>4, <4>1, FileBytesPeek
        <4> QED
          BY <1>2, <1>4, <2>1, <4>2
      <3>2. Received' = (off + k) + (n - k)
        BY <1>2, <2>1 DEF Received
      <3>3. (off + k) + (n - k) = off + n
        BY <1>2, <1>4
      <3>4. Received' = Received
        BY <1>4, <3>2, <3>3
      <3> QED
        BY <1>2, <1>3, <2>1, <3>1, <3>4 DEF Filled
    <2>2. CASE call.op \notin {"read", "skip"}
      BY <1>2, <1>3, <2>2 DEF Filled, Received
    <2> QED
      BY <2>1, <2>2
  <1> QED
    BY <1>3, <1>5

LEMMA CopyOrder == ASSUME Shape, Order, CopyStream, UNCHANGED appVars PROVE Order'
  <1> DEFINE n == Len(c.stream.data)
             off == c.fileOffset
             k == Copied
  <1>1. c \in Client /\ c.sent = {} /\ call \in Call /\ Control /\ Phase
    BY DEF Shape
  <1>2. /\ pc = "copy" /\ c.stream.data # << >> /\ UNCHANGED <<scan, net, app>>
        /\ k \in Nat /\ k <= n
        /\ c' \in Client
        /\ c'.socks = c.socks /\ c'.tftp = c.tftp
        /\ c'.error_flag = c.error_flag /\ c'.have_params = c.have_params
        /\ c'.stream.is_open = c.stream.is_open
        /\ call.op \in {"read", "skip"} =>
              /\ c'.stream.data = SubSeq(c.stream.data, k + 1, n)
              /\ Len(c'.stream.data) = n - k
              /\ c'.fileOffset = off + k
        /\ call.op \notin {"read", "skip"} => c' = c
        /\ IF Copied = call.num_bytes
           THEN Return(IF c.error_flag THEN -1 ELSE 0)
           ELSE /\ call'.op = call.op
                /\ call'.got = IF call.op = "skip" THEN << >> ELSE call.got \o Taken
    BY <1>1, CopyEffect DEF appVars
  <1>3. Filled /\ app # "closed"
    BY <1>1, <1>2, OpenedByNow
  <1>4. /\ off \in Nat /\ n \in Nat /\ c.stream.data = FileBytes(off, n)
        /\ Received = off + n
    BY <1>1, <1>3, ReceivedType DEF Filled
  <1>5. Filled' /\ Received' = Received
    BY CopyBytes
  <1>6. BlocksCounted'
    BY <1>2, <1>5 DEF Order, BlocksCounted, Fetching, OnTftpSocket
  <1>7. app' = "params" => c'.fileOffset = 0
    BY <1>1, <1>2 DEF Order, Control
  <1>8. ReadInOrder'
    <2>1. CASE Copied = call.num_bytes
      <3>1. Return(IF c.error_flag THEN -1 ELSE 0)
        BY <1>2, <2>1
      <3>2. call' = ReturnedCall(call)
        BY <3>1 DEF Return, ReturnedCall
      <3> QED
        BY <1>1, <3>2, ReturnedCallType DEF ReadInOrder
    <2>2. CASE Copied # call.num_bytes /\ call.op = "read"
      <3> DEFINE j == Len(call.got)
      <3>1. call'.got = call.got \o Taken /\ c'.fileOffset = off + k
        BY <1>2, <2>2
      <3>2. j \in Nat /\ j <= off /\ call.got = FileBytes(off - j, j)
        BY <1>1, <2>2 DEF Call, Order, ReadInOrder
      <3>3. Taken = FileBytes(off, k)
        <4>1. k \in 0 .. n /\ Taken = SubSeq(c.stream.data, 1, k)
          BY <1>2, <1>4 DEF Taken
        <4> HIDE DEF n, off, k
        <4> QED
          BY ZenonT(60), <1>4, <4>1, FileBytesPeek
      <3>4. call'.got = FileBytes(off - j, j + k)
        <4>1. off - j \in Nat /\ (off - j) + j = off
          BY <1>4, <3>2
        <4> HIDE DEF off, k, j
        <4>2. FileBytes(off - j, j) \o FileBytes((off - j) + j, k) = FileBytes(off - j, j + k)
          BY <1>2, <3>2, <4>1, FileBytesJoin
        <4> QED
          BY <3>1, <3>2, <3>3, <4>1, <4>2
      <3>5. Len(call'.got) = j + k /\ j + k <= off + k /\ (off + k) - (j + k) = off - j
        <4>1. off - j \in Nat /\ j + k \in Nat
          BY SMTT(30), <1>2, <1>4, <3>2
        <4> HIDE DEF off, k, j
        <4>2. Len(call'.got) = j + k
          BY <3>4, <4>1, FileBytesLen
        <4> QED
          BY SMTT(30), <1>2, <1>4, <3>2, <4>2
      <3> HIDE DEF off, k, j
      <3> QED
        BY <3>1, <3>4, <3>5 DEF ReadInOrder
    <2>3. CASE Copied # call.num_bytes /\ call.op # "read"
      BY <1>2, <2>3 DEF ReadInOrder
    <2> QED
      BY <2>1, <2>2, <2>3
  <1>9. app' # "closed" /\ ~c'.error_flag /\ ~c'.stream.is_open => Received' = FileLen
    BY <1>2, <1>5 DEF Order
  <1> QED
    BY <1>2, <1>3, <1>5, <1>6, <1>7, <1>8, <1>9 DEF Order

\* Requesting the file again starts from its first byte.
LEMMA StartsOver ==
    ASSUME c'.stream.data = << >>, c'.fileOffset = 0
    PROVE  Filled' /\ Received' = 0
  <1>1. << >> = FileBytes(0, 0) /\ Len(<< >>) = 0
    BY EmptyInOrder
  <1> QED
    BY <1>1, Sizes DEF Filled, Received

LEMMA FirstBlock ==
    ASSUME Received' = 0, c'.tftp.block_num = 1
    PROVE  BlocksCounted'
  <1>1. 1 \in 1 .. LastBlock /\ 0 = (1 - 1) * D
    BY Blocks1, Sizes
  <1> QED
    BY <1>1 DEF BlocksCounted

LEMMA RestartOrder == ASSUME Shape, Order, Restart, UNCHANGED appVars PROVE Order'
  <1>1. /\ pc = "complete" /\ pc' = "top"
        /\ Idle /\ ~c.stream.is_open /\ c.stream.data = << >> /\ app = "load"
        /\ call'.op = "skip"
    BY RestartEffect
  <1>2. PICK d \in Client, e \in Client :
                 /\ Rewound(d) /\ Committed(e) /\ Frame(d, e)
                 /\ NoServer(d, e) \/ NoTimerLeft(d, e) \/ Requested(d, e)
    BY RestartEffect
  <1>3. app' = "load"
    BY <1>1 DEF appVars
  <1>4. ReadInOrder'
    BY <1>1 DEF ReadInOrder
  <1>5. c'.stream.data = << >> /\ c'.fileOffset = 0
    BY <1>1, <1>2 DEF NoServer, NoTimerLeft, Requested, Committed, Rewound, Frame,
                      OpenStream, CloseStream
  <1>6. Filled' /\ Received' = 0
    BY <1>5, StartsOver
  <1>7. CASE NoServer(d, e) \/ NoTimerLeft(d, e)
    <2>1. c'.error_flag /\ c'.socks = UdpInit
      BY <1>1, <1>2, <1>7 DEF NoServer, NoTimerLeft, Committed, Rewound, Idle
    <2>2. BlocksCounted'
      BY <2>1, NotFetching DEF BlocksCounted
    <2> QED
      BY <1>3, <1>4, <1>5, <1>6, <2>1, <2>2 DEF Order
  <1>8. CASE Requested(d, e)
    <2>1. c'.stream.is_open /\ c'.tftp.block_num = 1
      BY <1>2, <1>8 DEF Requested, Committed, OpenStream
    <2>2. BlocksCounted'
      BY <1>6, <2>1, FirstBlock
    <2> QED
      BY <1>3, <1>4, <1>5, <1>6, <2>1, <2>2 DEF Order
  <1> QED
    BY <1>2, <1>7, <1>8

LEMMA OpenOrder == ASSUME Shape, Order, NEW config \in Configs, Open(config) PROVE Order'
  <1>1. c \in Client /\ c.sent = {} /\ Control
    BY DEF Shape
  <1>2. /\ pc = "closed" /\ pc' = "idle" /\ UNCHANGED call
        /\ app = "closed" /\ app' = "params"
    BY <1>1, OpenEffect
  <1>3. PICK d \in Client, e \in Client :
                 /\ WasReset(d, config) /\ Committed(e) /\ Frame(d, e)
                 /\ \/ config.bootp /\ OpenedBootp(d, e)
                    \/ ~config.bootp /\ OpenedTftp(d, e)
    BY <1>1, OpenEffect
  <1>4. \/ NoServer(d, e)
        \/ BootpNotStarted(d, e) \/ NoTimerLeft(d, e)
        \/ BootpAsked(d, e)
        \/ Requested(d, e)
    BY <1>3 DEF OpenedBootp, OpenedTftp
  <1>5. c'.fileOffset = 0
    BY <1>3 DEF WasReset, Committed, Frame
  <1>6. ReadInOrder'
    BY <1>1, <1>2 DEF ReadInOrder, Control
  <1>7. CASE NoServer(d, e)
    <2>1. c'.error_flag /\ c'.socks = UdpInit /\ c'.stream = c.stream
      BY <1>3, <1>7 DEF NoServer, WasReset, Committed
    <2>2. BlocksCounted'
      BY <2>1, NotFetching DEF BlocksCounted
    <2>3. (Unopened \/ Filled)'
      <3>1. CASE Unopened
        BY <1>2, <1>5, <2>1, <3>1 DEF Unopened, Seeking
      <3>2. CASE Filled /\ c.fileOffset = 0
        BY <1>5, <2>1, <3>2 DEF Filled, Received
      <3>3. CASE c.stream.data = << >>
        BY <1>5, <2>1, <3>3, StartsOver
      <3> QED
        BY <1>2, <3>1, <3>2, <3>3 DEF Order
    <2> QED
      BY <1>2, <1>5, <1>6, <2>1, <2>2, <2>3 DEF Order
  <1>8. CASE BootpNotStarted(d, e) \/ NoTimerLeft(d, e)
    <2>1. c'.error_flag /\ c'.socks = UdpInit /\ c'.stream.data = << >>
      BY <1>3, <1>8 DEF NoTimerLeft, BootpNotStarted, Committed, CloseStream, OpenStream
    <2>2. BlocksCounted'
      BY <2>1, NotFetching DEF BlocksCounted
    <2>3. Filled'
      BY <1>5, <2>1, StartsOver
    <2> QED
      BY <1>2, <1>5, <1>6, <2>1, <2>2, <2>3 DEF Order
  <1>9. CASE BootpAsked(d, e)
    <2>1. c'.stream.is_open /\ c'.stream.data = << >> /\ c'.socks = BootpSocket
      BY <1>3, <1>9 DEF BootpAsked, Committed, OpenStream
    <2>2. ~Fetching'
      BY <2>1, SocketsDiffer DEF Fetching, OnTftpSocket
    <2>3. Filled'
      BY <1>5, <2>1, StartsOver
    <2> QED
      BY <1>2, <1>5, <1>6, <2>1, <2>2, <2>3 DEF Order, BlocksCounted
  <1>10. CASE Requested(d, e)
    <2>1. c'.stream.is_open /\ c'.stream.data = << >> /\ c'.tftp.block_num = 1
      BY <1>3, <1>10 DEF Requested, Committed, OpenStream
    <2>2. Filled' /\ BlocksCounted'
      BY <1>5, <2>1, StartsOver, FirstBlock
    <2> QED
      BY <1>2, <1>5, <1>6, <2>1, <2>2 DEF Order
  <1> QED
    BY <1>4, <1>7, <1>8, <1>9, <1>10

LEMMA InitOrder == Init => Order
  <1> SUFFICES ASSUME Init PROVE Order
    OBVIOUS
  <1>1. /\ c.stream = UnopenedStream /\ c.fileOffset = 0 /\ c.socks = UdpInit
        /\ call = NoCall /\ app = "closed"
    BY DEF Init, NetInit
  <1>2. Unopened /\ ReadInOrder
    BY <1>1, NoCallType DEF Unopened, Seeking, ReadInOrder
  <1>3. BlocksCounted
    BY <1>1, SocketsDiffer DEF BlocksCounted, Fetching, OnTftpSocket
  <1> QED
    BY <1>1, <1>2, <1>3 DEF Order

LEMMA NextOrder == ASSUME Shape, Order, NumbersDiffer, [Next]_vars PROVE Order'
  <1>1. CASE UNCHANGED vars
    BY <1>1, SameOrder DEF vars, netVars, appVars, Unopened, Seeking
  <1>2. CASE Poll /\ UNCHANGED appVars
    <2>1. Quiet \/ ScanTimer \/ CopyStream \/ Restart \/ \E m \in FromServer : ProcPacket(m)
      BY <1>2, Zenon DEF Poll, Quiet
    <2> QED
      BY <1>2, <2>1, QuietOrder, ScanOrder, CopyOrder, RestartOrder, PacketOrder
  <1> QED
    BY <1>1, <1>2, OpenOrder, BootOrder, ServersOrder DEF Next

-----------------------------------------------------------------------------

THEOREM OrderInvariant == ASSUME NumbersDiffer PROVE Spec => [](Shape /\ Order)
  <1>1. Init => Shape /\ Order
    BY InitShape, InitOrder
  <1>2. (Shape /\ Order) /\ [Next]_vars => (Shape /\ Order)'
    BY NextShape, NextOrder
  <1> QED
    BY <1>1, <1>2, PTL DEF Spec

\* What the loader has read and what waits in the stream are consecutive
\* pieces of the file, over any number of sessions, seeks and time-outs, if
\* the file has fewer blocks than there are block numbers (tftp_receive,
\* net_read_peek).
THEOREM BytesAreInOrder == ASSUME NumbersDiffer PROVE Spec => []BytesInOrder
  <1>1. Shape /\ Order => BytesInOrder
    BY DEF Order, Unopened, Filled, ReadInOrder, BytesInOrder, Transferring
  <1> QED
    BY <1>1, OrderInvariant, PTL

\* A stream that is closed without an error has delivered, or still holds, the
\* file to its last byte (tftp_receive, net_seek).
THEOREM EndIsTheEndOfFile == ASSUME NumbersDiffer PROVE Spec => []EndIsEndOfFile
  <1>1. Shape /\ Order => EndIsEndOfFile
    BY DEF Order, EndIsEndOfFile, Transferring
  <1> QED
    BY <1>1, OrderInvariant, PTL

-----------------------------------------------------------------------------
(* A single session: the module is opened once, and nothing is sought.     *)

OneSession == MaxTransfers = 1

Once ==
    /\ transfers \in {0, 1}
    /\ app # "closed" => transfers = 1
    /\ ~Seeking

LEMMA InitOnce == Init => Once
  BY NoCallType DEF Init, NetInit, Once, Seeking

LEMMA NextOnce ==
    ASSUME OneSession, Shape, Once, [Next]_vars
    PROVE  Once' /\ ~Restart /\ (transfers = 1 => transfers' = 1)
  <1>1. ~Restart
    BY DEF Restart, Once, Shape, Control
  <1>2. ASSUME Boot PROVE Once' /\ transfers' = transfers
    <2>1. app # "closed" /\ transfers = 1 /\ MaxTransfers = 1
      BY <1>2, BootEffect DEF Once, OneSession
    <2>2. ~LoaderSeek
      BY <2>1 DEF LoaderSeek
    <2>3. pc = "idle" /\ transfers' = transfers
      BY <1>2, <2>2, BootEffect
         DEF Boot, AwaitParams, ParamsFailed, NameDetectFails, ParamsKnown, DetectFormat,
             LoaderRead, LoaderPeek, LoaderDone, DrainRead, DrainQuery, DrainPeek,
             DrainDone, appVars
    <2>4. pc' # "complete"
      BY <1>2, <2>2, <2>3
         DEF Boot, AwaitParams, ParamsFailed, NameDetectFails, ParamsKnown, DetectFormat,
             LoaderRead, LoaderPeek, LoaderDone, DrainRead, DrainQuery, DrainPeek,
             DrainDone, NetCall, StartCall, NetClose, netVars
    <2>5. ~Seeking'
      BY <1>2, <2>4, BootEffect
    <2> QED
      BY <1>1, <2>1, <2>3, <2>5 DEF Once
  <1>3. CASE UNCHANGED appVars /\ call'.restart = call.restart
    BY <1>1, <1>3 DEF Once, Seeking, appVars
  <1>4. CASE Poll /\ UNCHANGED appVars
    <2>1. Quiet \/ ScanTimer \/ CopyStream \/ \E m \in FromServer : ProcPacket(m)
      BY <1>1, <1>4, Zenon DEF Poll, Quiet
    <2>2. CASE CopyStream
      <3>1. c \in Client /\ c.sent = {} /\ call \in Call
        BY DEF Shape
      <3>2. call'.restart = call.restart
        BY <2>2, <3>1, CopyEffect, ReturnedCallType DEF Return, ReturnedCall
      <3> QED
        BY <1>3, <1>4, <3>2
    <2>3. CASE ScanTimer
      BY <1>3, <1>4, <2>3, ScanEffect DEF Shape, Control
    <2>4. CASE Quiet \/ \E m \in FromServer : ProcPacket(m)
      BY <1>3, <1>4, <2>4, QuietEffect, PacketEffect
    <2> QED
      BY <2>1, <2>2, <2>3, <2>4
  <1>5. CASE Servers /\ UNCHANGED appVars
    BY <1>3, <1>5, ServersMessages DEF Shape
  <1>6. ASSUME NEW config \in Configs, Open(config) PROVE Once' /\ transfers # 1
    <2>1. UNCHANGED call /\ transfers' = transfers + 1 /\ transfers < 1
      BY <1>6, OpenEffect DEF Shape, OneSession
    <2>2. transfers' = 1
      BY <2>1 DEF Once
    <2> QED
      BY <2>1, <2>2 DEF Once, Seeking
  <1>7. CASE UNCHANGED vars
    BY <1>3, <1>7 DEF vars, netVars
  <1> QED
    BY <1>1, <1>2, <1>4, <1>5, <1>6, <1>7 DEF Next, vars, appVars

THEOREM OnceInvariant == ASSUME OneSession PROVE Spec => []Once
  <1>1. (Shape /\ Once) /\ [Next]_vars => Once'
    BY NextOnce
  <1> QED
    BY <1>1, InitOnce, ShapeInvariant, PTL DEF Spec

\* No block is acknowledged before the file is asked for.
Acknowledged ==
    /\ AckedIsStored
    /\ \A m \in net : m.type = "ACK" => m.block \in Nat
    /\ transfers = 0 \/ Asking => \A m \in net : m.type # "ACK"

LEMMA ServersDoNotAcknowledge ==
    ASSUME Servers PROVE \A m \in net' : m \in net \/ m.type # "ACK"
  <1>1. ASSUME NEW port, NEW num, SendData(port, num)
        PROVE  \A m \in net' : m \in net \/ m.type # "ACK"
    <2>1. net' = (net \ Outlived(port, num)) \cup {DataMessage(port, num)}
      BY <1>1 DEF SendData
    <2>2. DataMessage(port, num).type = "DATA"
      BY DEF DataMessage
    <2> QED
      BY <2>1, <2>2
  <1>2. ASSUME NEW port \in Ports, TftpServerAccept(port) \/ TftpServerNext(port)
        PROVE  \E num : SendData(port, num)
    BY <1>2 DEF TftpServerAccept, TftpServerNext
  <1>3. ASSUME NEW port \in Ports, TftpServerError(port)
        PROVE  \A m \in net' : m \in net \/ m.type # "ACK"
    BY <1>3 DEF TftpServerError
  <1>4. ASSUME NEW server \in BOOLEAN, BootpServerReply(server)
        PROVE  \A m \in net' : m \in net \/ m.type # "ACK"
    BY <1>4 DEF BootpServerReply
  <1> QED
    BY <1>1, <1>2, <1>3, <1>4 DEF Servers

\* What has been received is not forgotten, and nothing new is acknowledged.
LEMMA NothingAcknowledged ==
    ASSUME Acknowledged, Received' = Received, transfers' = 0 => transfers = 0,
           Asking' => Asking,
           \A m \in net' : m \in net \/ m.type # "ACK"
    PROVE  Acknowledged'
  <1>1. AckedIsStored'
    <2>1. ASSUME NEW m \in net', m.type = "ACK"
          PROVE  Received' >= Min({m.block * TFTP_DATA_SIZE, FileLen})
      BY <2>1, Zenon DEF Acknowledged, AckedIsStored
    <2> QED
      BY <2>1, Zenon DEF AckedIsStored
  <1>2. /\ \A m \in net' : m.type = "ACK" => m.block \in Nat
        /\ transfers' = 0 \/ Asking' => \A m \in net' : m.type # "ACK"
    BY DEF Acknowledged
  <1> QED
    BY <1>1, <1>2 DEF Acknowledged

\* More may have been received when the blocks up to num are acknowledged.
LEMMA MoreAcknowledged ==
    ASSUME Acknowledged, UNCHANGED transfers, transfers' # 0, ~Asking', NEW num \in Nat,
           Received \in Nat, Received' \in Nat, Received <= Received',
           Received' >= Min({num * D, FileLen}),
           \A m \in net' : m \in net \/ (m.type = "ACK" /\ m.block = num)
    PROVE  Acknowledged'
  <1>1. ASSUME NEW m \in net', m.type = "ACK"
        PROVE  Received' >= Min({m.block * TFTP_DATA_SIZE, FileLen})
    <2>1. CASE m \in net
      <3> DEFINE low == Min({m.block * TFTP_DATA_SIZE, FileLen})
      <3>1. Received >= low
        BY <1>1, <2>1 DEF Acknowledged, AckedIsStored
      <3>2. low \in Int
        <4>1. m.block \in Nat /\ FileLen \in Int
          BY <1>1, <2>1, NetAssumption DEF Acknowledged
        <4>2. \A a \in Int : \A b \in Int : Min({a, b}) \in Int
          BY MinOfTwo
        <4>3. m.block * TFTP_DATA_SIZE \in Int
          BY <4>1, TftpAssumption
        <4> QED
          BY <4>1, <4>2, <4>3
      <3> HIDE DEF low
      <3>3. Received' >= low
        BY <3>1, <3>2
      <3> QED
        BY <3>3 DEF low
    <2>2. CASE m.block = num
      BY <2>2 DEF D
    <2> QED
      BY <1>1, <2>1, <2>2
  <1> QED
    BY <1>1 DEF Acknowledged, AckedIsStored

LEMMA StoredSoFar ==
    /\ \A n \in 1 .. LastBlock : (n - 1) * D >= Min({(n - 1) * D, FileLen})
    /\ \A n \in 1 .. LastBlock : n * D >= Min({n * D, FileLen})
    /\ \A n \in 1 .. LastBlock : FileLen >= Min({n * D, FileLen})
  <1>1. ASSUME NEW n \in 1 .. LastBlock
        PROVE  n * D \in Int /\ (n - 1) * D \in Int /\ FileLen \in Int
    BY Sizes, Blocks1, NetAssumption
  <1>2. ASSUME NEW a \in Int, NEW b \in Int PROVE a >= Min({a, b}) /\ b >= Min({a, b})
    BY MinOfTwo
  <1> QED
    BY <1>1, <1>2

LEMMA NextAcknowledged ==
    ASSUME OneSession, NumbersDiffer, Shape, Order, Once, Acknowledged, [Next]_vars
    PROVE  Acknowledged'
  <1>1. c \in Client /\ c.sent = {} /\ call \in Call /\ Phase /\ Control
    BY DEF Shape
  <1>2. ASSUME c'.socks = c.socks, c'.stream = c.stream, c'.error_flag = c.error_flag
        PROVE  Asking' => Asking
    BY <1>1, <1>2, SocketsDiffer DEF Phase, Idle, Asking, Fetching, OnTftpSocket
  <1>3. ASSUME UNCHANGED <<c, net, transfers>> PROVE Acknowledged'
    BY <1>2, <1>3, NothingAcknowledged DEF Received
  <1>4. CASE Boot
    <2>1. UNCHANGED <<c, net>> /\ transfers = 1 /\ app # "closed"
      BY <1>4, BootEffect DEF Once
    <2>2. transfers' # 0
      BY <2>1, NextOnce
    <2> QED
      BY <1>2, <2>1, <2>2, NothingAcknowledged DEF Received
  <1>5. ASSUME Poll, UNCHANGED appVars PROVE Acknowledged'
    <2>1. UNCHANGED transfers /\ transfers' # 0 /\ ~Restart
      <3>1. pc \notin {"closed", "idle"}
        BY <1>5 DEF Poll, ReturnError, ReturnClosed, TimerDue, TimerNotDue, ScanTimer, StreamDry,
                    CopyStream, CompleteRead, CompleteQuery, CompletePeek, Restart, NoPacket, ProcPacket
      <3> QED
        BY <1>1, <1>5, <3>1, NextOnce DEF appVars, Control, Once
    <2>2. CASE Quiet
      BY <1>3, <2>1, <2>2, QuietEffect
    <2>3. CASE ScanTimer
      <3>1. /\ c'.fileOffset = c.fileOffset /\ (Kept \/ Lost)
            /\ \A m \in net' : m \in net \/ m.type # "ACK"
        BY <2>3, ScanOutcome
      <3>2. c'.stream.data = c.stream.data
        BY <3>1 DEF Kept, Lost, CloseStream
      <3>3. Asking' => Asking
        BY <1>2, <3>1 DEF Kept, Lost, Asking
      <3> QED
        BY <2>1, <3>1, <3>2, <3>3, NothingAcknowledged DEF Received
    <2>4. CASE CopyStream
      <3>1. /\ UNCHANGED net /\ c.stream.data # << >>
            /\ c'.socks = c.socks
        BY <1>1, <2>4, CopyEffect
      <3>2. ~Asking /\ ~Asking'
        <4>1. ~Asking
          BY <3>1 DEF Asking, OpenStream
        <4> QED
          BY <1>1, <3>1, <4>1, SocketsDiffer DEF Phase, Idle, Asking, Fetching, OnTftpSocket
      <3>3. Received' = Received
        BY <2>4, CopyBytes
      <3> QED
        BY <2>1, <3>1, <3>2, <3>3, NothingAcknowledged
    <2>5. ASSUME NEW m \in FromServer, ProcPacket(m) PROVE Acknowledged'
      <3> DEFINE b == c.tftp.block_num
      <3>1. /\ c'.fileOffset = c.fileOffset
            /\ \/ Lost /\ net' = net
               \/ Began
               \/ Again
               \/ Took(m)
        BY <2>5, PacketOutcome
      <3>2. Filled
        BY <1>1, <2>5, PacketEffect, OpenedByNow
      <3>3. CASE Lost /\ net' = net
        <4>1. c'.stream.data = c.stream.data /\ ~Asking'
          BY <3>3 DEF Lost, CloseStream, Asking
        <4> QED
          BY <2>1, <3>1, <3>3, <4>1, NothingAcknowledged DEF Received
      <3>4. CASE Began
        <4>1. /\ c.stream = OpenStream /\ c'.stream = OpenStream /\ Asking
              /\ \A n \in net' : n \in net \/ n.type # "ACK"
          BY <3>4 DEF Began, Asking
        <4> QED
          BY <2>1, <3>1, <4>1, NothingAcknowledged DEF Received
      <3>5. CASE Again
        <4>1. /\ Fetching /\ c'.stream = c.stream /\ ~Asking'
              /\ \A n \in net' : n \in net \/ (n.type = "ACK" /\ n.block = Mod(b - 1))
          BY <3>5, SocketsDiffer DEF Again, Asking, OnTftpSocket
        <4>2. b \in 1 .. LastBlock /\ Received = (b - 1) * D /\ Received' = Received
          BY <3>1, <4>1 DEF Order, BlocksCounted, Received
        <4>3. Mod(b - 1) = b - 1
          <5> HIDE DEF b
          <5>1. b - 1 \in 0 .. LastBlock
            BY <4>2, Blocks1
          <5> QED
            BY <5>1, NumberOf
        <4>4. /\ b - 1 \in Nat /\ transfers' # 0
              /\ Received \in Nat /\ Received' \in Nat /\ Received <= Received'
              /\ Received' >= Min({(b - 1) * D, FileLen})
          <5>1. Received \in Nat
            BY <1>1, ReceivedType
          <5> HIDE DEF b
          <5> QED
            BY <2>1, <4>2, <5>1, StoredSoFar, Blocks1
        <4> HIDE DEF b
        <4> QED
          BY <2>1, <4>1, <4>3, <4>4, MoreAcknowledged
      <3>6. CASE Took(m)
        <4>1. /\ Fetching /\ ~Asking'
              /\ \A n \in net' : n \in net \/ (n.type = "ACK" /\ n.block = b)
          BY <3>6, SocketsDiffer, Zenon DEF Took, Asking, OnTftpSocket
        <4>2. /\ b \in 1 .. LastBlock
              /\ b < LastBlock => Received' = b * D
              /\ b = LastBlock => Received' = FileLen
              /\ Received \in Nat /\ Received' \in Nat /\ Received <= Received'
          BY <2>5, <3>2, <3>6, TookBytes
        <4> HIDE DEF b
        <4>3. b \in Nat /\ Received' >= Min({b * D, FileLen})
          BY <4>2, StoredSoFar, Blocks1
        <4> QED
          BY <2>1, <4>1, <4>2, <4>3, MoreAcknowledged
      <3> QED
        BY <3>1, <3>3, <3>4, <3>5, <3>6
    <2> QED
      BY <1>5, <2>1, <2>2, <2>3, <2>4, <2>5, Zenon DEF Poll, Quiet
  <1>6. CASE Servers /\ UNCHANGED appVars
    BY <1>2, <1>6, ServersMessages, ServersDoNotAcknowledge, NothingAcknowledged
       DEF Shape, appVars, Received
  <1>7. ASSUME NEW config \in Configs, Open(config) PROVE Acknowledged'
    <2>1. transfers = 0 /\ transfers' # 0
      BY <1>1, <1>7, OpenEffect DEF Once, OneSession
    <2>2. \A m \in net : m.type # "ACK"
      BY <2>1 DEF Acknowledged
    <2>3. PICK d \in Client, e \in Client :
                   /\ WasReset(d, config) /\ Committed(e)
                   /\ OpenedBootp(d, e) \/ OpenedTftp(d, e)
      BY <1>1, <1>7, OpenEffect
    <2>4. \A m \in e.sent : m.type # "ACK"
      BY <2>3 DEF WasReset, OpenedBootp, OpenedTftp, NoServer, NoTimerLeft, Requested
    <2>5. \A m \in net' : m.type # "ACK"
      BY <2>2, <2>3, <2>4 DEF Committed
    <2> QED
      BY <2>5 DEF Acknowledged, AckedIsStored
  <1> QED
    BY <1>3, <1>4, <1>5, <1>6, <1>7 DEF Next, vars, netVars, appVars

LEMMA InitAcknowledged == Init => Acknowledged
  BY DEF Init, NetInit, Acknowledged, AckedIsStored

\* In a session no block is acknowledged before its bytes are in the stream:
\* the server cannot move past a block the client still needs (tftp_send_ack,
\* tftp_receive).
THEOREM OnlyStoredIsAcknowledged ==
    ASSUME NumbersDiffer, OneSession PROVE Spec => []AckedIsStored
  <1>1. Acknowledged /\ (Shape /\ Order) /\ Once /\ [Next]_vars => Acknowledged'
    BY NextAcknowledged
  <1>2. Acknowledged => AckedIsStored
    BY DEF Acknowledged
  <1> QED
    BY <1>1, <1>2, InitAcknowledged, OrderInvariant, OnceInvariant, PTL DEF Spec
==============================================================================
