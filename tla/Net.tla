--------------------------------- MODULE Net ---------------------------------
(***************************************************************************)
(* The network boot module of driver/eth/net.c: opening it, and the polling*)
(* loops of net_read_peek and net_seek, the only places where timers run,  *)
(* packets are taken from the wire and the stream is read.  One step is one*)
(* call the loop makes; the program has a single thread, so between two    *)
(* steps only the network and the servers move.                            *)
(*                                                                         *)
(* The network holds every message ever sent.  A message can be received   *)
(* any number of times or never: it can be lost, duplicated, reordered and *)
(* delayed, up to a whole turn of block numbers.  The servers are not part *)
(* of the program; they are modelled by what RFC 951 and RFC 1350 servers  *)
(* send to such a client.                                                  *)
(***************************************************************************)
EXTENDS Bootp

CONSTANTS
    FileLen,      \* bytes in the boot file
    Ports,        \* ports a TFTP server can answer from
    DRAIN_CHUNK   \* 16: size of the buffer the rest of a file is read into

ASSUME NetAssumption ==
    /\ FileLen \in Nat
    /\ 0 .. FileLen \subseteq Byte
    /\ {"tftpd", "bootps"} \cap Ports = {}
    /\ DRAIN_CHUNK \in Nat \ {0}

VARIABLES
    c,     \* the client state, see module Tftp
    call,  \* the call in progress, see NoCall
    ret,   \* what the last call into the module returned
    pc,    \* where the polling loop is
    scan,  \* the timer block timer_run looks at next
    net    \* the messages sent

netVars == <<c, call, ret, pc, scan, net>>

-----------------------------------------------------------------------------
(* The file.  A byte is named by its position.                             *)

LastBlock == FileLen \div TFTP_DATA_SIZE + 1

BlockData(num) ==
    [i \in 1 .. Min({TFTP_DATA_SIZE, FileLen - (num - 1) * TFTP_DATA_SIZE}) |->
        (num - 1) * TFTP_DATA_SIZE + i]

\* How much of the file the client has accepted so far.
Received == c.fileOffset + Len(c.stream.data)

-----------------------------------------------------------------------------
(* The servers.                                                            *)

DataMessage(port, num) ==
    [type |-> "DATA", port |-> port, block |-> Mod(num), num |-> num]

\* A message does not outlive a turn of block numbers: when a block is sent,
\* what is left with the number of the block after it is gone.
Outlived(port, num) ==
    {m \in net : m.type \in {"DATA", "ACK"} /\ m.port = port /\ m.block = Mod(num + 1)}

SendData(port, num) == net' = (net \ Outlived(port, num)) \cup {DataMessage(port, num)}

DataSent(port) == {m \in net : m.type = "DATA" /\ m.port = port}

\* Each copy of a read request that arrives starts a transfer of its own.
TftpServerAccept(port) ==
    /\ \E m \in net : m.type = "RRQ"
    /\ DataSent(port) = {}
    /\ SendData(port, 1)
    /\ UNCHANGED <<c, call, ret, pc, scan>>

\* The acknowledgement of the last block sent lets the next one go.
TftpServerNext(port) ==
    /\ DataSent(port) # {}
    /\ LET num == Max({m.num : m \in DataSent(port)}) IN
       /\ num < LastBlock
       /\ [type |-> "ACK", port |-> port, block |-> Mod(num)] \in net
       /\ SendData(port, num + 1)
    /\ UNCHANGED <<c, call, ret, pc, scan>>

\* A server can refuse or abandon a request.
TftpServerError(port) ==
    /\ \E m \in net : m.type = "RRQ"
    /\ net' = net \cup {[type |-> "ERROR", port |-> port, block |-> 0]}
    /\ UNCHANGED <<c, call, ret, pc, scan>>

BootpServerReply(server) ==
    /\ \E m \in net : m.type = "BOOTREQ"
    /\ net' = net \cup {[type |-> "BOOTREP", port |-> "bootps", block |-> 0, server |-> server]}
    /\ UNCHANGED <<c, call, ret, pc, scan>>

Servers ==
    \/ \E port \in Ports :
          TftpServerAccept(port) \/ TftpServerNext(port) \/ TftpServerError(port)
    \/ \E server \in BOOLEAN : BootpServerReply(server)

-----------------------------------------------------------------------------
(* Opening and closing.                                                    *)

\* The client state after a step, and what the step sent.
Commit(d) ==
    /\ c' = [d EXCEPT !.sent = {}]
    /\ net' = net \cup d.sent

\* A boot configuration: is an address to be asked for with BOOTP, is a TFTP
\* server configured, and does a BOOTP reply replace it.
Configurations == [bootp : BOOLEAN, server : BOOLEAN, use_bootp_server_ip : BOOLEAN]

\* net_open resets its own state and the UDP sockets.  The timers and the
\* stream are whatever the previous session left.
Reset(config) ==
    [c EXCEPT !.error_flag = FALSE,
              !.fileOffset = 0,
              !.socks = UdpInit,
              !.have_server = config.server,
              !.use_server = config.use_bootp_server_ip,
              !.have_params = ~config.bootp]

NetOpen(config) ==
    /\ pc = "closed"
    /\ Commit(IF config.bootp THEN BootpInit(Reset(config)) ELSE TftpGetFile(Reset(config)))
    /\ pc' = "idle"
    /\ ret' = 0
    /\ UNCHANGED <<call, scan>>

\* net_close stops the device and nothing else.
NetClose ==
    /\ pc = "idle"
    /\ pc' = "closed"
    /\ UNCHANGED <<c, call, ret, scan, net>>

-----------------------------------------------------------------------------
(* net_read_peek.                                                          *)

(* A seek backwards makes such calls of its own: restart is the position it*)
(* is to reach, or NotSeeking, and left what it still reads of the level it*)
(* has seen last.                                                          *)

NotSeeking == -1
NoCall == [op |-> "none", num_bytes |-> 0, got |-> << >>,
           restart |-> NotSeeking, left |-> 0]

StartCall(op, num_bytes, left) ==
    /\ call' = [call EXCEPT !.op = op, !.num_bytes = num_bytes, !.left = left]
    /\ pc' = "top"
    /\ UNCHANGED <<c, ret, scan, net>>

NetCall(op, num_bytes) ==
    /\ pc = "idle"
    /\ \/ num_bytes # 0 /\ StartCall(op, num_bytes, 0)
       \/ num_bytes = 0 /\ ret' = -1 /\ UNCHANGED <<c, call, pc, scan, net>>

\* The buffer is forgotten once the call returns.
Return(value) ==
    /\ ret' = value
    /\ call' = [NoCall EXCEPT !.restart = call.restart, !.left = call.left]
    /\ pc' = IF call.restart = NotSeeking THEN "idle" ELSE "complete"

ReturnError ==
    /\ pc = "top" /\ c.error_flag
    /\ Return(-1)
    /\ UNCHANGED <<c, scan, net>>

\* The stream is closed and empty: a buffer filled in part counts as success.
ReturnClosed ==
    /\ pc = "top" /\ ~c.error_flag
    /\ call.op # "skip" /\ StreamLevel(c.stream) < 0
    /\ Return(IF call.got # << >> THEN 0 ELSE -1)
    /\ UNCHANGED <<c, scan, net>>

\* A seek does not look whether the stream is closed.
LooksForData == call.op = "skip" \/ StreamLevel(c.stream) >= 0

\* timer_run finds the hardware timer due, or not.
TimerDue ==
    /\ pc = "top" /\ ~c.error_flag
    /\ LooksForData
    /\ CanTick(c.timers)
    /\ pc' = "scan"
    /\ UNCHANGED <<c, call, ret, scan, net>>

TimerNotDue ==
    /\ pc = "top" /\ ~c.error_flag
    /\ LooksForData
    /\ pc' = "copy"
    /\ UNCHANGED <<c, call, ret, scan, net>>

RunExpiry(d, expiry) ==
    IF expiry = "tftp_timer_expiry" THEN TftpTimerExpiry(d) ELSE BootpTmrExpiry(d)

\* timer_run's loop, one block at a time.
ScanTimer ==
    /\ pc = "scan"
    /\ LET d == [c EXCEPT !.timers = CountDown(@, scan)] IN
       Commit(IF Expires(c.timers, scan)
              THEN RunExpiry(d, c.timers.timer[scan].expiry)
              ELSE d)
    /\ IF scan + 1 \in Blocks
       THEN scan' = scan + 1 /\ UNCHANGED pc
       ELSE scan' = 0 /\ pc' = "copy"
    /\ UNCHANGED <<call, ret>>

\* Nothing to copy, or not enough: a packet is wanted.
StreamDry ==
    /\ pc = "copy"
    /\ StreamIsEmpty(c.stream)
    /\ pc' = "packet"
    /\ UNCHANGED <<c, call, ret, scan, net>>

\* A seek has no buffer.
Got(got, bytes) == IF call.op = "skip" THEN << >> ELSE got \o bytes

\* A variant that copies one byte per turn of the loop.
CopyStreamByte ==
    /\ pc = "copy"
    /\ ~StreamIsEmpty(c.stream)
    /\ LET left == call.num_bytes - 1
       IN /\ c' = IF call.op \in {"read", "skip"}
                  THEN [c EXCEPT !.stream = AfterRead(@, 1), !.fileOffset = @ + 1]
                  ELSE c
          /\ IF left = 0
             THEN Return(IF c.error_flag THEN -1 ELSE 0)
             ELSE /\ call' = [call EXCEPT !.num_bytes = left, !.got = Got(@, PeekBytes(c.stream, 1))]
                  /\ pc' = "packet"
                  /\ UNCHANGED ret
    /\ UNCHANGED <<scan, net>>

CopyStream ==
    /\ pc = "copy"
    /\ ~StreamIsEmpty(c.stream)
    /\ LET bytes == PeekBytes(c.stream, call.num_bytes)
           left == call.num_bytes - Len(bytes)
       IN /\ c' = IF call.op \in {"read", "skip"}
                  THEN [c EXCEPT !.stream = AfterRead(@, call.num_bytes),
                                 !.fileOffset = @ + Len(bytes)]
                  ELSE c
          /\ IF left = 0
             THEN Return(IF c.error_flag THEN -1 ELSE 0)
             ELSE /\ call' = [call EXCEPT !.num_bytes = left, !.got = Got(@, bytes)]
                  /\ pc' = "packet"
                  /\ UNCHANGED ret
    /\ UNCHANGED <<scan, net>>

\* proc_packet finds nothing, or nothing for this program.
NoPacket ==
    /\ pc = "packet"
    /\ pc' = "top"
    /\ UNCHANGED <<c, call, ret, scan, net>>

\* The local port a message from a server is addressed to.
LocalPort(m) == IF m.type = "BOOTREP" THEN "bootpc" ELSE "tftp"

\* What the client sees of a message: the data of a block, not its true number.
Packet(m) ==
    IF m.type = "DATA"
    THEN [type |-> "DATA", port |-> m.port, block |-> m.block, data |-> BlockData(m.num)]
    ELSE m

\* proc_packet down to the routine of the first socket on the port.
ProcPacket(m) ==
    /\ pc = "packet"
    /\ Listeners(c.socks, LocalPort(m)) # {}
    /\ LET sock == Min(Listeners(c.socks, LocalPort(m))) IN
       Commit(IF LocalPort(m) = "bootpc"
              THEN BootpReceive(c, sock, m)
              ELSE TftpReceive(c, sock, Packet(m)))
    /\ pc' = "top"
    /\ UNCHANGED <<call, ret, scan>>

FromServer == {m \in net : m.type \in {"DATA", "ERROR", "BOOTREP"}}

-----------------------------------------------------------------------------
(* net_seek.                                                               *)

\* A position counted from the end of the file is refused.
NetSeekFromEnd ==
    /\ pc = "idle"
    /\ ret' = -1
    /\ UNCHANGED <<c, call, pc, scan, net>>

NetSeek(desiredPos) ==
    /\ pc = "idle"
    /\ \/ /\ desiredPos = c.fileOffset
          /\ ret' = 0
          /\ UNCHANGED <<call, pc>>
       \/ /\ desiredPos > c.fileOffset
          /\ call' = [NoCall EXCEPT !.op = "skip", !.num_bytes = desiredPos - c.fileOffset]
          /\ pc' = "top"
          /\ UNCHANGED ret
       \/ /\ desiredPos < c.fileOffset
          /\ call' = [NoCall EXCEPT !.restart = desiredPos]
          /\ pc' = "complete"
          /\ UNCHANGED ret
    /\ UNCHANGED <<c, scan, net>>

\* net_complete_transfer: the rest of the file is read and thrown away.  What
\* the reads return is not looked at.
CompleteRead ==
    /\ pc = "complete" /\ call.left > 0
    /\ LET n == Min({call.left, DRAIN_CHUNK})
       IN StartCall("read", n, call.left - n)

CompleteQuery ==
    /\ pc = "complete" /\ call.left = 0
    /\ StreamLevel(c.stream) > 0
    /\ call' = [call EXCEPT !.left = StreamLevel(c.stream)]
    /\ UNCHANGED <<c, ret, pc, scan, net>>

CompletePeek ==
    /\ pc = "complete" /\ call.left = 0
    /\ StreamLevel(c.stream) = 0
    /\ StartCall("peek", 1, 0)

\* A variant that goes on counting from where the file was left.
RestartKeepsOffset ==
    /\ pc = "complete" /\ call.left = 0
    /\ StreamLevel(c.stream) < 0
    /\ Commit(TftpGetFile(c))
    /\ call' = [NoCall EXCEPT !.op = "skip", !.num_bytes = call.restart]
    /\ pc' = "top"
    /\ UNCHANGED <<ret, scan>>

\* The file is requested again, even if the transfer ended in an error.
Restart ==
    /\ pc = "complete" /\ call.left = 0
    /\ StreamLevel(c.stream) < 0
    /\ Commit(TftpGetFile([c EXCEPT !.fileOffset = 0]))
    /\ call' = [NoCall EXCEPT !.op = "skip", !.num_bytes = call.restart]
    /\ pc' = "top"
    /\ UNCHANGED <<ret, scan>>

Poll ==
    \/ ReturnError \/ ReturnClosed
    \/ TimerDue \/ TimerNotDue \/ ScanTimer
    \/ StreamDry \/ CopyStream
    \/ CompleteRead \/ CompleteQuery \/ CompletePeek \/ Restart
    \/ NoPacket
    \/ \E m \in FromServer : ProcPacket(m)

-----------------------------------------------------------------------------

\* The stream's zeroed variables: closed, and full of bytes nobody wrote.
UnopenedStream ==
    [is_open |-> FALSE, data |-> [i \in 1 .. MAX_SIZE_STREAM_BUFFER |-> 0]]

NetInit ==
    /\ c = [stream |-> UnopenedStream,
            timers |-> TimerInit,
            socks |-> UdpInit,
            tftp |-> TftpCleared,
            bootp |-> BootpCleared,
            error_flag |-> FALSE,
            fileOffset |-> 0,
            have_server |-> FALSE,
            use_server |-> FALSE,
            have_params |-> FALSE,
            sent |-> {}]
    /\ call = NoCall
    /\ ret = 0
    /\ pc = "closed"
    /\ scan = 0
    /\ net = {}
==============================================================================
