--------------------------------- MODULE Tftp ---------------------------------
(***************************************************************************)
(* The TFTP client of driver/eth/tftp.c.  Its handlers run inside the net  *)
(* module's polling loop and change several modules' state in one go, so   *)
(* each is an operator from client state to client state.  A client c has  *)
(*   stream      the byte queue the file goes to   (StreamQueue)           *)
(*   timers      the software timers               (TimerTable)            *)
(*   socks       the UDP sockets                   (UdpSockets)            *)
(*   tftp        tftpmcb: state, sock, timer, block_num, num_retransmits   *)
(*   bootp       bootpmcb (module Bootp)                                   *)
(*   error_flag  netmcb.error_flag, set by net_set_error                   *)
(*   fileOffset  netmcb.fileOffset                                         *)
(*   have_server net_device.server_ip is not 0                             *)
(*   use_server  net_device.use_bootp_server_ip                            *)
(*   have_params set by the asyncComplete callback                         *)
(*   sent        the messages handed to the network in this step           *)
(***************************************************************************)
EXTENDS StreamQueue, TimerTable, UdpSockets

CONSTANTS
    TFTP_DATA_SIZE,       \* 512: bytes in a full block
    TFTP_TIMEOUT,         \* 10 ticks: the read request is sent again
    TFTP_SERVER_TIMEOUT,  \* 600 ticks: the server is taken for dead
    MAX_TFTP_RETRANSMITS, \* 5
    BLOCK_NUMBERS         \* 2^16: block_num is a Uint16

ASSUME TftpAssumption ==
    /\ TFTP_DATA_SIZE \in 1 .. MAX_SIZE_STREAM_BUFFER
    /\ TFTP_TIMEOUT \in Nat \ {0}
    /\ TFTP_SERVER_TIMEOUT \in Nat \ {0}
    /\ MAX_TFTP_RETRANSMITS \in Nat
    /\ BLOCK_NUMBERS \in Nat \ {0}

Mod(n) == n % BLOCK_NUMBERS

\* udp_sock_send: nothing leaves through a socket that is not open.
SockSend(c, sock, type, block) ==
    IF SockIsOpen(c.socks, sock)
    THEN [c EXCEPT !.sent = @ \cup
             {[type |-> type, port |-> c.socks[sock].remote_port, block |-> block]}]
    ELSE c

NetSetError(c) == [c EXCEPT !.error_flag = TRUE]

\* A variant that leaves the timer running.
TftpCleanupKeepsTimer(c) ==
    [c EXCEPT !.socks = SockClose(@, c.tftp.sock),
              !.stream = CloseStream(@)]

\* tftp_cleanup forgets the timer handle but not the socket handle.
TftpCleanup(c) ==
    [c EXCEPT !.timers = TimerDelete(@, c.tftp.timer),
              !.tftp.timer = -1,
              !.socks = SockClose(@, c.tftp.sock),
              !.stream = CloseStream(@)]

TftpFail(c) == NetSetError(TftpCleanup(c))

SendReadRequest(c) == SockSend(c, c.tftp.sock, "RRQ", 0)

TftpSendAck(c) ==
    [SockSend(c, c.tftp.sock, "ACK", c.tftp.block_num)
        EXCEPT !.tftp.block_num = Mod(@ + 1)]

\* A variant that never gives up on the read request.
TftpTimerExpiryNoLimit(c) ==
    IF c.tftp.state = "READ_REQUEST" THEN SendReadRequest(c) ELSE TftpFail(c)

TftpTimerExpiry(c) ==
    IF c.tftp.state = "READ_REQUEST"
    THEN LET d == [c EXCEPT !.tftp.num_retransmits = @ + 1] IN
         IF d.tftp.num_retransmits > MAX_TFTP_RETRANSMITS
         THEN TftpFail(d)
         ELSE SendReadRequest(d)
    ELSE TftpFail(c)

\* A variant that forgets the request timer without stopping it.
OpenDataSocketLeaksTimer(c, sock, src_port) ==
    LET closed == SockClose(c.socks, sock) IN
    [c EXCEPT !.socks = SockOpen(closed, "tftp", src_port),
              !.tftp.state = "DATA_RECEIVE",
              !.tftp.num_retransmits = 0,
              !.tftp.timer = -1,
              !.tftp.sock = OpenedHandle(closed)]

\* The first data block: the request socket gives way to a data socket bound
\* to the port the block came from, and the request timer stops.
OpenDataSocket(c, sock, src_port) ==
    LET closed == SockClose(c.socks, sock) IN
    [c EXCEPT !.socks = SockOpen(closed, "tftp", src_port),
              !.tftp.state = "DATA_RECEIVE",
              !.tftp.num_retransmits = 0,
              !.timers = TimerDelete(@, c.tftp.timer),
              !.tftp.timer = -1,
              !.tftp.sock = OpenedHandle(closed)]

\* A variant that arms the timer of the read request.
RestartServerTimerShort(c) ==
    LET stopped == TimerDelete(c.timers, c.tftp.timer) IN
    [c EXCEPT !.timers = TimerAdd(stopped, TFTP_TIMEOUT, "tftp_timer_expiry"),
              !.tftp.timer = AddedHandle(stopped)]

\* Every data block restarts the server timer.
RestartServerTimer(c) ==
    LET stopped == TimerDelete(c.timers, c.tftp.timer) IN
    [c EXCEPT !.timers = TimerAdd(stopped, TFTP_SERVER_TIMEOUT, "tftp_timer_expiry"),
              !.tftp.timer = AddedHandle(stopped)]

\* A variant that acknowledges the block that came instead.
UnexpectedBlockAcksIt(c, m) ==
    LET d == [c EXCEPT !.tftp.num_retransmits = @ + 1] IN
    IF d.tftp.num_retransmits > MAX_TFTP_RETRANSMITS
    THEN TftpFail(d)
    ELSE TftpSendAck([d EXCEPT !.tftp.block_num = m.block])

\* A variant that acknowledges duplicates for ever.
UnexpectedBlockNoLimit(c, m) ==
    TftpSendAck([c EXCEPT !.tftp.num_retransmits = @ + 1, !.tftp.block_num = Mod(@ - 1)])

\* Not the block expected: the last acknowledgement may have been lost.
UnexpectedBlock(c, m) ==
    LET d == [c EXCEPT !.tftp.num_retransmits = @ + 1] IN
    IF d.tftp.num_retransmits > MAX_TFTP_RETRANSMITS
    THEN TftpFail(d)
    ELSE TftpSendAck([d EXCEPT !.tftp.block_num = Mod(@ - 1)])

\* A variant that takes a full block for the last one.
ExpectedBlockFullIsLast(c, m) ==
    LET d == [c EXCEPT !.tftp.num_retransmits = 0]
        e == IF WriteFits(d.stream, m.data)
             THEN TftpSendAck([d EXCEPT !.stream = AfterWrite(@, m.data)])
             ELSE d
    IN IF Len(m.data) <= TFTP_DATA_SIZE THEN TftpCleanup(e) ELSE e

\* The block expected.  It is acknowledged only if the stream took it, but a
\* short block ends the transfer even if the stream did not.
ExpectedBlock(c, m) ==
    LET d == [c EXCEPT !.tftp.num_retransmits = 0]
        e == IF WriteFits(d.stream, m.data)
             THEN TftpSendAck([d EXCEPT !.stream = AfterWrite(@, m.data)])
             ELSE d
    IN IF Len(m.data) < TFTP_DATA_SIZE THEN TftpCleanup(e) ELSE e

\* A variant that takes whatever block comes.
TftpDataAnyBlock(c, sock, m) ==
    LET first == c.tftp.state = "READ_REQUEST"
        d == IF first THEN OpenDataSocket(c, sock, m.port) ELSE c
        e == RestartServerTimer(d)
    IN IF first /\ d.tftp.sock < 0 THEN TftpFail(d)
       ELSE IF e.tftp.timer < 0 THEN TftpFail(e)
       ELSE ExpectedBlock(e, m)

TftpData(c, sock, m) ==
    LET first == c.tftp.state = "READ_REQUEST"
        d == IF first THEN OpenDataSocket(c, sock, m.port) ELSE c
        e == RestartServerTimer(d)
    IN IF first /\ d.tftp.sock < 0 THEN TftpFail(d)
       ELSE IF e.tftp.timer < 0 THEN TftpFail(e)
       ELSE IF m.block # e.tftp.block_num THEN UnexpectedBlock(e, m)
       ELSE ExpectedBlock(e, m)

\* A variant that takes an error packet for the end of the file.
TftpReceiveErrorEnds(c, sock, m) ==
    IF m.type = "DATA" THEN TftpData(c, sock, m) ELSE TftpCleanup(c)

\* tftp_receive: anything that is not data ends the transfer in error.
TftpReceive(c, sock, m) ==
    IF m.type = "DATA" THEN TftpData(c, sock, m) ELSE TftpFail(c)

\* tftp_get_file.  tftpmcb is cleared, so its handles are 0 until they are set.
TftpGetFile(c) ==
    IF ~c.have_server THEN NetSetError(c)
    ELSE LET opened == SockOpen(c.socks, "tftp", "tftpd")
             sock == OpenedHandle(c.socks)
             d == [c EXCEPT !.stream = OpenStream,
                            !.socks = opened,
                            !.tftp = [state |-> "0", sock |-> sock, timer |-> 0,
                                      block_num |-> 0, num_retransmits |-> 0]]
             e == [d EXCEPT !.tftp.state = "READ_REQUEST",
                            !.tftp.block_num = 1,
                            !.timers = TimerAdd(@, TFTP_TIMEOUT, "tftp_timer_expiry"),
                            !.tftp.timer = AddedHandle(c.timers)]
         IN IF sock < 0 THEN NetSetError([d EXCEPT !.stream = CloseStream(@)])
            ELSE IF e.tftp.timer < 0 THEN TftpFail(e)
            ELSE SendReadRequest(e)

\* tftpmcb before its first use.
TftpCleared ==
    [state |-> "0", sock |-> 0, timer |-> 0, block_num |-> 0, num_retransmits |-> 0]
==============================================================================
