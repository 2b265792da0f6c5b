--------------------------- MODULE EthBootProperties ---------------------------
(***************************************************************************)
(* What booting over ethernet must guarantee, whatever the network does.   *)
(***************************************************************************)
EXTENDS EthBoot

\* Every field keeps its range; a handle is one the tables have, or -1.
TypeOK ==
    /\ c.stream \in StreamType /\ Len(c.stream.data) <= MAX_SIZE_STREAM_BUFFER
    /\ TimerTableType(c.timers, Max({TFTP_TIMEOUT, TFTP_SERVER_TIMEOUT,
                                     BOOTP_SEED_TIMEOUT * BOOTP_MAX_RETRIES}))
    /\ c.socks \in [Handles -> [local_port : LocalPorts \cup {"0"},
                                remote_port : Ports \cup {"tftpd", "bootps", "0"}]]
    /\ c.tftp.state \in {"0", "READ_REQUEST", "DATA_RECEIVE"}
    /\ c.tftp.sock \in Handles \cup {-1} /\ c.bootp.sock \in Handles \cup {-1}
    /\ c.tftp.timer \in Blocks \cup {-1} /\ c.bootp.bootp_timer \in Blocks \cup {-1}
    /\ c.tftp.block_num \in 0 .. BLOCK_NUMBERS - 1
    /\ c.tftp.num_retransmits \in 0 .. MAX_TFTP_RETRANSMITS + 1
    /\ c.bootp.num_request \in 0 .. BOOTP_MAX_RETRIES + 1
    /\ c.fileOffset \in 0 .. FileLen
    /\ call.op \in {"none", "read", "peek", "skip"} /\ ret \in {0, -1}
    /\ pc \in {"closed", "idle", "top", "scan", "copy", "packet", "complete"}
    /\ scan \in Blocks
    /\ app \in {"closed", "params", "load", "drain"}
    /\ dataSize \in 0 .. MAX_SIZE_STREAM_BUFFER

\* n bytes of the file from the one after byte start.
FileBytes(start, n) == [i \in 1 .. n |-> start + i]

\* A transfer was started in this session.
Transferring == app \in {"load", "drain"} /\ c.stream # UnopenedStream

-----------------------------------------------------------------------------

\* What the loader has read, what a read in progress has put in its buffer and
\* what waits in the stream are consecutive pieces of the file: no block is
\* lost, taken twice or out of order, however the network repeats, delays or
\* drops blocks and acknowledgements (tftp_receive, net_read_peek).
BytesInOrder ==
    Transferring =>
        /\ c.stream.data = FileBytes(c.fileOffset, Len(c.stream.data))
        /\ call.op = "read" =>
              call.got = FileBytes(c.fileOffset - Len(call.got), Len(call.got))

\* A transfer that ended without the error flag delivered the whole file: the
\* loader takes a closed, empty stream for the end of the file (tftp_receive
\* closes the stream at a short block, even if the stream had no room for it).
EndIsEndOfFile ==
    Transferring /\ ~c.error_flag /\ ~c.stream.is_open => Received = FileLen

\* An acknowledgement is never sent for a block that is not in the stream or
\* already read, and so the server cannot move past it (tftp_send_ack).
AckedIsStored ==
    \A m \in net : m.type = "ACK" =>
        Received >= Min({m.block * TFTP_DATA_SIZE, FileLen})

\* When the polling loop takes a packet there is room in the stream for a full
\* block, so stream_write in tftp_receive never refuses one.
RoomForBlock ==
    pc = "packet" => Len(c.stream.data) + TFTP_DATA_SIZE <= MAX_SIZE_STREAM_BUFFER

\* However a transfer ends, in success, by any of the error paths or by giving
\* up on BOOTP, no timer is left running and no socket open.
EndedTransferIsIdle ==
    c.error_flag \/ (Transferring /\ ~c.stream.is_open) =>
        Armed(c.timers) = {} /\ OpenHandles(c.socks) = {}

\* timer_add, timer_delete and the device layer each keep their own account of
\* the running timers: the count is the number of armed blocks, and the
\* hardware timer exists exactly while there are any.  If not, timers would
\* stop (count 0) or timer_add would fail for good (created twice).
TimersConsistent ==
    /\ c.timers.num_active_timers = Cardinality(Armed(c.timers))
    /\ c.timers.timer_created <=> Armed(c.timers) # {}

\* The polling loops only wait while some timer will end the wait.  A seek goes
\* on when the stream is closed: it must hold all that is to be skipped.
WaitIsTimed ==
    pc = "top" /\ ~c.error_flag =>
        /\ c.stream.is_open => Armed(c.timers) # {}
        /\ call.op = "skip" /\ ~c.stream.is_open =>
              Len(c.stream.data) >= Max({1, call.num_bytes})

\* After an error nothing is left to drain.  A failed net_read consumes
\* nothing, so with data in the stream iblEthBoot would drain for ever; the
\* stream is empty because the server timeout is longer, in ticks, than a block
\* is in bytes, and every turn of the loop takes at least a byte.
ErrorLeavesNothing ==
    c.error_flag /\ Transferring => StreamLevel(c.stream) < 0

\* When a TFTP timer fires during the transfer it is the one the last data block
\* started: the server has been silent for all of TFTP_SERVER_TIMEOUT.
TimeoutMeansSilence ==
    /\ pc = "scan" /\ Expires(c.timers, scan)
    /\ c.timers.timer[scan].expiry = "tftp_timer_expiry"
    /\ c.tftp.state = "DATA_RECEIVE"
    => scan = c.tftp.timer

-----------------------------------------------------------------------------

\* The session as its user sees it.
TransferStatus ==
    IF app = "closed" THEN "closed"
    ELSE IF c.error_flag THEN "failed"
    ELSE IF c.stream.is_open THEN "active"
    ELSE "done"

Transfer == INSTANCE FileTransfer WITH
                BlockSize <- TFTP_DATA_SIZE,
                status <- TransferStatus,
                received <- IF app = "closed" THEN 0 ELSE Received,
                delivered <- IF app = "closed" THEN 0 ELSE c.fileOffset

\* A single session is a file transfer: the stream grows by whole blocks, is
\* closed with the last of them, fails at most once, never after the end, and
\* delivers only what it has received (tftp_receive, net_read_peek).
ImplementsTransfer == Transfer!TransferSpec

\* Every session ends: whatever the network and the servers do, the loader's
\* calls return, and the drain loop sees the end of the stream.
SessionEnds == (app # "closed") ~> (app = "closed")
==============================================================================
