-------------------------------- MODULE Bootp --------------------------------
(***************************************************************************)
(* The BOOTP client of driver/eth/bootp.c, as operators on the client      *)
(* state of module Tftp.  bootpmcb is                                      *)
(*   [sock, bootp_timer, num_request].                                     *)
(* A reply is a message [type |-> "BOOTREP", server |-> BOOLEAN]: whether  *)
(* it names a server is all the rest of the system depends on.             *)
(***************************************************************************)
EXTENDS Tftp

CONSTANTS
    BOOTP_SEED_TIMEOUT, \* 40 ticks
    BOOTP_MAX_RETRIES   \* 5

ASSUME BootpAssumption ==
    /\ BOOTP_SEED_TIMEOUT \in Nat \ {0}
    /\ BOOTP_MAX_RETRIES \in Nat \ {0}

BootpCleared == [sock |-> 0, bootp_timer |-> 0, num_request |-> 0]

CloseBootpSock(c) == [c EXCEPT !.socks = SockClose(@, c.bootp.sock)]

BootpSend(c) ==
    [SockSend(c, c.bootp.sock, "BOOTREQ", 0) EXCEPT !.bootp.num_request = @ + 1]

\* A variant that stops backing off and never arms the timer again.
BootpTmrExpiryNoRearm(c) ==
    LET sent == BootpSend(c)
        d == [sent EXCEPT !.timers = TimerDelete(@, sent.bootp.bootp_timer)]
    IN IF d.bootp.num_request > BOOTP_MAX_RETRIES
       THEN CloseBootpSock(NetSetError(d))
       ELSE d

\* The request is sent again, then the timer is replaced by a longer one.
\* Giving up closes the socket but leaves the stream open.
BootpTmrExpiry(c) ==
    LET sent == BootpSend(c)
        d == [sent EXCEPT !.timers = TimerDelete(@, sent.bootp.bootp_timer)]
        e == [d EXCEPT !.timers = TimerAdd(@, BOOTP_SEED_TIMEOUT * d.bootp.num_request,
                                           "bootp_tmr_expiry"),
                       !.bootp.bootp_timer = AddedHandle(d.timers)]
    IN IF d.bootp.num_request > BOOTP_MAX_RETRIES
       THEN CloseBootpSock(NetSetError(d))
       ELSE IF e.bootp.bootp_timer < 0
       THEN CloseBootpSock(NetSetError([e EXCEPT !.stream = CloseStream(@)]))
       ELSE e

\* A variant that leaves the request timer running.
BootpReceiveKeepsTimer(c, sock, m) ==
    TftpGetFile([c EXCEPT !.have_server = IF c.use_server THEN m.server ELSE @,
                          !.stream = CloseStream(@),
                          !.socks = SockClose(@, sock),
                          !.have_params = TRUE])

\* bootp_receive, for a reply that passes its checks on op, xid and chaddr;
\* any other packet on this port is ignored.
BootpReceive(c, sock, m) ==
    TftpGetFile([c EXCEPT !.timers = TimerDelete(@, c.bootp.bootp_timer),
                          !.have_server = IF c.use_server THEN m.server ELSE @,
                          !.stream = CloseStream(@),
                          !.socks = SockClose(@, sock),
                          !.have_params = TRUE])

BootpInit(c) ==
    LET sock == OpenedHandle(c.socks)
        d == [c EXCEPT !.socks = SockOpen(@, "bootpc", "bootps"),
                       !.bootp = [BootpCleared EXCEPT !.sock = sock]]
        e == BootpSend([d EXCEPT !.stream = OpenStream])
        f == [e EXCEPT !.timers = TimerAdd(@, BOOTP_SEED_TIMEOUT, "bootp_tmr_expiry"),
                       !.bootp.bootp_timer = AddedHandle(e.timers)]
    IN IF sock < 0 THEN NetSetError(d)
       ELSE IF f.bootp.bootp_timer < 0
       THEN NetSetError(CloseBootpSock([f EXCEPT !.stream = CloseStream(@)]))
       ELSE f
==============================================================================
