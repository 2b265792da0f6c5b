---------------------------- MODULE EthSessionProofs ----------------------------
(***************************************************************************)
(* What a session waits for, and how it ends.  While the client has a      *)
(* socket open one timer runs, its own, and without a socket none does;    *)
(* from this follow the timers, the waits, the ends and the failures of a  *)
(* session, and that it is a file transfer.                                *)
(*                                                                         *)
(* A session that ends at name detection leaves its timer running, and the *)
(* sessions after it find the timers in any state: the timer can even end  *)
(* their BOOTP exchange in the name of TFTP.  The theorems are about       *)
(* behaviours in which nothing is opened after such a session.             *)
(***************************************************************************)
EXTENDS EthOrderProofs

\* No session follows one that ended at name detection.
AbandonedLast == NameDetectFails => transfers = MaxTransfers

LongestTimeout ==
    Max({TFTP_TIMEOUT, TFTP_SERVER_TIMEOUT, BOOTP_SEED_TIMEOUT * BOOTP_MAX_RETRIES})

\* One timer runs, with the routine e.
RunsFor(t, e) ==
    \E b \in Running(e) :
        /\ t = OneTimer(b)
        /\ b.org_timeout <= LongestTimeout /\ b.timeout <= LongestTimeout

LEMMA Timeouts ==
    /\ LongestTimeout \in Nat
    /\ TFTP_TIMEOUT \in 1 .. LongestTimeout
    /\ TFTP_SERVER_TIMEOUT \in 1 .. LongestTimeout
    /\ \A n \in 1 .. BOOTP_MAX_RETRIES : BOOTP_SEED_TIMEOUT * n \in 1 .. LongestTimeout
  <1> DEFINE S == {TFTP_TIMEOUT, TFTP_SERVER_TIMEOUT, BOOTP_SEED_TIMEOUT * BOOTP_MAX_RETRIES}
  <1>1. /\ TFTP_TIMEOUT \in Nat \ {0} /\ TFTP_SERVER_TIMEOUT \in Nat \ {0}
        /\ BOOTP_SEED_TIMEOUT \in Nat \ {0} /\ BOOTP_MAX_RETRIES \in Nat \ {0}
    BY TftpAssumption, BootpAssumption
  <1>2. BOOTP_SEED_TIMEOUT * BOOTP_MAX_RETRIES \in Nat
    BY <1>1
  <1>3. /\ S \subseteq Nat /\ S # {}
        /\ \A y \in S : y <= TFTP_TIMEOUT + TFTP_SERVER_TIMEOUT + BOOTP_SEED_TIMEOUT * BOOTP_MAX_RETRIES
    BY <1>1, <1>2
  <1>4. Max(S) \in S /\ \A y \in S : y <= Max(S)
    BY <1>1, <1>2, <1>3, MaxOf
  <1>5. ASSUME NEW n \in 1 .. BOOTP_MAX_RETRIES
        PROVE  BOOTP_SEED_TIMEOUT * n \in Nat \ {0}
               /\ BOOTP_SEED_TIMEOUT * n <= BOOTP_SEED_TIMEOUT * BOOTP_MAX_RETRIES
    BY <1>1
  <1> QED
    BY <1>1, <1>2, <1>3, <1>4, <1>5 DEF LongestTimeout

LEMMA StartedTimer ==
    ASSUME NEW e \in Expiries, NEW timeout \in 1 .. LongestTimeout
    PROVE  RunsFor(TimerAdd(TimerInit, timeout, e), e)
  <1> DEFINE b == [expiry |-> e, org_timeout |-> timeout, timeout |-> timeout]
  <1>1. timeout \in Nat \ {0} /\ timeout <= LongestTimeout
    BY Timeouts
  <1>2. /\ b \in Running(e)
        /\ b.org_timeout <= LongestTimeout /\ b.timeout <= LongestTimeout
    BY <1>1 DEF Running
  <1>3. TimerAdd(TimerInit, timeout, e) = OneTimer(b)
    BY FirstTimer
  <1> HIDE DEF b
  <1> QED
    BY <1>2, <1>3 DEF RunsFor

LEMMA CanStart == CanAdd(TimerInit)
  BY NoTimer, ZeroIsABlock DEF CanAdd, TimerInit

LEMMA RunningTimer ==
    ASSUME NEW e \in Expiries, NEW t, RunsFor(t, e)
    PROVE  /\ Armed(t) = {0}
           /\ t.num_active_timers = 1 /\ t.timer_created
           /\ TimerDelete(t, 0) = TimerInit
           /\ t.timer[0].expiry = e
           /\ \A i \in Blocks : /\ Expires(t, i) => i = 0
                                /\ RunsFor(CountDown(t, i), e)
  <1>1. PICK b \in Running(e) :
            /\ t = OneTimer(b)
            /\ b.org_timeout <= LongestTimeout /\ b.timeout <= LongestTimeout
    BY DEF RunsFor
  <1>2. b.expiry = e /\ b.org_timeout \in Nat \ {0} /\ b.timeout \in Nat \ {0}
    BY DEF Running
  <1>3. t.num_active_timers = 1 /\ t.timer_created
    BY <1>1 DEF OneTimer
  <1>4. PICK d \in Running(e) :
            /\ CountDown(OneTimer(b), 0) = OneTimer(d)
            /\ d.timeout = IF b.timeout = 1 THEN b.org_timeout ELSE b.timeout - 1
            /\ d.org_timeout = b.org_timeout
    BY OnlyTimer
  <1>5. d.org_timeout <= LongestTimeout /\ d.timeout <= LongestTimeout
    BY <1>1, <1>2, <1>4, Timeouts
  <1>6. ASSUME NEW i \in Blocks PROVE RunsFor(CountDown(t, i), e)
    <2>1. CASE i = 0
      BY <1>1, <1>4, <1>5, <2>1 DEF RunsFor
    <2>2. CASE i # 0
      BY <1>1, <2>2, OnlyTimer DEF RunsFor
    <2> QED
      BY <2>1, <2>2
  <1> QED
    BY <1>1, <1>2, <1>3, <1>6, OnlyTimer

-----------------------------------------------------------------------------
(* The clocks of a client.                                                 *)

Counts(d) ==
    /\ d.tftp.block_num \in 0 .. BLOCK_NUMBERS - 1
    /\ d.tftp.num_retransmits \in 0 .. MAX_TFTP_RETRANSMITS + 1
    /\ d.bootp.num_request \in 0 .. BOOTP_MAX_RETRIES + 1

\* What a client with a socket of either kind, or none, has running.
ClientClocks(d) ==
    /\ Counts(d)
    /\ d.socks = UdpInit => d.timers = TimerInit
    /\ d.socks = BootpSocket =>
          /\ d.bootp.bootp_timer = 0
          /\ d.bootp.num_request \in 1 .. BOOTP_MAX_RETRIES
          /\ RunsFor(d.timers, "bootp_tmr_expiry")
    /\ OnTftpSocket(d) =>
          /\ d.tftp.timer = 0
          /\ d.tftp.num_retransmits <= MAX_TFTP_RETRANSMITS
          /\ RunsFor(d.timers, "tftp_timer_expiry")

LEMMA NothingRuns ==
    ASSUME NEW d, Counts(d), d.socks = UdpInit, d.timers = TimerInit
    PROVE  ClientClocks(d)
  BY SocketsDiffer DEF ClientClocks, OnTftpSocket

LEMMA BootpRuns ==
    ASSUME NEW d, Counts(d), d.socks = BootpSocket, d.bootp.bootp_timer = 0,
           d.bootp.num_request \in 1 .. BOOTP_MAX_RETRIES,
           RunsFor(d.timers, "bootp_tmr_expiry")
    PROVE  ClientClocks(d)
  BY SocketsDiffer DEF ClientClocks, OnTftpSocket

LEMMA TftpRuns ==
    ASSUME NEW d, Counts(d), OnTftpSocket(d), d.tftp.timer = 0,
           d.tftp.num_retransmits <= MAX_TFTP_RETRANSMITS,
           RunsFor(d.timers, "tftp_timer_expiry")
    PROVE  ClientClocks(d)
  BY SocketsDiffer DEF ClientClocks, OnTftpSocket

LEMMA Limits ==
    /\ MAX_TFTP_RETRANSMITS \in Nat /\ BOOTP_MAX_RETRIES \in Nat \ {0}
    /\ BLOCK_NUMBERS \in Nat \ {0}
    /\ NumbersDiffer => 1 \in 0 .. BLOCK_NUMBERS - 1
    /\ \A n \in Int : Mod(n) \in 0 .. BLOCK_NUMBERS - 1
    /\ "tftp_timer_expiry" \in Expiries /\ "bootp_tmr_expiry" \in Expiries
  BY TftpAssumption, BootpAssumption, Blocks1, ModType DEF NumbersDiffer, Expiries

LEMMA CommittedClocks ==
    ASSUME NEW e \in Client, Committed(e), ClientClocks(e)
    PROVE  ClientClocks(c')
  BY DEF Committed, ClientClocks, Counts, OnTftpSocket

\* Requesting the file starts the timer of the request.
LEMMA RequestClocks ==
    ASSUME NumbersDiffer, NEW d \in Client, Counts(d), d.socks = UdpInit, d.timers = TimerInit,
           NEW e \in Client, e.bootp = d.bootp,
           NoServer(d, e) \/ NoTimerLeft(d, e) \/ Requested(d, e)
    PROVE  ClientClocks(e) /\ ~NoTimerLeft(d, e)
  <1>1. ~NoTimerLeft(d, e)
    BY CanStart DEF NoTimerLeft
  <1>2. CASE NoServer(d, e)
    <2>1. Counts(e) /\ e.socks = UdpInit /\ e.timers = TimerInit
      BY <1>2 DEF NoServer, Counts
    <2> QED
      BY <1>1, <2>1, NothingRuns
  <1>3. CASE Requested(d, e)
    <2>1. Counts(e)
      BY <1>3, Limits DEF Requested, Counts
    <2>2. OnTftpSocket(e) /\ e.tftp.timer = 0 /\ e.tftp.num_retransmits = 0
      BY <1>3, NoTimer DEF Requested, OnTftpSocket, RemotePorts
    <2>3. RunsFor(e.timers, "tftp_timer_expiry")
      BY <1>3, Timeouts, StartedTimer, Limits DEF Requested
    <2> QED
      BY <1>1, <2>1, <2>2, <2>3, TftpRuns, Limits
  <1> QED
    BY <1>1, <1>2, <1>3

LEMMA AskClocks ==
    ASSUME NEW d \in Client, Counts(d), d.socks = UdpInit, d.timers = TimerInit,
           NEW e \in Client, OpenedBootp(d, e)
    PROVE  ClientClocks(e) /\ BootpAsked(d, e)
  <1>1. BootpAsked(d, e) /\ e.tftp = d.tftp /\ e.bootp.num_request = 1
    BY CanStart DEF OpenedBootp, BootpNotStarted
  <1>2. Counts(e)
    BY <1>1, Limits DEF Counts
  <1>3. e.socks = BootpSocket /\ e.bootp.bootp_timer = 0
    BY <1>1, NoTimer DEF BootpAsked
  <1>4. RunsFor(e.timers, "bootp_tmr_expiry")
    <2>1. 1 \in 1 .. BOOTP_MAX_RETRIES /\ BOOTP_SEED_TIMEOUT * 1 = BOOTP_SEED_TIMEOUT
      BY BootpAssumption
    <2>2. BOOTP_SEED_TIMEOUT \in 1 .. LongestTimeout
      BY <2>1, Timeouts
    <2> QED
      BY <1>1, <2>2, StartedTimer, Limits DEF BootpAsked
  <1>5. e.bootp.num_request \in 1 .. BOOTP_MAX_RETRIES
    BY <1>1, Limits
  <1> QED
    BY <1>1, <1>2, <1>3, <1>4, <1>5, BootpRuns

LEMMA TftpExpiryClocks ==
    ASSUME NEW d \in Client, ClientClocks(d), OnTftpSocket(d), NEW e \in Client, TftpExpired(d, e),
           SockClose(d.socks, 0) = UdpInit
    PROVE  ClientClocks(e)
  <1>1. /\ Counts(d) /\ d.tftp.timer = 0 /\ d.tftp.num_retransmits <= MAX_TFTP_RETRANSMITS
        /\ RunsFor(d.timers, "tftp_timer_expiry")
    BY DEF ClientClocks
  <1>2. Counts(e)
    <2>1. d.tftp.num_retransmits \in Nat /\ d.tftp.num_retransmits + 1 \in 0 .. MAX_TFTP_RETRANSMITS + 1
      BY <1>1, Limits DEF Counts
    <2> QED
      BY <1>1, <2>1 DEF Counts, TftpExpired
  <1>3. CASE GaveUp(d, e)
    <2>1. e.socks = UdpInit /\ e.timers = TimerInit
      BY <1>1, <1>3, RunningTimer, Limits DEF GaveUp
    <2> QED
      BY <1>2, <2>1, NothingRuns
  <1>4. CASE RequestedAgain(d, e)
    <2>1. /\ OnTftpSocket(e) /\ e.tftp.timer = 0
          /\ e.tftp.num_retransmits <= MAX_TFTP_RETRANSMITS
          /\ RunsFor(e.timers, "tftp_timer_expiry")
      BY <1>1, <1>4 DEF RequestedAgain, OnTftpSocket
    <2> QED
      BY <1>2, <2>1, TftpRuns
  <1> QED
    BY <1>3, <1>4 DEF TftpExpired

LEMMA BootpExpiryClocks ==
    ASSUME NEW d \in Client, ClientClocks(d), d.socks = BootpSocket, NEW e \in Client,
           BootpExpired(d, e), SockClose(d.socks, 0) = UdpInit
    PROVE  ClientClocks(e)
  <1>1. /\ Counts(d) /\ d.bootp.bootp_timer = 0 /\ d.bootp.num_request \in 1 .. BOOTP_MAX_RETRIES
        /\ RunsFor(d.timers, "bootp_tmr_expiry")
    BY DEF ClientClocks
  <1>2. e.tftp = d.tftp /\ e.bootp.num_request = d.bootp.num_request + 1
    BY DEF BootpExpired
  <1>3. Counts(e)
    BY <1>1, <1>2, Limits DEF Counts
  <1>4. TimerDelete(d.timers, 0) = TimerInit
    BY <1>1, RunningTimer, Limits
  <1>5. CASE BootpGaveUp(d, e)
    <2>1. e.socks = UdpInit /\ e.timers = TimerInit
      BY <1>1, <1>4, <1>5, CanStart DEF BootpGaveUp
    <2> QED
      BY <1>3, <2>1, NothingRuns
  <1>6. CASE BackedOff(d, e)
    <2>1. /\ e.socks = BootpSocket /\ e.bootp.bootp_timer = 0
          /\ e.bootp.num_request <= BOOTP_MAX_RETRIES
          /\ e.timers = TimerAdd(TimerInit, BOOTP_SEED_TIMEOUT * e.bootp.num_request,
                                 "bootp_tmr_expiry")
      BY <1>1, <1>4, <1>6, NoTimer DEF BackedOff
    <2> DEFINE n == e.bootp.num_request
    <2>2. n \in 1 .. BOOTP_MAX_RETRIES
      BY <1>1, <1>2, <2>1, Limits
    <2>3. RunsFor(e.timers, "bootp_tmr_expiry")
      <3>1. e.timers = TimerAdd(TimerInit, BOOTP_SEED_TIMEOUT * n, "bootp_tmr_expiry")
        BY <2>1
      <3> HIDE DEF n
      <3>2. BOOTP_SEED_TIMEOUT * n \in 1 .. LongestTimeout
        BY <2>2, Timeouts
      <3> QED
        BY <3>1, <3>2, StartedTimer, Limits
    <2> QED
      BY <1>3, <2>1, <2>2, <2>3, BootpRuns
  <1> QED
    BY <1>5, <1>6 DEF BootpExpired

LEMMA BlockClocks ==
    ASSUME NEW m, c \in Client, ClientClocks(c), NEW e \in Client, TakesBlock(e, m)
    PROVE  ClientClocks(e)
  <1>1. OnTftpSocket(c)
    BY DEF TakesBlock, Fetching
  <1>2. /\ Counts(c) /\ c.tftp.timer = 0 /\ c.tftp.num_retransmits <= MAX_TFTP_RETRANSMITS
        /\ RunsFor(c.timers, "tftp_timer_expiry")
    BY <1>1 DEF ClientClocks
  <1>3. Stopped(c) = TimerInit
    BY <1>2, RunningTimer, Limits DEF Stopped
  <1>4. /\ RunsFor(Rearmed(c), "tftp_timer_expiry")
        /\ AddedHandle(Stopped(c)) = 0
        /\ Disarmed(c) = TimerInit
    <2>1. RunsFor(Rearmed(c), "tftp_timer_expiry")
      BY <1>3, Timeouts, StartedTimer, Limits DEF Rearmed
    <2>2. AddedHandle(Stopped(c)) = 0
      BY <1>3, NoTimer
    <2> QED
      BY <2>1, <2>2, RunningTimer, Limits DEF Disarmed
  <1>5. Counts(e)
    <2>1. e.bootp = c.bootp
      BY DEF TakesBlock
    <2>2. e.tftp.num_retransmits \in 0 .. MAX_TFTP_RETRANSMITS + 1
      <3>1. c.tftp.num_retransmits \in Nat /\ c.tftp.num_retransmits + 1 \in 0 .. MAX_TFTP_RETRANSMITS + 1
        BY <1>2, Limits DEF Counts
      <3>2. 0 \in 0 .. MAX_TFTP_RETRANSMITS + 1 /\ 1 \in 0 .. MAX_TFTP_RETRANSMITS + 1
        BY Limits
      <3> QED
        BY <1>2, <3>1, <3>2 DEF TakesBlock, Counts
    <2>3. e.tftp.block_num \in 0 .. BLOCK_NUMBERS - 1
      <3> DEFINE b == c.tftp.block_num
      <3>1. e.tftp.block_num \in {b, Mod(b + 1), Mod(Mod(b - 1) + 1)}
        BY DEF TakesBlock, Rejected, Duplicate, Stored, Finished, Accepted
      <3>2. b \in 0 .. BLOCK_NUMBERS - 1
        BY <1>2 DEF Counts
      <3> HIDE DEF b
      <3>3. b + 1 \in Int /\ b - 1 \in Int
        BY <3>2, Limits
      <3>4. Mod(b + 1) \in 0 .. BLOCK_NUMBERS - 1 /\ Mod(b - 1) + 1 \in Int
        BY <3>3, ModType
      <3>5. Mod(Mod(b - 1) + 1) \in 0 .. BLOCK_NUMBERS - 1
        BY <3>4, ModType
      <3> QED
        BY <3>1, <3>2, <3>4, <3>5
    <2> QED
      BY <1>2, <2>1, <2>2, <2>3 DEF Counts
  <1>6. CASE Rejected(c, e) \/ Finished(c, e, Packet(m))
    <2>1. e.socks = UdpInit /\ e.timers = TimerInit
      BY <1>4, <1>6 DEF Rejected, Finished
    <2> QED
      BY <1>5, <2>1, NothingRuns
  <1>7. CASE Duplicate(c, e) \/ Stored(c, e, Packet(m))
    <2>1. /\ OnTftpSocket(e) /\ e.tftp.timer = 0
          /\ RunsFor(e.timers, "tftp_timer_expiry")
      BY <1>4, <1>7 DEF Duplicate, Stored, GoesOn
    <2>2. e.tftp.num_retransmits <= MAX_TFTP_RETRANSMITS
      <3>1. e.tftp.num_retransmits <= MAX_TFTP_RETRANSMITS \/ e.tftp.num_retransmits = 0
        BY <1>7, Zenon DEF Duplicate, Stored, Accepted
      <3> QED
        BY <3>1, Limits
    <2> QED
      BY <1>5, <2>1, <2>2, TftpRuns
  <1> QED
    BY <1>6, <1>7 DEF TakesBlock

-----------------------------------------------------------------------------
(* The invariant.                                                          *)

\* A session that failed, or that can be followed by another, has closed its
\* socket.  Only a seek backwards requests the file again after an error.
Sessions ==
    /\ app = "params" /\ c.error_flag => c.socks = UdpInit
    /\ app = "params" /\ ret < 0 => c.socks = UdpInit
    /\ app = "closed" /\ transfers < MaxTransfers => c.socks = UdpInit
    /\ SeekTargets = {} =>
          /\ ~Seeking /\ call.op # "skip"
          /\ c.error_flag => c.socks = UdpInit

Clocks == ClientClocks(c) /\ Sessions

LEMMA SameClocks ==
    ASSUME ClientClocks(c), UNCHANGED <<c.timers, c.socks, c.tftp, c.bootp>>
    PROVE  ClientClocks(c)'
  BY DEF ClientClocks, Counts, OnTftpSocket

LEMMA ClosedIsIdle ==
    ASSUME Shape, StreamLevel(c.stream) < 0
    PROVE  Idle /\ ~c.stream.is_open /\ c.stream.data = << >>
  <1>1. c \in Client /\ Phase
    BY DEF Shape
  <1>2. ~c.stream.is_open /\ c.stream.data = << >>
    BY <1>1, LevelType DEF Client
  <1> QED
    BY <1>1, <1>2 DEF Phase, Asking, Fetching, OpenStream

LEMMA BootClocks == ASSUME Shape, Clocks, AbandonedLast, Boot PROVE Clocks'
  <1>1. /\ UNCHANGED c /\ app # "closed"
        /\ \/ pc' \in {"idle", "top", "closed"} /\ ~Seeking'
           \/ pc' = "complete" /\ call'.restart \in SeekTargets /\ call'.restart < c.fileOffset
        /\ call'.op = "skip" => c.fileOffset + call'.num_bytes \in SeekTargets
        /\ app' = "params" => app = "params"
    BY BootEffect
  <1>2. ClientClocks(c)'
    BY <1>1, SameClocks DEF Clocks
  <1>3. app' = "params" /\ ret' < 0 => c.socks = UdpInit
    <2> SUFFICES ASSUME app' = "params" PROVE ret' = ret \/ ret' = 0
      BY <1>1 DEF Clocks, Sessions
    <2>1. AwaitParams
      BY <1>1
         DEF Boot, AwaitParams, ParamsFailed, NameDetectFails, ParamsKnown, DetectFormat,
             LoaderRead, LoaderPeek, LoaderSeek, LoaderDone, DrainRead, DrainQuery, DrainPeek,
             DrainDone, appVars
    <2>2. NetCall("peek", HEADER_BYTES)
      BY <2>1 DEF AwaitParams
    <2>3. HEADER_BYTES # 0
      BY EthBootAssumption
    <2> QED
      BY <2>2, <2>3 DEF NetCall, StartCall
  <1>4. app' = "closed" /\ transfers' < MaxTransfers => c.socks = UdpInit
    <2> SUFFICES ASSUME app' = "closed", transfers' < MaxTransfers PROVE c.socks = UdpInit
      OBVIOUS
    <2>1. ParamsFailed \/ NameDetectFails \/ DrainDone
      BY <1>1
         DEF Boot, AwaitParams, ParamsFailed, NameDetectFails, ParamsKnown, DetectFormat,
             LoaderRead, LoaderPeek, LoaderSeek, LoaderDone, DrainRead, DrainQuery, DrainPeek,
             DrainDone, appVars
    <2>2. CASE ParamsFailed
      BY <2>2 DEF ParamsFailed, Clocks, Sessions
    <2>3. CASE NameDetectFails
      <3>1. transfers = MaxTransfers /\ transfers' = transfers
        BY <2>3 DEF AbandonedLast, NameDetectFails
      <3>2. ~(transfers < MaxTransfers)
        BY <3>1, EthBootAssumption
      <3> QED
        BY <3>1, <3>2
    <2>4. CASE DrainDone
      BY <2>4, ClosedIsIdle DEF DrainDone, Idle
    <2> QED
      BY <2>1, <2>2, <2>3, <2>4
  <1>5. SeekTargets = {} => ~Seeking' /\ call'.op # "skip"
    BY <1>1
  <1> QED
    BY <1>1, <1>2, <1>3, <1>4, <1>5 DEF Clocks, Sessions

LEMMA QuietClocks == ASSUME Shape, Clocks, Quiet, UNCHANGED appVars PROVE Clocks'
  <1>1. /\ UNCHANGED c /\ call'.restart = call.restart
        /\ call'.op = "skip" => call' = call
    BY QuietEffect
  <1>2. ClientClocks(c)'
    BY <1>1, SameClocks DEF Clocks
  <1>3. ret' = ret \/ ret' = 0 \/ c.error_flag \/ StreamLevel(c.stream) < 0
    BY DEF Quiet, ReturnError, ReturnClosed, TimerDue, TimerNotDue, StreamDry, NoPacket,
           CompleteRead, CompleteQuery, CompletePeek, StartCall
  <1>4. StreamLevel(c.stream) < 0 => c.socks = UdpInit
    BY ClosedIsIdle DEF Idle
  <1>5. SeekTargets = {} => ~Seeking' /\ call'.op # "skip"
    BY <1>1 DEF Clocks, Sessions, Seeking
  <1> QED
    BY <1>1, <1>2, <1>3, <1>4, <1>5 DEF Clocks, Sessions, appVars

LEMMA CopyClocks == ASSUME Shape, Clocks, CopyStream, UNCHANGED appVars PROVE Clocks'
  <1>1. c \in Client /\ c.sent = {} /\ call \in Call
    BY DEF Shape
  <1>2. /\ c'.timers = c.timers /\ c'.socks = c.socks /\ c'.tftp = c.tftp
        /\ c'.bootp = c.bootp /\ c'.error_flag = c.error_flag
        /\ \/ Return(IF c.error_flag THEN -1 ELSE 0)
           \/ ret' = ret /\ call'.op = call.op /\ call'.restart = call.restart
    BY <1>1, CopyEffect
  <1>3. ClientClocks(c)'
    BY <1>2, SameClocks DEF Clocks
  <1>4. ret' = ret \/ ret' = 0 \/ c.error_flag
    BY <1>2 DEF Return
  <1>5. SeekTargets = {} => ~Seeking' /\ call'.op # "skip"
    <2>1. CASE Return(IF c.error_flag THEN -1 ELSE 0)
      <3>1. call' = ReturnedCall(call)
        BY <2>1 DEF Return, ReturnedCall
      <3>2. call'.op = "none" /\ call'.restart = call.restart
        BY <1>1, <3>1, ReturnedCallType
      <3> QED
        BY <3>2 DEF Clocks, Sessions, Seeking
    <2> QED
      BY <1>2, <2>1 DEF Clocks, Sessions, Seeking
  <1> QED
    BY <1>2, <1>3, <1>4, <1>5 DEF Clocks, Sessions, appVars

LEMMA ScanClocks == ASSUME Shape, Clocks, ScanTimer, UNCHANGED appVars PROVE Clocks'
  <1>1. c \in Client /\ c.sent = {} /\ scan \in Blocks /\ Phase /\ ClientClocks(c)
    BY DEF Shape, Control, Clocks
  <1>2. pc = "scan" /\ UNCHANGED <<call, ret, app>> /\ app # "closed"
    BY <1>1, ScanEffect DEF appVars, Shape, Control
  <1>3. PICK d \in Client, e \in Client :
                 /\ Ticked(d) /\ Committed(e)
                 /\ \/ e = d /\ ~Expires(c.timers, scan)
                    \/ Runs("tftp_timer_expiry") /\ TftpExpired(d, e)
                    \/ Runs("bootp_tmr_expiry") /\ BootpExpired(d, e)
    BY <1>1, ScanEffect
  <1>4. SockClose(d.socks, 0) = UdpInit
    BY <1>1, <1>3, ClosedSocket DEF Ticked
  <1>5. Counts(d)
    BY <1>1, <1>3 DEF ClientClocks, Counts, Ticked
  <1>6. ClientClocks(e)
    <2>1. CASE c.socks = UdpInit
      <3>1. d.timers = TimerInit /\ d.socks = UdpInit /\ ~Expires(c.timers, scan)
        BY <1>1, <1>3, <2>1, NoTimer DEF ClientClocks, Ticked
      <3> QED
        BY <1>3, <1>5, <3>1, NothingRuns DEF Runs
    <2>2. CASE c.socks = BootpSocket
      <3>1. /\ c.bootp.bootp_timer = 0 /\ c.bootp.num_request \in 1 .. BOOTP_MAX_RETRIES
            /\ RunsFor(c.timers, "bootp_tmr_expiry")
        BY <1>1, <2>2 DEF ClientClocks
      <3>2. /\ RunsFor(CountDown(c.timers, scan), "bootp_tmr_expiry")
            /\ ~Runs("tftp_timer_expiry")
        BY <1>1, <3>1, RunningTimer, Limits DEF Runs
      <3>3. d.socks = BootpSocket /\ d.bootp = c.bootp /\ d.timers = CountDown(c.timers, scan)
        BY <1>3, <2>2 DEF Ticked
      <3>4. ClientClocks(d)
        BY <1>5, <3>1, <3>2, <3>3, BootpRuns
      <3> QED
        BY <1>3, <1>4, <3>2, <3>3, <3>4, BootpExpiryClocks
    <2>3. CASE OnTftpSocket(c)
      <3>1. /\ c.tftp.timer = 0 /\ c.tftp.num_retransmits <= MAX_TFTP_RETRANSMITS
            /\ RunsFor(c.timers, "tftp_timer_expiry")
        BY <1>1, <2>3 DEF ClientClocks
      <3>2. /\ RunsFor(CountDown(c.timers, scan), "tftp_timer_expiry")
            /\ ~Runs("bootp_tmr_expiry")
        BY <1>1, <3>1, RunningTimer, Limits DEF Runs
      <3>3. OnTftpSocket(d) /\ d.tftp = c.tftp /\ d.timers = CountDown(c.timers, scan)
        BY <1>3, <2>3 DEF Ticked, OnTftpSocket
      <3>4. ClientClocks(d)
        BY <1>5, <3>1, <3>2, <3>3, TftpRuns
      <3> QED
        BY <1>3, <1>4, <3>2, <3>3, <3>4, TftpExpiryClocks
    <2> QED
      BY <1>1, <2>1, <2>2, <2>3 DEF Phase, Idle, Asking, Fetching
  <1>7. ClientClocks(c')
    BY <1>3, <1>6, CommittedClocks
  <1>8. Kept \/ Lost
    BY ScanOutcome
  <1>9. (ClientClocks(c))'
    BY <1>7 DEF ClientClocks, Counts, OnTftpSocket
  <1> QED
    BY <1>2, <1>8, <1>9 DEF Clocks, Sessions, Kept, Lost, Seeking

LEMMA PacketClocks ==
    ASSUME Shape, Clocks, NumbersDiffer, NEW m \in FromServer, ProcPacket(m), UNCHANGED appVars
    PROVE  Clocks'
  <1>1. c \in Client /\ Phase /\ ClientClocks(c) /\ Counts(c)
    BY DEF Shape, Clocks, ClientClocks
  <1>2. pc = "packet" /\ UNCHANGED <<call, ret, app>> /\ app # "closed"
    BY PacketEffect DEF appVars, Shape, Control
  <1>3. PICK e \in Client :
                 /\ Committed(e) /\ Frame(c, e)
                 /\ \/ m.type = "BOOTREP" /\ TakesReply(e)
                    \/ m.type = "ERROR" /\ TakesError(e)
                    \/ m.type = "DATA" /\ TakesBlock(e, m)
    BY PacketEffect
  <1>4. c.socks # UdpInit
    BY <1>3, SocketsDiffer DEF TakesReply, TakesError, TakesBlock, Asking, Fetching, OnTftpSocket
  <1>5. ClientClocks(e)
    <2>1. CASE TakesReply(e)
      <3>1. PICK f \in Client : /\ Answered(c, f)
                                /\ NoServer(f, e) \/ NoTimerLeft(f, e) \/ Requested(f, e)
        BY <2>1 DEF TakesReply
      <3>2. c.bootp.bootp_timer = 0 /\ RunsFor(c.timers, "bootp_tmr_expiry")
        BY <1>1, <2>1 DEF TakesReply, Asking, ClientClocks
      <3>3. f.timers = TimerInit /\ f.socks = UdpInit /\ Counts(f) /\ e.bootp = f.bootp
        BY <1>1, <2>1, <3>1, <3>2, RunningTimer, Limits DEF Answered, Counts, TakesReply
      <3> QED
        BY <3>1, <3>3, RequestClocks
    <2>2. CASE TakesError(e)
      <3>1. OnTftpSocket(c)
        BY <2>2 DEF TakesError, Fetching
      <3>2. c.tftp.timer = 0 /\ RunsFor(c.timers, "tftp_timer_expiry")
        BY <1>1, <3>1 DEF ClientClocks
      <3>3. e.socks = UdpInit /\ e.timers = TimerInit
        BY <1>1, <2>2, <3>2, ClosedSocket, RunningTimer, Limits DEF TakesError, GaveUp
      <3>4. Counts(e)
        BY <1>1, <2>2 DEF TakesError, Counts
      <3> QED
        BY <3>3, <3>4, NothingRuns
    <2>3. CASE TakesBlock(e, m)
      BY <1>1, <2>3, BlockClocks
    <2> QED
      BY <1>3, <2>1, <2>2, <2>3
  <1>6. ClientClocks(c')
    BY <1>3, <1>5, CommittedClocks
  <1>7. (ClientClocks(c))'
    BY <1>6 DEF ClientClocks, Counts, OnTftpSocket
  <1>8. Lost \/ c'.error_flag = c.error_flag
    BY PacketOutcome DEF Began, Again, Took
  <1> QED
    BY <1>2, <1>4, <1>7, <1>8 DEF Clocks, Sessions, Lost, Seeking

LEMMA RestartClocks ==
    ASSUME Shape, Clocks, NumbersDiffer, Restart, UNCHANGED appVars
    PROVE  Clocks'
  <1>1. Idle /\ app = "load" /\ pc = "complete"
    BY RestartEffect
  <1>2. PICK d \in Client, e \in Client :
                 /\ Rewound(d) /\ Committed(e) /\ Frame(d, e)
                 /\ e.have_params = d.have_params /\ e.bootp = d.bootp
                 /\ NoServer(d, e) \/ NoTimerLeft(d, e) \/ Requested(d, e)
    BY RestartEffect
  <1>3. d.timers = TimerInit /\ d.socks = UdpInit /\ Counts(d)
    BY <1>1, <1>2 DEF Idle, Rewound, Clocks, ClientClocks, Counts
  <1>4. ClientClocks(e)
    BY <1>2, <1>3, RequestClocks
  <1>5. ClientClocks(c')
    BY <1>2, <1>4, CommittedClocks
  <1>6. (ClientClocks(c))'
    BY <1>5 DEF ClientClocks, Counts, OnTftpSocket
  <1>7. SeekTargets # {}
    BY <1>1 DEF Clocks, Sessions, Shape, Control
  <1> QED
    BY <1>1, <1>6, <1>7 DEF Clocks, Sessions, appVars

LEMMA OpenClocks ==
    ASSUME Shape, Clocks, NumbersDiffer, NEW config \in Configs, Open(config)
    PROVE  Clocks'
  <1>1. c \in Client /\ c.sent = {}
    BY DEF Shape
  <1>2. /\ ret' = 0 /\ UNCHANGED call
        /\ app = "closed" /\ app' = "params" /\ transfers < MaxTransfers
    BY <1>1, OpenEffect
  <1>3. PICK d \in Client, e \in Client :
                 /\ WasReset(d, config) /\ Committed(e) /\ Frame(d, e)
                 /\ e.have_params = d.have_params
                 /\ \/ config.bootp /\ OpenedBootp(d, e)
                    \/ ~config.bootp /\ OpenedTftp(d, e)
    BY <1>1, OpenEffect
  <1>4. d.timers = TimerInit /\ d.socks = UdpInit /\ Counts(d) /\ ~d.error_flag
    BY <1>2, <1>3 DEF WasReset, Clocks, Sessions, ClientClocks, Counts
  <1>5. ClientClocks(e) /\ (e.error_flag => e.socks = UdpInit)
    <2>1. CASE OpenedBootp(d, e)
      BY <1>4, <2>1, AskClocks DEF BootpAsked
    <2>2. CASE OpenedTftp(d, e)
      <3>1. e.bootp = d.bootp /\ (NoServer(d, e) \/ NoTimerLeft(d, e) \/ Requested(d, e))
        BY <2>2 DEF OpenedTftp
      <3>2. ClientClocks(e)
        BY <1>4, <3>1, RequestClocks
      <3> QED
        BY <1>4, <3>1, <3>2 DEF NoServer, NoTimerLeft, Requested
    <2> QED
      BY <1>3, <2>1, <2>2
  <1>6. ClientClocks(c')
    BY <1>3, <1>5, CommittedClocks
  <1>7. (ClientClocks(c))'
    BY <1>6 DEF ClientClocks, Counts, OnTftpSocket
  <1>8. c'.error_flag => c'.socks = UdpInit
    BY <1>3, <1>5 DEF Committed
  <1> QED
    BY <1>2, <1>7, <1>8 DEF Clocks, Sessions, Seeking

LEMMA InitClocks == Init => Clocks
  <1> SUFFICES ASSUME Init PROVE Clocks
    OBVIOUS
  <1>1. /\ c.socks = UdpInit /\ c.timers = TimerInit /\ c.tftp = TftpCleared
        /\ c.bootp = BootpCleared /\ ~c.error_flag
        /\ call = NoCall /\ app = "closed"
    BY DEF Init, NetInit
  <1>2. Counts(c)
    BY <1>1, Limits DEF Counts, TftpCleared, BootpCleared
  <1>3. ClientClocks(c)
    BY <1>1, <1>2, NothingRuns
  <1> QED
    BY <1>1, <1>3, NoCallType DEF Clocks, Sessions, Seeking

LEMMA NextClocks ==
    ASSUME Shape, Clocks, NumbersDiffer, [Next]_vars, [AbandonedLast]_vars
    PROVE  Clocks'
  <1>1. CASE UNCHANGED vars
    BY <1>1, SameClocks DEF vars, netVars, appVars, Clocks, Sessions, Seeking
  <1>2. CASE Boot /\ AbandonedLast
    BY <1>2, BootClocks
  <1>3. CASE Poll /\ UNCHANGED appVars
    <2>1. Quiet \/ ScanTimer \/ CopyStream \/ Restart \/ \E m \in FromServer : ProcPacket(m)
      BY <1>3, Zenon DEF Poll, Quiet
    <2> QED
      BY <1>3, <2>1, QuietClocks, ScanClocks, CopyClocks, RestartClocks, PacketClocks
  <1>4. CASE Servers /\ UNCHANGED appVars
    <2>1. UNCHANGED <<c, call, ret, app, transfers>>
      BY <1>4, ServersMessages DEF Shape, appVars
    <2> QED
      BY <2>1, SameClocks DEF Clocks, Sessions, Seeking
  <1> QED
    BY <1>1, <1>2, <1>3, <1>4, OpenClocks DEF Next

\* While nothing is opened after a session that ended at name detection, one
\* timer runs while a socket is open, with its owner's handle, and none runs
\* without one.
THEOREM ClocksInvariant ==
    ASSUME NumbersDiffer
    PROVE  Spec /\ [][AbandonedLast]_vars => [](Shape /\ Order /\ Clocks)
  <1>1. Init => Shape /\ Order /\ Clocks
    BY InitShape, InitOrder, InitClocks
  <1>2. (Shape /\ Order /\ Clocks) /\ [Next]_vars /\ [AbandonedLast]_vars
            => (Shape /\ Order /\ Clocks)'
    BY NextShape, NextOrder, NextClocks
  <1> QED
    BY <1>1, <1>2, PTL DEF Spec

LEMMA TimersOfPhases ==
    ASSUME Shape, Clocks
    PROVE  \/ c.socks = UdpInit /\ c.timers = TimerInit
           \/ Asking /\ c.bootp.bootp_timer = 0 /\ RunsFor(c.timers, "bootp_tmr_expiry")
           \/ Fetching /\ c.tftp.timer = 0 /\ RunsFor(c.timers, "tftp_timer_expiry")
  BY DEF Shape, Phase, Idle, Asking, Fetching, Clocks, ClientClocks

\* The count of running timers, the armed blocks and the hardware timer agree
\* (timer_add, timer_delete, dev_create_timer).
THEOREM TimersAreConsistent ==
    ASSUME NumbersDiffer
    PROVE  Spec /\ [][AbandonedLast]_vars => []TimersConsistent
  <1>1. ASSUME Shape, Clocks PROVE TimersConsistent
    <2>1. CASE c.timers = TimerInit
      <3>1. Armed(c.timers) = {} /\ Cardinality(Armed(c.timers)) = 0
        BY <2>1, NoTimer, FS_EmptySet
      <3>2. c.timers.num_active_timers = 0 /\ ~c.timers.timer_created
        BY <2>1 DEF TimerInit
      <3> QED
        BY <3>1, <3>2 DEF TimersConsistent
    <2>2. CASE Armed(c.timers) = {0} /\ c.timers.num_active_timers = 1 /\ c.timers.timer_created
      <3>1. Cardinality({0}) = 1
        BY FS_Singleton
      <3> QED
        BY <2>2, <3>1 DEF TimersConsistent
    <2>3. CASE \E e \in Expiries : RunsFor(c.timers, e)
      BY <2>2, <2>3, RunningTimer
    <2> QED
      BY <1>1, <2>1, <2>3, TimersOfPhases, Limits
  <1> QED
    BY <1>1, ClocksInvariant, PTL

\* A TFTP timer that fires during the transfer is the one the last block
\* started (tftp_receive, timer_run).
THEOREM TimeoutsMeanSilence ==
    ASSUME NumbersDiffer
    PROVE  Spec /\ [][AbandonedLast]_vars => []TimeoutMeansSilence
  <1>1. ASSUME Shape, Clocks PROVE TimeoutMeansSilence
    <2> SUFFICES ASSUME Expires(c.timers, scan),
                        c.timers.timer[scan].expiry = "tftp_timer_expiry"
                 PROVE  scan = c.tftp.timer
      BY DEF TimeoutMeansSilence
    <2>1. scan \in Blocks
      BY <1>1 DEF Shape, Control
    <2>2. CASE c.timers = TimerInit
      BY <2>1, <2>2, NoTimer
    <2>3. CASE RunsFor(c.timers, "bootp_tmr_expiry")
      BY <2>1, <2>3, RunningTimer, Limits
    <2>4. CASE c.tftp.timer = 0 /\ RunsFor(c.timers, "tftp_timer_expiry")
      BY <2>1, <2>4, RunningTimer, Limits
    <2> QED
      BY <1>1, <2>2, <2>3, <2>4, TimersOfPhases
  <1> QED
    BY <1>1, ClocksInvariant, PTL

\* However a transfer ends, no timer is left running and no socket open, if no
\* seek requests the file again: net_seek does so even after an error.
THEOREM EndedTransfersAreIdle ==
    ASSUME NumbersDiffer, SeekTargets = {}
    PROVE  Spec /\ [][AbandonedLast]_vars => []EndedTransferIsIdle
  <1>1. ASSUME Shape, Clocks PROVE EndedTransferIsIdle
    <2> SUFFICES ASSUME c.error_flag \/ ~c.stream.is_open
                 PROVE  Armed(c.timers) = {} /\ OpenHandles(c.socks) = {}
      BY DEF EndedTransferIsIdle
    <2>1. c.error_flag => c.socks = UdpInit
      BY <1>1 DEF Clocks, Sessions
    <2>2. ~c.stream.is_open => c.socks = UdpInit
      BY <1>1 DEF Shape, Phase, Idle, Asking, Fetching, OpenStream
    <2>3. c.timers = TimerInit
      BY <1>1, <2>1, <2>2 DEF Clocks, ClientClocks
    <2> QED
      BY <2>1, <2>2, <2>3, NoTimer DEF OpenHandles, UdpInit, FreeSocket
  <1> QED
    BY <1>1, ClocksInvariant, PTL

-----------------------------------------------------------------------------
(* Seeks, and what bounds the counters.                                    *)

\* Every position sought is in the file: a seek past its end never returns.
SeeksInside == SeekTargets \subseteq 0 .. FileLen

\* A seek forwards has something to skip, and the file holds it.
Skips ==
    /\ call.op = "skip" =>
          /\ c.fileOffset + call.num_bytes <= FileLen
          /\ call.num_bytes > 0 \/ (c.fileOffset = 0 /\ FileLen > 0)
    /\ Seeking => call.restart < FileLen

LEMMA SkipsKept ==
    ASSUME Skips, c'.fileOffset = c.fileOffset, call'.restart = call.restart,
           call'.op = "skip" => call'.op = call.op /\ call'.num_bytes = call.num_bytes
    PROVE  Skips'
  BY DEF Skips, Seeking

LEMMA OffsetInFile == ASSUME Shape, Order PROVE c.fileOffset \in 0 .. FileLen
  <1>1. c.fileOffset \in Nat /\ Len(c.stream.data) \in Nat /\ FileLen \in Nat
    BY NetAssumption DEF Shape, Client, StreamType
  <1> QED
    BY <1>1 DEF Order, Unopened, Filled, Received

LEMMA NextSkips ==
    ASSUME Shape, Order, Skips, SeeksInside, [Next]_vars
    PROVE  Skips'
  <1>1. c.fileOffset \in 0 .. FileLen /\ call \in Call /\ c \in Client /\ c.sent = {} /\ FileLen \in Nat
    BY OffsetInFile, NetAssumption DEF Shape
  <1>2. CASE UNCHANGED vars
    BY <1>2, SkipsKept DEF vars, netVars
  <1>3. CASE Boot
    <2>1. /\ c' = c
          /\ \/ ~Seeking'
             \/ call'.restart \in SeekTargets /\ call'.restart < c.fileOffset
          /\ call'.op = "skip" => c.fileOffset + call'.num_bytes \in SeekTargets
      BY <1>3, BootEffect
    <2>2. Seeking' => call'.restart < FileLen
      <3>1. ASSUME NEW o \in 0 .. FileLen, NEW r \in SeekTargets, r < o
            PROVE  r < FileLen
        BY <1>1, <3>1 DEF SeeksInside
      <3> QED
        BY <1>1, <2>1, <3>1
    <2>3. call'.op = "skip" => call'.num_bytes > 0
      <3>1. CASE \E p \in SeekTargets : NetSeek(p)
        <4>1. PICK p \in SeekTargets : NetSeek(p)
          BY <3>1
        <4>2. p \in Nat
          BY EthBootAssumption
        <4>3. CASE p > c.fileOffset
          <5>1. call' = [NoCall EXCEPT !.op = "skip", !.num_bytes = p - c.fileOffset]
            BY <1>1, <4>1, <4>2, <4>3 DEF NetSeek
          <5>2. call'.num_bytes = p - c.fileOffset
            BY <1>1, <4>2, <4>3, <5>1 DEF NoCall
          <5> QED
            BY <1>1, <4>2, <4>3, <5>2
        <4>4. CASE ~(p > c.fileOffset)
          <5>1. pc = "idle" => call.op # "skip"
            BY DEF Shape, Control
          <5>2. call' = call \/ call' = [NoCall EXCEPT !.restart = p]
            BY <1>1, <4>1, <4>2, <4>4 DEF NetSeek
          <5> QED
            BY <4>1, <5>1, <5>2 DEF NetSeek, NoCall
        <4> QED
          BY <4>3, <4>4
      <3>2. CASE ~(\E p \in SeekTargets : NetSeek(p))
        <4>1. pc = "idle" /\ call.op # "skip"
          BY <1>3, BootEffect DEF Shape, Control
        <4>2. \/ call' = call
              \/ \E op \in {"read", "peek"} : \E n : NetCall(op, n)
          BY <1>3, <3>2
             DEF Boot, AwaitParams, ParamsFailed, NameDetectFails, ParamsKnown, DetectFormat,
                 LoaderRead, LoaderPeek, LoaderSeek, LoaderDone, DrainRead, DrainQuery,
                 DrainPeek, DrainDone, NetClose, NetSeekFromEnd, netVars
        <4>3. ASSUME NEW op \in {"read", "peek"}, NEW n, NetCall(op, n)
              PROVE  call'.op # "skip"
          <5>1. call' = call \/ call' = [call EXCEPT !.op = op, !.num_bytes = n, !.left = 0]
            BY <4>3 DEF NetCall, StartCall
          <5> QED
            BY <1>1, <4>1, <5>1 DEF Call
        <4> QED
          BY <4>1, <4>2, <4>3
      <3> QED
        BY <3>1, <3>2
    <2>4. call'.op = "skip" => c.fileOffset + call'.num_bytes <= FileLen
      <3> DEFINE sought == c.fileOffset + call'.num_bytes
      <3>1. ASSUME NEW p \in SeekTargets PROVE p <= FileLen
        <4>1. p \in 0 .. FileLen /\ FileLen \in Nat
          BY NetAssumption DEF SeeksInside
        <4> QED
          BY <4>1
      <3>2. call'.op = "skip" => sought \in SeekTargets
        BY <2>1
      <3> HIDE DEF sought
      <3>3. call'.op = "skip" => sought <= FileLen
        BY <3>1, <3>2
      <3> QED
        BY <3>3 DEF sought
    <2>5. c'.fileOffset + call'.num_bytes = c.fileOffset + call'.num_bytes
      BY <2>1
    <2> QED
      BY <2>2, <2>3, <2>4, <2>5 DEF Skips, Seeking
  <1>4. CASE Poll /\ UNCHANGED appVars
    <2>1. CASE Quiet
      BY <2>1, QuietEffect, SkipsKept
    <2>2. CASE ScanTimer
      BY <1>1, <2>2, ScanOutcome, ScanEffect, SkipsKept DEF Shape, Control
    <2>3. CASE \E m \in FromServer : ProcPacket(m)
      BY <2>3, PacketOutcome, PacketEffect, SkipsKept
    <2>4. CASE CopyStream
      <3>1. CASE Return(IF c.error_flag THEN -1 ELSE 0)
        <4>1. call'.op = "none" /\ call'.restart = call.restart
          BY <1>1, <3>1, ReturnedCallType DEF Return, ReturnedCall
        <4> QED
          BY <4>1 DEF Skips, Seeking
      <3>2. CASE ~Return(IF c.error_flag THEN -1 ELSE 0)
        <4>1. /\ Copied \in Nat /\ Copied < call.num_bytes
              /\ call'.op = call.op /\ call'.restart = call.restart
              /\ call'.num_bytes = call.num_bytes - Copied
              /\ call.op = "skip" => c'.fileOffset = c.fileOffset + Copied
          <5>1. call.num_bytes \in Nat
            BY <1>1 DEF Call
          <5> QED
            BY <1>1, <2>4, <3>2, <5>1, CopyEffect
        <4>2. call.num_bytes \in Nat
          BY <1>1 DEF Call
        <4>3. call.op = "skip" =>
                 /\ c'.fileOffset + call'.num_bytes = c.fileOffset + call.num_bytes
                 /\ call'.num_bytes > 0
          BY <1>1, <4>1, <4>2
        <4> QED
          BY <4>1, <4>3 DEF Skips, Seeking
      <3> QED
        BY <3>1, <3>2
    <2>5. CASE Restart
      <3>1. /\ call'.num_bytes = call.restart /\ call.restart \in Nat
            /\ call'.restart = NotSeeking
            /\ pc = "complete" /\ c'.fileOffset = 0
        BY <2>5, RestartEffect DEF Rewound, Frame, Committed
      <3>2. call.restart < FileLen
        BY <3>1 DEF Skips, Shape, Control
      <3> QED
        BY <1>1, <3>1, <3>2 DEF Skips, Seeking
    <2>6. Quiet \/ ScanTimer \/ CopyStream \/ Restart \/ \E m \in FromServer : ProcPacket(m)
      BY <1>4, Zenon DEF Poll, Quiet
    <2> QED
      BY <2>1, <2>2, <2>3, <2>4, <2>5, <2>6
  <1>5. CASE Servers /\ UNCHANGED appVars
    BY <1>5, ServersMessages, SkipsKept DEF Shape
  <1>6. ASSUME NEW config \in Configs, Open(config)
        PROVE  Skips'
    <2>1. call' = call /\ pc = "closed"
      BY <1>1, <1>6, OpenEffect
    <2>2. call.op # "skip" /\ ~Seeking
      BY <2>1 DEF Shape, Control
    <2> QED
      BY <2>1, <2>2 DEF Skips, Seeking
  <1> QED
    BY <1>2, <1>3, <1>4, <1>5, <1>6 DEF Next

LEMMA InitSkips == Init => Skips
  BY NoCallType DEF Init, NetInit, Skips, Seeking

\* The polling loops wait only while the client's timer runs, and a seek only
\* for bytes that have come or will, if the positions sought are in the file
\* (net_read_peek, net_seek).
THEOREM WaitsAreTimed ==
    ASSUME NumbersDiffer, SeeksInside
    PROVE  Spec /\ [][AbandonedLast]_vars => []WaitIsTimed
  <1>1. ASSUME Shape, Order, Clocks, Skips PROVE WaitIsTimed
    <2> SUFFICES ASSUME pc = "top", ~c.error_flag
                 PROVE  /\ c.stream.is_open => Armed(c.timers) # {}
                        /\ call.op = "skip" /\ ~c.stream.is_open =>
                              Len(c.stream.data) >= Max({1, call.num_bytes})
      BY DEF WaitIsTimed
    <2>1. c.stream.is_open => Armed(c.timers) # {}
      <3>1. c.stream.is_open => Asking \/ Fetching
        BY <1>1 DEF Shape, Phase, Idle
      <3>2. Asking \/ Fetching => c.socks # UdpInit
        BY SocketsDiffer DEF Asking, Fetching, OnTftpSocket
      <3>3. c.stream.is_open => \E e \in Expiries : RunsFor(c.timers, e)
        BY <1>1, <3>1, <3>2, TimersOfPhases, Limits
      <3>4. c.stream.is_open => Armed(c.timers) = {0}
        BY <3>3, RunningTimer
      <3> QED
        BY <3>4
    <2>2. ASSUME call.op = "skip", ~c.stream.is_open
          PROVE  Len(c.stream.data) >= Max({1, call.num_bytes})
      <3>1. app = "load" /\ call.num_bytes \in Nat
        BY <1>1, <2>2 DEF Shape, Control, Call
      <3>2. Received = FileLen
        BY <1>1, <2>2, <3>1 DEF Order
      <3>3. c.fileOffset \in Nat /\ Len(c.stream.data) \in Nat
        BY <1>1 DEF Shape, Client, StreamType
      <3>4. Len(c.stream.data) >= 1 /\ Len(c.stream.data) >= call.num_bytes
        <4> DEFINE offset == c.fileOffset
                   left == Len(c.stream.data)
                   asked == call.num_bytes
        <4>1. offset \in Nat /\ left \in Nat /\ asked \in Nat /\ FileLen \in Nat
          BY <3>1, <3>3, NetAssumption
        <4>2. offset + left = FileLen
          BY <3>2 DEF Received
        <4>3. offset + asked <= FileLen /\ (asked > 0 \/ (offset = 0 /\ FileLen > 0))
          BY <1>1, <2>2 DEF Skips
        <4> HIDE DEF offset, left, asked
        <4>4. left >= 1 /\ left >= asked
          BY <4>1, <4>2, <4>3
        <4> QED
          BY <4>4 DEF left, asked
      <3>5. Max({1, call.num_bytes}) \in {1, call.num_bytes}
        BY <3>1, MaxOf
      <3> QED
        BY <3>4, <3>5
    <2> QED
      BY <2>1, <2>2
  <1>2. (Shape /\ Order /\ Skips) /\ [Next]_vars => Skips'
    BY NextSkips
  <1> QED
    BY <1>1, <1>2, InitSkips, ClocksInvariant, PTL DEF Spec

\* Every field of the client keeps its range (tftp.c, bootp.c, timer.c, udp.c).
THEOREM TypesAreKept ==
    ASSUME NumbersDiffer
    PROVE  Spec /\ [][AbandonedLast]_vars => []TypeOK
  <1>1. ASSUME Shape, Order, Clocks PROVE TypeOK
    <2>1. c \in Client /\ call \in Call /\ Control /\ Room /\ Counts(c)
      BY <1>1 DEF Shape, Clocks, ClientClocks
    <2>2. TimerTableType(c.timers, LongestTimeout)
      <3>1. CASE c.timers = TimerInit
        BY <3>1, Timeouts, TimerBlocksAssumption DEF TimerTableType, TimerInit, FreeBlock
      <3>2. ASSUME NEW e \in Expiries, RunsFor(c.timers, e)
            PROVE  TimerTableType(c.timers, LongestTimeout)
        <4>1. PICK b \in Running(e) :
                  /\ c.timers = OneTimer(b)
                  /\ b.org_timeout <= LongestTimeout /\ b.timeout <= LongestTimeout
          BY <3>2 DEF RunsFor
        <4>2. /\ b \in [expiry : Expiries \cup {"NULL"}, org_timeout : 0 .. LongestTimeout,
                        timeout : 0 .. LongestTimeout]
              /\ FreeBlock \in [expiry : Expiries \cup {"NULL"}, org_timeout : 0 .. LongestTimeout,
                                timeout : 0 .. LongestTimeout]
          BY <4>1, Timeouts DEF Running, FreeBlock
        <4> QED
          BY <4>1, <4>2, TimerBlocksAssumption DEF TimerTableType, OneTimer
      <3> QED
        BY <1>1, <3>1, <3>2, TimersOfPhases, Limits
    <2>3. /\ c.socks \in [Handles -> [local_port : LocalPorts \cup {"0"},
                                      remote_port : Ports \cup {"tftpd", "bootps", "0"}]]
      BY <2>1 DEF Client, Sockets, RemotePorts
    <2>4. /\ c.tftp.state \in {"0", "READ_REQUEST", "DATA_RECEIVE"}
          /\ c.tftp.sock \in Handles \cup {-1} /\ c.bootp.sock \in Handles \cup {-1}
          /\ c.tftp.timer \in Blocks \cup {-1} /\ c.bootp.bootp_timer \in Blocks \cup {-1}
      BY <2>1, ZeroIsAHandle DEF Client, TftpBlock, BootpBlock, TimerHandles
    <2>5. c.fileOffset \in 0 .. FileLen
      BY <1>1, OffsetInFile
    <2>6. call.op \in {"none", "read", "peek", "skip"}
      BY <2>1 DEF Call
    <2>7. c.stream \in StreamType /\ Len(c.stream.data) <= MAX_SIZE_STREAM_BUFFER
      BY <2>1 DEF Client, Room
    <2> QED
      BY <2>1, <2>2, <2>3, <2>4, <2>5, <2>6, <2>7 DEF TypeOK, LongestTimeout, Counts, Control
  <1> QED
    BY <1>1, ClocksInvariant, PTL

\* One session is such a behaviour.
THEOREM OneSessionAbandonsLast ==
    ASSUME OneSession PROVE Spec => [][AbandonedLast]_vars
  <1>1. Once /\ [Next]_vars => [AbandonedLast]_vars
    BY DEF Once, OneSession, AbandonedLast, NameDetectFails
  <1> QED
    BY <1>1, OnceInvariant, PTL DEF Spec

-----------------------------------------------------------------------------
(* The session as a file transfer.                                         *)

\* Every configuration has an address to ask for or a server to ask.
Configured == \A config \in Configs : config.bootp \/ config.server

LEMMA SameTransfer ==
    ASSUME app # "closed", app' # "closed",
           c'.error_flag = c.error_flag, c'.stream.is_open = c.stream.is_open,
           Received' = Received, c'.fileOffset = c.fileOffset
    PROVE  UNCHANGED Transfer!transferVars
  BY DEF Transfer!transferVars, TransferStatus

LEMMA SeeksNothing ==
    ASSUME SeekTargets = {}, Shape, Clocks
    PROVE  ~Seeking /\ pc # "complete" /\ (c.error_flag => c.socks = UdpInit)
  BY DEF Clocks, Sessions, Shape, Control

\* Only a session that still has a socket can fail.
LEMMA FailsWhileActive ==
    ASSUME SeekTargets = {}, Shape, Clocks, Asking \/ Fetching
    PROVE  c.stream.is_open /\ ~c.error_flag
  <1>1. c.error_flag => c.socks = UdpInit
    BY SeeksNothing
  <1> QED
    BY <1>1, SocketsDiffer DEF Asking, Fetching, OpenStream, OnTftpSocket

LEMMA FailedTransfer ==
    ASSUME app # "closed", app' # "closed", c.stream.is_open, ~c.error_flag, Lost,
           c'.fileOffset = c.fileOffset
    PROVE  Transfer!Fail
  <1>1. c'.stream.data = c.stream.data
    BY DEF Lost, CloseStream
  <1>2. Received' = Received
    BY <1>1 DEF Received
  <1> QED
    BY <1>2 DEF Transfer!Fail, TransferStatus, Lost

LEMMA ScanTransfer ==
    ASSUME SeekTargets = {}, Shape, Clocks, ScanTimer, UNCHANGED appVars
    PROVE  [Transfer!TransferNext]_(Transfer!transferVars)
  <1>1. c \in Client /\ c.sent = {} /\ scan \in Blocks /\ Control
    BY DEF Shape, Control
  <1>2. app # "closed" /\ app' # "closed"
    BY <1>1, ScanEffect DEF Control, appVars
  <1>3. c'.fileOffset = c.fileOffset /\ (Kept \/ Lost)
    BY ScanOutcome
  <1>4. CASE Kept
    BY <1>2, <1>3, <1>4, SameTransfer DEF Kept, Received
  <1>5. CASE Asking \/ Fetching
    <2>1. CASE Lost
      BY <1>2, <1>3, <1>5, <2>1, FailsWhileActive, FailedTransfer DEF Transfer!TransferNext
    <2> QED
      BY <1>3, <1>4, <2>1
  <1>6. CASE c.timers = TimerInit
    <2>1. PICK d \in Client, e \in Client : Ticked(d) /\ Committed(e) /\ e = d
      BY <1>1, <1>6, ScanEffect, NoTimer DEF Runs
    <2>2. c'.stream = c.stream /\ c'.error_flag = c.error_flag
      BY <2>1 DEF Ticked, Committed
    <2> QED
      BY <1>2, <1>3, <2>2, SameTransfer DEF Received
  <1> QED
    BY <1>5, <1>6, TimersOfPhases

LEMMA PacketTransfer ==
    ASSUME NumbersDiffer, SeekTargets = {}, Shape, Order, Clocks,
           NEW m \in FromServer, ProcPacket(m), UNCHANGED appVars
    PROVE  [Transfer!TransferNext]_(Transfer!transferVars)
  <1>1. pc = "packet" /\ app # "closed" /\ app' # "closed"
    BY PacketEffect DEF Shape, Control, appVars
  <1>2. Asking \/ Fetching
    BY PacketEffect DEF TakesReply, TakesError, TakesBlock
  <1>3. c.stream.is_open /\ ~c.error_flag
    BY <1>2, FailsWhileActive
  <1>4. c'.fileOffset = c.fileOffset /\ (Lost \/ Began \/ Again \/ Took(m))
    BY PacketOutcome
  <1>5. CASE Lost
    BY <1>1, <1>3, <1>4, <1>5, FailedTransfer DEF Transfer!TransferNext
  <1>6. CASE Began \/ Again
    <2>1. c'.stream = c.stream /\ c'.error_flag = c.error_flag
      BY <1>6 DEF Began, Again, Asking
    <2> QED
      BY <1>1, <1>4, <2>1, SameTransfer DEF Received
  <1>7. CASE Took(m)
    <2> DEFINE b == c.tftp.block_num
    <2>1. Filled
      BY <1>1, OpenedByNow DEF Shape
    <2>2. /\ b \in 1 .. LastBlock /\ m.num = b
          /\ Received = (b - 1) * D
          /\ b < LastBlock => Received' = b * D
          /\ b = LastBlock => Received' = FileLen
          /\ Filled'
      BY <1>7, <2>1, TookBytes
    <2>3. /\ ~c'.error_flag
          /\ \/ b < LastBlock /\ c'.stream.is_open
             \/ b = LastBlock /\ ~c'.stream.is_open
      <3>1. /\ c'.error_flag = c.error_flag
            /\ \/ m.num < LastBlock /\ c'.stream.is_open
               \/ m.num = LastBlock /\ ~c'.stream.is_open
        BY <1>7, Zenon DEF Took
      <3>2. m.num = b
        BY <2>2
      <3> HIDE DEF b
      <3> QED
        BY <1>3, <3>1, <3>2
    <2>4. D = TFTP_DATA_SIZE /\ D \in Nat \ {0} /\ FileLen \in Nat
      BY Sizes, NetAssumption DEF D
    <2>5. CASE b < LastBlock
      <3>1. b * D = (b - 1) * D + D
        <4> HIDE DEF b
        <4> QED
          BY <2>2, <2>4, Blocks1
      <3>2. Received' = Received + D /\ Received' <= FileLen
        BY <2>2, <2>5, <3>1 DEF Filled
      <3>3. Received + TFTP_DATA_SIZE <= FileLen /\ Received' = Received + TFTP_DATA_SIZE
        BY <2>4, <3>2
      <3>4. c'.stream.is_open
        <4>1. b # LastBlock
          BY <2>2, <2>5, Blocks1
        <4> QED
          BY <2>3, <4>1
      <3>5. Transfer!ReceiveBlock
        BY <1>1, <1>3, <1>4, <2>3, <3>3, <3>4 DEF Transfer!ReceiveBlock, TransferStatus
      <3> QED
        BY <3>5 DEF Transfer!TransferNext
    <2>6. CASE b = LastBlock
      <3>1. (b - 1) * D + D > FileLen
        <4> HIDE DEF b
        <4>1. b \in 1 .. LastBlock /\ b = LastBlock
          BY <2>2, <2>6
        <4>2. BlockLen(b) \in 0 .. D /\ (BlockLen(b) < D <=> b = LastBlock)
              /\ (b - 1) * D + BlockLen(b) = FileLen /\ (b - 1) * D \in Nat
          BY <4>1, BlockLengths
        <4> DEFINE k == BlockLen(b)
                   p == (b - 1) * D
        <4>3. k \in Nat /\ p \in Nat /\ p + k = FileLen /\ k < D
          BY <2>4, <4>1, <4>2
        <4> HIDE DEF k, p
        <4>4. p + D > FileLen
          BY <2>4, <4>3
        <4> QED
          BY <4>4 DEF p
      <3>2. ~(b < LastBlock)
        BY <2>6, Blocks1
      <3>3. Transfer!ReceiveLast
        BY <1>1, <1>3, <1>4, <2>2, <2>3, <2>4, <2>6, <3>1, <3>2
           DEF Transfer!ReceiveLast, TransferStatus
      <3> QED
        BY <3>3 DEF Transfer!TransferNext
    <2> QED
      BY <2>2, <2>5, <2>6, Blocks1
  <1> QED
    BY <1>4, <1>5, <1>6, <1>7

LEMMA CopyTransfer ==
    ASSUME Shape, Order, CopyStream, UNCHANGED appVars
    PROVE  [Transfer!TransferNext]_(Transfer!transferVars)
  <1>1. c \in Client /\ c.sent = {} /\ call \in Call /\ Control
    BY DEF Shape
  <1>2. /\ pc = "copy" /\ Copied \in Nat
        /\ c' \in Client
        /\ c'.error_flag = c.error_flag /\ c'.stream.is_open = c.stream.is_open
        /\ c'.fileOffset = c.fileOffset \/ c'.fileOffset = c.fileOffset + Copied
    BY <1>1, CopyEffect
  <1>3. Received' = Received
    BY CopyBytes
  <1>4. app # "closed" /\ app' = app
    BY <1>1, <1>2 DEF Control, appVars
  <1>5. CASE c'.fileOffset = c.fileOffset
    BY <1>2, <1>3, <1>4, <1>5, SameTransfer
  <1>6. CASE c'.fileOffset # c.fileOffset
    <2>1. c'.fileOffset \in c.fileOffset + 1 .. Received
      <3> DEFINE o == c.fileOffset
                 p == c'.fileOffset
                 n == Len(c'.stream.data)
      <3>1. o \in Nat /\ p \in Nat /\ n \in Nat /\ Received = p + n
        BY <1>1, <1>2, <1>3 DEF Client, StreamType, Received
      <3>2. p # o /\ (p = o \/ p = o + Copied)
        BY <1>2, <1>6
      <3> HIDE DEF o, p, n
      <3>3. p \in o + 1 .. Received
        BY <1>2, <3>1, <3>2
      <3> QED
        BY <3>3 DEF o, p
    <2>2. Transfer!Deliver
      BY <1>2, <1>3, <1>4, <2>1 DEF Transfer!Deliver, TransferStatus
    <2> QED
      BY <2>2 DEF Transfer!TransferNext
  <1> QED
    BY <1>5, <1>6

LEMMA OpenTransfer ==
    ASSUME Configured, Shape, Clocks, NEW config \in Configs, Open(config)
    PROVE  Transfer!Start
  <1>1. c \in Client /\ c.sent = {}
    BY DEF Shape
  <1>2. app = "closed" /\ app' = "params" /\ transfers < MaxTransfers
    BY <1>1, OpenEffect
  <1>3. PICK d \in Client, e \in Client :
                 /\ WasReset(d, config) /\ Committed(e) /\ Frame(d, e)
                 /\ \/ config.bootp /\ OpenedBootp(d, e)
                    \/ ~config.bootp /\ OpenedTftp(d, e)
    BY <1>1, OpenEffect
  <1>4. d.timers = TimerInit /\ ~d.error_flag /\ d.fileOffset = 0
        /\ d.have_server = config.server
    BY <1>2, <1>3 DEF WasReset, Clocks, Sessions, ClientClocks
  <1>5. BootpAsked(d, e) \/ Requested(d, e)
    <2>1. CanAdd(d.timers)
      BY <1>4, CanStart
    <2>2. config.bootp \/ config.server
      BY DEF Configured
    <2> QED
      BY <1>3, <1>4, <2>1, <2>2
         DEF OpenedBootp, BootpNotStarted, OpenedTftp, NoServer, NoTimerLeft
  <1>6. c'.stream = OpenStream /\ ~c'.error_flag /\ c'.fileOffset = 0
    BY <1>3, <1>4, <1>5 DEF BootpAsked, Requested, Committed, Frame
  <1>7. c'.stream.is_open /\ c'.stream.data = << >> /\ Len(<< >>) = 0
    BY <1>6 DEF OpenStream
  <1>8. Received' = 0
    BY <1>6, <1>7 DEF Received
  <1> QED
    BY <1>2, <1>6, <1>7, <1>8 DEF Transfer!Start, TransferStatus

LEMMA NextTransfer ==
    ASSUME NumbersDiffer, SeekTargets = {}, Configured, Shape, Order, Clocks, [Next]_vars
    PROVE  [Transfer!TransferNext]_(Transfer!transferVars)
  <1>1. CASE UNCHANGED <<c, app>>
    BY <1>1 DEF Transfer!transferVars, TransferStatus, Received
  <1>2. CASE Boot
    <2>1. UNCHANGED c /\ app # "closed"
      BY <1>2, BootEffect
    <2>2. CASE app' = "closed"
      BY <2>1, <2>2 DEF Transfer!Finish, Transfer!TransferNext, TransferStatus
    <2>3. CASE app' # "closed"
      BY <2>1, <2>3, SameTransfer DEF Received
    <2> QED
      BY <2>2, <2>3
  <1>3. CASE Poll /\ UNCHANGED appVars
    <2>1. ~Restart
      BY SeeksNothing DEF Restart
    <2>2. Quiet \/ ScanTimer \/ CopyStream \/ \E m \in FromServer : ProcPacket(m)
      BY <1>3, <2>1, Zenon DEF Poll, Quiet
    <2> QED
      BY <1>1, <1>3, <2>2, QuietEffect, ScanTransfer, CopyTransfer, PacketTransfer DEF appVars
  <1>4. CASE Servers /\ UNCHANGED appVars
    BY <1>1, <1>4, ServersMessages DEF Shape, appVars
  <1> QED
    BY <1>1, <1>2, <1>3, <1>4, OpenTransfer DEF Next, vars, netVars, appVars, Transfer!TransferNext

\* The sessions are file transfers: the file comes in whole blocks, the stream
\* is closed with its last byte, a session fails at most once and never after
\* the end, and delivers only what it has received (ethboot.c, net.c, tftp.c).
THEOREM SessionsAreTransfers ==
    ASSUME NumbersDiffer, SeekTargets = {}, Configured
    PROVE  Spec /\ [][AbandonedLast]_vars => ImplementsTransfer
  <1>1. Init => Transfer!TransferInit
    BY DEF Init, Transfer!TransferInit, TransferStatus
  <1>2. (Shape /\ Order /\ Clocks) /\ [Next]_vars
            => [Transfer!TransferNext]_(Transfer!transferVars)
    BY NextTransfer
  <1> QED
    BY <1>1, <1>2, ClocksInvariant, PTL
       DEF Spec, ImplementsTransfer, Transfer!TransferSpec

-----------------------------------------------------------------------------
(* What is left when a session fails.                                      *)

\* A header is no longer than a block, and the timer that waits for a block
\* runs for longer than the loop takes to empty the stream byte by byte, after
\* the peeks for the parameters and for the header.
PatientTimer ==
    /\ HEADER_BYTES <= TFTP_DATA_SIZE
    /\ TFTP_DATA_SIZE + 2 < TFTP_SERVER_TIMEOUT

\* Once data has been read, only single bytes are peeked.
Calls ==
    /\ call.op = "read" => call.num_bytes > 0
    /\ call.op = "peek" => call.num_bytes <= 1 \/ c.fileOffset = 0
    /\ pc = "packet" /\ Fetching => c.stream.data = << >>

\* A session that failed has nothing to drain, or it ends before the drain.
Failures ==
    c.error_flag =>
        \/ app = "closed"
        \/ app = "params" /\ (pc # "idle" \/ ret < 0)
        \/ StreamLevel(c.stream) < 0

One(b) == IF b THEN 1 ELSE 0

\* The turns the loop can still make with data in the stream.
TurnsLeft == Len(c.stream.data) + One(call.op = "peek") + One(app = "params")

\* The timer has been counted down for this turn.
Counted == pc = "copy" \/ (pc = "scan" /\ scan # 0)

Ticks(t) == t.timer[0].timeout

Patience ==
    Fetching /\ c.stream.data # << >> => Ticks(c.timers) >= TurnsLeft + One(~Counted)

Draining == Calls /\ Failures /\ Patience

LEMMA BootCalls ==
    ASSUME SeekTargets = {}, Shape, Boot
    PROVE  \/ call' = call /\ (app' = app \/ app' # "params")
           \/ call'.op = "read" /\ call'.num_bytes \in Nat \ {0} /\ app' = app
           \/ /\ call'.op = "peek" /\ call'.num_bytes \in Nat
              /\ \/ StreamLevel(c.stream) = 0 /\ call'.num_bytes <= 1
                 \/ app = "params" /\ (app' = "load" \/ ~c.have_params)
  <1>1. call \in Call /\ Control
    BY DEF Shape
  <1>2. ASSUME NEW op \in {"read", "peek"}, NEW n \in Nat, NetCall(op, n)
        PROVE  call' = call \/ (call'.op = op /\ call'.num_bytes = n /\ n # 0)
    BY <1>1, <1>2 DEF NetCall, StartCall, Call
  <1>3. CASE AwaitParams \/ DetectFormat
    <2>1. /\ NetCall("peek", HEADER_BYTES) /\ HEADER_BYTES \in Nat
          /\ app = "params" /\ (app' = "load" \/ (app' = app /\ ~c.have_params))
      BY <1>3, EthBootAssumption DEF AwaitParams, DetectFormat, appVars
    <2> QED
      BY <1>2, <2>1
  <1>4. CASE LoaderPeek \/ DrainPeek
    <2>1. NetCall("peek", 1) /\ StreamLevel(c.stream) = 0 /\ app' = app
      BY <1>4 DEF LoaderPeek, DrainPeek, appVars
    <2> QED
      BY <1>2, <2>1
  <1>5. CASE DrainRead
    <2>1. NetCall("read", Min({dataSize, DRAIN_CHUNK})) /\ app' = app
      BY <1>5 DEF DrainRead
    <2>2. Min({dataSize, DRAIN_CHUNK}) \in Nat
      <3>1. dataSize \in Nat /\ DRAIN_CHUNK \in Nat
        BY <1>1, NetAssumption, StreamSizeAssumption DEF Control
      <3> QED
        BY <3>1, MinOfTwo
    <2> QED
      BY <1>2, <2>1, <2>2
  <1>6. CASE \E n \in ReadSizes : LoaderRead(n)
    <2>1. PICK n \in ReadSizes : NetCall("read", n) /\ app' = app
      BY <1>6 DEF LoaderRead, appVars
    <2> QED
      BY <1>2, <2>1, EthBootAssumption
  <1>7. CASE LoaderSeek
    BY <1>7 DEF LoaderSeek, NetSeekFromEnd
  <1>8. CASE ParamsFailed \/ NameDetectFails \/ ParamsKnown \/ LoaderDone \/ DrainQuery \/ DrainDone
    BY <1>8
       DEF ParamsFailed, NameDetectFails, ParamsKnown, LoaderDone, DrainQuery, DrainDone,
           NetClose, netVars
  <1> QED
    BY <1>3, <1>4, <1>5, <1>6, <1>7, <1>8 DEF Boot

LEMMA QuietCalls ==
    ASSUME Shape, Quiet, pc # "complete"
    PROVE  /\ call' = call \/ call'.op = "none"
           /\ pc' = "packet" => c.stream.data = << >>
           /\ pc' = "scan" => pc = "top" /\ scan' = scan
           /\ pc' \in {"idle", "top", "scan", "copy", "packet", "complete"}
           /\ pc = "top" => c.error_flag \/ pc' # "packet"
           /\ c.error_flag /\ pc = "top" => ret' = -1
           /\ pc' = "idle" => pc = "top" /\ (c.error_flag \/ StreamLevel(c.stream) < 0)
           /\ pc \in {"top", "packet"} \/ c.stream.data = << >>
  <1>1. c \in Client /\ call \in Call
    BY DEF Shape
  <1>2. StreamIsEmpty(c.stream) => c.stream.data = << >>
    BY DEF StreamIsEmpty
  <1>3. ASSUME NEW v, Return(v)
        PROVE  call'.op = "none" /\ pc' \in {"idle", "complete"} /\ ret' = v
    BY <1>1, <1>3, ReturnedCallType DEF Return, ReturnedCall
  <1>4. CASE ReturnError \/ ReturnClosed
    BY <1>3, <1>4 DEF ReturnError, ReturnClosed
  <1>5. CASE TimerDue \/ TimerNotDue \/ StreamDry \/ NoPacket
    BY <1>2, <1>5 DEF TimerDue, TimerNotDue, StreamDry, NoPacket
  <1> QED
    BY <1>4, <1>5 DEF Quiet, CompleteRead, CompleteQuery, CompletePeek

\* What is in the stream before anything is read holds a header.
LEMMA HeaderFits ==
    ASSUME PatientTimer, Shape, Order, Fetching, c.fileOffset = 0, c.stream.data # << >>
    PROVE  Len(c.stream.data) >= HEADER_BYTES
  <1> DEFINE n == Len(c.stream.data)
             b == c.tftp.block_num
  <1>1. c \in Client /\ c.stream.data \in Seq(Byte)
    BY DEF Shape, Client, StreamType
  <1>2. n \in Nat /\ n # 0
    BY <1>1
  <1>3. b \in Nat /\ n = (b - 1) * D /\ b # 0
    <2>1. b \in 1 .. LastBlock /\ Received = (b - 1) * D /\ Received = n
      BY <1>2 DEF Order, BlocksCounted, Received
    <2> HIDE DEF b, n
    <2> QED
      BY <2>1, Blocks1
  <1>4. D \in Nat /\ D >= HEADER_BYTES /\ HEADER_BYTES \in Nat
    BY Sizes, EthBootAssumption DEF PatientTimer, D
  <1> HIDE DEF n, b
  <1>5. b - 1 \in Nat \ {0}
    BY <1>2, <1>3, <1>4
  <1>6. ASSUME NEW k \in Nat \ {0}, NEW d \in Nat
        PROVE  k * d >= d
    <2>1. k - 1 \in Nat /\ k * d = (k - 1) * d + d
      BY <1>6
    <2>2. \A i, j \in Nat : i * j \in Nat
      OBVIOUS
    <2> QED
      BY <2>1, <2>2
  <1>7. (b - 1) * D >= D
    BY <1>4, <1>5, <1>6
  <1> QED
    BY <1>2, <1>3, <1>4, <1>7 DEF n

LEMMA NextCalls ==
    ASSUME SeekTargets = {}, PatientTimer, Shape, Order, Clocks, Calls, [Next]_vars
    PROVE  Calls'
  <1>1. /\ c \in Client /\ c.sent = {} /\ call \in Call /\ Control
        /\ call.num_bytes \in Nat
    BY DEF Shape, Call
  <1>2. ASSUME UNCHANGED call, c'.fileOffset = c.fileOffset, pc' # "packet" \/ UNCHANGED <<c, pc>>
        PROVE  Calls'
    BY <1>2 DEF Calls, Fetching, OnTftpSocket
  <1>3. CASE Boot
    <2>1. UNCHANGED c /\ pc' # "packet"
      BY <1>3, BootEffect
    <2>2. CASE call' = call
      BY <1>2, <2>1, <2>2
    <2>3. CASE call'.op = "read" /\ call'.num_bytes \in Nat \ {0}
      BY <2>1, <2>3 DEF Calls
    <2>4. CASE call'.op = "peek" /\ (call'.num_bytes <= 1 \/ app = "params")
      BY <2>1, <2>4 DEF Calls, Order
    <2> QED
      BY <1>3, <2>2, <2>3, <2>4, BootCalls
  <1>4. CASE Quiet
    <2>1. pc # "complete"
      BY SeeksNothing
    <2>2. UNCHANGED c
      BY <1>4, QuietEffect
    <2>3. CASE pc' = "packet"
      <3>1. c'.stream.data = << >>
        BY <1>4, <2>1, <2>2, <2>3, QuietCalls
      <3> QED
        BY <1>4, <2>1, <2>2, <3>1, QuietCalls DEF Calls
    <2>4. CASE pc' # "packet"
      BY <1>4, <2>1, <2>2, <2>4, QuietCalls DEF Calls
    <2> QED
      BY <2>3, <2>4
  <1>5. CASE ScanTimer
    <2>1. UNCHANGED call /\ pc' # "packet" /\ c'.fileOffset = c.fileOffset
      BY <1>1, <1>5, ScanEffect, ScanOutcome DEF Control
    <2> QED
      BY <1>2, <2>1
  <1>6. CASE CopyStream
    <2> DEFINE n == Len(c.stream.data)
               k == Copied
               left == call.num_bytes
    <2>1. /\ pc = "copy" /\ c.stream.data # << >> /\ k \in Nat /\ k <= left
          /\ k # left => k = n
          /\ c'.socks = c.socks
          /\ call.op \in {"read", "skip"} => Len(c'.stream.data) = n - k
          /\ call.op \notin {"read", "skip"} => c' = c
          /\ c' \in Client
          /\ \/ k = left /\ Return(IF c.error_flag THEN -1 ELSE 0)
             \/ k # left /\ pc' = "packet" /\ call'.op = call.op
                /\ call'.num_bytes = left - k
      BY <1>1, <1>6, CopyEffect
    <2>2. CASE Return(IF c.error_flag THEN -1 ELSE 0)
      <3>1. call'.op = "none" /\ pc' # "packet"
        BY <1>1, <2>2, ReturnedCallType DEF Return, ReturnedCall
      <3> QED
        BY <3>1 DEF Calls
    <2>3. CASE k # left /\ pc' = "packet" /\ call'.op = call.op /\ call'.num_bytes = left - k
      <3>1. left - k > 0 /\ left - k <= left /\ k = n /\ left > n /\ n \in Nat /\ left \in Nat
        <4>1. n \in Nat
          BY <1>1 DEF Client, StreamType
        <4> QED
          BY <1>1, <2>1, <2>3, <4>1
      <3>2. call'.num_bytes > 0
        BY <2>3, <3>1
      <3>3. call'.op = "peek" => call'.num_bytes <= 1 \/ c'.fileOffset = 0
        <4>1. left <= 1 => left - k <= 1
          <5> HIDE DEF k, left, n
          <5> QED
            BY <2>1, <3>1
        <4> QED
          BY <2>1, <2>3, <4>1 DEF Calls
      <3>4. Fetching' => c'.stream.data = << >>
        <4>1. CASE call.op \in {"read", "skip"}
          <5>1. Len(c'.stream.data) = 0 /\ c'.stream.data \in Seq(Byte)
            BY <2>1, <3>1, <4>1 DEF Client, StreamType
          <5> QED
            BY <5>1
        <4>2. CASE call.op \notin {"read", "skip"}
          <5>1. c' = c /\ call.op = "peek"
            BY <1>1, <2>1, <4>2 DEF Control, Call
          <5>2. n # 0
            BY <1>1, <2>1 DEF Client, StreamType
          <5>3. left > 1
            BY <3>1, <5>2
          <5>4. c.fileOffset = 0 /\ left <= HEADER_BYTES
            BY <1>1, <5>1, <5>3 DEF Calls, Control
          <5>5. ~Fetching
            <6>1. n < HEADER_BYTES
              BY <3>1, <5>4, EthBootAssumption
            <6>2. ~(n >= HEADER_BYTES)
              BY <3>1, <6>1, EthBootAssumption
            <6> QED
              BY <2>1, <5>4, <6>2, HeaderFits
          <5> QED
            BY <5>1, <5>5 DEF Fetching, OnTftpSocket
        <4> QED
          BY <4>1, <4>2
      <3> QED
        BY <3>2, <3>3, <3>4 DEF Calls
    <2> QED
      BY <2>1, <2>2, <2>3
  <1>7. ASSUME NEW m \in FromServer, ProcPacket(m) PROVE Calls'
    BY <1>2, <1>7, PacketEffect, PacketOutcome
  <1>8. CASE Servers
    BY <1>2, <1>8, ServersMessages DEF Shape
  <1>9. ASSUME NEW config \in Configs, Open(config) PROVE Calls'
    <2>1. call' = call /\ pc = "closed" /\ pc' = "idle"
      BY <1>1, <1>9, OpenEffect
    <2>2. call.op = "none"
      BY <1>1, <2>1 DEF Control
    <2> QED
      BY <2>1, <2>2 DEF Calls
  <1>10. CASE UNCHANGED vars
    BY <1>2, <1>10 DEF vars, netVars
  <1>11. CASE Poll
    <2>1. ~Restart
      BY SeeksNothing DEF Restart
    <2> QED
      BY <1>4, <1>5, <1>6, <1>7, <1>11, <2>1, Zenon DEF Poll, Quiet
  <1> QED
    BY <1>3, <1>8, <1>9, <1>10, <1>11 DEF Next

-----------------------------------------------------------------------------

LEMMA Turns ==
    ASSUME c \in Client
    PROVE  /\ Len(c.stream.data) \in Nat /\ TurnsLeft \in Nat
           /\ TurnsLeft >= Len(c.stream.data)
           /\ c.stream.data # << >> => Len(c.stream.data) >= 1
  <1>1. Len(c.stream.data) \in Nat /\ (c.stream.data = << >> <=> Len(c.stream.data) = 0)
    BY LevelType DEF Client
  <1>2. One(call.op = "peek") \in {0, 1} /\ One(app = "params") \in {0, 1}
    BY DEF One
  <1>3. \A n \in Nat : \A i, j \in {0, 1} : n + i + j \in Nat /\ n + i + j >= n
    OBVIOUS
  <1> QED
    BY <1>1, <1>2, <1>3 DEF TurnsLeft

\* No timer of a transfer fires while there is data in the stream.
LEMMA Starved ==
    ASSUME Shape, Clocks, Patience, pc = "scan", Fetching, Expires(c.timers, scan)
    PROVE  c.stream.data = << >>
  <1> SUFFICES ASSUME c.stream.data # << >> PROVE FALSE
    OBVIOUS
  <1>1. c \in Client /\ scan \in Blocks
    BY DEF Shape, Control
  <1>2. RunsFor(c.timers, "tftp_timer_expiry")
    BY SocketsDiffer DEF Clocks, ClientClocks, Fetching
  <1>3. scan = 0 /\ Ticks(c.timers) = 1
    BY <1>1, <1>2, RunningTimer, Limits DEF Expires, Ticks
  <1>4. One(~Counted) = 1
    BY <1>3 DEF Counted, One
  <1>5. Ticks(c.timers) >= TurnsLeft + 1
    BY <1>4 DEF Patience
  <1> QED
    BY <1>1, <1>3, <1>5, Turns

LEMMA ScanFailures ==
    ASSUME SeekTargets = {}, Shape, Clocks, Patience, Failures, ScanTimer, UNCHANGED appVars
    PROVE  Failures'
  <1>1. c \in Client /\ c.sent = {} /\ scan \in Blocks /\ Phase /\ Control
    BY DEF Shape, Control
  <1>2. pc = "scan" /\ pc' # "idle" /\ app # "closed" /\ app' = app
    BY <1>1, ScanEffect DEF Control, appVars
  <1>3. PICK d \in Client, e \in Client :
                 /\ Ticked(d) /\ Committed(e)
                 /\ \/ e = d /\ ~Expires(c.timers, scan)
                    \/ Runs("tftp_timer_expiry") /\ TftpExpired(d, e)
                    \/ Runs("bootp_tmr_expiry") /\ BootpExpired(d, e)
    BY <1>1, ScanEffect
  <1>4. CASE Kept
    BY <1>2, <1>4 DEF Kept, Failures
  <1>5. CASE e = d
    <2>1. Kept
      BY <1>3, <1>5 DEF Ticked, Committed, Kept
    <2> QED
      BY <1>4, <2>1
  <1>6. CASE Asking
    BY <1>2, <1>6 DEF Asking, Failures
  <1>7. CASE Fetching /\ Expires(c.timers, scan)
    <2>1. c.stream.data = << >>
      BY <1>2, <1>7, Starved
    <2>2. RunsFor(c.timers, "tftp_timer_expiry")
      BY <1>7 DEF Clocks, ClientClocks, Fetching
    <2>3. c.timers.timer[0].expiry = "tftp_timer_expiry" /\ scan = 0
      BY <1>1, <1>7, <2>2, RunningTimer, Limits
    <2>4. TftpExpired(d, e)
      BY <1>3, <1>7, <2>3 DEF Runs
    <2>5. CASE GaveUp(d, e)
      <3>1. c'.stream = CloseStream(c.stream)
        BY <1>3, <2>5 DEF GaveUp, Ticked, Committed
      <3>2. StreamLevel(c'.stream) < 0
        BY <2>1, <3>1 DEF CloseStream, StreamLevel, StreamIsEmpty
      <3> QED
        BY <3>2 DEF Failures
    <2>6. CASE RequestedAgain(d, e)
      <3>1. c'.stream = c.stream /\ c'.error_flag = c.error_flag
        BY <1>3, <2>6 DEF RequestedAgain, Ticked, Committed
      <3> QED
        BY <1>2, <3>1 DEF Failures
    <2> QED
      BY <2>4, <2>5, <2>6 DEF TftpExpired
  <1>8. CASE c.socks = UdpInit /\ c.timers = TimerInit
    BY <1>1, <1>3, <1>5, <1>8, NoTimer DEF Runs
  <1> QED
    BY <1>3, <1>5, <1>6, <1>7, <1>8, TimersOfPhases DEF Runs

LEMMA PacketFailures ==
    ASSUME SeekTargets = {}, Shape, Clocks, Calls, Failures, UNCHANGED appVars,
           NEW m \in FromServer, ProcPacket(m)
    PROVE  Failures'
  <1>1. pc = "packet" /\ pc' = "top" /\ app' = app
    BY PacketEffect DEF appVars
  <1>2. PICK e \in Client :
                 /\ Committed(e) /\ Frame(c, e)
                 /\ \/ m.type = "BOOTREP" /\ TakesReply(e)
                    \/ m.type = "ERROR" /\ TakesError(e)
                    \/ m.type = "DATA" /\ TakesBlock(e, m)
    BY PacketEffect
  <1>3. CASE Asking
    BY <1>1, <1>3 DEF Asking, Failures
  <1>4. CASE Fetching
    <2>1. c.stream.data = << >>
      BY <1>1, <1>4 DEF Calls
    <2>2. CASE c'.stream = CloseStream(c.stream)
      <3>1. StreamLevel(c'.stream) < 0
        BY <2>1, <2>2 DEF CloseStream, StreamLevel, StreamIsEmpty
      <3> QED
        BY <3>1 DEF Failures
    <2>3. CASE e.error_flag = c.error_flag
      <3>1. ~c'.error_flag
        BY <1>2, <1>4, <2>3, FailsWhileActive DEF Committed
      <3> QED
        BY <3>1 DEF Failures
    <2>4. e.stream = CloseStream(c.stream) \/ e.error_flag = c.error_flag
      BY <1>2, <1>4, SocketsDiffer
         DEF TakesReply, TakesError, TakesBlock, GaveUp, Rejected, Duplicate, Stored, Finished,
             GoesOn, Asking, Fetching, OnTftpSocket
    <2> QED
      BY <1>2, <2>2, <2>3, <2>4 DEF Committed
  <1> QED
    BY <1>2, <1>3, <1>4 DEF TakesReply, TakesError, TakesBlock

LEMMA NextFailures ==
    ASSUME SeekTargets = {}, Configured, Shape, Clocks, Draining, [Next]_vars
    PROVE  Failures'
  <1>1. c \in Client /\ c.sent = {} /\ Control /\ Failures /\ Calls /\ Patience /\ call \in Call
    BY DEF Shape, Draining
  <1>2. CASE UNCHANGED vars
    BY <1>1, <1>2 DEF vars, netVars, appVars, Failures
  <1>3. CASE Boot
    <2>1. UNCHANGED c /\ pc = "idle" /\ app # "closed"
      BY <1>3, BootEffect
    <2>2. CASE ret = 0 \/ app # "params"
      BY <1>1, <2>1, <2>2 DEF Failures
    <2>3. CASE ret < 0 /\ app = "params"
      <3>1. ParamsFailed
        BY <1>3, <2>3
           DEF Boot, AwaitParams, NameDetectFails, ParamsKnown, DetectFormat, LoaderRead,
               LoaderPeek, LoaderSeek, LoaderDone, DrainRead, DrainQuery, DrainPeek, DrainDone
      <3> QED
        BY <3>1 DEF ParamsFailed, Failures
    <2> QED
      BY <1>1, <2>2, <2>3 DEF Control
  <1>4. CASE Quiet /\ UNCHANGED appVars
    <2>1. UNCHANGED c /\ pc # "idle" /\ pc # "complete" /\ pc # "closed"
      BY <1>4, QuietEffect, SeeksNothing
    <2>2. c.error_flag /\ pc' = "idle" => ret' < 0
      BY <1>4, <2>1, QuietCalls
    <2> QED
      BY <1>1, <1>4, <2>1, <2>2 DEF Failures, Control, appVars
  <1>5. CASE CopyStream /\ UNCHANGED appVars
    <2>1. /\ pc = "copy" /\ c.stream.data # << >> /\ c'.error_flag = c.error_flag
          /\ \/ Return(IF c.error_flag THEN -1 ELSE 0)
             \/ pc' = "packet"
      BY <1>1, <1>5, CopyEffect
    <2>2. ~(StreamLevel(c.stream) < 0)
      BY <1>1, <2>1, LevelType DEF Client
    <2>3. c.error_flag => pc' # "idle" \/ ret' < 0
      BY <2>1 DEF Return
    <2> QED
      BY <1>1, <1>5, <2>1, <2>2, <2>3 DEF Failures, appVars, Control
  <1>6. CASE ScanTimer /\ UNCHANGED appVars
    BY <1>1, <1>6, ScanFailures
  <1>7. ASSUME NEW m \in FromServer, ProcPacket(m), UNCHANGED appVars PROVE Failures'
    BY <1>1, <1>7, PacketFailures
  <1>8. CASE Servers /\ UNCHANGED appVars
    <2>1. UNCHANGED <<c, pc, ret>>
      BY <1>8, ServersMessages DEF Shape
    <2> QED
      BY <1>1, <1>8, <2>1 DEF Failures, appVars
  <1>9. ASSUME NEW config \in Configs, Open(config) PROVE Failures'
    <2>1. app = "closed" /\ transfers < MaxTransfers
      BY <1>1, <1>9, OpenEffect
    <2>2. PICK d \in Client, e \in Client :
                 /\ WasReset(d, config) /\ Committed(e) /\ Frame(d, e)
                 /\ \/ config.bootp /\ OpenedBootp(d, e)
                    \/ ~config.bootp /\ OpenedTftp(d, e)
      BY <1>1, <1>9, OpenEffect
    <2>3. d.timers = TimerInit /\ ~d.error_flag /\ d.have_server = config.server
      BY <2>1, <2>2 DEF WasReset, Clocks, Sessions, ClientClocks
    <2>4. CanAdd(d.timers) /\ (config.bootp \/ config.server)
      BY <2>3, CanStart DEF Configured
    <2>5. BootpAsked(d, e) \/ Requested(d, e)
      BY <2>2, <2>3, <2>4
         DEF OpenedBootp, BootpNotStarted, OpenedTftp, NoServer, NoTimerLeft
    <2>6. ~c'.error_flag
      BY <2>2, <2>3, <2>5 DEF BootpAsked, Requested, Committed
    <2> QED
      BY <2>6 DEF Failures
  <1>10. CASE Poll /\ UNCHANGED appVars
    <2>1. ~Restart
      BY SeeksNothing DEF Restart
    <2> QED
      BY <1>4, <1>5, <1>6, <1>7, <1>10, <2>1, Zenon DEF Poll, Quiet
  <1> QED
    BY <1>2, <1>3, <1>8, <1>9, <1>10 DEF Next

-----------------------------------------------------------------------------

LEMMA TickEffect ==
    ASSUME NEW e \in Expiries, NEW t, RunsFor(t, e), NEW i \in Blocks
    PROVE  /\ Ticks(t) \in Nat
           /\ i = 0 /\ ~Expires(t, i) => Ticks(CountDown(t, i)) = Ticks(t) - 1
           /\ i # 0 => CountDown(t, i) = t
  <1>1. PICK b \in Running(e) : t = OneTimer(b)
    BY DEF RunsFor
  <1>2. b.timeout \in Nat /\ Ticks(t) = b.timeout
    BY <1>1, OnlyTimer DEF Running, Ticks
  <1>3. i # 0 => CountDown(t, i) = t
    BY <1>1, OnlyTimer
  <1>4. ASSUME i = 0, ~Expires(t, i)
        PROVE  Ticks(CountDown(t, i)) = Ticks(t) - 1
    <2>1. b.timeout # 1
      BY <1>1, <1>4, OnlyTimer
    <2>2. PICK d \in Running(e) :
              /\ CountDown(OneTimer(b), 0) = OneTimer(d)
              /\ d.timeout = IF b.timeout = 1 THEN b.org_timeout ELSE b.timeout - 1
      BY OnlyTimer
    <2>3. Ticks(OneTimer(d)) = d.timeout
      BY OnlyTimer DEF Ticks
    <2> QED
      BY <1>1, <1>2, <1>4, <2>1, <2>2, <2>3
  <1> QED
    BY <1>2, <1>3, <1>4

LEMMA AddedTicks ==
    ASSUME NEW n \in Nat \ {0}, NEW e \in Expiries
    PROVE  Ticks(TimerAdd(TimerInit, n, e)) = n
  <1> DEFINE b == [expiry |-> e, org_timeout |-> n, timeout |-> n]
  <1>1. b \in Running(e) /\ b.timeout = n
    BY DEF Running
  <1>2. TimerAdd(TimerInit, n, e) = OneTimer(b)
    BY FirstTimer
  <1> HIDE DEF b
  <1>3. OneTimer(b).timer[0] = b
    BY <1>1, OnlyTimer
  <1> QED
    BY <1>1, <1>2, <1>3 DEF Ticks

LEMMA FetchingTimer ==
    ASSUME Clocks, Fetching
    PROVE  /\ c.tftp.timer = 0 /\ RunsFor(c.timers, "tftp_timer_expiry")
           /\ Ticks(c.timers) \in Nat
  <1>1. c.tftp.timer = 0 /\ RunsFor(c.timers, "tftp_timer_expiry")
    BY DEF Clocks, ClientClocks, Fetching
  <1> QED
    BY <1>1, TickEffect, Limits, ZeroIsABlock

\* The loop is no less patient when the stream and the timer stay as they are
\* and no turn is added.
LEMMA StaysPatient ==
    ASSUME Shape, Clocks, Patience, UNCHANGED c,
           Fetching /\ c.stream.data # << >> =>
               TurnsLeft' + One(~Counted)' <= TurnsLeft + One(~Counted)
    PROVE  Patience'
  <1> SUFFICES ASSUME Fetching', c'.stream.data # << >>
               PROVE  Ticks(c'.timers) >= (TurnsLeft + One(~Counted))'
    BY DEF Patience
  <1>1. Fetching /\ c.stream.data # << >>
    BY DEF Fetching, OnTftpSocket
  <1>2. c \in Client /\ c' \in Client
    BY DEF Shape
  <1>3. TurnsLeft \in Nat /\ TurnsLeft' \in Nat /\ Ticks(c.timers) \in Nat
    <2>1. TurnsLeft \in Nat /\ Ticks(c.timers) \in Nat
      BY <1>1, <1>2, Turns, FetchingTimer
    <2>2. Len(c'.stream.data) \in Nat /\ One(call'.op = "peek") \in {0, 1}
          /\ One(app' = "params") \in {0, 1}
      BY <1>2, LevelType DEF Client, One
    <2>3. \A n \in Nat : \A i, j \in {0, 1} : n + i + j \in Nat
      OBVIOUS
    <2> QED
      BY <2>1, <2>2, <2>3 DEF TurnsLeft, One
  <1>4. One(~Counted) \in {0, 1} /\ One(~Counted)' \in {0, 1}
    BY DEF One
  <1>5. Ticks(c.timers) >= TurnsLeft + One(~Counted)
    BY <1>1 DEF Patience
  <1> DEFINE x == TurnsLeft'
             y == One(~Counted)'
             z == Ticks(c.timers)
  <1>6. z >= x + y
    <2>1. x \in Nat /\ y \in {0, 1} /\ z \in Nat /\ x + y <= TurnsLeft + One(~Counted)
      BY <1>1, <1>3, <1>4
    <2> HIDE DEF x, y, z
    <2> QED
      BY <1>3, <1>4, <1>5, <2>1 DEF z
  <1> QED
    BY <1>6

LEMMA BootPatience ==
    ASSUME SeekTargets = {}, Shape, Clocks, Patience, Boot
    PROVE  Patience'
  <1>1. /\ UNCHANGED c /\ pc = "idle" /\ pc' \in {"idle", "top", "closed"}
        /\ app' = "params" => app = "params"
    BY BootEffect
  <1>2. c \in Client /\ Control
    BY DEF Shape
  <1>3. call.op = "none"
    BY <1>1, <1>2 DEF Control
  <1>4. ASSUME Fetching, c.stream.data # << >>
        PROVE  TurnsLeft' + One(~Counted)' <= TurnsLeft + One(~Counted)
    <2>1. One(~Counted) = 1 /\ One(~Counted)' = 1
      BY <1>1 DEF One, Counted
    <2>2. /\ One(call.op = "peek") = 0
          /\ One(call'.op = "peek") + One(app' = "params") <= One(app = "params")
      <3>1. CASE call' = call \/ call'.op = "read"
        BY <1>1, <1>3, <3>1 DEF One
      <3>2. CASE call'.op = "peek"
        <4>1. ~(StreamLevel(c.stream) = 0)
          BY <1>2, <1>4, LevelType DEF Client
        <4>2. app = "params" /\ app' = "load"
          BY <1>4, <3>2, <4>1, <1>3, BootCalls DEF Fetching
        <4> QED
          BY <1>3, <4>2 DEF One
      <3> QED
        BY <3>1, <3>2, BootCalls
    <2>3. Len(c.stream.data) \in Nat /\ Len(c'.stream.data) = Len(c.stream.data)
      BY <1>1, <1>2, LevelType DEF Client
    <2>4. One(app = "params") \in {0, 1} /\ One(app' = "params") \in {0, 1}
          /\ One(call'.op = "peek") \in {0, 1}
      BY DEF One
    <2>5. TurnsLeft' <= TurnsLeft /\ TurnsLeft \in Nat /\ TurnsLeft' \in Nat
      <3>1. \A n \in Nat : \A i, j, k \in {0, 1} :
                i + j <= k => n + i + j <= n + 0 + k /\ n + i + j \in Nat /\ n + 0 + k \in Nat
        OBVIOUS
      <3>2. /\ TurnsLeft = Len(c.stream.data) + 0 + One(app = "params")
            /\ TurnsLeft' = Len(c.stream.data) + One(call'.op = "peek") + One(app' = "params")
        BY <2>2, <2>3 DEF TurnsLeft, One
      <3> QED
        BY <2>2, <2>3, <2>4, <3>1, <3>2
    <2> QED
      BY <2>1, <2>5
  <1> QED
    BY <1>1, <1>4, StaysPatient

LEMMA QuietPatience ==
    ASSUME SeekTargets = {}, Shape, Clocks, Calls, Patience, Quiet, UNCHANGED appVars
    PROVE  Patience'
  <1>1. UNCHANGED <<c, app>> /\ pc # "complete"
    BY QuietEffect, SeeksNothing DEF appVars
  <1>2. c \in Client
    BY DEF Shape
  <1>3. ASSUME Fetching, c.stream.data # << >>
        PROVE  TurnsLeft' + One(~Counted)' <= TurnsLeft + One(~Counted)
    <2>1. pc = "top" /\ (call' = call \/ call'.op = "none")
      BY <1>1, <1>3, QuietCalls DEF Calls
    <2>2. One(~Counted) = 1 /\ One(~Counted)' \in {0, 1}
      BY <2>1 DEF One, Counted
    <2>3. One(call'.op = "peek") \in {0, One(call.op = "peek")}
      BY <2>1 DEF One
    <2>4. Len(c.stream.data) \in Nat /\ Len(c'.stream.data) = Len(c.stream.data)
      BY <1>1, <1>2, LevelType DEF Client
    <2>5. One(app = "params") \in {0, 1} /\ One(call.op = "peek") \in {0, 1}
      BY DEF One
    <2>6. TurnsLeft' <= TurnsLeft /\ TurnsLeft \in Nat /\ TurnsLeft' \in Nat
      <3>1. \A n \in Nat : \A i, j, k \in {0, 1} :
                i \in {0, j} => n + i + k <= n + j + k /\ n + i + k \in Nat /\ n + j + k \in Nat
        OBVIOUS
      <3>2. TurnsLeft' = Len(c.stream.data) + One(call'.op = "peek") + One(app = "params")
        BY <1>1, <2>4 DEF TurnsLeft, One
      <3>3. One(call'.op = "peek") \in {0, 1}
        BY DEF One
      <3> QED
        BY <2>3, <2>4, <2>5, <3>1, <3>2, <3>3 DEF TurnsLeft
    <2> QED
      BY <2>2, <2>6
  <1> QED
    BY <1>1, <1>3, StaysPatient

LEMMA CopyPatience ==
    ASSUME SeekTargets = {}, Shape, Clocks, Calls, Calls', Patience, CopyStream, UNCHANGED appVars
    PROVE  Patience'
  <1> DEFINE n == Len(c.stream.data)
             k == Copied
             z == Ticks(c.timers)
             i == One(call.op = "peek")
             j == One(app = "params")
  <1> SUFFICES ASSUME Fetching', c'.stream.data # << >>
               PROVE  Ticks(c'.timers) >= (TurnsLeft + One(~Counted))'
    BY DEF Patience
  <1>1. c \in Client /\ c.sent = {} /\ call \in Call /\ call.num_bytes \in Nat /\ Control
    BY DEF Shape, Call
  <1>2. /\ pc = "copy" /\ c.stream.data # << >>
        /\ k \in Nat /\ k <= n
        /\ k # call.num_bytes => k = n
        /\ c'.timers = c.timers /\ c'.socks = c.socks /\ c'.tftp = c.tftp
        /\ c'.have_params = c.have_params /\ c'.stream.is_open = c.stream.is_open
        /\ call.op \in {"read", "skip"} => Len(c'.stream.data) = n - k
        /\ call.op \notin {"read", "skip"} => c' = c
        /\ \/ k = call.num_bytes /\ Return(IF c.error_flag THEN -1 ELSE 0)
           \/ pc' = "packet"
    BY <1>1, CopyEffect
  <1>3. Fetching
    BY <1>2 DEF Fetching, OnTftpSocket
  <1>4. pc' # "packet"
    BY DEF Calls
  <1>5. k = call.num_bytes /\ call'.op = "none" /\ pc' = "idle"
    BY <1>1, <1>2, <1>4, ReturnedCallType, SeeksNothing DEF Return, ReturnedCall, Seeking
  <1>6. One(~Counted)' = 1 /\ One(~Counted) = 0 /\ One(call'.op = "peek") = 0
    BY <1>2, <1>5 DEF One, Counted
  <1>7. n \in Nat /\ i \in {0, 1} /\ j \in {0, 1} /\ z \in Nat /\ j = One(app' = "params")
    BY <1>1, <1>3, LevelType, FetchingTimer DEF Client, One, appVars
  <1>8. z >= n + i + j
    <2>1. z >= n + i + j + 0
      BY <1>2, <1>3, <1>6 DEF Patience, TurnsLeft
    <2> HIDE DEF n, i, j, z
    <2> QED
      BY <1>7, <2>1
  <1>9. TurnsLeft' = Len(c'.stream.data) + 0 + j
    BY <1>6, <1>7 DEF TurnsLeft, One
  <1>10. Len(c'.stream.data) \in Nat /\ Len(c'.stream.data) + 1 <= n + i
    <2>1. CASE call.op = "peek"
      <3>1. c' = c /\ i = 1
        BY <1>2, <2>1 DEF One
      <3> QED
        BY <1>7, <3>1
    <2>2. CASE call.op = "read"
      <3>1. k > 0 /\ Len(c'.stream.data) = n - k
        BY <1>2, <1>5, <2>2 DEF Calls
      <3> HIDE DEF n, k, i
      <3>2. n - k \in Nat /\ n - k + 1 <= n + i
        BY <1>2, <1>7, <3>1
      <3> QED
        BY <3>1, <3>2
    <2>3. call.op \in {"peek", "read"}
      BY <1>1, <1>2 DEF Control, Call, Clocks, Sessions
    <2> QED
      BY <2>1, <2>2, <2>3
  <1> DEFINE q == Len(c'.stream.data)
  <1>11. z >= q + 0 + j + 1
    <2>1. q \in Nat /\ q + 1 <= n + i
      BY <1>10
    <2> HIDE DEF q, n, i, j, z
    <2> QED
      BY <1>7, <1>8, <2>1
  <1> QED
    BY <1>2, <1>6, <1>9, <1>11

LEMMA ScanPatience ==
    ASSUME SeekTargets = {}, Shape, Clocks, Patience, ScanTimer, UNCHANGED appVars
    PROVE  Patience'
  <1> SUFFICES ASSUME Fetching', c'.stream.data # << >>
               PROVE  Ticks(c'.timers) >= (TurnsLeft + One(~Counted))'
    BY DEF Patience
  <1>1. c \in Client /\ c.sent = {} /\ scan \in Blocks
    BY DEF Shape, Control
  <1>2. Kept /\ c'.have_params = c.have_params
    <2>1. ~Lost
      BY SocketsDiffer DEF Lost, Fetching, OnTftpSocket
    <2> QED
      BY <2>1, ScanOutcome
  <1>3. Fetching /\ c.stream.data # << >> /\ c'.stream = c.stream
    BY <1>2 DEF Kept, Fetching, OnTftpSocket
  <1>4. /\ pc = "scan" /\ UNCHANGED <<call, app>>
        /\ pc' = "copy" \/ (pc' = "scan" /\ scan' = scan + 1)
        /\ pc' \in {"scan", "copy"}
    BY <1>1, ScanEffect DEF appVars
  <1>5. ~Expires(c.timers, scan)
    BY <1>3, <1>4, Starved
  <1>6. c'.timers = CountDown(c.timers, scan)
    <2>1. PICK d \in Client, e \in Client : Ticked(d) /\ Committed(e) /\ e = d
      BY <1>1, <1>5, ScanEffect DEF Runs
    <2> QED
      BY <2>1 DEF Ticked, Committed
  <1>7. One(~Counted)' = 0
    <2>1. scan + 1 # 0
      BY <1>1, ZeroIsABlock
    <2> QED
      BY <1>4, <2>1 DEF One, Counted
  <1>8. TurnsLeft' = TurnsLeft /\ TurnsLeft \in Nat
    BY <1>1, <1>3, <1>4, Turns DEF TurnsLeft, One
  <1>9. Ticks(c.timers) >= TurnsLeft + One(~Counted)
    BY <1>3 DEF Patience
  <1>10. RunsFor(c.timers, "tftp_timer_expiry") /\ Ticks(c.timers) \in Nat
    BY <1>3, FetchingTimer
  <1>11. CASE scan = 0
    <2>1. Ticks(c'.timers) = Ticks(c.timers) - 1
      BY <1>1, <1>5, <1>6, <1>10, <1>11, TickEffect, Limits
    <2>2. One(~Counted) = 1
      BY <1>4, <1>11 DEF One, Counted
    <2> QED
      BY <1>7, <1>8, <1>9, <1>10, <2>1, <2>2
  <1>12. CASE scan # 0
    <2>1. c'.timers = c.timers
      BY <1>1, <1>6, <1>10, <1>12, TickEffect, Limits
    <2>2. One(~Counted) = 0
      BY <1>4, <1>12 DEF One, Counted
    <2> QED
      BY <1>7, <1>8, <1>9, <1>10, <2>1, <2>2
  <1> QED
    BY <1>11, <1>12

LEMMA PacketPatience ==
    ASSUME PatientTimer, Shape, Clocks, Calls, UNCHANGED appVars,
           NEW m \in FromServer, ProcPacket(m)
    PROVE  Patience'
  <1> SUFFICES ASSUME Fetching', c'.stream.data # << >>
               PROVE  Ticks(c'.timers) >= (TurnsLeft + One(~Counted))'
    BY DEF Patience
  <1>1. /\ c \in Client /\ c.sent = {} /\ c' \in Client /\ Messages
        /\ pc = "packet" /\ pc' = "top" /\ m \in net
    BY PacketEffect, PacketOutcome DEF Shape, FromServer
  <1>2. OnTftpSocket(c') /\ c'.socks # UdpInit /\ c'.stream.is_open
    BY SocketsDiffer DEF Fetching, OnTftpSocket
  <1>3. Took(m)
    <2>1. ~Lost
      BY <1>2 DEF Lost
    <2>2. ~Began
      BY DEF Began, OpenStream
    <2>3. ~Again
      BY <1>1 DEF Again, Calls
    <2> QED
      BY <2>1, <2>2, <2>3, PacketOutcome
  <1>4. Fetching /\ m.type = "DATA" /\ c'.stream.data = c.stream.data \o Packet(m).data
    BY <1>3 DEF Took
  <1>5. c.stream.data = << >>
    BY <1>1, <1>4 DEF Calls
  <1>6. PICK e \in Client : Committed(e) /\ TakesBlock(e, m)
    BY <1>4, PacketEffect
  <1>7. Rearmed(c) = TimerAdd(TimerInit, TFTP_SERVER_TIMEOUT, "tftp_timer_expiry")
    BY SMTT(30), <1>4, FetchingTimer, RunningTimer, Limits DEF Rearmed, Stopped
  <1>8. c'.timers = Rearmed(c)
    <2>1. e.socks # UdpInit /\ e.stream.data # c.stream.data
      BY <1>2, <1>5, <1>6 DEF Committed
    <2>2. ~Rejected(c, e) /\ ~Duplicate(c, e) /\ ~Finished(c, e, Packet(m))
      BY <2>1 DEF Rejected, Duplicate, Finished
    <2>3. Stored(c, e, Packet(m))
      BY <1>6, <2>2, Zenon DEF TakesBlock
    <2> QED
      BY <1>6, <2>3 DEF Stored, GoesOn, Committed
  <1>9. Ticks(c'.timers) = TFTP_SERVER_TIMEOUT
    BY <1>7, <1>8, AddedTicks, TftpAssumption, Limits
  <1>10. Len(c'.stream.data) \in Nat /\ Len(c'.stream.data) <= D
    <2>1. /\ Packet(m).data \in Seq(Byte) /\ Len(Packet(m).data) = BlockLen(m.num)
          /\ BlockLen(m.num) \in Nat /\ BlockLen(m.num) <= D
      BY <1>1, <1>4, BlockPacket
    <2>2. c'.stream.data = Packet(m).data
      BY <1>4, <1>5, <2>1
    <2> QED
      BY <2>1, <2>2
  <1>11. D + 2 < TFTP_SERVER_TIMEOUT /\ D \in Nat /\ TFTP_SERVER_TIMEOUT \in Nat
    BY Sizes, TftpAssumption DEF PatientTimer, D
  <1>12. /\ One(call'.op = "peek") \in {0, 1} /\ One(app' = "params") \in {0, 1}
         /\ One(~Counted)' = 1
    BY <1>1 DEF One, Counted
  <1> DEFINE q == Len(c'.stream.data)
             i == One(call'.op = "peek")
             j == One(app' = "params")
  <1>13. TFTP_SERVER_TIMEOUT >= q + i + j + 1
    <2>1. q \in Nat /\ q <= D /\ i \in {0, 1} /\ j \in {0, 1}
      BY <1>10, <1>12
    <2> HIDE DEF q, i, j
    <2> QED
      BY <1>11, <2>1
  <1>14. TurnsLeft' = q + i + j
    BY DEF TurnsLeft, One
  <1> QED
    BY <1>9, <1>12, <1>13, <1>14

LEMMA NextPatience ==
    ASSUME SeekTargets = {}, PatientTimer, Shape, Clocks, Calls, Calls', Patience, [Next]_vars
    PROVE  Patience'
  <1>1. CASE UNCHANGED vars
    <2>1. UNCHANGED <<c, call, app, pc, scan>>
      BY <1>1 DEF vars, netVars, appVars
    <2>2. /\ TurnsLeft' = TurnsLeft /\ One(~Counted)' = One(~Counted)
          /\ Ticks(c.timers)' = Ticks(c.timers) /\ (Fetching' <=> Fetching)
          /\ c'.stream = c.stream
      BY <2>1 DEF TurnsLeft, Counted, One, Fetching, OnTftpSocket, Ticks
    <2> QED
      BY <2>2 DEF Patience
  <1>2. CASE Boot
    BY <1>2, BootPatience
  <1>3. CASE Servers /\ UNCHANGED appVars
    <2>1. UNCHANGED <<c, call, app, pc, scan>>
      BY <1>3, ServersMessages DEF Shape, appVars
    <2>2. /\ TurnsLeft' = TurnsLeft /\ One(~Counted)' = One(~Counted)
          /\ Ticks(c.timers)' = Ticks(c.timers) /\ (Fetching' <=> Fetching)
          /\ c'.stream = c.stream
      BY <2>1 DEF TurnsLeft, Counted, One, Fetching, OnTftpSocket, Ticks
    <2> QED
      BY <2>2 DEF Patience
  <1>4. ASSUME NEW config \in Configs, Open(config) PROVE Patience'
    <2>1. c \in Client /\ c.sent = {}
      BY DEF Shape
    <2>2. PICK d \in Client, e \in Client :
                 /\ WasReset(d, config) /\ Committed(e) /\ Frame(d, e)
                 /\ \/ config.bootp /\ OpenedBootp(d, e)
                    \/ ~config.bootp /\ OpenedTftp(d, e)
      BY <1>4, <2>1, OpenEffect
    <2>3. c'.stream = OpenStream \/ c'.socks = UdpInit
      BY <2>2 DEF WasReset, OpenedBootp, BootpNotStarted, BootpAsked, OpenedTftp, NoServer,
                  NoTimerLeft, Requested, Committed
    <2>4. ~Fetching' \/ c'.stream.data = << >>
      BY <2>3, SocketsDiffer DEF Fetching, OnTftpSocket, OpenStream
    <2> QED
      BY <2>4 DEF Patience
  <1>5. CASE Poll /\ UNCHANGED appVars
    <2>1. Quiet \/ ScanTimer \/ CopyStream \/ \E m \in FromServer : ProcPacket(m)
      <3>1. ~Restart
        BY SeeksNothing DEF Restart
      <3> QED
        BY <1>5, <3>1, Zenon DEF Poll, Quiet
    <2> QED
      BY <1>5, <2>1, QuietPatience, ScanPatience, CopyPatience, PacketPatience
  <1> QED
    BY <1>1, <1>2, <1>3, <1>4, <1>5 DEF Next

\* A session that fails leaves nothing to drain: iblEthBoot would drain for ever,
\* for a read after an error consumes nothing.  The server is silent for longer
\* than the loop needs to empty the stream (tftp_timer_expiry, net_read_peek).
THEOREM FailuresLeaveNothing ==
    ASSUME NumbersDiffer, SeekTargets = {}, Configured, PatientTimer
    PROVE  Spec /\ [][AbandonedLast]_vars => []ErrorLeavesNothing
  <1>1. Init => Draining
    <2> SUFFICES ASSUME Init PROVE Draining
      OBVIOUS
    <2>1. call = NoCall /\ pc = "closed" /\ app = "closed" /\ c.socks = UdpInit
      BY DEF Init, NetInit
    <2>2. ~Fetching
      BY <2>1, SocketsDiffer DEF Fetching, OnTftpSocket
    <2> QED
      BY <2>1, <2>2, NoCallType DEF Draining, Calls, Failures, Patience
  <1>2. (Shape /\ Order /\ Clocks) /\ Draining /\ [Next]_vars => Draining'
    <2> SUFFICES ASSUME Shape, Order, Clocks, Draining, [Next]_vars PROVE Draining'
      OBVIOUS
    <2>1. Calls'
      BY NextCalls DEF Draining
    <2>2. Failures'
      BY NextFailures
    <2>3. Patience'
      BY <2>1, NextPatience DEF Draining
    <2> QED
      BY <2>1, <2>2, <2>3 DEF Draining
  <1>3. Draining => ErrorLeavesNothing
    BY DEF Draining, Failures, ErrorLeavesNothing, Transferring
  <1> QED
    BY <1>1, <1>2, <1>3, ClocksInvariant, PTL DEF Spec
==============================================================================
