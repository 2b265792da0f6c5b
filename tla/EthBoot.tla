------------------------------- MODULE EthBoot -------------------------------
(***************************************************************************)
(* Booting over ethernet: iblEthBoot of ethboot/ethboot.c driving the net  *)
(* module.  It opens the module, waits for the boot parameters, hands the  *)
(* module to an image loader (iblBoot of main/iblmain.c), reads what the   *)
(* loader left and closes the module.  main calls it again if it returns,  *)
(* and nothing but net_open resets anything between two such sessions.     *)
(* The loader is any program that reads and peeks the way those of interp/ *)
(* do, and stops when it likes or when a call fails.                       *)
(***************************************************************************)
EXTENDS Net

CONSTANTS
    Configs,       \* the boot configurations tried
    ReadSizes,     \* byte counts a loader reads
    HEADER_BYTES,  \* 4: bytes peeked to find the format or to await parameters
    SeekTargets,   \* positions a loader seeks
    MaxTransfers   \* bound on the calls of iblEthBoot and the seeks

ASSUME EthBootAssumption ==
    /\ Configs \subseteq Configurations
    /\ ReadSizes \subseteq Nat
    /\ HEADER_BYTES \in Nat \ {0}
    /\ HEADER_BYTES - 1 + TFTP_DATA_SIZE <= MAX_SIZE_STREAM_BUFFER
    /\ SeekTargets \subseteq Nat
    /\ MaxTransfers \in Nat

VARIABLES
    app,       \* where iblEthBoot is
    dataSize,  \* the bytes of the last query still to be drained
    transfers  \* how many times the module was opened, or a loader sought

appVars == <<app, dataSize, transfers>>
vars == <<netVars, appVars>>

-----------------------------------------------------------------------------

Open(config) ==
    /\ app = "closed"
    /\ transfers < MaxTransfers
    /\ NetOpen(config)
    /\ app' = "params"
    /\ transfers' = transfers + 1
    /\ UNCHANGED dataSize

\* The parameters come with the callback: from net_open itself if there is
\* no BOOTP, otherwise while these peeks run the polling loop.
AwaitParams ==
    /\ app = "params" /\ ret = 0 /\ ~c.have_params
    /\ NetCall("peek", HEADER_BYTES)
    /\ UNCHANGED appVars

ParamsFailed ==
    /\ app = "params" /\ ret < 0
    /\ NetClose
    /\ app' = "closed"
    /\ UNCHANGED <<dataSize, transfers>>

\* The file name says nothing about the format: the session ends at once.
NameDetectFails ==
    /\ app = "params" /\ ret = 0 /\ c.have_params
    /\ NetClose
    /\ app' = "closed"
    /\ UNCHANGED <<dataSize, transfers>>

ParamsKnown ==
    /\ app = "params" /\ ret = 0 /\ c.have_params /\ pc = "idle"
    /\ app' = "load"
    /\ UNCHANGED <<netVars, dataSize, transfers>>

\* iblBoot looks at the first bytes if the format is to be detected.
DetectFormat ==
    /\ app = "params" /\ ret = 0 /\ c.have_params
    /\ NetCall("peek", HEADER_BYTES)
    /\ app' = "load"
    /\ UNCHANGED <<dataSize, transfers>>

LoaderRead(num_bytes) ==
    /\ app = "load" /\ ret = 0
    /\ NetCall("read", num_bytes)
    /\ UNCHANGED appVars

\* Only iblBootBlob peeks, and only when the stream is empty.
LoaderPeek ==
    /\ app = "load" /\ ret = 0
    /\ StreamLevel(c.stream) = 0
    /\ NetCall("peek", 1)
    /\ UNCHANGED appVars

\* The loaders of COFF and ELF files seek; that of ELF files does not look at
\* what its calls return.
LoaderSeek ==
    /\ app = "load"
    /\ transfers < MaxTransfers
    /\ NetSeekFromEnd \/ \E desiredPos \in SeekTargets : NetSeek(desiredPos)
    /\ transfers' = transfers + 1
    /\ UNCHANGED <<app, dataSize>>

LoaderDone ==
    /\ app = "load" /\ pc = "idle"
    /\ app' = "drain"
    /\ dataSize' = 0
    /\ UNCHANGED <<netVars, transfers>>

-----------------------------------------------------------------------------
(* Reading what is left of the file.  net_query returns the stream level.  *)

DrainRead ==
    /\ app = "drain" /\ dataSize > 0
    /\ LET n == Min({dataSize, DRAIN_CHUNK}) IN
       /\ NetCall("read", n)
       /\ dataSize' = dataSize - n
    /\ UNCHANGED <<app, transfers>>

DrainQuery ==
    /\ app = "drain" /\ dataSize = 0 /\ pc = "idle"
    /\ StreamLevel(c.stream) > 0
    /\ dataSize' = StreamLevel(c.stream)
    /\ UNCHANGED <<netVars, app, transfers>>

DrainPeek ==
    /\ app = "drain" /\ dataSize = 0
    /\ StreamLevel(c.stream) = 0
    /\ NetCall("peek", 1)
    /\ UNCHANGED appVars

DrainDone ==
    /\ app = "drain" /\ dataSize = 0
    /\ StreamLevel(c.stream) < 0
    /\ NetClose
    /\ app' = "closed"
    /\ UNCHANGED <<dataSize, transfers>>

-----------------------------------------------------------------------------

Boot ==
    \/ AwaitParams \/ ParamsFailed \/ NameDetectFails \/ ParamsKnown \/ DetectFormat
    \/ \E n \in ReadSizes : LoaderRead(n)
    \/ LoaderPeek \/ LoaderSeek \/ LoaderDone
    \/ DrainRead \/ DrainQuery \/ DrainPeek \/ DrainDone

Init == NetInit /\ app = "closed" /\ dataSize = 0 /\ transfers = 0

Next ==
    \/ \E config \in Configs : Open(config)
    \/ Boot
    \/ Poll /\ UNCHANGED appVars
    \/ Servers /\ UNCHANGED appVars

\* The processor runs, and the hardware timer comes due again and again while
\* the loop looks at it.  Nothing is assumed of the network and the servers.
Fairness ==
    /\ WF_vars(Boot)
    /\ WF_vars(Poll /\ UNCHANGED appVars)
    /\ SF_vars(TimerDue /\ UNCHANGED appVars)

Spec == Init /\ [][Next]_vars /\ Fairness
==============================================================================
