----------------------------- MODULE FileTransfer -----------------------------
(***************************************************************************)
(* What an image loader is promised of a network boot: a session receives  *)
(* the file block by block and delivers only what it has received; it is   *)
(* done exactly when it has the whole file, and failed otherwise.  A done  *)
(* or failed session receives nothing more and never changes its mind, but *)
(* what it has received can still be delivered.                            *)
(***************************************************************************)
EXTENDS Integers

CONSTANTS FileLen, BlockSize

VARIABLES
    status,    \* "closed", "active", "done" or "failed"
    received,  \* bytes of the file received
    delivered  \* bytes of the file delivered to the loader

transferVars == <<status, received, delivered>>

TransferInit == status = "closed" /\ received = 0 /\ delivered = 0

\* A session can fail before it has begun.
Start ==
    /\ status = "closed"
    /\ status' \in {"active", "failed"}
    /\ UNCHANGED <<received, delivered>>

ReceiveBlock ==
    /\ status = "active"
    /\ received + BlockSize <= FileLen
    /\ received' = received + BlockSize
    /\ UNCHANGED <<status, delivered>>

\* The last block is a short one, possibly empty.
ReceiveLast ==
    /\ status = "active"
    /\ received + BlockSize > FileLen
    /\ received' = FileLen
    /\ status' = "done"
    /\ UNCHANGED delivered

Deliver ==
    /\ status # "closed"
    /\ delivered' \in delivered + 1 .. received
    /\ UNCHANGED <<status, received>>

Fail ==
    /\ status = "active"
    /\ status' = "failed"
    /\ UNCHANGED <<received, delivered>>

Finish ==
    /\ status # "closed"
    /\ status' = "closed"
    /\ received' = 0 /\ delivered' = 0

TransferNext == Start \/ ReceiveBlock \/ ReceiveLast \/ Deliver \/ Fail \/ Finish

TransferSpec == TransferInit /\ [][TransferNext]_transferVars
==============================================================================
