---------------------------------- MODULE Qm ----------------------------------
(***************************************************************************)
(* The descriptors of the packet DMA and the hardware queues they live on: *)
(* hw/qm/qm.c and the queue routines of device/c66x/c66x.c.  A descriptor  *)
(* is one of DEVICE_NUM_CPPIS records of memory; whoever pops it owns it,  *)
(* and nothing but the queues remembers it.  The operators take the queues *)
(* and return them as the routine of that name leaves them.                *)
(***************************************************************************)
EXTENDS Naturals, Sequences

CONSTANTS
    DEVICE_NUM_RX_CPPIS,   \* descriptors for received frames, 1 in c66x.c
    DEVICE_NUM_TX_CPPIS    \* descriptors for frames to send, 1 in c66x.c

ASSUME QmAssumption ==
    /\ DEVICE_NUM_RX_CPPIS \in Nat \ {0}
    /\ DEVICE_NUM_TX_CPPIS \in Nat \ {0}

DEVICE_NUM_CPPIS == DEVICE_NUM_RX_CPPIS + DEVICE_NUM_TX_CPPIS

Descriptors == 1 .. DEVICE_NUM_CPPIS

QueueNames == {"FREE", "LNK_BUF", "RCV", "TX", "PA_CFG", "ETH_TX"}

QueuesEmpty == [name \in QueueNames |-> << >>]

hwQmQueuePush(q, hd, name) == [q EXCEPT ![name] = Append(@, hd)]

hwQmQueuePop(q, name) == [q EXCEPT ![name] = Tail(@)]

\* Pop a queue that is not empty and push what it held onto another.
Moved(q, from, to) == hwQmQueuePush(hwQmQueuePop(q, from), Head(q[from]), to)

-----------------------------------------------------------------------------

\* Every descriptor is formatted and pushed, whatever the queues hold.
hwQmSetup(q) == [q EXCEPT !["FREE"] = @ \o [i \in Descriptors |-> i]]

\* A variant that gives every descriptor to the receive side.
targetInitQsAllReceive(q) ==
    [q EXCEPT !["LNK_BUF"] = @ \o q["FREE"], !["FREE"] = << >>]

targetInitQs(q) ==
    [q EXCEPT !["LNK_BUF"] = @ \o SubSeq(q["FREE"], 1, DEVICE_NUM_RX_CPPIS),
              !["TX"] = @ \o SubSeq(q["FREE"], DEVICE_NUM_RX_CPPIS + 1, DEVICE_NUM_CPPIS),
              !["FREE"] = SubSeq(q["FREE"], DEVICE_NUM_CPPIS + 1, Len(q["FREE"]))]

\* The command to the packet accelerator borrows a receive descriptor.  If the
\* accelerator does not start, nobody pushes it back.
targetPaConfig(q, started) ==
    IF started THEN Moved(q, "LNK_BUF", "PA_CFG") ELSE hwQmQueuePop(q, "LNK_BUF")

\* A variant that takes a frame and keeps its descriptor when the frame is not
\* for this program.
targetMacRcvKeeps(q) == hwQmQueuePop(q, "RCV")

targetMacRcv(q) == Moved(q, "RCV", "LNK_BUF")

targetMacSend(q) == Moved(q, "TX", "ETH_TX")

\* The queues to the accelerator and to the switch are not emptied.
targetFreeQs(q) ==
    [q EXCEPT !["FREE"] = << >>, !["LNK_BUF"] = << >>,
              !["RCV"] = << >>, !["TX"] = << >>]
==============================================================================
