-------------------------------- MODULE Stream --------------------------------
(***************************************************************************)
(* The ring buffer of driver/stream/stream.c (STREAM_MCB): a byte array    *)
(* with a read index, a write index and a free count that are updated      *)
(* independently of each other.  One action per function; "ret" is what    *)
(* the last call returned.  The first state is the zeroed static variable: *)
(* stream_init is called nowhere in the program, so until the first        *)
(* stream_open the free count is 0 and the ring looks closed but full.     *)
(***************************************************************************)
EXTENDS Integers, Sequences

CONSTANTS
    MAX_SIZE_STREAM_BUFFER,
    Byte,
    ChunkSizes,
    ReadSizes,
    Writes

ASSUME StreamConstants ==
    /\ MAX_SIZE_STREAM_BUFFER \in Nat \ {0}
    /\ ChunkSizes \subseteq Nat
    /\ ReadSizes \subseteq Nat
    /\ Writes \subseteq Seq(Byte)

VARIABLES is_open, buffer, read_idx, write_idx, free_size, ret

ring == <<is_open, buffer, read_idx, write_idx, free_size>>
vars == <<is_open, buffer, read_idx, write_idx, free_size, ret>>

Index == 0 .. MAX_SIZE_STREAM_BUFFER - 1

\* Indices advance modulo the buffer size.
Wrap(i) == i % MAX_SIZE_STREAM_BUFFER

\* Bytes waiting to be read.
Remain == MAX_SIZE_STREAM_BUFFER - free_size

\* How far slot i lies beyond the write index.
Beyond(i) == IF i >= write_idx THEN i - write_idx
             ELSE i - write_idx + MAX_SIZE_STREAM_BUFFER

Returns(val, bytes) == ret' = [val |-> val, bytes |-> bytes]

------------------------------------------------------------------------------

Init ==
    /\ is_open = FALSE
    /\ buffer \in [Index -> Byte]
    /\ read_idx = 0
    /\ write_idx = 0
    /\ free_size = 0
    /\ ret = [val |-> 0, bytes |-> << >>]

\* A variant that sets the flag and leaves what was buffered.
StreamOpenKeepsData(chunk_size) ==
    \/ /\ chunk_size > MAX_SIZE_STREAM_BUFFER
       /\ Returns(-1, << >>)
       /\ UNCHANGED ring
    \/ /\ chunk_size <= MAX_SIZE_STREAM_BUFFER
       /\ Returns(0, << >>)
       /\ is_open' = TRUE
       /\ UNCHANGED <<buffer, read_idx, write_idx, free_size>>

StreamOpen(chunk_size) ==
    \/ /\ chunk_size > MAX_SIZE_STREAM_BUFFER
       /\ Returns(-1, << >>)
       /\ UNCHANGED ring
    \/ /\ chunk_size <= MAX_SIZE_STREAM_BUFFER
       /\ Returns(0, << >>)
       /\ is_open' = TRUE
       /\ read_idx' = 0
       /\ write_idx' = 0
       /\ free_size' = MAX_SIZE_STREAM_BUFFER
       /\ UNCHANGED buffer

\* stream_read_peek: the part a read and a peek share.
NumBytesToRead(num_bytes) == IF num_bytes > Remain THEN Remain ELSE num_bytes

CopyOut(n) == [k \in 1 .. n |-> buffer[Wrap(read_idx + (k - 1))]]

StreamPeek(num_bytes) ==
    /\ Returns(NumBytesToRead(num_bytes), CopyOut(NumBytesToRead(num_bytes)))
    /\ UNCHANGED ring

\* A variant that does not give the space back.
StreamReadKeepsFree(num_bytes) ==
    LET n == NumBytesToRead(num_bytes) IN
    /\ Returns(n, CopyOut(n))
    /\ read_idx' = Wrap(read_idx + n)
    /\ UNCHANGED <<is_open, buffer, write_idx, free_size>>

StreamRead(num_bytes) ==
    LET n == NumBytesToRead(num_bytes) IN
    /\ Returns(n, CopyOut(n))
    /\ read_idx' = Wrap(read_idx + n)
    /\ free_size' = free_size + n
    /\ UNCHANGED <<is_open, buffer, write_idx>>

\* A variant that takes room for one byte for room for all.
StreamWriteAnyRoom(bytes) ==
    \/ /\ free_size = 0
       /\ Returns(-1, << >>)
       /\ UNCHANGED ring
    \/ /\ free_size > 0
       /\ Returns(0, << >>)
       /\ buffer' = [i \in Index |-> IF Beyond(i) < Len(bytes)
                                     THEN bytes[Beyond(i) + 1] ELSE buffer[i]]
       /\ write_idx' = Wrap(write_idx + Len(bytes))
       /\ free_size' = free_size - Len(bytes)
       /\ UNCHANGED <<is_open, read_idx>>

\* Byte by byte from the write index on, wrapping at the end of the array.
StreamWrite(bytes) ==
    \/ /\ Len(bytes) > free_size
       /\ Returns(-1, << >>)
       /\ UNCHANGED ring
    \/ /\ Len(bytes) <= free_size
       /\ Returns(0, << >>)
       /\ buffer' = [i \in Index |-> IF Beyond(i) < Len(bytes)
                                     THEN bytes[Beyond(i) + 1] ELSE buffer[i]]
       /\ write_idx' = Wrap(write_idx + Len(bytes))
       /\ free_size' = free_size - Len(bytes)
       /\ UNCHANGED <<is_open, read_idx>>

StreamClose ==
    /\ Returns(0, << >>)
    /\ is_open' = FALSE
    /\ UNCHANGED <<buffer, read_idx, write_idx, free_size>>

StreamLevel ==
    /\ Returns(IF ~is_open /\ Remain = 0 THEN -1 ELSE Remain, << >>)
    /\ UNCHANGED ring

Next ==
    \/ \E c \in ChunkSizes : StreamOpen(c)
    \/ \E n \in ReadSizes : StreamRead(n)
    \/ \E n \in ReadSizes : StreamPeek(n)
    \/ \E b \in Writes : StreamWrite(b)
    \/ StreamClose
    \/ StreamLevel

Spec == Init /\ [][Next]_vars

------------------------------------------------------------------------------

\* The fields of STREAM_MCB keep their ranges.
TypeOK ==
    /\ is_open \in BOOLEAN
    /\ buffer \in [Index -> Byte]
    /\ read_idx \in Index
    /\ write_idx \in Index
    /\ free_size \in 0 .. MAX_SIZE_STREAM_BUFFER

\* The two indices and the free count are maintained by different functions
\* (read advances one, write the other, both adjust the count) and must agree:
\* the write index lies Remain bytes beyond the read index, around the ring.
IndicesAgree == write_idx = Wrap(read_idx + Remain)

\* The bytes waiting to be read, in order.
Contents == CopyOut(Remain)

\* The ring is a bounded byte queue: what a reader gets is what was written,
\* in order, each byte once, however the indices have wrapped; a write that
\* does not fit changes nothing; a closed stream can still be drained.
Queue == INSTANCE StreamSpec WITH
             queue <- [is_open |-> is_open, data |-> Contents]

ImplementsQueue == Queue!SpecSpec
==============================================================================
