------------------------------ MODULE StreamSpec ------------------------------
(***************************************************************************)
(* The abstract specification of the stream module: a caller of it sees a  *)
(* bounded byte queue, and "ret" is what its last call returned.           *)
(***************************************************************************)
EXTENDS StreamQueue

CONSTANTS
    ChunkSizes, \* the chunk sizes stream_open is called with
    ReadSizes,  \* the byte counts asked of stream_read and stream_peek
    Writes      \* the byte strings handed to stream_write

VARIABLES
    queue,      \* the stream record
    ret         \* [val |-> return value, bytes |-> what was copied out]

specVars == <<queue, ret>>

Returns(val, bytes) == ret' = [val |-> val, bytes |-> bytes]

\* Before the first open the queue is closed, and full of bytes nobody wrote.
SpecInit ==
    /\ queue \in StreamType
    /\ ~queue.is_open /\ Len(queue.data) = MAX_SIZE_STREAM_BUFFER
    /\ ret = [val |-> 0, bytes |-> << >>]

SpecOpen(chunk_size) ==
    \/ /\ chunk_size > MAX_SIZE_STREAM_BUFFER
       /\ Returns(-1, << >>)
       /\ UNCHANGED queue
    \/ /\ chunk_size <= MAX_SIZE_STREAM_BUFFER
       /\ Returns(0, << >>)
       /\ queue' = OpenStream

SpecRead(num_bytes) ==
    /\ Returns(Available(queue, num_bytes), PeekBytes(queue, num_bytes))
    /\ queue' = AfterRead(queue, num_bytes)

SpecPeek(num_bytes) ==
    /\ Returns(Available(queue, num_bytes), PeekBytes(queue, num_bytes))
    /\ UNCHANGED queue

SpecWrite(bytes) ==
    /\ Returns(IF WriteFits(queue, bytes) THEN 0 ELSE -1, << >>)
    /\ queue' = AfterWrite(queue, bytes)

SpecClose == Returns(0, << >>) /\ queue' = CloseStream(queue)

SpecLevel == Returns(StreamLevel(queue), << >>) /\ UNCHANGED queue

SpecNext ==
    \/ \E c \in ChunkSizes : SpecOpen(c)
    \/ \E n \in ReadSizes : SpecRead(n) \/ SpecPeek(n)
    \/ \E b \in Writes : SpecWrite(b)
    \/ SpecClose
    \/ SpecLevel

SpecSpec == SpecInit /\ [][SpecNext]_specVars
==============================================================================
