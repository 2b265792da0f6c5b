----------------------------- MODULE StreamQueue -----------------------------
(***************************************************************************)
(* What driver/stream/stream.c promises: a bounded first-in first-out      *)
(* queue of bytes with an "open" flag.  A stream is a record               *)
(*   [is_open |-> BOOLEAN, data |-> Seq(Byte)].                            *)
(* The network modules are built from these operators; module Stream       *)
(* models the ring buffer itself and is shown to implement them.           *)
(***************************************************************************)
EXTENDS Integers, Sequences

CONSTANTS
    MAX_SIZE_STREAM_BUFFER, \* capacity in bytes (1024 or 1520 in cfg/*/iblcfg.h)
    Byte                    \* the values a byte can take

ASSUME StreamSizeAssumption == MAX_SIZE_STREAM_BUFFER \in Nat \ {0}

StreamType == [is_open : BOOLEAN, data : Seq(Byte)]

\* The queue after a successful stream_open.
OpenStream == [is_open |-> TRUE, data |-> << >>]

\* stream_close only drops the flag: what is buffered can still be read.
CloseStream(s) == [is_open |-> FALSE, data |-> s.data]

StreamIsEmpty(s) == s.data = << >>

\* -1 only if the stream is closed AND empty.
StreamLevel(s) == IF ~s.is_open /\ StreamIsEmpty(s) THEN -1 ELSE Len(s.data)

\* How many bytes a read or a peek of num_bytes gets.
Available(s, num_bytes) ==
    IF num_bytes > Len(s.data) THEN Len(s.data) ELSE num_bytes

\* The bytes a read or a peek of num_bytes copies out.
PeekBytes(s, num_bytes) == SubSeq(s.data, 1, Available(s, num_bytes))

\* The queue once a read has consumed its bytes.
AfterRead(s, num_bytes) ==
    [is_open |-> s.is_open,
     data |-> SubSeq(s.data, Available(s, num_bytes) + 1, Len(s.data))]

\* A write is all or nothing; the open flag is not consulted.
WriteFits(s, bytes) == Len(s.data) + Len(bytes) <= MAX_SIZE_STREAM_BUFFER

AfterWrite(s, bytes) ==
    IF WriteFits(s, bytes)
    THEN [is_open |-> s.is_open, data |-> s.data \o bytes]
    ELSE s
==============================================================================
