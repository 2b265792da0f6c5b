---------------------------------- MODULE Nor ----------------------------------
(***************************************************************************)
(* The NOR boot module, driver/nor/nor.c, over the SPI driver: a position  *)
(* in a flat memory.  Positions count from startPos, the boot address; a   *)
(* byte is named by its position in the file.                              *)
(***************************************************************************)
EXTENDS Integers, Sequences

CONSTANT norQueryBytes  \* 0x400: what nor_query always answers

ASSUME NorAssumption == norQueryBytes \in Nat \ {0}

NorOpen == [fpos |-> 0]

NorOutcome(nr, val, bytes) == [nr |-> nr, val |-> val, bytes |-> bytes]

\* nor_seek to an absolute position; before the start it goes to the start.
NorSeek(nr, pos) == NorOutcome([fpos |-> IF pos < 0 THEN 0 ELSE pos], 0, << >>)

\* nor_read.  A transfer on the bus that times out has copied some bytes and
\* leaves the position alone.
NorRead(nr, num_bytes, copied) ==
    LET bytes == [i \in 1 .. copied |-> nr.fpos + i - 1] IN
    IF copied = num_bytes
    THEN NorOutcome([fpos |-> nr.fpos + num_bytes], 0, bytes)
    ELSE NorOutcome(nr, -1, bytes)

\* The function table of the module gives nor_read as its peek.
NorPeek(nr, num_bytes, copied) == NorRead(nr, num_bytes, copied)
===============================================================================
