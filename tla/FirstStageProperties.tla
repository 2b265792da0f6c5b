-------------------------- MODULE FirstStageProperties --------------------------
(***************************************************************************)
(* What the first stage must guarantee: that the program it jumps to is    *)
(* the one that was turned into the boot table, whatever the flash read    *)
(* wrongly on the way.                                                     *)
(***************************************************************************)
EXTENDS FirstStage

BootTable == Table(image, endian)

\* Where the sections of the table begin, and where it ends.
SectionStarts ==
    {Len(Bytes32(image.entry))
        + Len(FlattenSeq([j \in 1 .. k |-> SectionTable(image.sections[j], endian)]))
            : k \in 0 .. Len(image.sections)}

Covers(section, a) == a \in section.addr .. section.addr + Len(section.data) - 1

\* Memory once the program is in place.
ImageMemory ==
    [a \in DOMAIN memory |->
        IF \E k \in DOMAIN image.sections : Covers(image.sections[k], a)
        THEN LET s == image.sections[CHOOSE k \in DOMAIN image.sections :
                                         Covers(image.sections[k], a)]
             IN s.data[a - s.addr + 1]
        ELSE Untouched]

\* Every variable stays within what the code's types and buffers hold; the
\* index that the next byte is read from is one of the buffer.
TypeOK ==
    /\ pc \in {"main", "map", "config", "boot", "pull", "read", "take", "header",
               "block", "process", "entered", "failed"}
    /\ readAddress \in Nat \cup {NoAddress} /\ busAddress \in Int
    /\ iFifoIn \in 0 .. I_MAX_BLOCK_SIZE
    /\ iFifoOut \in 0 .. I_MAX_BLOCK_SIZE - 1
    /\ iData \in [1 .. I_MAX_BLOCK_SIZE -> 0 .. 255]
    /\ len \in 0 .. 2^16 - 1
    /\ inst.state \in {"INIT", "SIZE", "ADDR", "DATA", "PAD", "FLUSH"}
    /\ inst.f_wait_lsw \in BOOLEAN
    /\ inst.data_size_uint16 \in 0 .. TI_BTBL_BLOCK_SIZE
    /\ wrap.blockSize \in 0 .. TI_BTBL_BLOCK_SIZE
    /\ Len(wrap.data) <= wrap.blockSize
    /\ DOMAIN memory = 0 .. MemoryLen - 1
    /\ faults \in 0 .. MaxFaults

\* The wrapper gets the bytes of the table for the device's endianness, each
\* once and in order: no header, nothing of a block that was read wrongly,
\* nothing again after a retry, nothing of another EEPROM when the table goes
\* on in the next (romparse, the block readers and the fifo of iblinit.c).
BytesInOrder ==
    wrap.data = SubSeq(BootTable, delivered - Len(wrap.data) + 1, delivered)

\* When the size of a section is due, so many bytes have been pulled that it
\* is there that the table has one ("the c64x boot table tools will always
\* pad boot table entries to 32 bit elements", btblwrap.h).
SectionBoundaries ==
    pc = "pull" /\ wrap.readSize = 0 =>
        /\ inst.state = "SIZE" => delivered \in SectionStarts
        /\ inst.state = "FLUSH" => delivered = Len(BootTable)

\* Only the program is written, and only where it belongs: an incomplete
\* 32 bit element leaves the rest of the word alone (coreCopyData).
OnlyImageWritten ==
    \A a \in DOMAIN memory : memory[a] \in {Untouched, ImageMemory[a]}

\* The first stage never jumps before all of the program is in place, and
\* jumps to its entry point.
LoadedWhenEntered ==
    pc = "entered" => memory = ImageMemory /\ entry = image.entry

\* Reads that fail now and then delay the boot, they do not prevent it,
\* provided the map adds up as the code computes the sum.
Settles == MapAccepted => <>(pc \in {"entered", "failed"})
================================================================================
