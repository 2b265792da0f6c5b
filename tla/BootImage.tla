------------------------------- MODULE BootImage -------------------------------
(***************************************************************************)
(* How the second stage of the loader gets into the boot flash: hex6x (not *)
(* part of this repository) turns the program into a boot table of 32 bit  *)
(* elements, util/bconvert reorders the incomplete ones and util/btoccs    *)
(* cuts the table into blocks with a length and a checksum.                *)
(***************************************************************************)
EXTENDS Integers, SequencesExt

CONSTANT BLOCK_DATA   \* 124: bytes of the boot table in a block

ASSUME BootImageAssumption == BLOCK_DATA \in {n \in Nat \ {0} : n % 2 = 0}

HeaderBytes == 4

Bytes16(v) == <<v \div 2^8, v % 2^8>>
Bytes32(v) == Bytes16(v \div 2^16) \o Bytes16(v % 2^16)
Word16(hi, lo) == 2^8 * hi + lo
Word32(hi, lo) == 2^16 * hi + lo
Is32Bit(v) == v \in Nat /\ v \div 2^16 < 2^16

-----------------------------------------------------------------------------
(* The boot table.                                                         *)

\* 16 bit words as the arithmetic of one's complement adds them.
onesComplementAdd(v, w) == ((v + w) \div 2^16) + ((v + w) % 2^16)
onesComplementChksum(words) ==
    LET sum[n \in 0 .. Len(words)] ==
            IF n = 0 THEN 0 ELSE onesComplementAdd(sum[n - 1], words[n])
    IN sum[Len(words)]

RoundedUp(n) == 4 * ((n + 3) \div 4)

\* The last byte of each 32 bit element first.
Reversed(bytes) ==
    [i \in DOMAIN bytes |-> bytes[4 * ((i - 1) \div 4) + 4 - ((i - 1) % 4)]]

\* The data of a section as hex6x writes it: elements with the most
\* significant byte first, the last one filled with zeros.
HexData(data, endian) ==
    LET padded == [i \in 1 .. RoundedUp(Len(data)) |->
                       IF i <= Len(data) THEN data[i] ELSE 0]
    IN IF endian = "little" THEN Reversed(padded) ELSE padded

\* remain32bit of bconvert64x: an incomplete last element is put back into
\* the order of the addresses, since the loader copies its bytes one by one.
remain32bit(data, size, endian) ==
    LET n32 == size - (size % 4)
    IN IF endian = "little" /\ size % 4 # 0
       THEN SubSeq(data, 1, n32) \o Reversed(SubSeq(data, n32 + 1, n32 + 4))
       ELSE data

SectionTable(section, endian) ==
    Bytes32(Len(section.data)) \o Bytes32(section.addr)
        \o remain32bit(HexData(section.data, endian), Len(section.data), endian)

Table(image, endian) ==
    Bytes32(image.entry)
        \o FlattenSeq([k \in DOMAIN image.sections |->
                           SectionTable(image.sections[k], endian)])
        \o Bytes32(0)

-----------------------------------------------------------------------------
(* Blocks.                                                                 *)

Words(bytes) == [k \in 1 .. Len(bytes) \div 2 |-> Word16(bytes[2 * k - 1], bytes[2 * k])]

\* A block of b2i2c: the length, the checksum that makes the sum over the
\* block all ones, the data.
Block(data) ==
    LET length == Bytes16(Len(data) + HeaderBytes)
    IN length
       \o Bytes16(2^16 - 1 - onesComplementChksum(Words(length \o data)))
       \o data

Blocks(table) ==
    FlattenSeq([k \in 1 .. (Len(table) + BLOCK_DATA - 1) \div BLOCK_DATA |->
        Block(SubSeq(table, BLOCK_DATA * (k - 1) + 1,
                     IF k * BLOCK_DATA < Len(table) THEN k * BLOCK_DATA ELSE Len(table)))])
================================================================================
