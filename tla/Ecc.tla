---------------------------------- MODULE Ecc ----------------------------------
(***************************************************************************)
(* The error correction of a NAND block, ecc/3byte/3byte_ecc.c.  A number  *)
(* is the set of its bits that are one: a bit of the block is named by the *)
(* address of its byte and by its place in the byte, the data are the bits *)
(* that are one, and so is the code.  The code holds, for each bit of an   *)
(* address or a place, the parity of the data bits that have it and of     *)
(* those that have it not, inverted, and two bits that are always one.     *)
(***************************************************************************)
EXTENDS Integers, FiniteSets

CONSTANTS
    Lines,   \* the bits of a byte's address: 0 .. 7, for 256 bytes
    Columns  \* the bits of a place in a byte: 0 .. 2

\* With fewer bits, half of an error would look like one in the code.
ASSUME EccAssumption ==
    /\ IsFiniteSet(Lines) /\ IsFiniteSet(Columns)
    /\ Cardinality(Lines) + Cardinality(Columns) >= 3

Bits == [line : SUBSET Lines, column : SUBSET Columns]

\* The parity of the bits that have (or have not) the given bit.
LineParities == [of : {"line"}, bit : Lines, has : BOOLEAN]
ColumnParities == [of : {"column"}, bit : Columns, has : BOOLEAN]
Parities == LineParities \cup ColumnParities
Unused == [of : {"unused"}, bit : {0, 1}, has : {TRUE}]
CodeBits == Parities \cup Unused

Covers(p, b) == p.bit \in b[p.of] <=> p.has

Odd(S) == Cardinality(S) % 2 = 1

\* Exclusive or.
Flip(S, F) == (S \ F) \cup (F \ S)

eccComputeECC(data) ==
    Unused \cup {p \in Parities : ~Odd({b \in data : Covers(p, b)})}

-----------------------------------------------------------------------------
(* Correction.  d is where the code read differs from the code computed.   *)

HasLine(r) == [of |-> "line", bit |-> r, has |-> TRUE]
LacksLine(r) == [of |-> "line", bit |-> r, has |-> FALSE]
HasColumn(r) == [of |-> "column", bit |-> r, has |-> TRUE]
LacksColumn(r) == [of |-> "column", bit |-> r, has |-> FALSE]

\* Of each pair of parities exactly one differs: one bit of the data did.
LooksLikeOneBit(d) ==
    /\ \A r \in Lines : HasLine(r) \in d <=> LacksLine(r) \notin d
    /\ \A r \in Columns : HasColumn(r) \in d <=> LacksColumn(r) \notin d

WrongBit(d) == [line |-> {r \in Lines : HasLine(r) \in d},
                column |-> {r \in Columns : HasColumn(r) \in d}]

Corrected(status, data) == [status |-> status, data |-> data]

\* A variant that looks at the lines only.
CorrectByLines(data, read, calc) ==
    LET d == Flip(read, calc) IN
    IF d = {} THEN Corrected("ECC_SUCCESS", data)
    ELSE IF \A r \in Lines : HasLine(r) \in d <=> LacksLine(r) \notin d
    THEN Corrected("ECC_SUCCESS", Flip(data, {WrongBit(d)}))
    ELSE Corrected(IF Cardinality(d) = 1 THEN "ECC_SUCCESS" ELSE "ECC_FAIL", data)

eccCorrectData(data, read, calc) ==
    LET d == Flip(read, calc) IN
    IF d = {} THEN Corrected("ECC_SUCCESS", data)
    ELSE IF LooksLikeOneBit(d)
    THEN Corrected("ECC_SUCCESS", Flip(data, {WrongBit(d)}))
    ELSE Corrected(IF Cardinality(d) = 1 THEN "ECC_SUCCESS" ELSE "ECC_FAIL", data)

\* What a page driver gets of a block it wrote with its code, when the bits
\* of dataFlips and codeFlips have flipped since.
ReadBack(data, dataFlips, codeFlips) ==
    LET flipped == Flip(data, dataFlips) IN
    eccCorrectData(flipped, Flip(eccComputeECC(data), codeFlips), eccComputeECC(flipped))

SetsOfAtMostTwo(S) == {{}} \cup {{x, y} : x \in S, y \in S}

\* Whatever the block holds and wherever the bits are that flipped, in the
\* block or in its code: one is corrected, and two never pass for the data.
CorrectsOneNoticesTwo ==
    \A data \in SUBSET Bits :
        \A dataFlips \in SetsOfAtMostTwo(Bits), codeFlips \in SetsOfAtMostTwo(CodeBits) :
            LET flips == Cardinality(dataFlips) + Cardinality(codeFlips)
                r == ReadBack(data, dataFlips, codeFlips)
            IN  /\ flips <= 2 /\ r.status = "ECC_SUCCESS" => r.data = data
                /\ flips <= 1 => r.status = "ECC_SUCCESS"
===============================================================================
