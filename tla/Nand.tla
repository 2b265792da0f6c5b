--------------------------------- MODULE Nand ---------------------------------
(***************************************************************************)
(* The NAND boot module, driver/nand/nand.c, as operators on its control   *)
(* block nandmcb: a file made of the good blocks of the flash, read        *)
(* through a cache of one page.  A byte is named by its position in the    *)
(* file.  A page is numbered from the first page of the first good block;  *)
(* the code keeps the block and the page in it apart, and the pair 0xffff- *)
(* ffff, 0xffffffff it starts from comes pagesPerBlock increments before   *)
(* page 0 minus one, because both fields wrap.                             *)
(*                                                                         *)
(* "res" says how the page reads of one call end: "ok" (the page,          *)
(* corrected if need be), "failed" (an error is returned, the buffer holds *)
(* what was read so far) or "unnoticed" (the buffer does not hold the      *)
(* page, and success is returned).                                         *)
(***************************************************************************)
EXTENDS Ecc, Sequences, FiniteSetsExt

CONSTANTS
    pageSizeBytes,
    pagesPerBlock,
    totalBlocks,
    startBlock,  \* the block bootAddress is in
    BadBlocks,   \* the blocks marked bad
    BlockData,   \* what is written in the 256 bytes a code covers
    emifCorrects \* 4: the wrong bits the EMIF hardware can correct

ASSUME NandAssumption ==
    /\ pageSizeBytes \in Nat \ {0}
    /\ pagesPerBlock \in Nat \ {0}
    /\ totalBlocks \in Nat
    /\ startBlock \in Nat
    /\ BadBlocks \subseteq 0 .. totalBlocks - 1
    /\ BlockData \subseteq Bits
    /\ emifCorrects \in Nat

Damaged == -1                \* a byte that need not be the file's
Junk == -1                   \* the content of a buffer of such bytes
NoPage == -pagesPerBlock - 1 \* the tag before anything is loaded

-----------------------------------------------------------------------------
(* The flash and the page drivers of hw/nands.                             *)

GoodBlocks == (startBlock .. totalBlocks - 1) \ BadBlocks

\* How many good blocks the scan has met when it comes to block i.
BlockRank(i) == Cardinality({g \in GoodBlocks : g < i})

\* The tool that writes the flash skips the bad blocks.
PageContent(block, page) ==
    IF block \in GoodBlocks THEN BlockRank(block) * pagesPerBlock + page ELSE Junk

\* How a block with at most two wrong bits, in it or its code, comes back.
BlockReads ==
    {[status |-> r.status, good |-> r.data = BlockData] :
        r \in UNION {{ReadBack(BlockData, dataFlips, codeFlips) :
                        codeFlips \in {F \in SetsOfAtMostTwo(CodeBits) :
                                         Cardinality(dataFlips) + Cardinality(F) <= 2}} :
                      dataFlips \in SetsOfAtMostTwo(Bits)}}

\* The SPI driver stops at the first block that cannot be corrected.
SpiPage(r) ==
    IF r.status # "ECC_SUCCESS" THEN "failed" ELSE IF r.good THEN "ok" ELSE "unnoticed"

\* The gpio driver keeps what the correction returns, and returns 0.
GpioPage(r) == IF r.good THEN "ok" ELSE "unnoticed"

\* The EMIF driver has the hardware correct, and fails when that says it could not.
EmifPage(wrongBits) == IF wrongBits <= emifCorrects THEN "ok" ELSE "failed"

\* A transfer on the SPI bus may fail too.
SpiResults == {SpiPage(r) : r \in BlockReads} \cup {"failed"}
GpioResults == {GpioPage(r) : r \in BlockReads}
EmifResults == {EmifPage(n) : n \in 0 .. emifCorrects + 1}

\* How the read of a page may end.  Outside the map the block may have any
\* number, and only the gpio driver refuses numbers the flash does not have.
PageResults(driver, mapped) ==
    CASE driver = "spi" -> SpiResults
      [] driver = "emif" -> EmifResults
      [] driver = "gpio" -> GpioResults \cup (IF mapped THEN {} ELSE {"failed"})

-----------------------------------------------------------------------------
(* The page cache.                                                         *)

Mapped(logicalToPhysMap, l) == l >= 0 /\ (l \div pagesPerBlock) \in DOMAIN logicalToPhysMap

\* What reading logical page l leaves in the buffer.  Outside the map the
\* physical block number is whatever the memory there holds.
Loaded(nd, l, res) ==
    IF Mapped(nd.logicalToPhysMap, l) /\ res[l] = "ok"
    THEN PageContent(nd.logicalToPhysMap[l \div pagesPerBlock], l % pagesPerBlock)
    ELSE Junk

BufferByte(content, i) ==
    IF content = Junk THEN Damaged ELSE content * pageSizeBytes + i

Outcome(nd, val, bytes) == [nd |-> nd, val |-> val, bytes |-> bytes]

\* nand_seek to an absolute position.  The position moves before the page is
\* loaded; the tag only if that works.
NandSeek(nd, pos, res) ==
    LET l == pos \div pageSizeBytes IN
    IF pos < 0 THEN Outcome(nd, -1, << >>)
    ELSE IF l = nd.cur THEN Outcome([nd EXCEPT !.fpos = pos], 0, << >>)
    ELSE IF res[l] = "failed"
    THEN Outcome([nd EXCEPT !.fpos = pos, !.buf = Junk], -2, << >>)
    ELSE Outcome([nd EXCEPT !.fpos = pos, !.cur = l, !.buf = Loaded(nd, l, res)], 0, << >>)

\* Of the bytes a read copies, how many page ends lie before byte i.
PageEnds(nd, i) == ((nd.fpos % pageSizeBytes) + i) \div pageSizeBytes

\* The k-th page loaded during a read, or the one it starts in.
BufferDuring(nd, k, res) ==
    IF k = 0 THEN nd.buf ELSE Loaded(nd, nd.cur + k, res)

CopiedBytes(nd, num_bytes, res) ==
    [i \in 1 .. num_bytes |->
        BufferByte(BufferDuring(nd, PageEnds(nd, i - 1), res),
                   (nd.fpos + i - 1) % pageSizeBytes)]

FailedLoads(nd, num_bytes, res) ==
    {k \in 1 .. PageEnds(nd, num_bytes) : res[nd.cur + k] = "failed"}

\* A variant in which nobody looks at the result of the page load.
NandReadUnchecked(nd, num_bytes, res) ==
    LET pages == PageEnds(nd, num_bytes) IN
    Outcome([nd EXCEPT !.fpos = @ + num_bytes,
                       !.cur = @ + pages,
                       !.buf = BufferDuring(nd, pages, res)],
            0, CopiedBytes(nd, num_bytes, res))

\* nand_read loads the next page as soon as the last byte of one is copied,
\* wanted or not, and moves the tag before it knows whether that works.
NandRead(nd, num_bytes, res) ==
    LET failed == FailedLoads(nd, num_bytes, res)
        pages == PageEnds(nd, num_bytes)
    IN  IF failed = {}
        THEN Outcome([nd EXCEPT !.fpos = @ + num_bytes,
                                !.cur = @ + pages,
                                !.buf = BufferDuring(nd, pages, res)],
                     0, CopiedBytes(nd, num_bytes, res))
        ELSE LET k == Min(failed)
                 copied == k * pageSizeBytes - (nd.fpos % pageSizeBytes)
             IN  Outcome([nd EXCEPT !.fpos = @ + copied, !.cur = @ + k, !.buf = Junk],
                         -2, CopiedBytes(nd, copied, res))

\* A variant in which the tag stays at the page peeked into.
NandPeekKeepsTag(nd, num_bytes, res) ==
    LET r == NandRead(nd, num_bytes, res) IN
    Outcome([r.nd EXCEPT !.fpos = nd.fpos], r.val, r.bytes)

\* nand_peek reads, then brings back the page it started in.
NandPeek(nd, num_bytes, res) ==
    LET r == NandRead(nd, num_bytes, res) IN
    IF r.nd.cur = nd.cur
    THEN Outcome([r.nd EXCEPT !.fpos = nd.fpos], r.val, r.bytes)
    ELSE IF res[nd.cur] = "failed"
    THEN Outcome([r.nd EXCEPT !.buf = Junk], -2, r.bytes)
    ELSE Outcome([nd EXCEPT !.buf = Loaded(nd, nd.cur, res)], r.val, r.bytes)

\* The logical pages a call on n bytes, or a seek, can load.
PagesRead(nd, num_bytes) == nd.cur .. nd.cur + PageEnds(nd, num_bytes)

-----------------------------------------------------------------------------
(* Opening.                                                                *)

NandClosed == [fpos |-> 0, cur |-> 0, buf |-> Junk, logicalToPhysMap |-> << >>]

\* A variant in which the map counts bad blocks too.
MappedBlocksAll ==
    [j \in 0 .. totalBlocks - startBlock - 1 |-> startBlock + j]

\* The scan gives logical block j the block it comes to after j good ones.
MappedBlocks ==
    [j \in {BlockRank(i) : i \in GoodBlocks} |->
        CHOOSE i \in GoodBlocks : BlockRank(i) = j]

\* nand_open, once the driver, the memory and the bad block marks are there.
\* The result of its seek is ignored.
NandOpen(res) ==
    LET fresh == [fpos |-> -1, cur |-> NoPage, buf |-> Junk,
                  logicalToPhysMap |-> MappedBlocks]
    IN  Outcome(NandSeek(fresh, 0, res).nd, 0, << >>)
===============================================================================
