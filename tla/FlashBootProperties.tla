-------------------------- MODULE FlashBootProperties --------------------------
(***************************************************************************)
(* What booting from flash must guarantee.  The script is described beside *)
(* the bytes of the image, word by word as the parser should read it, so   *)
(* that the properties can say what loading it should do.                  *)
(***************************************************************************)
EXTENDS FlashBoot

CONSTANT Script  \* the words of the script: [at, field, value], in units of 16 bits

BisWords == BisFieldNames \cup {"payload"}

\* The value of a payload word is the size of the payload.
Units(word) == IF word.field = "payload" THEN word.value ELSE BisWidth(word.field)

FlashSize == Cardinality(GoodBlocks) * pagesPerBlock * pageSizeBytes

\* The image has the words of the script, one after the other, from its start.
WrittenAsTold ==
    /\ Script[1] = [at |-> 0, field |-> "magic", value |-> BIS_MAGIC_NUMBER]
    /\ \A k \in DOMAIN Script :
           /\ k < Len(Script) => Script[k + 1].at = Script[k].at + Units(Script[k])
           /\ Script[k].at + Units(Script[k]) <= FlashSize
           /\ Script[k].value # Anything
           /\ IF Script[k].field = "payload"
              THEN Script[k].value > 0
              ELSE \A u \in 0 .. Units(Script[k]) - 1 :
                       UnitAt(Script[k].at + u) = Script[k].value

\* The commands, by the place of their first word.
Commands(values) ==
    {m \in DOMAIN Script : Script[m].field = "command" /\ Script[m].value \in values}

Operands(m) == BisOperands(Script[m].value)

\* A command is followed by its operands and, but for the last, by a command.
Grammatical ==
    /\ 2 \in Commands(BisCommands)
    /\ \A m \in DOMAIN Script : Script[m].field = "command" =>
           /\ Script[m].value \in BisCommands
           /\ m + Len(Operands(m)) <= Len(Script)
           /\ \A i \in 1 .. Len(Operands(m)) : Script[m + i].field = Operands(m)[i]
           /\ IF Script[m].value = BIS_CMD_SECTION_TERMINATE
              THEN m + 1 = Len(Script)
              ELSE m + Len(Operands(m)) + 1 \in Commands(BisCommands)

Loads == Commands({BIS_CMD_SECTION_LOAD, BIS_CMD_FUNCTION_LOAD})
FunctionLoads == Commands({BIS_CMD_FUNCTION_LOAD})
FunctionExecs == Commands({BIS_CMD_FUNCTION_EXEC})

\* The words a command is followed by.
LoadAddress(m) == Script[m + 1].value
SectionSize(m) == Script[m + 2].value
LoadedNumber(m) == Script[m + 5].value
CalledNumber(m) == Script[m + 2].value
Payload(m) == m + Len(Operands(m))

LoadOf(m) ==
    [address |-> LoadAddress(m), size |-> SectionSize(m), position |-> Script[Payload(m)].at]

\* What is loaded fits the memory and nothing else is loaded there, functions
\* have numbers of their own, and none is called before it is loaded.
Sensible ==
    /\ \A m \in Loads :
           /\ Script[Payload(m)].value = SectionSize(m)
           /\ LoadAddress(m) + SectionSize(m) <= MemoryLen
           /\ \A n \in Loads \ {m} :
                  \/ LoadAddress(m) + SectionSize(m) <= LoadAddress(n)
                  \/ LoadAddress(n) + SectionSize(n) <= LoadAddress(m)
    /\ \A m, n \in FunctionLoads : LoadedNumber(m) = LoadedNumber(n) => m = n
    /\ \A e \in FunctionExecs :
           \E m \in FunctionLoads : m < e /\ LoadedNumber(m) = CalledNumber(e)

\* The header peeked is the magic number, and it ends within the first page.
ASSUME ScriptAssumption ==
    /\ Script \in Seq([at : Nat, field : BisWords, value : Nat])
    /\ HeaderSize = BisWidth("magic") /\ HeaderSize < pageSizeBytes
    /\ WrittenAsTold
    /\ Grammatical
    /\ Sensible

EntryPoint == Script[Len(Script)].value

-----------------------------------------------------------------------------
(* Types.                                                                  *)

Contents == {Junk} \cup Nat

NandType == [fpos : Nat, cur : Int, buf : Contents,
             logicalToPhysMap : {NandClosed.logicalToPhysMap, MappedBlocks}]

\* Every variable stays within what the code's types and buffers hold.
TypeOK ==
    /\ config \in Configs
    /\ nand \in NandType
    /\ nor \in [fpos : Nat]
    /\ result.op \in {"none", "open", "read", "peek", "seek"}
    /\ result.val \in {0, -1, -2}
    /\ pc \in {"idle", "start", "detect", "detected", "bis", "blob", "elf",
               "close", "jumped", "astray"}
    /\ DOMAIN bis.reg = BisFieldNames
    /\ fn_table \in [0 .. MAX_BIS_FUNCTION_SUPPORT - 1 -> Nat]
    /\ blob \in [datap : Nat, remainSize : Nat, bytesRead : Nat]
    /\ blob.bytesRead + blob.remainSize \in {0, BlobParams.sizeBytes}
    /\ DOMAIN memory = 0 .. MemoryLen - 1
    /\ doubt \in {"none", "open", "call"}
    /\ attempts \in 0 .. MaxAttempts

-----------------------------------------------------------------------------
(* The page reads.                                                         *)

\* Of a block with at most two wrong bits, in it or in its code, the SPI
\* driver serves what was written or reports that it cannot: eccCorrectData
\* never takes two wrong bits for one somewhere else.
SpiNoticesDamage == config.driver = "spi" => "unnoticed" \notin PageResults(config.driver, TRUE)

-----------------------------------------------------------------------------
(* The page cache.                                                         *)

\* The tag names the page the position is in, and the buffer holds it.
Coherent == nand.cur = nand.fpos \div pageSizeBytes /\ nand.buf = nand.cur

Extent == 0 .. FlashSize - 1

Reporting == config.driver # "gpio"

\* A cache that does not hold the page the position is in has been reported:
\* some call since the open failed.  The exceptions are opening itself, which
\* ignores the result of its seek (then "doubt" is "open"), and the end of the flash,
\* where the page after the last is loaded from nowhere.
DamageIsReported ==
    config.medium = "nand" /\ Reporting /\ doubt = "none" /\ nand.fpos \in Extent => Coherent

\* With a driver that reports what it cannot correct, NAND boot is a file
\* made of the good blocks: reads and peeks that succeed give the bytes at
\* the position, bad blocks skipped, and only reads and seeks move it.
File == INSTANCE BootFile WITH
    extent <- Extent,
    pos <- nand.fpos,
    lost <- ~Reporting \/ ~Coherent,
    result <- IF config.medium = "nand" THEN result
              ELSE [op |-> "none", val |-> 0, bytes |-> << >>]
ImplementsFile == File!FileSpec

-----------------------------------------------------------------------------
(* What is jumped to.                                                      *)

IsInPlace(s) ==
    \A i \in 0 .. s.size - 1 : memory[s.address + i] = s.position + i

\* A script is jumped to only when every section and function of it is in
\* memory, whatever failed on the way and in earlier attempts, unless the very
\* first page was bad.
BisImageLoaded ==
    pc = "jumped" /\ config.format # "bblob" /\ Reporting /\ doubt # "open" =>
        entry = EntryPoint /\ \A m \in Loads : IsInPlace(LoadOf(m))

\* A function is called only with its own code in place, although fn_table
\* outlives the attempt that filled it.
ExecRunsLoadedCode ==
    /\ BisCommandRead({BIS_CMD_FUNCTION_EXEC})
    /\ \E address \in FnAddresses(fn_table, bis.reg.fn_num) :
           ~FunctionExecFails(bis.reg, address)
    /\ Reporting /\ doubt # "open"
    => \E m \in FunctionLoads :
           /\ LoadedNumber(m) = bis.reg.fn_num
           /\ LoadAddress(m) = fn_table[bis.reg.fn_num]
           /\ IsInPlace(LoadOf(m))

\* A blob is in memory, from its first byte to its last, when it is jumped to
\* and no call failed.
BlobImageLoaded ==
    pc = "jumped" /\ config.format = "bblob" /\ doubt = "none" /\ Reporting =>
        \A i \in 0 .. BlobParams.sizeBytes - 1 :
            memory[BlobParams.startAddress + i] = i
===============================================================================
