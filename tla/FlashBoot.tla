------------------------------- MODULE FlashBoot -------------------------------
(***************************************************************************)
(* Booting from flash: iblNandBoot and iblNorBoot open their module, hand  *)
(* it to iblBoot of main/iblmain.c, close it and jump if there is an entry *)
(* point; main calls them again if they return.  iblBoot finds the format  *)
(* and runs a loader: the boot image script, the binary blob, or a loader  *)
(* that reads and seeks as those of interp/coff and interp/elf do.  One    *)
(* step is one call into the boot module with what the loader makes of it. *)
(***************************************************************************)
EXTENDS Nand, Nor, Bis, Functions

CONSTANTS
    Configs,       \* [medium, driver, format] combinations booted
    Image,         \* the file: the value of the field each position is part of
    Anything,      \* the value of a position in the middle of some data
    Erased,        \* the value of a field read past the end of the file
    HeaderSize,    \* 2: the four bytes peeked to find the format, in units
    BlobParams,    \* [startAddress, sizeBytes, branchAddress] of the blob
    ReadSizes,     \* sizes a seeking loader reads
    SeekTargets,   \* positions it seeks
    MaxPosition,   \* bound on the position and the tag it reads from
    MemoryLen,     \* size of the memory loaded into, in units
    MaxAttempts    \* bound on the calls main makes

ASSUME FlashBootAssumption ==
    /\ Image \in Seq(Nat) /\ Erased \in Nat /\ Anything \in Nat
    /\ Anything \notin BisCommands \cup {BIS_MAGIC_NUMBER}
    /\ Configs \subseteq [medium : {"nand", "nor"}, driver : {"emif", "spi", "gpio"},
                          format : {"auto", "bis", "bblob", "elf"}]
    /\ BlobParams \in [startAddress : Nat, sizeBytes : Nat, branchAddress : Nat]
    /\ HeaderSize \in Nat
    /\ ReadSizes \subseteq Nat /\ SeekTargets \subseteq Nat
    /\ MaxPosition \in Nat /\ MemoryLen \in Nat /\ MaxAttempts \in Nat

VARIABLES
    config,    \* what is booted
    nand,      \* nandmcb
    nor,       \* normcb
    result,    \* of the last call into the module: [op, val, bytes]
    doubt,     \* history: what first cast doubt on the module since it was
               \* opened, "open" (it could not load its page) or "call" (a
               \* call failed)
    pc,        \* where the program is
    bis,       \* the BIS parser: fields yet to read, fields read
    fn_table,  \* the functions BIS loaded
    blob,      \* the blob loader: [datap, remainSize, bytesRead]
    memory,    \* per address, the position of the file it was loaded from
    entry,
    attempts

loaderVars == <<bis, fn_table, blob, memory>>
callVars == <<nand, nor, result, doubt>>
vars == <<config, callVars, pc, loaderVars, entry, attempts>>

-----------------------------------------------------------------------------
(* Calls into the boot module.                                             *)

\* How the flash may answer the page reads of a call.
Answers(logicalToPhysMap, pages) ==
    {res \in [pages -> {"ok", "failed", "unnoticed"}] :
        \A l \in pages : res[l] \in PageResults(config.driver, Mapped(logicalToPhysMap, l))}

Returned(op, o) ==
    /\ result' = [op |-> op, val |-> o.val, bytes |-> o.bytes]
    /\ doubt' = CASE op = "open" ->
                       IF config.medium = "nand" /\ o.nd.buf = Junk THEN "open" ELSE "none"
                  [] op # "open" /\ doubt = "none" /\ o.val < 0 -> "call"
                  [] OTHER -> doubt

CallNand(op, o) == nand' = o.nd /\ Returned(op, o) /\ UNCHANGED nor
CallNor(op, o) == nor' = o.nr /\ Returned(op, o) /\ UNCHANGED nand

Read(n) ==
    \/ /\ config.medium = "nand"
       /\ \E res \in Answers(nand.logicalToPhysMap, PagesRead(nand, n)) :
              CallNand("read", NandRead(nand, n, res))
    \/ /\ config.medium = "nor"
       /\ \E copied \in 0 .. n : CallNor("read", NorRead(nor, n, copied))

Peek(n) ==
    \/ /\ config.medium = "nand"
       /\ \E res \in Answers(nand.logicalToPhysMap, PagesRead(nand, n)) :
              CallNand("peek", NandPeek(nand, n, res))
    \/ /\ config.medium = "nor"
       /\ \E copied \in 0 .. n : CallNor("peek", NorPeek(nor, n, copied))

Seek(p) ==
    \/ /\ config.medium = "nand"
       /\ \E res \in Answers(nand.logicalToPhysMap, {p \div pageSizeBytes}) :
              CallNand("seek", NandSeek(nand, p, res))
    \/ /\ config.medium = "nor"
       /\ CallNor("seek", NorSeek(nor, p))

Query == IF config.medium = "nand" THEN pageSizeBytes ELSE norQueryBytes

-----------------------------------------------------------------------------
(* Opening, finding the format, closing.                                   *)

LoaderFor(format) ==
    CASE format = "bis" -> "bis"
      [] format = "bblob" -> "blob"
      [] format = "elf" -> "elf"
      [] OTHER -> "close"

StartLoader(format) ==
    /\ pc' = LoaderFor(format)
    /\ bis' = BisStart
    /\ blob' = [datap |-> BlobParams.startAddress, remainSize |-> BlobParams.sizeBytes,
                bytesRead |-> 0]
    /\ UNCHANGED <<fn_table, memory, entry>>

Opened == pc' = (IF config.format = "auto" THEN "detect" ELSE "start")

Open ==
    /\ pc = "idle" /\ attempts < MaxAttempts
    /\ attempts' = attempts + 1
    /\ entry' = 0
    /\ \/ /\ config.medium = "nand"
          /\ \E res \in Answers(MappedBlocks, {0}) : CallNand("open", NandOpen(res))
          /\ Opened
       \/ /\ config.medium = "nor"
          /\ CallNor("open", NorOutcome(NorOpen, 0, << >>))
          /\ Opened
    /\ UNCHANGED <<config, loaderVars>>

\* No memory, or a bad block mark that cannot be read.
OpenFails ==
    /\ pc = "idle" /\ attempts < MaxAttempts
    /\ config.medium = "nand"
    /\ attempts' = attempts + 1
    /\ CallNand("open", Outcome(NandClosed, -1, << >>))
    /\ UNCHANGED <<config, pc, loaderVars, entry>>

\* iblBoot peeks for the format; whether the peek worked is not looked at.
Detect ==
    /\ pc = "detect"
    /\ Peek(HeaderSize)
    /\ pc' = "detected"
    /\ UNCHANGED <<config, loaderVars, entry, attempts>>

UnitAt(pos) == IF pos \in 0 .. Len(Image) - 1 THEN Image[pos + 1] ELSE Erased

\* The values units read into a field may have: the one written there, or,
\* if they are damaged or not one field of the file, anything, which includes
\* what the position the module is at should give.
FieldValues(bytes) ==
    LET values == {IF b = Damaged THEN Anything ELSE UnitAt(b) : b \in Range(bytes)} IN
    IF Cardinality(values) = 1 /\ Anything \notin values
    THEN values
    ELSE {Anything, UnitAt(nand.fpos)}

\* A damaged or missing header looks like anything.
DetectedFormats ==
    IF Len(result.bytes) < HeaderSize \/ Damaged \in Range(result.bytes)
    THEN {"bis", "elf", "none"}
    ELSE IF FieldValues(result.bytes) = {BIS_MAGIC_NUMBER} THEN {"bis"}
    ELSE {"elf", "none"}

StartDetected ==
    /\ pc = "detected"
    /\ \E format \in DetectedFormats : StartLoader(format)
    /\ UNCHANGED <<config, callVars, attempts>>

StartConfigured ==
    /\ pc = "start"
    /\ StartLoader(config.format)
    /\ UNCHANGED <<config, callVars, attempts>>

Close ==
    /\ pc = "close"
    /\ pc' = IF entry # 0 THEN "jumped" ELSE "idle"
    /\ UNCHANGED <<config, callVars, loaderVars, entry, attempts>>

-----------------------------------------------------------------------------
(* The memory.                                                             *)

Store(address, bytes) ==
    memory' = [a \in 0 .. MemoryLen - 1 |->
                  IF a \in address .. address + Len(bytes) - 1
                  THEN bytes[a - address + 1]
                  ELSE memory[a]]

LoaderReturns(e) == pc' = "close" /\ entry' = e

-----------------------------------------------------------------------------
(* The boot image script.                                                  *)

BisField == Head(bis.todo)

\* A value that sends the parser where no image does, out of the memory
\* modelled: nothing more of it is followed.
LeadsAstray(value) ==
    \/ value = Anything
    \/ BisField \in {"loadAddress", "sectionSize"} /\ value > MemoryLen

TakeField(value) ==
    \/ /\ BisRejects(BisField, value)
       /\ LoaderReturns(0)
       /\ UNCHANGED loaderVars
    \/ /\ ~BisRejects(BisField, value) /\ LeadsAstray(value)
       /\ pc' = "astray"
       /\ UNCHANGED <<loaderVars, entry>>
    \/ /\ ~BisRejects(BisField, value) /\ ~LeadsAstray(value)
       /\ bis' = BisStore(bis, value)
       /\ UNCHANGED <<pc, fn_table, blob, memory, entry>>

BisReadField ==
    /\ pc = "bis" /\ bis.todo # << >> /\ BisField # "payload"
    /\ Read(BisWidth(BisField))
    /\ \/ result'.val < 0 /\ LoaderReturns(0) /\ UNCHANGED loaderVars
       \/ /\ result'.val = 0
          /\ \E value \in FieldValues(result'.bytes) : TakeField(value)
    /\ UNCHANGED <<config, attempts>>

\* The section is read straight to where it goes.
BisReadPayload ==
    /\ pc = "bis" /\ bis.todo # << >> /\ BisField = "payload"
    /\ Read(bis.reg.sectionSize)
    /\ Store(bis.reg.loadAddress, result'.bytes)
    /\ \/ result'.val < 0 /\ LoaderReturns(0) /\ UNCHANGED bis
       \/ /\ result'.val = 0
          /\ bis' = [bis EXCEPT !.todo = << >>]
          /\ UNCHANGED <<pc, entry>>
    /\ UNCHANGED <<config, fn_table, blob, attempts>>

\* All of a command is read: it is carried out, and the next one is due.
BisCommandRead(commands) ==
    pc = "bis" /\ bis.todo = << >> /\ bis.reg.command \in commands

\* A section is in place; a memory access command does nothing.
BisSkip ==
    /\ BisCommandRead({BIS_CMD_SECTION_LOAD, BIS_CMD_MEMORY_ACCESS})
    /\ bis' = BisNextCommand(bis)
    /\ UNCHANGED <<config, callVars, pc, fn_table, blob, memory, entry, attempts>>

\* An access behind fn_table goes to whatever the build puts there, and what
\* comes of it is not followed.
AfterAccess == pc' = IF bis.reg.fn_num \in DOMAIN fn_table THEN pc ELSE "astray"

BisFunctionLoad ==
    /\ BisCommandRead({BIS_CMD_FUNCTION_LOAD})
    /\ \E address \in FnAddresses(fn_table, bis.reg.fn_num) :
           \/ /\ FunctionLoadFails(bis.reg, address)
              /\ LoaderReturns(0)
              /\ UNCHANGED <<bis, fn_table>>
           \/ /\ ~FunctionLoadFails(bis.reg, address)
              /\ fn_table' = [fn_table EXCEPT ![bis.reg.fn_num] = bis.reg.loadAddress]
              /\ bis' = BisNextCommand(bis)
              /\ AfterAccess
              /\ UNCHANGED entry
    /\ UNCHANGED <<config, callVars, blob, memory, attempts>>

\* The function is called; it is taken to return and to disturb nothing.
BisFunctionExec ==
    /\ BisCommandRead({BIS_CMD_FUNCTION_EXEC})
    /\ \E address \in FnAddresses(fn_table, bis.reg.fn_num) :
           \/ FunctionExecFails(bis.reg, address) /\ LoaderReturns(0) /\ UNCHANGED bis
           \/ /\ ~FunctionExecFails(bis.reg, address)
              /\ bis' = BisNextCommand(bis)
              /\ AfterAccess
              /\ UNCHANGED entry
    /\ UNCHANGED <<config, callVars, fn_table, blob, memory, attempts>>

BisTerminate ==
    /\ BisCommandRead({BIS_CMD_SECTION_TERMINATE})
    /\ LoaderReturns(bis.reg.dataWord)
    /\ UNCHANGED <<config, callVars, loaderVars, attempts>>

-----------------------------------------------------------------------------
(* The binary blob.                                                        *)

\* A variant in which the answer of query is not clipped.
DataSizeUnclipped == Query

DataSize == Min({Query, blob.remainSize})

\* A variant in which every read goes to the start address.
BlobReadInPlace ==
    /\ pc = "blob" /\ blob.remainSize > 0
    /\ Read(DataSize)
    /\ Store(BlobParams.startAddress, result'.bytes)
    /\ blob' = [blob EXCEPT !.remainSize = @ - DataSize, !.bytesRead = @ + DataSize]
    /\ UNCHANGED <<config, pc, bis, fn_table, entry, attempts>>

\* The read may fail and copy less; the loader does not look.
BlobRead ==
    /\ pc = "blob" /\ blob.remainSize > 0
    /\ Read(DataSize)
    /\ Store(blob.datap, result'.bytes)
    /\ blob' = [datap |-> blob.datap + DataSize,
                remainSize |-> blob.remainSize - DataSize,
                bytesRead |-> blob.bytesRead + DataSize]
    /\ UNCHANGED <<config, pc, bis, fn_table, entry, attempts>>

BlobDone ==
    /\ pc = "blob" /\ blob.remainSize = 0
    /\ LoaderReturns(IF blob.bytesRead > 0 THEN BlobParams.branchAddress ELSE 0)
    /\ UNCHANGED <<config, callVars, loaderVars, attempts>>

-----------------------------------------------------------------------------
(* Loaders that seek.  They stop at a failed read, not always at a failed  *)
(* seek.  What they put where is not modelled.                             *)

WithinBounds ==
    /\ nand.fpos <= MaxPosition /\ nand.cur * pageSizeBytes <= MaxPosition
    /\ nor.fpos <= MaxPosition

SeekingLoaderReads ==
    /\ pc = "elf" /\ WithinBounds
    /\ \E n \in ReadSizes : Read(n)
    /\ \/ result'.val < 0 /\ LoaderReturns(0)
       \/ result'.val = 0 /\ UNCHANGED <<pc, entry>>
    /\ UNCHANGED <<config, loaderVars, attempts>>

\* The interface allows it, though only iblBoot and the blob loader peek.
SeekingLoaderPeeks ==
    /\ pc = "elf" /\ WithinBounds
    /\ \E n \in ReadSizes : Peek(n)
    /\ UNCHANGED <<config, pc, loaderVars, entry, attempts>>

SeekingLoaderSeeks ==
    /\ pc = "elf"
    /\ \E p \in SeekTargets : Seek(p)
    /\ UNCHANGED <<config, pc, loaderVars, entry, attempts>>

SeekingLoaderStops ==
    /\ pc = "elf"
    /\ LoaderReturns(0)
    /\ UNCHANGED <<config, callVars, loaderVars, attempts>>

-----------------------------------------------------------------------------

Unloaded == -2

Init ==
    /\ config \in Configs
    /\ nand = NandClosed
    /\ nor = NorOpen
    /\ result = [op |-> "none", val |-> 0, bytes |-> << >>]
    /\ doubt = "open"
    /\ pc = "idle"
    /\ bis = BisStart
    /\ fn_table = EmptyFnTable
    /\ blob = [datap |-> 0, remainSize |-> 0, bytesRead |-> 0]
    /\ memory = [a \in 0 .. MemoryLen - 1 |-> Unloaded]
    /\ entry = 0
    /\ attempts = 0

Next ==
    \/ Open \/ OpenFails \/ Detect \/ StartDetected \/ StartConfigured \/ Close
    \/ BisReadField \/ BisReadPayload
    \/ BisSkip \/ BisFunctionLoad \/ BisFunctionExec \/ BisTerminate
    \/ BlobRead \/ BlobDone
    \/ SeekingLoaderReads \/ SeekingLoaderPeeks \/ SeekingLoaderSeeks \/ SeekingLoaderStops

Spec == Init /\ [][Next]_vars
===============================================================================
