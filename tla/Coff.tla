--------------------------------- MODULE Coff ---------------------------------
(***************************************************************************)
(* The COFF loader, interp/coff/cload.c, as osal.c calls it.  One step is  *)
(* one fseek with its fread and what becomes of the data, or one turn of   *)
(* the loop of cload_cinit.  Headers are one unit long each, the fields of *)
(* an initialization record too.  set_reloc_amount gives zero for every    *)
(* section, so nothing is relocated; symbols and strings are not read.     *)
(***************************************************************************)
EXTENDS LoaderFile, SequencesExt

CONSTANTS
    LOADBUFSIZE,  \* 0x4000, in units
    INIT_ALIGN    \* 8, in units

ASSUME CoffAssumption ==
    /\ INIT_ALIGN \in Nat \ {0}
    /\ LOADBUFSIZE \in Nat \ {0} /\ LOADBUFSIZE % INIT_ALIGN = 0

VARIABLES
    entry_point,  \* static, as are the next two: they outlive the load
    init_size,
    init_addr,
    todo,         \* the numbers of the sections to load
    nbytes,       \* of the current one, loaded so far
    packet,       \* the load buffer
    i,            \* cload_cinit's position in it
    leftover      \* history: the load began within a record of the last one

coffVars == <<entry_point, init_size, init_addr, todo, nbytes, packet, i, leftover>>
loopVars == <<todo, nbytes, packet, i>>
initVars == <<init_size, init_addr>>

-----------------------------------------------------------------------------

CoffInit ==
    /\ entry_point = 0 /\ init_size = 0 /\ init_addr = 0
    /\ todo = {} /\ nbytes = 0 /\ packet = << >> /\ i = 0
    /\ leftover = FALSE

CloadFails == Returns(0, FALSE)

FilHdr == 0
OptHdr == 1
SectHdrs == 1 + image.opthdr
FilHdrPos == IF image.opthdr = 1 THEN "opthdr" ELSE "secthdrs"

\* fseek and fread are both looked at; the magic number, the byte order and
\* the target are checked.
CloadFileHeader ==
    /\ pc = "coff"
    /\ \E f \in Fetches(FilHdr, 1, TRUE) : dev' = f
    /\ IF dev'.ok
       THEN ReadAs(FilHdr, 1, IF image.accepted THEN Goes(FilHdrPos) ELSE CloadFails, CloadFails)
       ELSE CloadFails
    /\ leftover' = (init_size # 0)
    /\ UNCHANGED <<image, memory, hidden, attempts, entry_point, initVars, loopVars>>

\* From here on the seeks of cload_headers are not looked at.
CloadOptHeader ==
    /\ pc = "opthdr"
    /\ \E f \in Fetches(OptHdr, 1, FALSE) : dev' = f
    /\ Hide(~dev'.sought)
    /\ IF dev'.ok
       THEN ReadAs(OptHdr, 1, Goes("secthdrs"), FALSE) /\ entry_point' = image.entry
       ELSE CloadFails /\ UNCHANGED entry_point
    /\ UNCHANGED <<image, memory, attempts, initVars, loopVars, leftover>>

OfKind(kind) ==
    {k \in DOMAIN image.parts : image.parts[k].kind = kind /\ image.parts[k].size > 0}

CloadSectHeaders ==
    /\ pc = "secthdrs"
    /\ LET n == Len(image.parts) IN
       /\ \E f \in Fetches(SectHdrs, n, FALSE) : dev' = f
       /\ Hide(~dev'.sought)
       /\ IF dev'.ok THEN ReadAs(SectHdrs, n, Goes("sections"), FALSE) ELSE CloadFails
    /\ todo' = OfKind("load") \cup OfKind("cinit")
    /\ nbytes' = 0 /\ packet' = << >>
    /\ UNCHANGED <<image, memory, attempts, entry_point, initVars, i, leftover>>

-----------------------------------------------------------------------------
(* cload_data and cload_sect_data.                                         *)

\* In the order of the file, the initialization tables last.
FirstOf(parts, numbers) ==
    LET loads == {k \in numbers : parts[k].kind = "load"}
    IN Min(IF loads # {} THEN loads ELSE numbers)

Current == FirstOf(image.parts, todo)
Section == image.parts[Current]

\* What cload_cinit left of the last buffer is processed again before the new data.
CloadSectData ==
    /\ pc = "sections" /\ todo # {} /\ nbytes < Section.size
    /\ LET packet_size == Min({Section.size - nbytes, LOADBUFSIZE})
           excess == Len(packet)
       IN  \E f \in Fetches(Section.pos + nbytes + excess, packet_size - excess, TRUE) :
               /\ dev' = f
               /\ \/ ~f.ok /\ CloadFails /\ UNCHANGED <<memory, loopVars>>
                  \/ /\ f.ok /\ Section.kind = "load"
                     /\ memory' = Write(Section.addr + nbytes, f.bytes)
                     /\ nbytes' = nbytes + packet_size
                     /\ Goes(pc) /\ UNCHANGED <<todo, packet, i>>
                  \/ /\ f.ok /\ Section.kind = "cinit"
                     /\ packet' = packet \o f.bytes /\ i' = 0
                     /\ Goes("cinit") /\ UNCHANGED <<memory, todo, nbytes>>
    /\ UNCHANGED <<image, hidden, attempts, entry_point, initVars, leftover>>

CloadSectDone ==
    /\ pc = "sections" /\ todo # {} /\ nbytes >= Section.size
    /\ todo' = todo \ {Current} /\ nbytes' = 0 /\ packet' = << >>
    /\ UNCHANGED <<fileVars, entry_point, initVars, i, leftover>>

CloadDone ==
    /\ pc = "sections" /\ todo = {}
    /\ Returns(entry_point, TRUE)
    /\ UNCHANGED <<image, dev, memory, hidden, attempts, coffVars>>

-----------------------------------------------------------------------------
(* cload_cinit.                                                            *)

Aligned(n) == ((n + INIT_ALIGN - 1) \div INIT_ALIGN) * INIT_ALIGN

\* The value of the unit at index j of the buffer.
Word(j) == IF packet[j + 1].file = image.name THEN image.words[packet[j + 1].pos] ELSE -1

\* All that can be processed of the buffer has been, up to index n.
BufferDone(n) ==
    /\ nbytes' = nbytes + n
    /\ packet' = SubSeq(packet, n + 1, Len(packet))
    /\ Goes("sections")
    /\ UNCHANGED <<initVars, i>>

\* A variant that ends the table as it ends a buffer, what is left to be read again.
CinitRecordEndIsLeft ==
    /\ pc = "cinit" /\ init_size = 0 /\ i < Len(packet)
    /\ LET j == Aligned(i) IN
       \/ j + 1 > Len(packet) /\ BufferDone(j)
       \/ j + 1 <= Len(packet) /\ Word(j) = 0 /\ BufferDone(j)
       \/ j + 1 <= Len(packet) /\ Word(j) # 0 /\ j + 2 > Len(packet) /\ BufferDone(j)
       \/ /\ j + 2 <= Len(packet) /\ Word(j) > 0
          /\ init_size' = Word(j) /\ init_addr' = Word(j + 1) /\ i' = j + 2
          /\ IF Word(j + 1) \in 0 .. MemoryLen THEN Goes(pc) ELSE Goes("astray")
          /\ UNCHANGED <<nbytes, packet>>
       \/ /\ j + 2 <= Len(packet) /\ Word(j) < 0
          /\ Goes("astray")
          /\ UNCHANGED <<nbytes, packet, i, initVars>>
    /\ UNCHANGED <<image, dev, memory, hidden, attempts, entry_point, todo, leftover>>

\* The size and the address of the next record, if both are in the buffer.
CinitRecord ==
    /\ pc = "cinit" /\ init_size = 0 /\ i < Len(packet)
    /\ LET j == Aligned(i) IN
       \/ j + 1 > Len(packet) /\ BufferDone(j)
       \/ j + 1 <= Len(packet) /\ Word(j) = 0 /\ BufferDone(Len(packet))
       \/ j + 1 <= Len(packet) /\ Word(j) # 0 /\ j + 2 > Len(packet) /\ BufferDone(j)
       \/ /\ j + 2 <= Len(packet) /\ Word(j) > 0
          /\ init_size' = Word(j) /\ init_addr' = Word(j + 1) /\ i' = j + 2
          /\ IF Word(j + 1) \in 0 .. MemoryLen THEN Goes(pc) ELSE Goes("astray")
          /\ UNCHANGED <<nbytes, packet>>
       \/ /\ j + 2 <= Len(packet) /\ Word(j) < 0
          /\ Goes("astray")
          /\ UNCHANGED <<nbytes, packet, i, initVars>>
    /\ UNCHANGED <<image, dev, memory, hidden, attempts, entry_point, todo, leftover>>

\* A variant that starts every buffer at the address of the record.
CinitDataInPlace ==
    /\ pc = "cinit" /\ init_size # 0 /\ i < Len(packet)
    /\ LET n == Min({Len(packet) - i, init_size}) IN
       /\ memory' = Write(init_addr, SubSeq(packet, i + 1, i + n))
       /\ init_size' = init_size - n
       /\ i' = i + n
    /\ UNCHANGED <<image, dev, pc, entry, loaded, hidden, attempts, entry_point, init_addr,
                   todo, nbytes, packet, leftover>>

\* As much of the record as the buffer has.
CinitData ==
    /\ pc = "cinit" /\ init_size # 0 /\ i < Len(packet)
    /\ LET n == Min({Len(packet) - i, init_size}) IN
       /\ memory' = Write(init_addr, SubSeq(packet, i + 1, i + n))
       /\ init_addr' = init_addr + n
       /\ init_size' = init_size - n
       /\ i' = i + n
    /\ UNCHANGED <<image, dev, pc, entry, loaded, hidden, attempts, entry_point,
                   todo, nbytes, packet, leftover>>

CinitBufferDone ==
    /\ pc = "cinit" /\ i >= Len(packet)
    /\ BufferDone(Len(packet))
    /\ UNCHANGED <<image, dev, memory, hidden, attempts, entry_point, todo, leftover>>

CoffNext ==
    \/ CloadFileHeader \/ CloadOptHeader \/ CloadSectHeaders
    \/ CloadSectData \/ CloadSectDone \/ CloadDone
    \/ CinitRecord \/ CinitData \/ CinitBufferDone
===============================================================================
