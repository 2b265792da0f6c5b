--------------------------- MODULE LoadersProperties ---------------------------
(***************************************************************************)
(* What the COFF and ELF loaders must guarantee.  Each image also says, in *)
(* "inits", where its initialization records want their data.              *)
(***************************************************************************)
EXTENDS Loaders

-----------------------------------------------------------------------------
(* What a linker makes.                                                    *)

\* The memory of a section or segment with data, and of a variable.
PartMemory(p) == IF p.kind = "load" /\ p.size > 0 THEN p.addr .. p.addr + p.memsz - 1 ELSE {}
InitMemory(r) == r.addr .. r.addr + r.size - 1

\* It is in the device's memory, and no two share any.
Disjoint(im) ==
    /\ \A k \in DOMAIN im.parts : PartMemory(im.parts[k]) \subseteq 0 .. MemoryLen - 1
    /\ \A r \in im.inits : InitMemory(r) \subseteq 0 .. MemoryLen - 1
    /\ \A k, l \in DOMAIN im.parts :
           k # l => PartMemory(im.parts[k]) \cap PartMemory(im.parts[l]) = {}
    /\ \A q, r \in im.inits : q # r => InitMemory(q) \cap InitMemory(r) = {}
    /\ \A k \in DOMAIN im.parts, r \in im.inits :
           PartMemory(im.parts[k]) \cap InitMemory(r) = {}

\* The records of a table, and the positions where one may be expected to begin.
RecordsIn(im, c) == {r \in im.inits : r.pos \in c.pos .. c.pos + c.size - 1}
Ends(im, c) == {c.pos} \cup {r.pos + r.size : r \in RecordsIn(im, c)}

\* Each record begins at the first aligned position behind the one before, with
\* its size and its address; nothing but zeros follows the last.
CinitTable(im, c) ==
    /\ \A q \in c.pos .. c.pos + c.size - 1 : im.words[q] \in Nat
    /\ \A r \in RecordsIn(im, c) :
           /\ c.pos + 2 <= r.pos /\ r.pos + r.size <= c.pos + c.size
           /\ im.words[r.pos - 2] = r.size /\ im.words[r.pos - 1] = r.addr
    /\ \A q, r \in RecordsIn(im, c) : q = r \/ q.pos + q.size < r.pos \/ r.pos + r.size < q.pos
    /\ \A p \in Ends(im, c) :
           LET at == c.pos + Aligned(p - c.pos) IN
           /\ \A r \in RecordsIn(im, c) : r.pos <= p \/ r.pos >= at + 2
           /\ \/ \E r \in RecordsIn(im, c) : r.pos = at + 2
              \/ \A q \in at .. c.pos + c.size - 1 : im.words[q] = 0

Inits == [addr : Nat, pos : Nat, size : Nat \ {0}]

ASSUME ImagesAssumption ==
    \A im \in Images :
        /\ im.inits \subseteq Inits /\ im.end \in Nat
        /\ Disjoint(im)
        /\ im.format = "elf" => im.inits = {}
        /\ im.format = "coff" =>
               /\ \A k \in DOMAIN im.parts :
                      im.parts[k].kind = "load" => im.parts[k].memsz = im.parts[k].size
               /\ \A k \in DOMAIN im.parts :
                      im.parts[k].kind = "cinit" => CinitTable(im, im.parts[k])
               /\ \A r \in im.inits : \E k \in DOMAIN im.parts :
                      im.parts[k].kind = "cinit" /\ r \in RecordsIn(im, im.parts[k])

-----------------------------------------------------------------------------

Placed(addr, pos, n) ==
    \A k \in 0 .. n - 1 : memory[addr + k] = [file |-> image.name, pos |-> pos + k]

InPlace(p) ==
    /\ Placed(p.addr, p.pos, p.size)
    /\ p.size > 0 => \A k \in p.size .. p.memsz - 1 : memory[p.addr + k] = Zero

LoadedParts == {p \in Range(image.parts) : p.kind = "load"}

ImageLoaded ==
    /\ \A p \in LoadedParts : InPlace(p)
    /\ \A r \in image.inits : Placed(r.addr, r.pos, r.size)

\* cload does not reset init_size: the load before ended within a record, and
\* the first data of this one's table go where that record was going.
Misled == leftover /\ OfKind("cinit") # {}

\* An entry point is given only when every section or segment is in memory, at
\* its address, whatever failed on the way and in the load before, as long as
\* every failing call was one whose result the loader looks at.  The entry
\* point is the file's if it has an optional header.
EntryMeansLoaded ==
    pc = "returned" /\ entry # 0 /\ ~hidden /\ ~Misled =>
        ImageLoaded /\ (image.opthdr = 1 => entry = image.entry)

\* osal.c says of cload, "It returns 0 on success", and dload.c of DLOAD_load, "If
\* the load fails, this function will return a value of zero (0) for the file
\* handle": a loader that says it succeeded has loaded the file.
SuccessMeansLoaded == pc = "returned" /\ loaded => ImageLoaded

Footprint ==
    UNION ({PartMemory(p) : p \in LoadedParts} \cup {InitMemory(r) : r \in image.inits})

\* Nothing is written but the memory of the sections and segments that have
\* data, and of the variables that have records, even by a load that fails; a
\* segment without data is not cleared.
OnlyImageWritten ==
    [][~Misled => {a \in DOMAIN memory : memory'[a] # memory[a]} \subseteq Footprint]_vars

\* A load returns, the table of records included, whatever the place of its
\* records in the buffers.  (One that ends within the header of a record, as
\* it may look when damaged, would be read from the same place for ever.)
Loading == pc \notin {"idle", "returned", "astray"}
LoadReturns == Loading ~> (~Loading \/ hidden \/ Misled)
===============================================================================
