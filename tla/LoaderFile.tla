------------------------------ MODULE LoaderFile ------------------------------
(***************************************************************************)
(* What the COFF and ELF loaders stand on: the fseek and fread of          *)
(* interp/coff/osal.h and interp/elf/file_ovr.h, which are the seek and    *)
(* read of the boot module, and the memory they load.  Any call may fail.  *)
(* A call that fails leaves the position where it was or where it was      *)
(* going, and what the module serves next, until it is opened again, need  *)
(* not be the file.  A byte is named by its file and its position.         *)
(***************************************************************************)
EXTENDS Integers, Sequences

CONSTANTS
    Images,       \* the files booted; see PartKinds for what they consist of
    MemoryLen,
    MaxAttempts   \* bound on the calls of iblBoot

\* A section or segment is loaded, copied by its records, or left out.
PartKinds == {"load", "cinit", "skip"}

Parts == [kind : PartKinds, addr : Nat, pos : Nat, size : Nat, memsz : Nat]

ASSUME LoaderAssumption ==
    /\ MemoryLen \in Nat /\ MaxAttempts \in Nat
    /\ \A im \in Images :
           /\ im.format \in {"coff", "elf"} /\ im.accepted \in BOOLEAN
           /\ im.opthdr \in {0, 1} /\ im.entry \in Nat \ {0} /\ im.phoff \in Nat
           /\ im.parts \in Seq(Parts)
           /\ im.name \notin {"junk", "zero", "none"}  \* marks, see below

VARIABLES
    image,     \* the file being loaded
    dev,       \* the boot module: [pos, lost, ok, bytes], the last two of its last call
    memory,
    pc,
    entry,     \* *ientry_point
    loaded,    \* what the loader's own result says: cload () == 0, DLOAD_load () != 0
    hidden,    \* history: a call failed and nobody looked
    attempts

fileVars == <<image, dev, memory, pc, entry, loaded, hidden, attempts>>

-----------------------------------------------------------------------------

NoFile(name) == [file |-> name, pos |-> 0]
Junk == NoFile("junk")
Zero == NoFile("zero")
Unwritten == NoFile("none")

FileBytes(p, n) == [i \in 1 .. n |-> [file |-> image.name, pos |-> p + i - 1]]

Closed == [pos |-> 0, lost |-> FALSE, ok |-> TRUE, bytes |-> << >>, sought |-> TRUE]

Seeks(d, p) ==
    {[d EXCEPT !.pos = p, !.sought = TRUE]}
    \cup {[d EXCEPT !.pos = q, !.sought = FALSE, !.lost = TRUE] : q \in {d.pos, p}}

Served(d, n) ==
    {FileBytes(d.pos, n)} \cup (IF d.lost THEN {[i \in 1 .. n |-> Junk]} ELSE {})

ReadAll(d, b) == [d EXCEPT !.pos = @ + Len(b), !.ok = TRUE, !.bytes = b]

\* A read that fails may have copied the beginning.
ReadFailed(d, q, b) == [d EXCEPT !.pos = q, !.lost = TRUE, !.ok = FALSE, !.bytes = b]

Reads(d, n) ==
    UNION {
        {ReadAll(d, b)}
        \cup {ReadFailed(d, q, SubSeq(b, 1, k)) : q \in {d.pos, d.pos + n}, k \in 0 .. n}
        : b \in Served(d, n)}

\* fseek and fread, the read left out if the seek fails and is looked at.
Fetches(p, n, seekChecked) ==
    UNION {
        IF seekChecked /\ ~s.sought
        THEN {[s EXCEPT !.ok = FALSE, !.bytes = << >>]}
        ELSE Reads(s, n)
        : s \in Seeks(dev, p)}

Hide(failed) == hidden' = (hidden \/ failed)

-----------------------------------------------------------------------------

Write(addr, bytes) ==
    [a \in 0 .. MemoryLen - 1 |->
        IF a \in addr .. addr + Len(bytes) - 1 THEN bytes[a - addr + 1] ELSE memory[a]]

Returns(e, ok) == pc' = "returned" /\ entry' = e /\ loaded' = ok

Goes(next) == pc' = next /\ UNCHANGED <<entry, loaded>>

\* Bytes that are not those of the header are refused, or taken for some
\* other file's, which is not followed.
ReadAs(p, n, ok, otherwise) ==
    \/ dev'.bytes = FileBytes(p, n) /\ ok
    \/ dev'.bytes # FileBytes(p, n) /\ (otherwise \/ Goes("astray"))

FileInit ==
    /\ image \in Images
    /\ dev = Closed
    /\ memory = [a \in 0 .. MemoryLen - 1 |-> Unwritten]
    /\ pc = "idle" /\ entry = 0 /\ loaded = FALSE
    /\ hidden = FALSE /\ attempts = 0

\* iblBoot with a module just opened.  The NAND module is open even if it
\* could not load its first page.
StartLoad ==
    /\ pc = "idle" /\ attempts < MaxAttempts
    /\ attempts' = attempts + 1
    /\ image' \in Images
    /\ \E lost \in BOOLEAN :
           /\ dev' = [Closed EXCEPT !.lost = lost]
           /\ hidden' = lost
    /\ entry' = 0 /\ loaded' = FALSE
    /\ pc' = image'.format
    /\ UNCHANGED memory

Retry ==
    /\ pc = "returned" /\ entry = 0
    /\ Goes("idle")
    /\ UNCHANGED <<image, dev, memory, hidden, attempts>>
===============================================================================
