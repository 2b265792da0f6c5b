------------------------------- MODULE MCLoaders -------------------------------
(***************************************************************************)
(* Four files: a COFF executable whose sections and whose table of         *)
(* initialization records span buffers of four units, one without optional *)
(* header, one for another target, and an ELF executable with a segment    *)
(* longer than its data and one without any.                               *)
(***************************************************************************)
EXTENDS LoadersProperties

Part(kind, addr, pos, size, memsz) ==
    [kind |-> kind, addr |-> addr, pos |-> pos, size |-> size, memsz |-> memsz]

NoWords == [p \in {} |-> 0]

\* Sizes, addresses, data and a gap for alignment, from position 12; the end.
Table == <<3, 8, 0, 0, 0, 0, 2, 12, 0, 0, 0>>

Coff1 ==
    [name |-> "coff1", format |-> "coff", accepted |-> TRUE, opthdr |-> 1, entry |-> 3,
     phoff |-> 0, end |-> 23,
     parts |-> <<Part("cinit", 0, 12, Len(Table), 0), Part("load", 0, 6, 6, 6),
                 Part("skip", 0, 6, 2, 2), Part("load", 6, 4, 2, 2)>>,
     words |-> [p \in 12 .. 11 + Len(Table) |-> Table[p - 11]],
     inits |-> {[addr |-> 8, pos |-> 14, size |-> 3], [addr |-> 12, pos |-> 20, size |-> 2]}]

Coff2 ==
    [name |-> "coff2", format |-> "coff", accepted |-> TRUE, opthdr |-> 0, entry |-> 1,
     phoff |-> 0, end |-> 5, parts |-> <<Part("load", 2, 2, 3, 3)>>,
     words |-> NoWords, inits |-> {}]

Coff3 == [Coff2 EXCEPT !.name = "coff3", !.accepted = FALSE]

Elf1 ==
    [name |-> "elf1", format |-> "elf", accepted |-> TRUE, opthdr |-> 1, entry |-> 5,
     phoff |-> 2, end |-> 9,
     parts |-> <<Part("load", 4, 5, 2, 4), Part("skip", 13, 5, 1, 1), Part("load", 9, 7, 0, 3),
                 Part("load", 0, 7, 2, 2)>>,
     words |-> NoWords, inits |-> {}]

MCImages == {Coff1, Coff2, Coff3, Elf1}
MCElf == {Elf1}
===============================================================================
