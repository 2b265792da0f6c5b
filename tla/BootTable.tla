------------------------------- MODULE BootTable -------------------------------
(***************************************************************************)
(* The boot table processor of interp/btbl as operators on its instance    *)
(* tiBootTable: one operator per state function.  It is given the table as *)
(* 16 bit words and keeps, between calls, the control word it is in the    *)
(* middle of and what is left of the section it copies.                    *)
(***************************************************************************)
EXTENDS BootImage

\* boot_init_boot_tbl_inst.  p_data counts the words from the first one.
BootTblStart ==
    [state |-> "INIT", f_wait_lsw |-> FALSE, code_start_addr |-> 0,
     section_size_bytes |-> 0, section_addr |-> 0,
     p_data |-> 1, data_size_uint16 |-> 0]

Lower(a, b) == IF a < b THEN a ELSE b
CHIP_UINT16_TO_BYTES(n) == 2 * n
CHIP_BYTES_TO_UINT16(n) == (n + 1) \div 2
chipAddBtblUint16Pad(n) == 2 * ((n + 1) \div 2)

Consumed(inst, n) ==
    [inst EXCEPT !.p_data = @ + n, !.data_size_uint16 = @ - n]

\* A control word arrives in two halves, the upper one first.
UpperHalf(inst, field, word) ==
    Consumed([inst EXCEPT ![field] = Word32(word, 0), !.f_wait_lsw = TRUE], 1)

LowerHalf(inst, field, word, next) ==
    Consumed([inst EXCEPT ![field] = @ + word, !.f_wait_lsw = FALSE, !.state = next], 1)

ControlWord(inst, field, word, next) ==
    IF inst.f_wait_lsw THEN LowerHalf(inst, field, word, next)
    ELSE UpperHalf(inst, field, word)

boot_proc_boot_tbl_init(inst, word) == ControlWord(inst, "code_start_addr", word, "SIZE")
boot_proc_boot_tbl_addr(inst, word) == ControlWord(inst, "section_addr", word, "DATA")

\* A size of zero ends the table; the word is not consumed.
boot_proc_boot_tbl_size(inst, word) ==
    IF inst.f_wait_lsw /\ inst.section_size_bytes + word = 0
    THEN [inst EXCEPT !.state = "FLUSH", !.f_wait_lsw = FALSE]
    ELSE ControlWord(inst, "section_size_bytes", word, "ADDR")

\* The bytes of the section, or of its padding, that the words at hand hold.
BytesAtHand(inst) ==
    Lower(inst.section_size_bytes, CHIP_UINT16_TO_BYTES(inst.data_size_uint16))

\* A variant that copies every part of a section to where the first one went.
AdvancedInPlace(inst, num_bytes) ==
    Consumed([inst EXCEPT !.section_size_bytes = @ - num_bytes],
             CHIP_BYTES_TO_UINT16(num_bytes))

Advanced(inst, num_bytes) ==
    Consumed([inst EXCEPT !.section_addr = @ + num_bytes,
                          !.section_size_bytes = @ - num_bytes],
             CHIP_BYTES_TO_UINT16(num_bytes))

PadWords(num_uint16_words) == chipAddBtblUint16Pad(num_uint16_words) - num_uint16_words

\* A variant that goes from the data to the next size.
DataNoPadding(inst) ==
    LET after == Advanced(inst, BytesAtHand(inst))
    IN IF after.section_size_bytes # 0 THEN after ELSE [after EXCEPT !.state = "SIZE"]

boot_proc_boot_tbl_data(inst) ==
    LET num_bytes == BytesAtHand(inst)
        pad_uint16 == PadWords(CHIP_BYTES_TO_UINT16(num_bytes))
        after == Advanced(inst, num_bytes)
    IN CASE after.section_size_bytes # 0 -> after
         [] after.section_size_bytes = 0 /\ pad_uint16 = 0 ->
                [after EXCEPT !.state = "SIZE"]
         [] OTHER -> [after EXCEPT !.state = "PAD",
                          !.section_size_bytes = CHIP_UINT16_TO_BYTES(pad_uint16)]

boot_proc_boot_tbl_pad(inst) ==
    LET after == Advanced(inst, BytesAtHand(inst))
    IN IF after.section_size_bytes = 0 THEN [after EXCEPT !.state = "SIZE"] ELSE after

boot_proc_boot_tbl_flush(inst) == [inst EXCEPT !.data_size_uint16 = 0]

\* One turn of the loop of boot_proc_boot_tbl.
BootTblStep(inst, words) ==
    CASE inst.state = "INIT" -> boot_proc_boot_tbl_init(inst, words[inst.p_data])
      [] inst.state = "SIZE" -> boot_proc_boot_tbl_size(inst, words[inst.p_data])
      [] inst.state = "ADDR" -> boot_proc_boot_tbl_addr(inst, words[inst.p_data])
      [] inst.state = "DATA" -> boot_proc_boot_tbl_data(inst)
      [] inst.state = "PAD" -> boot_proc_boot_tbl_pad(inst)
      [] inst.state = "FLUSH" -> boot_proc_boot_tbl_flush(inst)

-----------------------------------------------------------------------------
(* coreCopyData of gem.c, for a destination on a 32 bit boundary.          *)

\* Byte k, from 0, of the words from p on.
TableByte(words, p, k) ==
    LET word == words[p + k \div 2]
    IN IF k % 2 = 0 THEN word \div 2^8 ELSE word % 2^8

\* Where the byte that ends up at offset k is in the table: the elements are
\* stored as 32 bit values, the bytes left over one by one.
SourceOffset(k, size, endian) ==
    IF endian = "little" /\ k < size - (size % 4) THEN 4 * (k \div 4) + 3 - (k % 4) ELSE k

\* A variant that also stores the incomplete element as a 32 bit value.
CopyWholeElements(memory, dest, words, p, size, endian) ==
    LET rounded == RoundedUp(size)
        byte(k) == IF p + SourceOffset(k, rounded, endian) \div 2 \in DOMAIN words
                   THEN TableByte(words, p, SourceOffset(k, rounded, endian)) ELSE 0
    IN [a \in DOMAIN memory |->
           IF a \in dest .. dest + rounded - 1 THEN byte(a - dest) ELSE memory[a]]

coreCopyData(memory, dest, words, p, size, endian) ==
    [a \in DOMAIN memory |->
        IF a \in dest .. dest + size - 1
        THEN TableByte(words, p, SourceOffset(a - dest, size, endian))
        ELSE memory[a]]
================================================================================
