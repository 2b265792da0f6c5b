------------------------------ MODULE MCFlashBoot ------------------------------
(***************************************************************************)
(* Instances of the flash boot for TLC.  A page is four units and a block  *)
(* two pages, so that sections begin and end inside pages, cross pages and *)
(* cross a bad block.  The script has one command of each kind, with the   *)
(* code of its function called after the section is loaded.                *)
(***************************************************************************)
EXTENDS FlashBootProperties, SequencesExt

W(field, value) == [field |-> field, value |-> value]

MCWords ==
    << W("magic", BIS_MAGIC_NUMBER),
       W("command", BIS_CMD_SECTION_LOAD), W("loadAddress", 1), W("sectionSize", 5),
           W("commandFlags", 0), W("payload", 5),
       W("command", BIS_CMD_FUNCTION_LOAD), W("loadAddress", 7), W("sectionSize", 2),
           W("commandFlags", 0), W("argCnt", 0), W("fn_num", 1), W("payload", 2),
       W("command", BIS_CMD_MEMORY_ACCESS), W("loadAddress", 1), W("argCnt", 1),
           W("op_type", 0), W("mask", 0), W("sleep_cnt", 0), W("dataWord", 0),
       W("command", BIS_CMD_FUNCTION_EXEC), W("argCnt", 0), W("fn_num", 1),
       W("command", BIS_CMD_SECTION_TERMINATE), W("dataWord", 5) >>

\* The words behind one another, and what is then written.
MCScript ==
    [k \in DOMAIN MCWords |->
        [field |-> MCWords[k].field, value |-> MCWords[k].value,
         at |-> MapThenSumSet(LAMBDA j : Units(MCWords[j]), 1 .. k - 1)]]

Written(word) ==
    [u \in 1 .. Units(word) |-> IF word.field = "payload" THEN Anything ELSE word.value]

MCImage == FlattenSeq([k \in DOMAIN MCWords |-> Written(MCWords[k])])

MCBlob == [startAddress |-> 1, sizeBytes |-> 7, branchAddress |-> 3]

\* Half of the bits of a block with addresses of two bits and places of one.
MCBlockData == {b \in Bits : 0 \in b.line <=> 0 \in b.column}

Config(m, d, f) == [medium |-> m, driver |-> d, format |-> f]

MCConfigs ==
    {Config("nand", d, f) : d \in {"spi", "gpio"}, f \in {"auto", "bis", "bblob", "elf"}}
        \cup {Config("nand", "emif", "bblob")}
        \cup {Config("nor", "spi", f) : f \in {"auto", "bis", "bblob", "elf"}}

===============================================================================
