---------------------------------- MODULE Bis ----------------------------------
(***************************************************************************)
(* The command language of the boot image script, interp/bis/bis.c.  Sizes *)
(* and positions count 16-bit units, the smallest thing the parser reads.  *)
(***************************************************************************)
EXTENDS Integers, Sequences

CONSTANTS
    BIS_MAGIC_NUMBER,
    BIS_CMD_SECTION_LOAD,
    BIS_CMD_FUNCTION_LOAD,
    BIS_CMD_FUNCTION_EXEC,
    BIS_CMD_MEMORY_ACCESS,
    BIS_CMD_SECTION_TERMINATE,
    MAX_BIS_FUNCTION_SUPPORT

BisCommands ==
    {BIS_CMD_SECTION_LOAD, BIS_CMD_FUNCTION_LOAD, BIS_CMD_FUNCTION_EXEC,
     BIS_CMD_MEMORY_ACCESS, BIS_CMD_SECTION_TERMINATE}

ASSUME BisAssumption ==
    /\ BIS_MAGIC_NUMBER \notin BisCommands
    /\ BIS_CMD_SECTION_LOAD \notin
           {BIS_CMD_FUNCTION_LOAD, BIS_CMD_FUNCTION_EXEC, BIS_CMD_MEMORY_ACCESS,
            BIS_CMD_SECTION_TERMINATE}
    /\ BIS_CMD_FUNCTION_LOAD \notin
           {BIS_CMD_FUNCTION_EXEC, BIS_CMD_MEMORY_ACCESS, BIS_CMD_SECTION_TERMINATE}
    /\ BIS_CMD_FUNCTION_EXEC \notin {BIS_CMD_MEMORY_ACCESS, BIS_CMD_SECTION_TERMINATE}
    /\ BIS_CMD_MEMORY_ACCESS # BIS_CMD_SECTION_TERMINATE
    /\ MAX_BIS_FUNCTION_SUPPORT \in Nat

BisFieldNames ==
    {"magic", "command", "loadAddress", "sectionSize", "commandFlags", "argCnt",
     "fn_num", "op_type", "mask", "sleep_cnt", "dataWord"}

\* Units of a field: most are Uint32, three are Uint16.
BisWidth(field) == IF field \in {"argCnt", "fn_num", "op_type"} THEN 1 ELSE 2

\* What each command reads, in order.
BisOperands(command) ==
    CASE command = BIS_CMD_SECTION_LOAD ->
            <<"loadAddress", "sectionSize", "commandFlags", "payload">>
      [] command = BIS_CMD_FUNCTION_LOAD ->
            <<"loadAddress", "sectionSize", "commandFlags", "argCnt", "fn_num", "payload">>
      [] command = BIS_CMD_FUNCTION_EXEC -> <<"argCnt", "fn_num">>
      [] command = BIS_CMD_MEMORY_ACCESS ->
            <<"loadAddress", "argCnt", "op_type", "mask", "sleep_cnt", "dataWord">>
      [] command = BIS_CMD_SECTION_TERMINATE -> <<"dataWord">>

BisStart == [todo |-> <<"magic">>, reg |-> [f \in BisFieldNames |-> 0]]

\* A field was read into its variable; the magic number and a command say
\* what comes next.
BisStore(bis, value) ==
    LET field == Head(bis.todo) IN
    [todo |-> CASE field = "magic" -> <<"command">>
                [] field = "command" -> BisOperands(value)
                [] OTHER -> Tail(bis.todo),
     reg |-> [bis.reg EXCEPT ![field] = value]]

BisNextCommand(bis) == [bis EXCEPT !.todo = <<"command">>]

\* What is checked as soon as it is read.
BisRejects(field, value) ==
    \/ field = "magic" /\ value # BIS_MAGIC_NUMBER
    \/ field = "command" /\ value \notin BisCommands

\* fn_table, static: an address of 0 is a free entry.
EmptyFnTable == [n \in 0 .. MAX_BIS_FUNCTION_SUPPORT - 1 |-> 0]

\* The address an entry may hold.  Behind the last one lies some other datum,
\* zero or not.
FnAddresses(fn_table, fn_num) ==
    IF fn_num \in DOMAIN fn_table THEN {fn_table[fn_num]} ELSE {0, 1}

\* The checks on fn_num let the number after the last entry pass.
FunctionLoadFails(reg, address) ==
    \/ reg.fn_num > MAX_BIS_FUNCTION_SUPPORT
    \/ reg.argCnt > MAX_BIS_FUNCTION_SUPPORT
    \/ address # 0

FunctionExecFails(reg, address) ==
    reg.fn_num > MAX_BIS_FUNCTION_SUPPORT \/ address = 0
===============================================================================
