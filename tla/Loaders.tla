-------------------------------- MODULE Loaders --------------------------------
(***************************************************************************)
(* The COFF and ELF loaders run by iblBoot on one file after another until *)
(* one of them gives an entry point.                                       *)
(***************************************************************************)
EXTENDS Coff, Elf

vars == <<fileVars, coffVars, segments>>

Init == FileInit /\ CoffInit /\ ElfInit

Next ==
    \/ (StartLoad \/ Retry) /\ UNCHANGED <<coffVars, segments>>
    \/ CoffNext /\ UNCHANGED segments
    \/ ElfNext /\ UNCHANGED coffVars

\* The loaders take one step after another until they return.
Spec == Init /\ [][Next]_vars /\ WF_vars(CoffNext /\ UNCHANGED segments)
                              /\ WF_vars(ElfNext /\ UNCHANGED coffVars)
===============================================================================
