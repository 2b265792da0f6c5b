------------------------------ MODULE MCFirstStage ------------------------------
(***************************************************************************)
(* Instances of the first stage for TLC.  The sections have every even     *)
(* size modulo 4, one of them crosses blocks and several pulls of the      *)
(* wrapper; blocks fill the buffer, the last one does not.                 *)
(***************************************************************************)
EXTENDS FirstStageProperties

Section(addr, data) == [addr |-> addr, data |-> data]

MCImages ==
    {[entry |-> 2^16 + 2,
      sections |-> <<Section(4, <<1, 2, 3, 4, 5, 6>>), Section(0, <<7, 8>>)>>],
     [entry |-> 0,
      sections |-> <<Section(0, <<1, 2, 3, 4, 5, 6, 7, 8>>)>>]}
================================================================================
