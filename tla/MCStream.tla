------------------------------- MODULE MCStream -------------------------------
(***************************************************************************)
(* A ring of three bytes, written in pieces of up to three bytes, read in  *)
(* pieces of up to four: every alignment of the indices, every level and   *)
(* every kind of refusal occurs.                                           *)
(***************************************************************************)
EXTENDS Stream

MCByte == {0, 1}
MCWrites == UNION {[1 .. n -> MCByte] : n \in 0 .. 3}
==============================================================================
