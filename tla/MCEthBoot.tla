------------------------------ MODULE MCEthBoot ------------------------------
(***************************************************************************)
(* Instances of the ethernet boot for TLC.  Blocks are three bytes and the *)
(* stream holds four, so that a block, a partial read and what a peek of   *)
(* two leaves just fit, as 512 and 3 bytes fit in 1024.  The server timeout*)
(* is longer in ticks than a block is in bytes, as 600 is than 512, except *)
(* in MCSessions, which checks nothing that depends on it.                 *)
(***************************************************************************)
EXTENDS EthBootProperties

MCByte == 0 .. FileLen

Config(bootp, server, use) ==
    [bootp |-> bootp, server |-> server, use_bootp_server_ip |-> use]

MCStatic == {Config(FALSE, TRUE, FALSE)}
MCBootp == {Config(TRUE, TRUE, TRUE), Config(TRUE, TRUE, FALSE)}
MCMixed == MCStatic \cup {Config(TRUE, TRUE, TRUE)}
MCNoServer == {Config(FALSE, FALSE, FALSE)}
==============================================================================
