-------------------------------- MODULE MCLan --------------------------------
(***************************************************************************)
(* Small instances of the board on its network: one descriptor for each    *)
(* direction, as in c66x.c, and configurations with and without BOOTP, a   *)
(* router and a route.                                                     *)
(***************************************************************************)
EXTENDS LanProperties

Static == [bootp |-> FALSE, router |-> FALSE, unicast |-> FALSE,
           use_bootp_server_ip |-> FALSE, remote |-> FALSE, all_ports |-> TRUE]

StaticRemote == [Static EXCEPT !.remote = TRUE]

BootpRemote == [bootp |-> TRUE, router |-> TRUE, unicast |-> TRUE,
                use_bootp_server_ip |-> TRUE, remote |-> TRUE, all_ports |-> FALSE]

MCConfigs == {Static, StaticRemote, BootpRemote}
==============================================================================
