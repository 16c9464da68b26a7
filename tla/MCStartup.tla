------------------------------ MODULE MCStartup -----------------------------
(***************************************************************************)
(* Constants of Startup for TLC: the pretty port of the second server is   *)
(* the last one there is, that of the third is out of range.               *)
(***************************************************************************)
EXTENDS Startup

CONSTANTS eth0, eth1

MCServerPort == <<27015, 64735, 64736>>
MCInterfaces == {eth0, eth1}
=============================================================================
