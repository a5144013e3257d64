------------------------------- MODULE MCProxy -------------------------------
(***************************************************************************)
(* Proxy for TLC: its constants are given by the configurations.             *)
(***************************************************************************)
EXTENDS Proxy

AllFaults == {"accept", "refused", "unreachable", "reset", "partial"}
=============================================================================
