---------------------------- MODULE MCSysvServer ----------------------------
(* Small instances of SysvServer for TLC. *)
EXTENDS SysvServer
=============================================================================
