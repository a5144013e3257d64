----------------------------- MODULE MCSysvStore -----------------------------
(* Small instances of SysvStore for TLC. *)
EXTENDS SysvStore
=============================================================================
