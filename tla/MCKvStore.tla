------------------------------ MODULE MCKvStore ------------------------------
(* KvStore for TLC: its constants are given by the configurations. *)
EXTENDS KvStore
=============================================================================
