---------------------------- MODULE MCShellTokens ----------------------------
(* ShellTokens for TLC: its constants are given by the configuration. *)
EXTENDS ShellTokens
=============================================================================
