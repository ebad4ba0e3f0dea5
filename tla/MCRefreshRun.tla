---------------------------- MODULE MCRefreshRun ----------------------------
(* Small instances of RefreshRun for TLC. *)
EXTENDS RefreshRun
=============================================================================
