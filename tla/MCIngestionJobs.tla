--------------------------- MODULE MCIngestionJobs ---------------------------
(* Small instances of IngestionJobs for TLC. *)
EXTENDS IngestionJobs
=============================================================================
