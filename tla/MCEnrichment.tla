------------------------------ MODULE MCEnrichment ------------------------------
(* A small instance of Enrichment for TLC; its constants are given in the cfg. *)
EXTENDS Enrichment
=============================================================================
