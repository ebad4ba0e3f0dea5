-------------------------- MODULE MCModelDiscovery --------------------------
(* Small instances of ModelDiscovery for TLC. *)
EXTENDS ModelDiscovery
=============================================================================
