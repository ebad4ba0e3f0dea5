------------------------------ MODULE MCEmbeddings ------------------------------
(* Small instances of Embeddings for TLC. *)
EXTENDS Embeddings, TLC

Symmetry == Permutations(Workers) \cup Permutations(Contents)
=============================================================================
