---------------------------- MODULE MCStagedReview ----------------------------
(* Small instances of StagedReview for TLC: two contents of different titles, *)
(* so that two listings agree in slug exactly when they agree in content.      *)
EXTENDS StagedReview, TLC

OwnTitle == [c \in Contents |-> c]

Symmetry == Permutations(Listings) \cup Permutations(Contents) \cup Permutations(Sessions)
=============================================================================
