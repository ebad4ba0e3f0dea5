------------------------------- MODULE Sorting -------------------------------
(***************************************************************************)
(* A finite set as a list: what a sort, or going through a list and keeping  *)
(* some of its places, makes of it.                                          *)
(***************************************************************************)
EXTENDS Naturals, FiniteSets

\* The elements of S by a strict order of them: at each place the element that has
\* that many before it.
Sorted(S, precedes(_, _)) ==
    [n \in 1 .. Cardinality(S) |->
        CHOOSE x \in S : Cardinality({y \in S : precedes(y, x)}) = n - 1]
=============================================================================
