----------------------------- MODULE MCHcqLists -----------------------------
(* Model values and bounds for checking HcqLists. *)
EXTENDS HcqLists, TLC

CONSTANTS a1, a2, a3, a4, a5, n1, n2, n3

MCAddrs == {a1, a2, a3, a4, a5}
MCNames == {n1, n2, n3}

\* Addresses and names are only compared, and the properties do not tell them
\* apart: any permutation of either maps behaviours to behaviours.
Symmetry == Permutations(MCAddrs) \cup Permutations(MCNames)
=============================================================================
