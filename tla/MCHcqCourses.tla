---------------------------- MODULE MCHcqCourses ----------------------------
(* Model values and bounds for checking HcqCourses. *)
EXTENDS HcqCourses, TLC

CONSTANTS a1, a2, a3, a4, n1, n2, n3, k1, k2

MCAddrs == {a1, a2, a3, a4}
MCNames == {n1, n2, n3}
MCCourses == {k1, k2}

Symmetry == Permutations(MCAddrs) \cup Permutations(MCNames) \cup Permutations(MCCourses)
=============================================================================
