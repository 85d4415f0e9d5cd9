---------------------------- MODULE MCWordIndex ----------------------------
(* Files and words for checking WordIndex. *)
EXTENDS WordIndex, TLC

CONSTANTS f1, f2, f3, f4, g1

\* The files of ".": as many as the names array holds, or one more.
ThreeFiles == {f1, f2, f3}
FourFiles == {f1, f2, f3, f4}

\* The file of a directory that was named without "./" before it.
Elsewhere == {g1}
Three == ThreeFiles \cup Elsewhere
Four == FourFiles \cup Elsewhere
ThreeAndElsewhere == {ThreeFiles, Elsewhere}
FourAndElsewhere == {FourFiles, Elsewhere}

\* Three words.  The third is cut to the second.
LongWords == [w \in 1 .. 3 |-> IF w = 3 THEN 2 ELSE w]

\* The first run leaves an index of one occurrence, or a part of it.
TwoRuns == <<1, 3>>

\* Files are compared for equality only: their order is the one readdir gives.
Symmetry == Permutations(Dotted)
=============================================================================
