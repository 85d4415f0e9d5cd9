---------------------------- MODULE MCHcqServer ----------------------------
(* Model values and bounds for checking HcqServer. *)
EXTENDS HcqServer, TLC

CONSTANTS c1, c2, c3, s1, s2, s3, n1, n2

\* At least as many client structs as descriptors; with three, malloc can hand out
\* a fresh one while a removed one is still linked.
TwoAddrs == {c1, c2}
ThreeAddrs == {c1, c2, c3}

\* A struct per descriptor is enough: a queued one belongs to a connected
\* student, a served one to a connected TA.
OneStudent == {s1}
TwoStudents == {s1, s2}
ThreeStudents == {s1, s2, s3}
OneName == {n1}
TwoNames == {n1, n2}

\* Addresses and names are compared for equality only; descriptors are not
\* permuted, because accept and the loop look at their order.
Symmetry == Permutations(Addr) \cup Permutations(Names)

\* What can still matter: nothing of a stopped process; of freed client structs
\* only those a walk of the list still visits; of student structs what they
\* hold, and who queued them, since each is on one list at most (ListsOnlyBy-
\* Operations, and the theorem HeapIsDisciplined of HcqLists_proofs).
Linked == {Visit(mem, client_list)[k] : k \in 0 .. Cardinality(Addr)}
Held(s) == IF s = NULL THEN NULL ELSE student[s]
Matters ==
    IF status = "run"
      THEN <<client_list, [a \in Live \cup (Linked \ {NULL}) |-> mem[a]],
             ready, peer, unread, backlog,
             [i \in DOMAIN stu_list |-> <<Held(stu_list[i]), owner[stu_list[i]]>>],
             [i \in DOMAIN ta_list |->
                <<ta_list[i].name, Held(ta_list[i].current_student)>>]>>
      ELSE <<status>>
=============================================================================
