-------------------------- MODULE HcqServer_proofs --------------------------
(***************************************************************************)
(* Proofs about the help-centre server (HcqServer), for every number of    *)
(* descriptors, client structs, names and courses.  What HcqLists_proofs   *)
(* shows of the lists is used through the instance LP, whose constants and *)
(* variables are the server's.                                             *)
(***************************************************************************)
EXTENDS HcqServer, FiniteSetTheorems, FunctionTheorems, SequenceTheorems,
        WellFoundedInduction, TLAPS

LP == INSTANCE HcqLists_proofs WITH UniqueTas <- FALSE

-----------------------------------------------------------------------------
(* The inductive invariant.  A departing student is taken out of the queue  *)
(* by name, so that no entry is left behind rests on the names in the queue *)
(* being distinct (ListsKept); that a TA who leaves is found on the list,   *)
(* on the roster matching the clients; and both on what a client has been   *)
(* asked already.                                                           *)

\* How far a client has got says which of its fields are set.
StatesFit ==
    \A a \in Live :
        /\ mem[a].name = NULL => mem[a].state = "NAME"
        /\ mem[a].state \in {"NAME", "TYPE"} => mem[a].type = "N"
        /\ mem[a].state \in {"S_COURSE", "S_COMMAND"} => mem[a].type = "S"
        /\ mem[a].state = "T_COMMAND" => mem[a].type = "T"

\* The inductive invariant of the lists.
ListsKept == LP!IInv

\* Once select has reported the listening socket, a connection waits for accept.
AcceptDue == ListenFd \in ready => backlog > 0

IInv ==
    /\ TypeOK
    /\ StatesFit
    /\ AcceptDue
    /\ ListsKept
    /\ OneClientPerDescriptor
    /\ RosterMatchesClients
    /\ QueueEntriesHaveClients

-----------------------------------------------------------------------------
(* The operations of hcq.c. *)

LEMMA ListsAssumptionHolds == LP!ListsAssumption
  BY ServerAssumption DEF LP!ListsAssumption

LEMMA SameOperations ==
    /\ \A n, c : L!add_student(n, c) <=> LP!add_student(n, c)
    /\ \A n : L!give_up_waiting(n) <=> LP!give_up_waiting(n)
    /\ \A n : L!add_ta(n) <=> LP!add_ta(n)
    /\ \A n : L!remove_ta(n) <=> LP!remove_ta(n)
    /\ \A n : L!next_overall(n) <=> LP!next_overall(n)
<1>1. L!Freed = LP!Freed /\ \A n : L!InQueue(n) <=> LP!InQueue(n)
  BY DEF L!Freed, LP!Freed, L!InQueue, LP!InQueue
<1>2. \A i, n : (L!IsFirstStudent(i, n) <=> LP!IsFirstStudent(i, n))
             /\ (L!IsFirstTa(i, n) <=> LP!IsFirstTa(i, n))
  BY DEF L!IsFirstStudent, LP!IsFirstStudent, L!IsFirstTa, LP!IsFirstTa
<1>3. \A s, i : L!RemoveAt(s, i) = LP!RemoveAt(s, i)
  BY DEF L!RemoveAt, LP!RemoveAt
<1>4. \A s : L!release(s) <=> LP!release(s)
  BY <1>1 DEF L!release, LP!release
<1>5. \A n : L!OnRoster(n) <=> LP!OnRoster(n)
  BY DEF L!OnRoster, LP!OnRoster
<1>6. \A n, c : L!add_student(n, c) <=> LP!add_student(n, c)
  BY <1>1 DEF L!add_student, LP!add_student, L!malloc_student, LP!malloc_student, L!lists, LP!lists
<1>7. \A n : L!give_up_waiting(n) <=> LP!give_up_waiting(n)
  BY <1>1, <1>2, <1>3 DEF L!give_up_waiting, LP!give_up_waiting, L!lists, LP!lists
<1>8. \A n : L!add_ta(n) <=> LP!add_ta(n)
  BY DEF L!add_ta, LP!add_ta, L!Cons, LP!Cons
<1>9. \A n : L!remove_ta(n) <=> LP!remove_ta(n)
  BY <1>2, <1>3, <1>4, <1>5 DEF L!remove_ta, LP!remove_ta, L!lists, LP!lists
<1>10. \A n : L!next_overall(n) <=> LP!next_overall(n)
  BY <1>2, <1>3, <1>4, <1>5 DEF L!next_overall, LP!next_overall, L!lists, LP!lists
<1> QED
  BY <1>6, <1>7, <1>8, <1>9, <1>10

\* What the operations keep, they keep in the server.
LEMMA OperationsKeep ==
    ASSUME ListsKept, [L!process_args]_lists
    PROVE  ListsKept'
<1>1. LP!process_args \/ UNCHANGED lists
  BY SameOperations DEF L!process_args, LP!process_args, lists, L!lists, LP!lists, L!OnRoster, LP!OnRoster
<1>2. LP!process_args \/ UNCHANGED LP!lists
  BY <1>1 DEF lists, LP!lists
<1> QED
  BY <1>2, ListsAssumptionHolds, LP!StepKeeps DEF ListsKept

LEMMA SameRemoveAt == \A s, i : L!RemoveAt(s, i) = LP!RemoveAt(s, i)
  BY DEF L!RemoveAt, LP!RemoveAt

LEMMA SameCons == \A e, s : L!Cons(e, s) = LP!Cons(e, s)
  BY DEF L!Cons, LP!Cons

Entries == DOMAIN stu_list
Tas == DOMAIN ta_list

\* What the invariant of the lists says of them.
LEMMA ListFacts ==
    ASSUME ListsKept
    PROVE  /\ L!TypeOK
           /\ Len(stu_list) \in Nat /\ Entries = 1 .. Len(stu_list)
           /\ Len(ta_list) \in Nat /\ Tas = 1 .. Len(ta_list)
           /\ \A i \in Entries : /\ stu_list[i] \in SAddr
                                 /\ student[stu_list[i]] # L!Freed
                                 /\ student[stu_list[i]].name \in Names
           /\ \A i, j \in Entries :
                 student[stu_list[i]].name = student[stu_list[j]].name => i = j
           /\ \A i \in Tas : /\ ta_list[i].name \in Names
                             /\ ta_list[i].current_student \in SAddr \cup {NULL}
                             /\ \A j \in Entries : stu_list[j] # ta_list[i].current_student
<1>1. LP!TypeOK
  BY DEF ListsKept, LP!IInv
<1>2. L!TypeOK
  BY <1>1 DEF LP!TypeOK, L!TypeOK, LP!Student, L!Student, LP!Freed, L!Freed, LP!Ta, L!Ta
<1>3. /\ Len(stu_list) \in Nat /\ Entries = 1 .. Len(stu_list)
      /\ Len(ta_list) \in Nat /\ Tas = 1 .. Len(ta_list)
  BY <1>2, LenProperties DEF L!TypeOK, Entries, Tas
<1>4. \A i \in Entries : stu_list[i] \in SAddr
  BY <1>2, <1>3, ElementOfSeq DEF L!TypeOK
<1>5. \A i \in Entries : student[stu_list[i]] # L!Freed
  BY <1>3 DEF ListsKept, LP!IInv, LP!QueuedAllocated, LP!Q, LP!Freed, L!Freed
<1>6. \A i \in Entries : student[stu_list[i]].name \in Names
  BY <1>2, <1>4, <1>5 DEF L!TypeOK, L!Student
<1>7. \A i, j \in Entries : student[stu_list[i]].name = student[stu_list[j]].name => i = j
  BY <1>3 DEF ListsKept, LP!IInv, LP!NamedOnce, LP!Q
<1>8. \A i \in Tas : ta_list[i] \in L!Ta
  BY <1>2, <1>3, ElementOfSeq DEF L!TypeOK
<1>9. \A i \in Tas : \A j \in Entries : stu_list[j] # ta_list[i].current_student
  BY <1>3 DEF ListsKept, LP!IInv, LP!Apart, LP!Q, LP!T, LP!Serves
<1> QED
  BY <1>2, <1>3, <1>4, <1>5, <1>6, <1>7, <1>8, <1>9 DEF L!Ta

\* The j-th entry of the new queue is what was the k-th, with its student.
Stays(j, k) ==
    /\ stu_list'[j] = stu_list[k]
    /\ student'[stu_list'[j]] = student[stu_list[k]]

\* The one student of that name is out of the queue.
LEMMA GiveUpGives ==
    ASSUME ListsKept, NEW n \in Names, L!give_up_waiting(n)
    PROVE  /\ ta_list' = ta_list
           /\ \A j \in Entries' :
                 \E k \in Entries : Stays(j, k) /\ student[stu_list[k]].name # n
           /\ \A k \in Entries : student[stu_list[k]].name # n => stu_list[k] \in L!Queued'
<1>1. CASE ~L!InQueue(n) /\ UNCHANGED L!lists
  BY <1>1 DEF L!InQueue, L!lists, Stays, Entries, L!Queued
<1>2. ASSUME NEW i \in DOMAIN stu_list, L!IsFirstStudent(i, n),
             stu_list' = L!RemoveAt(stu_list, i),
             student' = [student EXCEPT ![stu_list[i]] = L!Freed],
             UNCHANGED ta_list
      PROVE  /\ ta_list' = ta_list
             /\ \A j \in Entries' :
                   \E k \in Entries : Stays(j, k) /\ student[stu_list[k]].name # n
             /\ \A k \in Entries : student[stu_list[k]].name # n => stu_list[k] \in L!Queued'
  <2>1. LP!TypeOK /\ i \in LP!Q /\ stu_list' = LP!RemoveAt(stu_list, i)
    BY <1>2, SameRemoveAt, ListFacts DEF ListsKept, LP!IInv, LP!Q, Entries
  <2>2. /\ stu_list' \in Seq(SAddr)
        /\ \A j \in LP!Q' : /\ LP!Before(i, j) \in LP!Q /\ LP!Before(i, j) # i
                            /\ stu_list'[j] = stu_list[LP!Before(i, j)]
        /\ \A k \in LP!Q : k # i => \E j \in LP!Q' : LP!Before(i, j) = k
    BY <2>1, ListsAssumptionHolds, LP!QueueWithout
  <2>3. LP!Q = Entries /\ LP!Q' = Entries'
    BY <2>2, ListFacts, LenProperties DEF LP!Q, Entries
  <2>4. student[stu_list[i]].name = n
    BY <1>2 DEF L!IsFirstStudent
  <2>5. ASSUME NEW k \in Entries, k # i
        PROVE  student[stu_list[k]].name # n /\ stu_list[k] # stu_list[i]
    BY <2>4, <2>5, <1>2, ListFacts DEF Entries
  <2>6. ASSUME NEW j \in Entries'
        PROVE  \E k \in Entries : Stays(j, k) /\ student[stu_list[k]].name # n
    <3>1. PICK k \in Entries : k # i /\ stu_list'[j] = stu_list[k]
      BY <2>2, <2>3
    <3>2. student'[stu_list[k]] = student[stu_list[k]]
      BY <1>2, <2>5, <3>1, ListFacts DEF L!TypeOK
    <3> QED
      BY <2>5, <3>1, <3>2 DEF Stays
  <2>7. ASSUME NEW k \in Entries, student[stu_list[k]].name # n
        PROVE  stu_list[k] \in L!Queued'
    <3>1. k # i
      BY <2>4, <2>7
    <3>2. \E j \in Entries' : stu_list'[j] = stu_list[k]
      BY <2>2, <2>3, <3>1
    <3> QED
      BY <3>2 DEF L!Queued, Entries
  <2> QED
    BY <1>2, <2>6, <2>7
<1> QED
  BY <1>1, <1>2 DEF L!give_up_waiting

\* One TA of that name is off the list; the queue is as it was.
LEMMA RemoveTaGives ==
    ASSUME ListsKept, NEW n \in Names, L!remove_ta(n), L!OnRoster(n)
    PROVE  /\ stu_list' = stu_list
           /\ \A j \in Entries : Stays(j, j)
           /\ \E i \in Tas : ta_list[i].name = n /\ ta_list' = L!RemoveAt(ta_list, i)
<1>1. PICK i \in DOMAIN ta_list :
         /\ L!IsFirstTa(i, n)
         /\ L!release(ta_list[i].current_student)
         /\ ta_list' = L!RemoveAt(ta_list, i)
         /\ stu_list' = stu_list
  BY DEF L!remove_ta
<1>2. ta_list[i].name = n /\ i \in Tas
  BY <1>1 DEF L!IsFirstTa, Tas
<1>3. ASSUME NEW j \in Entries PROVE student'[stu_list[j]] = student[stu_list[j]]
  <2>1. stu_list[j] # ta_list[i].current_student /\ stu_list[j] \in SAddr
    BY <1>2, ListFacts
  <2> QED
    BY <1>1, <2>1, ListFacts DEF L!release, L!TypeOK
<1> QED
  BY <1>1, <1>2, <1>3 DEF Stays

\* The TA of that name has the head of the queue; the others wait on.
LEMMA NextGives ==
    ASSUME ListsKept, NEW n \in Names, L!next_overall(n), L!OnRoster(n)
    PROVE  /\ \A i \in Tas : ta_list'[i].name = ta_list[i].name
           /\ Tas' = Tas
           /\ \A j \in Entries' : \E k \in Entries : k # 1 /\ Stays(j, k)
           /\ \A k \in Entries : k # 1 => stu_list[k] \in L!Queued'
           /\ stu_list # << >> => stu_list[1] \in L!Served'
<1>1. PICK i \in DOMAIN ta_list :
         /\ L!IsFirstTa(i, n)
         /\ L!release(ta_list[i].current_student)
         /\ IF stu_list = << >>
              THEN /\ ta_list' = [ta_list EXCEPT ![i].current_student = NULL]
                   /\ UNCHANGED stu_list
              ELSE /\ ta_list' = [ta_list EXCEPT ![i].current_student = stu_list[1]]
                   /\ stu_list' = L!RemoveAt(stu_list, 1)
  BY DEF L!next_overall
<1>2. i \in Tas
  BY DEF Tas
<1>3. ASSUME NEW j \in Entries PROVE student'[stu_list[j]] = student[stu_list[j]]
  <2>1. stu_list[j] # ta_list[i].current_student /\ stu_list[j] \in SAddr
    BY <1>2, ListFacts
  <2> QED
    BY <1>1, <2>1, ListFacts DEF L!release, L!TypeOK
<1>4. \E x : ta_list' = [ta_list EXCEPT ![i].current_student = x]
  BY <1>1
<1>5. /\ Tas' = Tas /\ \A l \in Tas : ta_list'[l].name = ta_list[l].name
  <2>1. PICK x : ta_list' = [ta_list EXCEPT ![i].current_student = x]
    BY <1>4
  <2>2. ta_list \in Seq(L!Ta) /\ \A l \in Tas : ta_list[l] \in L!Ta
    BY ListFacts, ElementOfSeq DEF L!TypeOK
  <2>3. DOMAIN ta_list' = DOMAIN ta_list
    BY <2>1
  <2>4. ASSUME NEW l \in Tas PROVE ta_list'[l].name = ta_list[l].name
    BY <2>1, <2>2 DEF Tas, L!Ta
  <2> QED
    BY <2>3, <2>4 DEF Tas
<1>6. CASE stu_list = << >>
  <2>1. Entries = {} /\ Entries' = {}
    BY <1>1, <1>6 DEF Entries
  <2> QED
    BY <1>5, <1>6, <2>1
<1>7. CASE stu_list # << >>
  <2>1. 1 \in Entries /\ Len(stu_list) # 0
    BY <1>7, ListFacts, EmptySeq DEF L!TypeOK
  <2>2. LP!TypeOK /\ 1 \in LP!Q /\ stu_list' = LP!RemoveAt(stu_list, 1)
    BY <1>1, <1>7, <2>1, SameRemoveAt, ListFacts DEF ListsKept, LP!IInv, LP!Q
  <2>3. /\ stu_list' \in Seq(SAddr)
        /\ \A j \in LP!Q' : /\ LP!Before(1, j) \in LP!Q /\ LP!Before(1, j) # 1
                            /\ stu_list'[j] = stu_list[LP!Before(1, j)]
        /\ \A k \in LP!Q : k # 1 => \E j \in LP!Q' : LP!Before(1, j) = k
    BY <2>2, ListsAssumptionHolds, LP!QueueWithout
  <2>4. LP!Q = Entries /\ LP!Q' = Entries'
    BY <2>3, ListFacts, LenProperties DEF LP!Q, Entries
  <2>5. \A j \in Entries' : \E k \in Entries : k # 1 /\ Stays(j, k)
    BY <1>3, <2>3, <2>4 DEF Stays
  <2>6. \A k \in Entries : k # 1 => stu_list[k] \in L!Queued'
    <3>1. \A k \in Entries : k # 1 => \E j \in Entries' : stu_list'[j] = stu_list[k]
      BY <2>3, <2>4
    <3> QED
      BY <3>1 DEF L!Queued, Entries
  <2>7. stu_list[1] \in L!Served'
    <3>1. ta_list[i] \in L!Ta
      BY <1>2, ListFacts, ElementOfSeq DEF L!TypeOK
    <3>2. ta_list'[i].current_student = stu_list[1]
      BY <1>1, <1>7, <3>1 DEF L!Ta
    <3>3. stu_list[1] # NULL
      BY <2>1, ListFacts, ServerAssumption
    <3> QED
      BY <1>2, <1>5, <3>2, <3>3 DEF L!Served, Tas
  <2> QED
    BY <1>5, <2>5, <2>6, <2>7
<1> QED
  BY <1>6, <1>7

\* A name already in the queue changes nothing; any other is at its end.
LEMMA AddStudentGives ==
    ASSUME ListsKept, NEW n \in Names, NEW c \in Courses, L!add_student(n, c)
    PROVE  /\ ta_list' = ta_list
           /\ \/ L!InQueue(n) /\ UNCHANGED lists
              \/ \E s \in SAddr :
                   /\ student[s] = L!Freed
                   /\ student'[s] = [name |-> n, course |-> c]
                   /\ Entries' = 1 .. Len(stu_list) + 1
                   /\ stu_list'[Len(stu_list) + 1] = s
                   /\ \A j \in Entries : j # Len(stu_list) + 1 /\ j \in Entries' /\ Stays(j, j)
<1>1. CASE L!InQueue(n) /\ UNCHANGED L!lists
  BY <1>1 DEF L!lists, lists
<1>2. ASSUME NEW s \in L!malloc_student,
             student' = [student EXCEPT ![s] = [name |-> n, course |-> c]],
             stu_list' = Append(stu_list, s), UNCHANGED ta_list
      PROVE  /\ s \in SAddr /\ student[s] = L!Freed
             /\ student'[s] = [name |-> n, course |-> c]
             /\ Entries' = 1 .. Len(stu_list) + 1
             /\ stu_list'[Len(stu_list) + 1] = s
             /\ \A j \in Entries : j # Len(stu_list) + 1 /\ j \in Entries' /\ Stays(j, j)
  <2>1. s \in SAddr /\ student[s] = L!Freed
    BY <1>2 DEF L!malloc_student
  <2>2. student'[s] = [name |-> n, course |-> c]
    BY <1>2, <2>1, ListFacts DEF L!TypeOK
  <2>3. /\ stu_list' \in Seq(SAddr) /\ Len(stu_list') = Len(stu_list) + 1
        /\ \A j \in 1 .. Len(stu_list) : stu_list'[j] = stu_list[j]
        /\ stu_list'[Len(stu_list) + 1] = s
    BY <1>2, <2>1, ListFacts, AppendProperties DEF L!TypeOK
  <2>4. Entries' = 1 .. Len(stu_list) + 1
    BY <2>3, LenProperties DEF Entries
  <2>5. ASSUME NEW j \in Entries
        PROVE  j # Len(stu_list) + 1 /\ j \in Entries' /\ stu_list'[j] = stu_list[j]
    BY <2>3, <2>4, ListFacts
  <2>6. ASSUME NEW j \in Entries PROVE student'[stu_list[j]] = student[stu_list[j]]
    <3>1. stu_list[j] # s /\ stu_list[j] \in SAddr
      BY <2>1, ListFacts
    <3> QED
      BY <1>2, <3>1, ListFacts DEF L!TypeOK
  <2> QED
    BY <2>1, <2>2, <2>3, <2>4, <2>5, <2>6 DEF Stays
<1>3. ta_list' = ta_list
  BY DEF L!add_student, L!lists
<1> QED
  BY <1>1, <1>2, <1>3 DEF L!add_student

-----------------------------------------------------------------------------
(* How many TAs of a name a list holds. *)

Named(t, n) == {i \in DOMAIN t : t[i].name = n}

LEMMA SameCount ==
    ASSUME NEW S, NEW T, IsFiniteSet(S), NEW f \in [S -> T],
           \A a, b \in S : f[a] = f[b] => a = b,
           \A y \in T : \E x \in S : f[x] = y
    PROVE  IsFiniteSet(T) /\ Cardinality(T) = Cardinality(S)
<1>1. f \in Bijection(S, T)
  BY Fun_IsBij
<1> QED
  BY <1>1, FS_Bijection DEF ExistsBijection

LEMMA NamedFinite ==
    ASSUME NEW S, NEW t \in Seq(S), NEW n
    PROVE  IsFiniteSet(Named(t, n)) /\ Cardinality(Named(t, n)) \in Nat
<1>1. Len(t) \in Nat /\ DOMAIN t = 1 .. Len(t)
  BY LenProperties
<1>2. IsFiniteSet(1 .. Len(t))
  BY <1>1, FS_Interval
<1>3. Named(t, n) \in SUBSET (1 .. Len(t))
  BY <1>1 DEF Named
<1> QED
  BY <1>2, <1>3, FS_Subset, FS_CardinalityType

LEMMA CountWithNew ==
    ASSUME NEW S, NEW t \in Seq(S), NEW e \in S, NEW n
    PROVE  Cardinality(Named(LP!Cons(e, t), n))
              = Cardinality(Named(t, n)) + (IF e.name = n THEN 1 ELSE 0)
<1> DEFINE r == LP!Cons(e, t)
           A == Named(t, n)
           B == {j \in DOMAIN r : j # 1 /\ r[j].name = n}
           f == [i \in A |-> i + 1]
<1>1. /\ r \in Seq(S) /\ Len(r) = Len(t) + 1 /\ r[1] = e
      /\ \A j \in 1 .. Len(t) : r[j + 1] = t[j]
  <2> HIDE DEF r
  <2>1. r = LP!Cons(e, t)
    BY DEF r
  <2> QED
    BY <2>1, ConcatProperties, LenProperties DEF LP!Cons
<1>2. Len(t) \in Nat /\ DOMAIN t = 1 .. Len(t) /\ DOMAIN r = 1 .. Len(t) + 1
  BY <1>1, LenProperties
<1> HIDE DEF r
<1>3. \A i \in A : i \in 1 .. Len(t) /\ t[i].name = n
  BY <1>2 DEF Named
<1>4. f \in [A -> B]
  BY <1>1, <1>2, <1>3
<1>5. \A i, j \in A : f[i] = f[j] => i = j
  BY <1>3
<1>6. ASSUME NEW j \in B PROVE \E i \in A : f[i] = j
  <2>1. j - 1 \in 1 .. Len(t) /\ (j - 1) + 1 = j
    BY <1>2
  <2>2. t[j - 1].name = n
    BY <1>1, <2>1
  <2>3. j - 1 \in A
    BY <1>2, <2>1, <2>2 DEF Named
  <2> QED
    BY <2>1, <2>3
<1>7. IsFiniteSet(A) /\ Cardinality(A) \in Nat
  BY NamedFinite
<1> HIDE DEF A, f
<1>8. IsFiniteSet(B) /\ Cardinality(B) = Cardinality(A)
  BY <1>4, <1>5, <1>6, <1>7, SameCount
<1>9. CASE e.name = n
  <2>1. Named(r, n) = B \cup {1} /\ 1 \notin B
    BY <1>1, <1>2, <1>9 DEF Named
  <2>2. Cardinality(B \cup {1}) = Cardinality(B) + 1
    BY <1>8, <2>1, FS_AddElement
  <2> QED
    BY <1>8, <1>9, <2>1, <2>2 DEF r, A
<1>10. CASE e.name # n
  <2>1. Named(r, n) = B
    BY <1>1, <1>2, <1>10 DEF Named
  <2> QED
    BY <1>7, <1>8, <1>10, <2>1 DEF r, A
<1> QED
  BY <1>9, <1>10

LEMMA CountWithout ==
    ASSUME NEW S, NEW t \in Seq(S), NEW i \in 1 .. Len(t), NEW n
    PROVE  Cardinality(Named(LP!RemoveAt(t, i), n))
              = Cardinality(Named(t, n)) - (IF t[i].name = n THEN 1 ELSE 0)
<1> DEFINE r == LP!RemoveAt(t, i)
           B == Named(r, n)
           C == Named(t, n) \ {i}
           f == [j \in B |-> LP!Before(i, j)]
<1>1. r = LP!RemoveAt(t, i)
  OBVIOUS
<1> HIDE DEF r
<1>2. /\ r \in Seq(S)
      /\ \A j \in 1 .. Len(r) : /\ LP!Before(i, j) \in 1 .. Len(t) /\ LP!Before(i, j) # i
                                /\ r[j] = t[LP!Before(i, j)]
      /\ \A k \in 1 .. Len(t) : k # i => \E j \in 1 .. Len(r) : LP!Before(i, j) = k
  BY <1>1, ListsAssumptionHolds, LP!RemoveAtPositions
<1>3. DOMAIN t = 1 .. Len(t) /\ DOMAIN r = 1 .. Len(r) /\ Len(r) \in Nat /\ Len(t) \in Nat
  BY <1>2, LenProperties
<1>4. f \in [B -> C]
  BY <1>2, <1>3 DEF Named
<1>5. \A j, k \in B : f[j] = f[k] => j = k
  BY <1>2, <1>3 DEF Named, LP!Before
<1>6. \A k \in C : \E j \in B : f[j] = k
  BY <1>2, <1>3 DEF Named
<1>7. IsFiniteSet(B) /\ IsFiniteSet(Named(t, n)) /\ Cardinality(Named(t, n)) \in Nat
  BY <1>2, NamedFinite
<1> HIDE DEF B, f
<1>8. Cardinality(B) = Cardinality(C)
  BY <1>4, <1>5, <1>6, <1>7, SameCount
<1>9. Cardinality(C) = IF i \in Named(t, n) THEN Cardinality(Named(t, n)) - 1 ELSE Cardinality(Named(t, n))
  BY <1>7, FS_RemoveElement
<1>10. i \in Named(t, n) <=> t[i].name = n
  BY <1>3 DEF Named
<1> QED
  BY <1>1, <1>7, <1>8, <1>9, <1>10 DEF B

-----------------------------------------------------------------------------
(* The smallest number of a set, and the larger of two. *)

Less == {p \in Nat \X Nat : p[1] < p[2]}

LEMMA MinNat ==
    ASSUME NEW S \in SUBSET Nat, S # {}
    PROVE  Min(S) \in S /\ \A y \in S : Min(S) <= y
<1>1. Less = OpToRel(<, Nat)
  BY Zenon DEF OpToRel, Less
<1>2. PICK x \in S : \A y \in S : ~(<<y, x>> \in Less)
  BY NatLessThanWellFounded, WFMin, <1>1
<1>3. ASSUME NEW y \in S PROVE x <= y
  <2>1. x \in Nat /\ y \in Nat /\ <<y, x>> \notin Less
    BY <1>2
  <2>2. ~(y < x)
    BY <2>1, Zenon DEF Less
  <2> QED
    BY <2>1, <2>2
<1> QED
  BY <1>3 DEF Min

LEMMA MaxOfTwo ==
    ASSUME NEW a \in Int, NEW b \in Int
    PROVE  Max({a, b}) \in {a, b} /\ Max({a, b}) >= a /\ Max({a, b}) >= b
<1>1. \E x \in {a, b} : \A y \in {a, b} : x >= y
  <2>1. CASE a >= b
    BY <2>1
  <2>2. CASE b >= a
    BY <2>2
  <2> QED
    BY <2>1, <2>2
<1> QED
  BY <1>1 DEF Max

-----------------------------------------------------------------------------
(* The client structs. *)

Memory == Client \cup {Dead(x) : x \in Addr \cup {NULL}}

LEMMA LiveIs == \A m \in Memory : /\ m.live \in BOOLEAN
                                  /\ m.live <=> m \in Client
<1>1. \A m \in Client : m.live = TRUE
  BY DEF Client
<1>2. \A x : Dead(x).live = FALSE
  BY DEF Dead
<1>3. \A m \in Memory : m \in Client \/ \E x \in Addr \cup {NULL} : m = Dead(x)
  BY DEF Memory
<1> QED
  BY <1>1, <1>2, <1>3

LEMMA ClientFacts ==
    ASSUME TypeOK
    PROVE  /\ mem \in [Addr -> Memory] /\ DOMAIN mem = Addr
           /\ \A a \in Live : a \in Addr /\ mem[a] \in Client
           /\ \A a \in Addr : mem[a] \in Client => a \in Live
           /\ \A a \in Addr \ Live : \E x \in Addr \cup {NULL} : mem[a] = Dead(x)
<1>1. mem \in [Addr -> Memory]
  BY DEF TypeOK, Memory
<1>2. \A a \in Live : a \in Addr /\ mem[a] \in Client
  BY <1>1, LiveIs DEF Live
<1>3. \A a \in Addr : mem[a] \in Client => a \in Live
  BY DEF Live, Client
<1>4. ASSUME NEW a \in Addr \ Live PROVE \E x \in Addr \cup {NULL} : mem[a] = Dead(x)
  <2>1. mem[a] \notin Client
    BY <1>3, <1>4
  <2> QED
    BY <1>1, <2>1 DEF Memory
<1> QED
  BY <1>1, <1>2, <1>3, <1>4

\* The fields of a client.
LEMMA Fields ==
    \A x \in Client : /\ x.live = TRUE /\ x.state \in States /\ x.socket \in Fd
                      /\ x.name \in Names \cup {NULL} /\ x.type \in {"N", "S", "T"}
                      /\ x.lines \in 0 .. MaxLines /\ x.level \in Levels
                      /\ x.next \in Addr \cup {NULL}
  BY DEF Client

\* A walk that ends at a struct ends at one of those looked for.
LEMMA WalkFinds ==
    ASSUME NEW hits, NEW bad, NEW c \in Addr, c \in Walk(hits, bad)
    PROVE  c \in hits
<1> DEFINE node == Visit(mem, client_list)
           at == {k \in 0 .. Cardinality(Addr) : node[k] \in hits}
<1>1. c # "hung" /\ c # "crashed" /\ c # NULL
  BY ServerAssumption
<1>2. at # {} /\ c = node[Min(at)]
  BY <1>1 DEF Walk
<1>3. Cardinality(Addr) \in Nat
  BY ServerAssumption, FS_CardinalityType
<1>4. Min(at) \in at
  BY <1>2, <1>3, MinNat
<1> QED
  BY <1>2, <1>4

\* A client is changed, and stays connected.
LEMMA ClientChanges ==
    ASSUME TypeOK, NEW c \in Live, NEW x \in Client, mem' = [mem EXCEPT ![c] = x],
           x.socket = mem[c].socket
    PROVE  /\ mem' \in [Addr -> Memory]
           /\ Live' = Live
           /\ mem'[c] = x
           /\ \A a \in Live : a # c => mem'[a] = mem[a]
           /\ \A a \in Live : mem'[a].socket = mem[a].socket
<1>1. c \in Addr /\ mem'[c] = x /\ \A a \in Addr : a # c => mem'[a] = mem[a]
  BY ClientFacts
<1>2. mem' \in [Addr -> Memory]
  BY ClientFacts DEF Memory
<1>3. Live' = Live
  BY <1>1, Fields DEF Live
<1> QED
  BY <1>1, <1>2, <1>3, ClientFacts

-----------------------------------------------------------------------------
(* What a step does, part by part. *)

Stopped == \E why \in {"exited", "crashed", "hung"} : Halt(why)

\* Every client stays, at its descriptor.
ClientsStay ==
    /\ mem' \in [Addr -> Memory]
    /\ Live' = Live
    /\ \A a \in Live : mem'[a].socket = mem[a].socket

\* The same descriptors are open.
PeersStay ==
    /\ peer' \in [Fd -> {"none", "open", "closed", "poked", "reset", "aborted"}]
    /\ \A f \in Fd : peer'[f] = "none" <=> peer[f] = "none"

OwnersTyped == owner \in [SAddr -> Addr \cup {NULL}]

\* The three action properties, of one step.
OnlyOwnGivesUp ==
    \A s \in L!Queued \ L!Queued' :
        OwnName(owner[s]) => s \in L!Served' \/ ~mem'[owner[s]].live
ToldAreQueued ==
    \A a \in Addr : Enters(a) => \E i \in Entries' : owner'[stu_list'[i]] = a
SummonedAreTaken ==
    \A a \in Addr : Summoned(a) => \E s \in L!Queued : owner[s] = a /\ s \in L!Served'

\* What is asked of a step, but for the descriptors and what select reported.
Settled ==
    /\ StatesFit'
    /\ [L!process_args]_lists
    /\ OwnersTyped'
    /\ RosterMatchesClients'
    /\ QueueEntriesHaveClients'
    /\ OnlyOwnGivesUp /\ ToldAreQueued /\ SummonedAreTaken

LEMMA WrittenKeepsOpen ==
    ASSUME TypeOK, NEW fd \in Fd, Written(fd)
    PROVE  PeersStay
  BY DEF TypeOK, Written, PeersStay

LEMMA TrackFacts ==
    ASSUME TypeOK, NEW a \in Addr, Track(a)
    PROVE  /\ OwnersTyped'
           /\ \A s \in SAddr : student[s] # L!Freed /\ student'[s] # L!Freed => owner'[s] = owner[s]
           /\ \A s \in SAddr : student[s] = L!Freed /\ student'[s] # L!Freed => owner'[s] = a
  BY DEF TypeOK, OwnersTyped, Track

\* Clients who are TAs of a name.
TasNamed(n) == {a \in Live : mem[a].type = "T" /\ mem[a].name = n}

LEMMA RosterIs ==
    RosterMatchesClients
        <=> \A n \in Names : Cardinality(Named(ta_list, n)) = Cardinality(TasNamed(n))
  BY DEF RosterMatchesClients, Named, TasNamed

LEMMA RosterIsNext ==
    RosterMatchesClients'
        <=> \A n \in Names : Cardinality(Named(ta_list', n)) = Cardinality(TasNamed(n)')
  BY DEF RosterMatchesClients, Named, TasNamed

\* A TA who is connected is on the list.
LEMMA TaIsListed ==
    ASSUME IInv, NEW c \in Live, mem[c].type = "T"
    PROVE  mem[c].name \in Names /\ L!OnRoster(mem[c].name)
<1> DEFINE n == mem[c].name
<1>1. n \in Names
  <2>1. mem[c] \in Client
    BY ClientFacts DEF IInv
  <2>2. n # NULL
    <3>1. mem[c].state # "NAME"
      BY DEF IInv, StatesFit
    <3> QED
      BY <3>1 DEF IInv, StatesFit
  <2> QED
    BY <2>1, <2>2, Fields
<1>2. c \in TasNamed(n) /\ IsFiniteSet(TasNamed(n))
  <2>1. TasNamed(n) \in SUBSET Addr
    BY ClientFacts DEF TasNamed, IInv
  <2> QED
    BY <2>1, ServerAssumption, FS_Subset DEF TasNamed
<1>3. Cardinality(TasNamed(n)) # 0
  BY <1>2, FS_EmptySet
<1>4. ta_list \in Seq(L!Ta)
  BY ListFacts DEF IInv, L!TypeOK
<1>5. Named(ta_list, n) # {}
  BY <1>1, <1>3, RosterIs, FS_EmptySet DEF IInv
<1> QED
  BY <1>1, <1>5 DEF Named, L!OnRoster

\* What QueueEntriesHaveClients says of one entry.
HasClient(i) ==
    LET a == owner[stu_list[i]]
    IN  /\ a \in Live
        /\ mem[a].type = "S" /\ mem[a].state = "S_COMMAND"
        /\ mem[a].name = student[stu_list[i]].name

LEMMA EntriesAre ==
    /\ QueueEntriesHaveClients <=> \A i \in Entries : HasClient(i)
    /\ QueueEntriesHaveClients' <=> \A i \in Entries' : HasClient(i)'
  BY DEF QueueEntriesHaveClients, HasClient, Entries

\* The queue entries that are left keep their clients.
LEMMA EntryKept ==
    ASSUME IInv, NEW j, NEW k \in Entries, Stays(j, k),
           owner'[stu_list[k]] = owner[stu_list[k]],
           owner[stu_list[k]] \in Live',
           mem'[owner[stu_list[k]]].type = mem[owner[stu_list[k]]].type,
           mem'[owner[stu_list[k]]].state = mem[owner[stu_list[k]]].state,
           mem'[owner[stu_list[k]]].name = mem[owner[stu_list[k]]].name
    PROVE  HasClient(j)'
<1>1. HasClient(k)
  BY EntriesAre DEF IInv
<1> QED
  BY <1>1 DEF HasClient, Stays

LEMMA EntriesKept ==
    ASSUME IInv,
           \A j \in Entries' : \E k \in Entries :
               /\ Stays(j, k) /\ owner'[stu_list[k]] = owner[stu_list[k]]
               /\ owner[stu_list[k]] \in Live'
               /\ mem'[owner[stu_list[k]]].type = mem[owner[stu_list[k]]].type
               /\ mem'[owner[stu_list[k]]].state = mem[owner[stu_list[k]]].state
               /\ mem'[owner[stu_list[k]]].name = mem[owner[stu_list[k]]].name
    PROVE  QueueEntriesHaveClients'
  BY EntryKept, EntriesAre

\* The clients who are TAs stay what they are.
LEMMA RosterKept ==
    ASSUME IInv, Tas' = Tas, \A i \in Tas : ta_list'[i].name = ta_list[i].name,
           \A n \in Names : TasNamed(n)' = TasNamed(n)
    PROVE  RosterMatchesClients'
<1>1. \A n \in Names : Named(ta_list', n) = Named(ta_list, n)
  BY DEF Named, Tas
<1> QED
  BY <1>1, RosterIs, RosterIsNext DEF IInv

\* A step that leaves the lists alone and nobody enters or leaves.
LEMMA QuietSettles ==
    ASSUME IInv, ClientsStay, NoListChange, StatesFit',
           \A a \in Live :
               /\ mem'[a].type = mem[a].type
               /\ mem[a].type = "T" \/ mem[a].state = "S_COMMAND" => mem'[a].name = mem[a].name
               /\ mem[a].state = "S_COMMAND" <=> mem'[a].state = "S_COMMAND"
               /\ mem'[a].state = "DISCONNECT" => mem[a].state \in {"DISCONNECT", "S_COURSE"}
    PROVE  Settled
<1>1. /\ student' = student /\ stu_list' = stu_list /\ ta_list' = ta_list /\ owner' = owner
      /\ lists' = lists /\ Live' = Live
  BY DEF NoListChange, ClientsStay, lists
<1>2. OwnersTyped'
  BY <1>1 DEF OwnersTyped, IInv, TypeOK
<1>3. RosterMatchesClients'
  <2>1. \A n \in Names : TasNamed(n)' = TasNamed(n)
    BY <1>1 DEF TasNamed
  <2> QED
    BY <1>1, <2>1, RosterKept DEF Tas
<1>4. QueueEntriesHaveClients'
  <2>1. ASSUME NEW j \in Entries'
        PROVE  /\ j \in Entries
               /\ Stays(j, j) /\ owner'[stu_list[j]] = owner[stu_list[j]]
               /\ owner[stu_list[j]] \in Live'
               /\ mem'[owner[stu_list[j]]].type = mem[owner[stu_list[j]]].type
               /\ mem'[owner[stu_list[j]]].state = mem[owner[stu_list[j]]].state
               /\ mem'[owner[stu_list[j]]].name = mem[owner[stu_list[j]]].name
    BY <1>1 DEF Stays, IInv, QueueEntriesHaveClients, Entries
  <2> QED
    BY <2>1, EntriesKept
<1>5. OnlyOwnGivesUp
  BY <1>1 DEF OnlyOwnGivesUp, L!Queued
<1>6. ToldAreQueued /\ SummonedAreTaken
  BY <1>1 DEF ToldAreQueued, SummonedAreTaken, Enters, Summoned
<1> QED
  BY <1>1, <1>2, <1>3, <1>4, <1>5, <1>6 DEF Settled

-----------------------------------------------------------------------------
(* One line of a client. *)

Done == ClientsStay /\ PeersStay /\ status' = "run" /\ Settled

LEMMA HandledIs ==
    ASSUME TypeOK, NEW c \in Live, NEW rest \in 0 .. MaxLines, NEW st \in States
    PROVE  /\ Handled(c, rest, st) \in Client
           /\ Handled(c, rest, st).socket = mem[c].socket
           /\ Handled(c, rest, st).name = mem[c].name
           /\ Handled(c, rest, st).type = mem[c].type
           /\ Handled(c, rest, st).state = st
<1>1. mem[c] \in Client
  BY ClientFacts
<1> QED
  BY <1>1 DEF Handled, Client, Levels

\* A write to a client stops the server or leaves the same descriptors open.
LEMMA WriteTo ==
    ASSUME TypeOK, NEW c \in Live, NEW Effect, Write(mem[c].socket, Effect)
    PROVE  Stopped \/ (PeersStay /\ status' = "run" /\ Effect)
<1>1. mem[c].socket \in Fd
  BY ClientFacts, Fields
<1> QED
  BY <1>1, WrittenKeepsOpen DEF Write, Stopped

LEMMA AnswerSettles ==
    ASSUME IInv, NEW c \in Live, NEW rest \in 0 .. MaxLines, NEW st \in States,
           Answer(c, rest, st),
           st = mem[c].state \/ (mem[c].state = "S_COURSE" /\ st = "DISCONNECT")
    PROVE  Stopped \/ Done
<1>1. SUFFICES ASSUME PeersStay, status' = "run", NoListChange,
                      mem' = [mem EXCEPT ![c] = Handled(c, rest, st)]
               PROVE  Done
  BY WriteTo DEF Answer, IInv
<1> DEFINE x == Handled(c, rest, st)
<1>2. /\ x \in Client /\ x.socket = mem[c].socket /\ x.name = mem[c].name
      /\ x.type = mem[c].type /\ x.state = st
  BY HandledIs DEF IInv
<1> HIDE DEF x
<1>3. ClientsStay /\ mem'[c] = x /\ \A a \in Live : a # c => mem'[a] = mem[a]
  BY <1>1, <1>2, ClientChanges DEF ClientsStay, IInv, x
<1>4. StatesFit'
  BY <1>2, <1>3 DEF IInv, StatesFit, ClientsStay
<1>5. Settled
  BY <1>1, <1>2, <1>3, <1>4, QuietSettles
<1> QED
  BY <1>1, <1>3, <1>5 DEF Done

LEMMA TakeNameSettles ==
    ASSUME IInv, NEW c \in Live, NEW rest \in 0 .. MaxLines, mem[c].state = "NAME",
           take_name(c, rest)
    PROVE  Stopped \/ Done
<1>1. PICK n \in Names :
         Write(mem[c].socket,
               /\ mem' = [mem EXCEPT ![c] = [Handled(c, rest, "TYPE") EXCEPT !.name = n]]
               /\ NoListChange)
  BY DEF take_name
<1>2. SUFFICES ASSUME PeersStay, status' = "run", NoListChange,
                      mem' = [mem EXCEPT ![c] = [Handled(c, rest, "TYPE") EXCEPT !.name = n]]
               PROVE  Done
  BY <1>1, WriteTo DEF IInv
<1> DEFINE x == [Handled(c, rest, "TYPE") EXCEPT !.name = n]
<1>3. /\ x \in Client /\ x.socket = mem[c].socket /\ x.name = n
      /\ x.type = mem[c].type /\ x.state = "TYPE"
  <2>1. "TYPE" \in States
    BY DEF States
  <2>2. /\ Handled(c, rest, "TYPE") \in Client
        /\ Handled(c, rest, "TYPE").socket = mem[c].socket
        /\ Handled(c, rest, "TYPE").type = mem[c].type
        /\ Handled(c, rest, "TYPE").state = "TYPE"
    BY <2>1, HandledIs DEF IInv
  <2> QED
    BY <2>2 DEF Client
<1> HIDE DEF x
<1>4. ClientsStay /\ mem'[c] = x /\ \A a \in Live : a # c => mem'[a] = mem[a]
  BY <1>2, <1>3, ClientChanges DEF ClientsStay, IInv, x
<1>5. mem[c].type = "N" /\ n # NULL
  BY ServerAssumption DEF IInv, StatesFit
<1>6. StatesFit'
  BY <1>3, <1>4, <1>5 DEF IInv, StatesFit, ClientsStay
<1>7. Settled
  BY <1>2, <1>3, <1>4, <1>5, <1>6, QuietSettles
<1> QED
  BY <1>2, <1>4, <1>7 DEF Done

\* The user is a TA from now on, and on the list.
LEMMA BecomesTa ==
    ASSUME IInv, NEW c \in Live, NEW rest \in 0 .. MaxLines, mem[c].state = "TYPE",
           Len(ta_list) < MaxTas,
           PeersStay, status' = "run",
           mem' = [mem EXCEPT ![c] = [Handled(c, rest, "T_COMMAND") EXCEPT !.type = "T"]],
           L!add_ta(mem[c].name), Track(c)
    PROVE  Done
<1> DEFINE x == [Handled(c, rest, "T_COMMAND") EXCEPT !.type = "T"]
           e == [name |-> mem[c].name, current_student |-> NULL]
<1>1. /\ x \in Client /\ x.socket = mem[c].socket /\ x.name = mem[c].name
      /\ x.type = "T" /\ x.state = "T_COMMAND"
  <2>1. "T_COMMAND" \in States
    BY DEF States
  <2>2. /\ Handled(c, rest, "T_COMMAND") \in Client
        /\ Handled(c, rest, "T_COMMAND").socket = mem[c].socket
        /\ Handled(c, rest, "T_COMMAND").name = mem[c].name
        /\ Handled(c, rest, "T_COMMAND").state = "T_COMMAND"
    BY <2>1, HandledIs DEF IInv
  <2> QED
    BY <2>2 DEF Client
<1> HIDE DEF x
<1>2. ClientsStay /\ mem'[c] = x /\ \A a \in Live : a # c => mem'[a] = mem[a]
  BY <1>1, ClientChanges DEF ClientsStay, IInv, x
<1>3. mem[c].type = "N" /\ mem[c].name # NULL /\ mem[c].name \in Names /\ c \in Addr
  <2>1. mem[c].type = "N" /\ mem[c].name # NULL
    BY DEF IInv, StatesFit
  <2> QED
    BY <2>1, ClientFacts, Fields DEF IInv
<1>4. StatesFit'
  <2>1. \A a \in Live : a # c =>
            /\ mem'[a].name = NULL => mem'[a].state = "NAME"
            /\ mem'[a].state \in {"NAME", "TYPE"} => mem'[a].type = "N"
            /\ mem'[a].state \in {"S_COURSE", "S_COMMAND"} => mem'[a].type = "S"
            /\ mem'[a].state = "T_COMMAND" => mem'[a].type = "T"
    BY <1>2 DEF IInv, StatesFit
  <2>2. mem'[c].name # NULL /\ mem'[c].type = "T" /\ mem'[c].state = "T_COMMAND"
    BY <1>1, <1>2, <1>3
  <2>3. Live' = Live
    BY <1>2 DEF ClientsStay
  <2> QED
    BY <2>1, <2>2, <2>3 DEF StatesFit
<1>5. /\ ta_list' = L!Cons(e, ta_list) /\ student' = student /\ stu_list' = stu_list
      /\ e \in L!Ta /\ e.name = mem[c].name /\ ta_list \in Seq(L!Ta)
  <2>1. e \in L!Ta /\ e.name = mem[c].name
    BY <1>3 DEF L!Ta
  <2>2. ta_list \in Seq(L!Ta)
    BY ListFacts DEF IInv, L!TypeOK
  <2> QED
    BY <2>1, <2>2 DEF L!add_ta
<1> HIDE DEF e
<1>6. L!process_args
  BY <1>3 DEF L!process_args
<1>7. OwnersTyped' /\ \A s \in SAddr : student[s] # L!Freed => owner'[s] = owner[s]
  BY <1>3, <1>5, TrackFacts DEF IInv
<1>8. RosterMatchesClients'
  <2>1. ASSUME NEW n \in Names
        PROVE  Cardinality(Named(ta_list', n)) = Cardinality(TasNamed(n)')
    <3>1. Cardinality(Named(ta_list', n))
              = Cardinality(Named(ta_list, n)) + (IF e.name = n THEN 1 ELSE 0)
      BY <1>5, SameCons, CountWithNew
    <3>2. Cardinality(Named(ta_list, n)) = Cardinality(TasNamed(n))
      BY RosterIs DEF IInv
    <3>3. IsFiniteSet(TasNamed(n)) /\ Cardinality(TasNamed(n)) \in Nat
      <4>1. TasNamed(n) \in SUBSET Addr
        BY ClientFacts DEF TasNamed, IInv
      <4> QED
        BY <4>1, ServerAssumption, FS_Subset, FS_CardinalityType
    <3>4. CASE mem[c].name = n
      <4>1. TasNamed(n)' = TasNamed(n) \cup {c} /\ c \notin TasNamed(n)
        BY <1>1, <1>2, <1>3, <3>4 DEF TasNamed, ClientsStay
      <4>2. Cardinality(TasNamed(n) \cup {c}) = Cardinality(TasNamed(n)) + 1
        BY <3>3, <4>1, FS_AddElement
      <4> QED
        BY <1>5, <3>1, <3>2, <3>4, <4>1, <4>2
    <3>5. CASE mem[c].name # n
      <4>1. TasNamed(n)' = TasNamed(n)
        BY <1>1, <1>2, <1>3, <3>5 DEF TasNamed, ClientsStay
      <4> QED
        BY <1>5, <3>1, <3>2, <3>3, <3>5, <4>1
    <3> QED
      BY <3>4, <3>5
  <2> QED
    BY <2>1, RosterIsNext
<1>9. QueueEntriesHaveClients'
  <2>1. ASSUME NEW j \in Entries'
        PROVE  /\ j \in Entries
               /\ Stays(j, j) /\ owner'[stu_list[j]] = owner[stu_list[j]]
               /\ owner[stu_list[j]] \in Live'
               /\ mem'[owner[stu_list[j]]].type = mem[owner[stu_list[j]]].type
               /\ mem'[owner[stu_list[j]]].state = mem[owner[stu_list[j]]].state
               /\ mem'[owner[stu_list[j]]].name = mem[owner[stu_list[j]]].name
    <3>1. j \in Entries
      BY <1>5 DEF Entries
    <3>2. owner[stu_list[j]] \in Live /\ owner[stu_list[j]] # c
      BY <1>3, <3>1 DEF IInv, QueueEntriesHaveClients, Entries
    <3>3. owner'[stu_list[j]] = owner[stu_list[j]]
      BY <1>7, <3>1, ListFacts DEF IInv
    <3> QED
      BY <1>2, <1>5, <3>1, <3>2, <3>3 DEF Stays, ClientsStay
  <2> QED
    BY <2>1, EntriesKept
<1>10. OnlyOwnGivesUp
  BY <1>5 DEF OnlyOwnGivesUp, L!Queued
<1>11. ToldAreQueued /\ SummonedAreTaken
  BY <1>1, <1>2 DEF ToldAreQueued, SummonedAreTaken, Enters, Summoned
<1>12. Settled
  BY <1>4, <1>6, <1>7, <1>8, <1>9, <1>10, <1>11 DEF Settled
<1> QED
  BY <1>2, <1>12 DEF Done

LEMMA TakeTypeSettles ==
    ASSUME IInv, NEW c \in Live, NEW rest \in 0 .. MaxLines, mem[c].state = "TYPE",
           take_type(c, rest)
    PROVE  Stopped \/ Done
<1>1. CASE Answer(c, rest, "TYPE")
  <2>1. "TYPE" \in States
    BY DEF States
  <2> QED
    BY <1>1, <2>1, AnswerSettles
<1>2. CASE Len(ta_list) < MaxTas /\
           Write(mem[c].socket,
                 /\ mem' = [mem EXCEPT ![c] = [Handled(c, rest, "T_COMMAND") EXCEPT !.type = "T"]]
                 /\ L!add_ta(mem[c].name)
                 /\ Track(c))
  <2>1. SUFFICES ASSUME PeersStay, status' = "run",
                mem' = [mem EXCEPT ![c] = [Handled(c, rest, "T_COMMAND") EXCEPT !.type = "T"]],
                L!add_ta(mem[c].name), Track(c)
         PROVE  Done
    BY <1>2, WriteTo DEF IInv
  <2> QED
    BY <1>2, <2>1, BecomesTa
<1>3. CASE Write(mem[c].socket,
             /\ mem' = [mem EXCEPT ![c] = [Handled(c, rest, "S_COURSE") EXCEPT !.type = "S"]]
             /\ NoListChange)
  <2>1. SUFFICES ASSUME PeersStay, status' = "run", NoListChange,
                mem' = [mem EXCEPT ![c] = [Handled(c, rest, "S_COURSE") EXCEPT !.type = "S"]]
         PROVE  Done
    BY <1>3, WriteTo DEF IInv
  <2> DEFINE x == [Handled(c, rest, "S_COURSE") EXCEPT !.type = "S"]
  <2>2. /\ x \in Client /\ x.socket = mem[c].socket /\ x.name = mem[c].name
        /\ x.type = "S" /\ x.state = "S_COURSE"
    <3>1. "S_COURSE" \in States
      BY DEF States
    <3>2. /\ Handled(c, rest, "S_COURSE") \in Client
          /\ Handled(c, rest, "S_COURSE").socket = mem[c].socket
          /\ Handled(c, rest, "S_COURSE").name = mem[c].name
          /\ Handled(c, rest, "S_COURSE").state = "S_COURSE"
      BY <3>1, HandledIs DEF IInv
    <3> QED
      BY <3>2 DEF Client
  <2> HIDE DEF x
  <2>3. ClientsStay /\ mem'[c] = x /\ \A a \in Live : a # c => mem'[a] = mem[a]
    BY <2>1, <2>2, ClientChanges DEF ClientsStay, IInv, x
  <2>4. mem[c].type = "N" /\ mem[c].name # NULL
    BY DEF IInv, StatesFit
  <2>5. StatesFit'
    BY <2>2, <2>3, <2>4 DEF IInv, StatesFit, ClientsStay
  <2>6. RosterMatchesClients'
    <3>1. \A n \in Names : TasNamed(n)' = TasNamed(n)
      BY <2>2, <2>3, <2>4 DEF TasNamed, ClientsStay
    <3> QED
      BY <2>1, <3>1, RosterKept DEF NoListChange, lists, Tas
  <2>7. /\ student' = student /\ stu_list' = stu_list /\ owner' = owner /\ lists' = lists
    BY <2>1 DEF NoListChange, lists
  <2>8. QueueEntriesHaveClients'
    <3>1. ASSUME NEW j \in Entries'
          PROVE  /\ j \in Entries
                 /\ Stays(j, j) /\ owner'[stu_list[j]] = owner[stu_list[j]]
                 /\ owner[stu_list[j]] \in Live'
                 /\ mem'[owner[stu_list[j]]].type = mem[owner[stu_list[j]]].type
                 /\ mem'[owner[stu_list[j]]].state = mem[owner[stu_list[j]]].state
                 /\ mem'[owner[stu_list[j]]].name = mem[owner[stu_list[j]]].name
      <4>1. j \in Entries
        BY <2>7 DEF Entries
      <4>2. owner[stu_list[j]] \in Live /\ owner[stu_list[j]] # c
        BY <2>4, <4>1 DEF IInv, QueueEntriesHaveClients, Entries
      <4> QED
        BY <2>3, <2>7, <4>1, <4>2 DEF Stays, ClientsStay
    <3> QED
      BY <3>1, EntriesKept
  <2>9. OnlyOwnGivesUp /\ OwnersTyped'
    BY <2>7 DEF OnlyOwnGivesUp, L!Queued, OwnersTyped, IInv, TypeOK
  <2>10. ToldAreQueued /\ SummonedAreTaken
    BY <2>2, <2>3 DEF ToldAreQueued, SummonedAreTaken, Enters, Summoned
  <2> QED
    BY <2>1, <2>3, <2>5, <2>6, <2>7, <2>8, <2>9, <2>10 DEF Done, Settled
<1> QED
  BY <1>1, <1>2, <1>3 DEF take_type

\* The user is entered into the queue, or told so although the name is there.
LEMMA EntersQueue ==
    ASSUME IInv, NEW c \in Live, NEW rest \in 0 .. MaxLines, mem[c].state = "S_COURSE",
           NEW course \in Courses, PeersStay, status' = "run",
           L!add_student(mem[c].name, course), Track(c),
           mem' = [mem EXCEPT ![c] = Handled(c, rest, "S_COMMAND")]
    PROVE  Done
<1> DEFINE x == Handled(c, rest, "S_COMMAND")
           n == mem[c].name
<1>1. /\ x \in Client /\ x.socket = mem[c].socket /\ x.name = n
      /\ x.type = mem[c].type /\ x.state = "S_COMMAND"
  <2>1. "S_COMMAND" \in States
    BY DEF States
  <2> QED
    BY <2>1, HandledIs DEF IInv
<1> HIDE DEF x
<1>2. ClientsStay /\ mem'[c] = x /\ \A a \in Live : a # c => mem'[a] = mem[a]
  BY <1>1, ClientChanges DEF ClientsStay, IInv, x
<1>3. mem[c].type = "S" /\ n # NULL /\ n \in Names /\ c \in Addr
  <2>1. mem[c].type = "S" /\ n # NULL
    BY DEF IInv, StatesFit
  <2> QED
    BY <2>1, ClientFacts, Fields DEF IInv
<1>4. StatesFit'
  <2>1. \A a \in Live : a # c =>
            /\ mem'[a].name = NULL => mem'[a].state = "NAME"
            /\ mem'[a].state \in {"NAME", "TYPE"} => mem'[a].type = "N"
            /\ mem'[a].state \in {"S_COURSE", "S_COMMAND"} => mem'[a].type = "S"
            /\ mem'[a].state = "T_COMMAND" => mem'[a].type = "T"
    BY <1>2 DEF IInv, StatesFit
  <2>2. mem'[c].name # NULL /\ mem'[c].type = "S" /\ mem'[c].state = "S_COMMAND" /\ Live' = Live
    BY <1>1, <1>2, <1>3 DEF ClientsStay
  <2> QED
    BY <2>1, <2>2 DEF StatesFit
<1>5. L!process_args
  BY <1>3 DEF L!process_args
<1>6. /\ OwnersTyped'
      /\ \A s \in SAddr : student[s] # L!Freed /\ student'[s] # L!Freed => owner'[s] = owner[s]
      /\ \A s \in SAddr : student[s] = L!Freed /\ student'[s] # L!Freed => owner'[s] = c
  BY <1>3, TrackFacts DEF IInv
<1>7. /\ ta_list' = ta_list
      /\ \/ L!InQueue(n) /\ UNCHANGED lists
         \/ \E s \in SAddr :
              /\ student[s] = L!Freed
              /\ student'[s] = [name |-> n, course |-> course]
              /\ Entries' = 1 .. Len(stu_list) + 1
              /\ stu_list'[Len(stu_list) + 1] = s
              /\ \A j \in Entries : j # Len(stu_list) + 1 /\ j \in Entries' /\ Stays(j, j)
  BY <1>3, AddStudentGives DEF IInv
<1>8. RosterMatchesClients'
  <2>1. \A m \in Names : TasNamed(m)' = TasNamed(m)
    BY <1>1, <1>2, <1>3 DEF TasNamed, ClientsStay
  <2> QED
    BY <1>7, <2>1, RosterKept DEF Tas
<1>9. ASSUME NEW j \in Entries, Stays(j, j) PROVE HasClient(j)'
  <2>1. owner[stu_list[j]] \in Live /\ mem[owner[stu_list[j]]].state = "S_COMMAND"
    BY EntriesAre DEF IInv, HasClient
  <2>2. owner[stu_list[j]] # c
    BY <2>1
  <2>3. student[stu_list[j]] # L!Freed /\ stu_list[j] \in SAddr
    BY ListFacts DEF IInv
  <2>4. student'[stu_list[j]] = student[stu_list[j]]
    BY <1>9 DEF Stays
  <2>5. owner'[stu_list[j]] = owner[stu_list[j]]
    BY <1>6, <2>3, <2>4
  <2> QED
    BY <1>2, <1>9, <2>1, <2>2, <2>5, EntryKept DEF ClientsStay
<1>10. ASSUME NEW a \in Addr, Enters(a) PROVE a = c
  BY <1>2, <1>10 DEF Enters
<1>11. SummonedAreTaken
  BY <1>1, <1>2 DEF SummonedAreTaken, Summoned
<1>12. CASE L!InQueue(n) /\ UNCHANGED lists
  <2>1. student' = student /\ stu_list' = stu_list /\ Entries' = Entries
    BY <1>12 DEF lists, Entries
  <2>2. QueueEntriesHaveClients'
    BY <1>9, <2>1, EntriesAre DEF Stays
  <2>3. OnlyOwnGivesUp
    BY <2>1 DEF OnlyOwnGivesUp, L!Queued
  <2>4. ToldAreQueued
    <3>1. SUFFICES ASSUME OwnName(c) PROVE FALSE
      BY <1>10 DEF ToldAreQueued, Enters
    <3>2. PICK i \in Entries : student[stu_list[i]].name = n
      BY <1>12 DEF L!InQueue, Entries
    <3>3. HasClient(i)
      BY EntriesAre DEF IInv
    <3>4. owner[stu_list[i]] = c
      BY <3>1, <3>2, <3>3 DEF OwnName, HasClient
    <3> QED
      BY <3>3, <3>4 DEF HasClient
  <2> QED
    BY <1>2, <1>4, <1>5, <1>6, <1>8, <1>11, <2>2, <2>3, <2>4 DEF Done, Settled
<1>13. ASSUME NEW s \in SAddr,
              student[s] = L!Freed,
              student'[s] = [name |-> n, course |-> course],
              Entries' = 1 .. Len(stu_list) + 1,
              stu_list'[Len(stu_list) + 1] = s,
              \A j \in Entries : j # Len(stu_list) + 1 /\ j \in Entries' /\ Stays(j, j)
       PROVE  Done
  <2>1. student'[s] # L!Freed /\ student'[s].name = n
    BY <1>3, <1>13, ServerAssumption DEF L!Freed
  <2>2. owner'[s] = c
    BY <1>6, <1>13, <2>1
  <2>3. ASSUME NEW l, l = Len(stu_list) + 1
        PROVE  HasClient(l)' /\ owner'[stu_list'[l]] = c
    <3>1. stu_list'[l] = s
      BY <1>13, <2>3
    <3>2. mem'[c].type = "S" /\ mem'[c].state = "S_COMMAND" /\ mem'[c].name = n /\ c \in Live'
      BY <1>1, <1>2, <1>3 DEF ClientsStay
    <3> QED
      BY <2>1, <2>2, <3>1, <3>2 DEF HasClient
  <2>4. QueueEntriesHaveClients'
    <3>1. ASSUME NEW j \in Entries' PROVE HasClient(j)'
      <4>1. j \in Entries \/ j = Len(stu_list) + 1
        BY <1>13, ListFacts DEF IInv
      <4> QED
        BY <1>9, <1>13, <2>3, <4>1
    <3> QED
      BY <3>1, EntriesAre
  <2>5. OnlyOwnGivesUp
    <3>1. \A j \in Entries : stu_list[j] \in L!Queued'
      BY <1>13 DEF Stays, L!Queued, Entries
    <3> QED
      BY <3>1 DEF OnlyOwnGivesUp, L!Queued, Entries
  <2>6. ToldAreQueued
    <3>1. Len(stu_list) + 1 \in Entries'
      BY <1>13, ListFacts DEF IInv
    <3>2. owner'[stu_list'[Len(stu_list) + 1]] = c
      BY <2>3
    <3> QED
      BY <1>10, <3>1, <3>2 DEF ToldAreQueued
  <2> QED
    BY <1>2, <1>4, <1>5, <1>6, <1>8, <1>11, <2>4, <2>5, <2>6 DEF Done, Settled
<1> QED
  BY <1>7, <1>12, <1>13

\* A TA takes the head of the queue, and whoever has its name is told so.
LEMMA TakesHead ==
    ASSUME IInv, NEW c \in Live, mem[c].state = "T_COMMAND",
           L!next_overall(mem[c].name), Track(c), ClientsStay,
           \A a \in Live :
              /\ mem'[a].name = mem[a].name /\ mem'[a].type = mem[a].type
              /\ \/ mem'[a].state = mem[a].state
                 \/ /\ mem'[a].state = "DISCONNECT" /\ stu_list # << >>
                    /\ mem[a].name = student[stu_list[1]].name
    PROVE  Settled
<1> DEFINE n == mem[c].name
<1>1. n \in Names /\ L!OnRoster(n) /\ c \in Addr
  <2>1. mem[c].type = "T"
    BY DEF IInv, StatesFit
  <2> QED
    BY <2>1, TaIsListed, ClientFacts DEF IInv
<1>2. /\ \A i \in Tas : ta_list'[i].name = ta_list[i].name
      /\ Tas' = Tas
      /\ \A j \in Entries' : \E k \in Entries : k # 1 /\ Stays(j, k)
      /\ \A k \in Entries : k # 1 => stu_list[k] \in L!Queued'
      /\ stu_list # << >> => stu_list[1] \in L!Served'
  BY <1>1, NextGives DEF IInv
<1>3. /\ OwnersTyped'
      /\ \A s \in SAddr : student[s] # L!Freed /\ student'[s] # L!Freed => owner'[s] = owner[s]
  BY <1>1, TrackFacts DEF IInv
<1>4. StatesFit'
  <2>1. ASSUME NEW a \in Live
        PROVE  /\ mem'[a].name = NULL => mem'[a].state = "NAME"
               /\ mem'[a].state \in {"NAME", "TYPE"} => mem'[a].type = "N"
               /\ mem'[a].state \in {"S_COURSE", "S_COMMAND"} => mem'[a].type = "S"
               /\ mem'[a].state = "T_COMMAND" => mem'[a].type = "T"
    <3>1. CASE mem'[a].state = mem[a].state
      BY <3>1 DEF IInv, StatesFit
    <3>2. CASE mem'[a].state = "DISCONNECT" /\ stu_list # << >> /\ mem[a].name = student[stu_list[1]].name
      <4>1. student[stu_list[1]].name \in Names
        BY <3>2, ListFacts, EmptySeq DEF IInv, L!TypeOK
      <4> QED
        BY <3>2, <4>1, ServerAssumption
    <3> QED
      BY <3>1, <3>2
  <2> QED
    BY <2>1 DEF StatesFit, ClientsStay
<1>5. L!process_args
  BY <1>1 DEF L!process_args
<1>6. RosterMatchesClients'
  <2>1. \A m \in Names : TasNamed(m)' = TasNamed(m)
    BY DEF TasNamed, ClientsStay
  <2> QED
    BY <1>2, <2>1, RosterKept
<1>7. \A k \in Entries : 1 \in Entries /\ stu_list # << >>
  BY ListFacts, EmptySeq DEF IInv, L!TypeOK
<1>8. QueueEntriesHaveClients'
  <2>1. ASSUME NEW j \in Entries' PROVE HasClient(j)'
    <3>1. PICK k \in Entries : k # 1 /\ Stays(j, k)
      BY <1>2
    <3>2. HasClient(k)
      BY EntriesAre DEF IInv
    <3>3. student[stu_list[k]].name # student[stu_list[1]].name
      BY <1>7, <3>1, ListFacts DEF IInv
    <3>4. owner[stu_list[k]] \in Live /\ mem[owner[stu_list[k]]].name # student[stu_list[1]].name
      BY <3>2, <3>3 DEF HasClient
    <3>5. student[stu_list[k]] # L!Freed /\ stu_list[k] \in SAddr /\ student'[stu_list[k]] = student[stu_list[k]]
      BY <3>1, ListFacts DEF IInv, Stays
    <3>6. owner'[stu_list[k]] = owner[stu_list[k]]
      BY <1>3, <3>5
    <3>7. /\ mem'[owner[stu_list[k]]].type = mem[owner[stu_list[k]]].type
          /\ mem'[owner[stu_list[k]]].state = mem[owner[stu_list[k]]].state
          /\ mem'[owner[stu_list[k]]].name = mem[owner[stu_list[k]]].name
          /\ owner[stu_list[k]] \in Live'
      BY <3>4 DEF ClientsStay
    <3> QED
      BY <3>1, <3>6, <3>7, EntryKept
  <2> QED
    BY <2>1, EntriesAre
<1>9. OnlyOwnGivesUp
  <2>1. ASSUME NEW s \in L!Queued, s \notin L!Queued' PROVE s \in L!Served'
    <3>1. PICK k \in Entries : s = stu_list[k]
      BY DEF L!Queued, Entries
    <3> QED
      BY <1>2, <1>7, <2>1, <3>1
  <2> QED
    BY <2>1 DEF OnlyOwnGivesUp
<1>10. ToldAreQueued
  BY DEF ToldAreQueued, Enters
<1>11. SummonedAreTaken
  <2>1. SUFFICES ASSUME NEW a \in Addr, Summoned(a)
                 PROVE  \E s \in L!Queued : owner[s] = a /\ s \in L!Served'
    BY DEF SummonedAreTaken
  <2>2. a \in Live /\ mem[a].name = student[stu_list[1]].name /\ stu_list # << >>
    BY <2>1 DEF Summoned
  <2>3. 1 \in Entries
    BY <2>2, ListFacts, EmptySeq DEF IInv, L!TypeOK
  <2>4. HasClient(1)
    BY <2>3, EntriesAre DEF IInv
  <2>5. owner[stu_list[1]] = a
    BY <2>1, <2>2, <2>4 DEF Summoned, OwnName, HasClient
  <2> QED
    BY <1>2, <2>2, <2>3, <2>5 DEF L!Queued, Entries
<1> QED
  BY <1>3, <1>4, <1>5, <1>6, <1>8, <1>9, <1>10, <1>11 DEF Settled

LEMMA NextSettles ==
    ASSUME IInv, NEW c \in Live, NEW rest \in 0 .. MaxLines, mem[c].state = "T_COMMAND",
           status = "run", next(c, rest)
    PROVE  Stopped \/ Done
<1> DEFINE h == Handled(c, rest, mem[c].state)
<1>1. /\ h \in Client /\ h.socket = mem[c].socket /\ h.name = mem[c].name
      /\ h.type = mem[c].type /\ h.state = mem[c].state
  <2>1. mem[c].state \in States
    BY ClientFacts, Fields DEF IInv
  <2> QED
    BY <2>1, HandledIs DEF IInv
<1> HIDE DEF h
<1>2. mem \in [Addr -> Memory] /\ c \in Addr
  BY ClientFacts DEF IInv
<1>3. CASE /\ stu_list = << >>
           /\ mem' = [mem EXCEPT ![c] = h]
           /\ L!next_overall(mem[c].name)
           /\ Track(c)
           /\ UNCHANGED <<peer, status>>
  <2>1. ClientsStay /\ mem'[c] = h /\ \A a \in Live : a # c => mem'[a] = mem[a]
    BY <1>1, <1>3, ClientChanges DEF ClientsStay, IInv
  <2>2. PeersStay
    BY <1>3 DEF PeersStay, IInv, TypeOK
  <2>3. Settled
    BY <1>1, <1>3, <2>1, TakesHead
  <2> QED
    BY <1>3, <2>1, <2>2, <2>3 DEF Done
<1>4. ASSUME NEW s \in find_client_student(stu_list[1]), s \in Addr, stu_list # << >>,
             Write(mem[s].socket,
                   /\ mem' = [mem EXCEPT ![c] = h, ![s].state = "DISCONNECT"]
                   /\ L!next_overall(mem[c].name)
                   /\ Track(c))
      PROVE  Stopped \/ Done
  <2>1. s \in Live /\ mem[s].name = student[stu_list[1]].name
    BY <1>4, WalkFinds DEF find_client_student
  <2>2. SUFFICES ASSUME PeersStay, status' = "run",
                        mem' = [mem EXCEPT ![c] = h, ![s].state = "DISCONNECT"],
                        L!next_overall(mem[c].name), Track(c)
                 PROVE  Done
    BY <1>4, <2>1, WriteTo DEF IInv
  <2> DEFINE was == IF s = c THEN h ELSE mem[s]
             told == [was EXCEPT !.state = "DISCONNECT"]
  <2>3. \A a \in Addr : mem'[a] = IF a = s THEN told ELSE IF a = c THEN h ELSE mem[a]
    BY <1>2, <1>4, <2>2
  <2>4. /\ told \in Client /\ told.socket = mem[s].socket /\ told.name = mem[s].name
        /\ told.type = mem[s].type /\ told.state = "DISCONNECT"
    <3>1. /\ was \in Client /\ was.socket = mem[s].socket /\ was.name = mem[s].name
          /\ was.type = mem[s].type
      BY <1>1, <2>1, ClientFacts DEF IInv
    <3>2. "DISCONNECT" \in States
      BY DEF States
    <3> HIDE DEF was
    <3> QED
      BY <3>1, <3>2 DEF Client
  <2> HIDE DEF told
  <2>5. \A a \in Live : /\ a \in Addr /\ mem'[a] \in Client /\ mem'[a].socket = mem[a].socket
                        /\ mem'[a].name = mem[a].name /\ mem'[a].type = mem[a].type
                        /\ a # s => mem'[a].state = mem[a].state
                        /\ a = s => mem'[a].state = "DISCONNECT"
    BY <1>1, <2>3, <2>4, ClientFacts DEF IInv
  <2>6. \A a \in Addr \ Live : mem'[a] = mem[a]
    BY <2>1, <2>3
  <2>7. mem' \in [Addr -> Memory]
    <3>1. DOMAIN mem' = Addr /\ mem' = [a \in Addr |-> mem'[a]]
      BY <1>2, <2>2
    <3>2. \A a \in Addr : mem'[a] \in Memory
      BY <1>2, <2>5, <2>6 DEF Memory
    <3> QED
      BY <3>1, <3>2
  <2>8. Live' = Live
    BY <2>5, <2>6, Fields DEF Live
  <2>9. ClientsStay
    BY <2>5, <2>7, <2>8 DEF ClientsStay
  <2>10. Settled
    BY <1>4, <2>1, <2>2, <2>5, <2>9, TakesHead
  <2> QED
    BY <2>2, <2>9, <2>10 DEF Done
<1>5. ASSUME NEW s \in find_client_student(stu_list[1]), Mishap(s) \/ (s = NULL /\ Halt("crashed"))
      PROVE  Stopped
  BY <1>5 DEF Mishap, Stopped
<1> QED
  BY <1>3, <1>4, <1>5 DEF next, h

LEMMA CommandSettles ==
    ASSUME IInv, NEW c \in Live, NEW rest \in 0 .. MaxLines, status = "run", command(c, rest)
    PROVE  Stopped \/ Done
<1>1. {"DISCONNECT", "S_COMMAND", "T_COMMAND"} \subseteq States
  BY DEF States
<1>2. CASE mem[c].state = "NAME" /\ take_name(c, rest)
  BY <1>2, TakeNameSettles
<1>3. CASE mem[c].state = "TYPE" /\ take_type(c, rest)
  BY <1>3, TakeTypeSettles
<1>4. CASE mem[c].state = "S_COURSE" /\ take_course(c, rest)
  <2>1. CASE Answer(c, rest, "DISCONNECT")
    BY <1>1, <1>4, <2>1, AnswerSettles
  <2>2. ASSUME NEW course \in Courses,
               Write(mem[c].socket,
                     /\ L!add_student(mem[c].name, course)
                     /\ Track(c)
                     /\ mem' = [mem EXCEPT ![c] = Handled(c, rest, "S_COMMAND")])
        PROVE  Stopped \/ Done
    <3>1. SUFFICES ASSUME PeersStay, status' = "run",
                          L!add_student(mem[c].name, course), Track(c),
                          mem' = [mem EXCEPT ![c] = Handled(c, rest, "S_COMMAND")]
                   PROVE  Done
      BY <2>2, WriteTo DEF IInv
    <3> QED
      BY <1>4, <3>1, EntersQueue
  <2> QED
    BY <1>4, <2>1, <2>2 DEF take_course
<1>5. CASE mem[c].state = "S_COMMAND" /\ Answer(c, rest, "S_COMMAND")
  BY <1>1, <1>5, AnswerSettles
<1>6. CASE mem[c].state = "T_COMMAND" /\ next(c, rest)
  BY <1>6, NextSettles
<1>7. CASE mem[c].state = "T_COMMAND" /\ Answer(c, rest, "T_COMMAND")
  BY <1>1, <1>7, AnswerSettles
<1> QED
  BY <1>2, <1>3, <1>4, <1>5, <1>6, <1>7 DEF command

\* A read leaves lines and a level in the buffer.
LEMMA ReadGives ==
    ASSUME TypeOK, NEW c \in Live, ~TooLong(c),
           NEW got \in IF AtEof(mem[c].socket) THEN {<<mem[c].lines, mem[c].level>>} ELSE AfterRead(c)
    PROVE  got[1] \in 0 .. MaxLines /\ got[2] \in Levels
<1>1. mem[c].lines \in 0 .. MaxLines /\ mem[c].level \in Levels /\ MaxLines \in Nat
  BY ClientFacts, Fields, ServerAssumption
<1>2. CASE AtEof(mem[c].socket)
  BY <1>1, <1>2
<1>3. CASE ~AtEof(mem[c].socket) /\ mem[c].level = "mute"
  <2>1. AfterRead(c) = {<<0, "over">>}
    BY <1>3 DEF AfterRead
  <2> QED
    BY <1>1, <1>3, <2>1 DEF Levels
<1>4. CASE ~AtEof(mem[c].socket) /\ mem[c].level = "fits"
  <2>1. got \in ((mem[c].lines .. MaxLines) \X {"fits"})
                 \cup (IF Overlong THEN {0} \X {"mute", "over"} ELSE {})
    BY <1>4 DEF AfterRead
  <2>2. CASE got \in (mem[c].lines .. MaxLines) \X {"fits"}
    BY <1>1, <2>2 DEF Levels
  <2>3. CASE got \in {0} \X {"mute", "over"}
    BY <1>1, <2>3 DEF Levels
  <2> QED
    BY <2>1, <2>2, <2>3
<1> QED
  BY <1>1, <1>2, <1>3, <1>4 DEF TooLong, Levels

LEMMA HandleSettles ==
    ASSUME IInv, NEW c \in Live, status = "run", handle_client(c)
    PROVE  \/ remove_client(c)
           \/ Stopped
           \/ Done /\ Consume(mem[c].socket) /\ Proceed(mem[c].socket)
                   /\ UNCHANGED <<client_list, backlog>>
<1> DEFINE fd == mem[c].socket
<1>1. CASE TooLong(c) /\ remove_client(c)
  BY <1>1
<1>2. CASE Halt("exited")
  BY <1>2 DEF Stopped
<1>3. ASSUME ~TooLong(c),
             NEW got \in IF AtEof(fd) THEN {<<mem[c].lines, mem[c].level>>} ELSE AfterRead(c),
             IF got[1] > 0
               THEN command(c, got[1] - 1)
               ELSE /\ mem' = [mem EXCEPT ![c].lines = 0, ![c].level = got[2]]
                    /\ NoListChange /\ UNCHANGED <<peer, status>>,
             IF status' = "run"
               THEN Consume(fd) /\ Proceed(fd) /\ UNCHANGED <<client_list, backlog>>
               ELSE TRUE
      PROVE  \/ Stopped
             \/ Done /\ Consume(fd) /\ Proceed(fd) /\ UNCHANGED <<client_list, backlog>>
  <2>1. got[1] \in 0 .. MaxLines /\ got[2] \in Levels /\ MaxLines \in Nat
    BY <1>3, ReadGives, ServerAssumption DEF IInv
  <2>2. Stopped \/ Done
    <3>1. CASE got[1] > 0
      <4>1. got[1] - 1 \in 0 .. MaxLines /\ command(c, got[1] - 1)
        BY <1>3, <2>1, <3>1
      <4> QED
        BY <4>1, CommandSettles
    <3>2. CASE ~(got[1] > 0)
      <4> DEFINE x == [mem[c] EXCEPT !.lines = 0, !.level = got[2]]
      <4>1. mem' = [mem EXCEPT ![c] = x] /\ NoListChange /\ peer' = peer /\ status' = "run"
        BY <1>3, <3>2
      <4>2. /\ x \in Client /\ x.socket = mem[c].socket /\ x.name = mem[c].name
            /\ x.type = mem[c].type /\ x.state = mem[c].state
        <5> DEFINE y == [mem[c] EXCEPT !.lines = 0]
        <5>1. mem[c] \in Client /\ 0 \in 0 .. MaxLines
          BY <2>1, ClientFacts DEF IInv
        <5>2. /\ y \in Client /\ y.socket = mem[c].socket /\ y.name = mem[c].name
              /\ y.type = mem[c].type /\ y.state = mem[c].state
          BY <5>1 DEF Client
        <5>3. x = [y EXCEPT !.level = got[2]]
          OBVIOUS
        <5> HIDE DEF x, y
        <5> QED
          BY <2>1, <5>2, <5>3 DEF Client
      <4> HIDE DEF x
      <4>3. ClientsStay /\ mem'[c] = x /\ \A a \in Live : a # c => mem'[a] = mem[a]
        BY <4>1, <4>2, ClientChanges DEF ClientsStay, IInv
      <4>4. StatesFit'
        BY <4>2, <4>3 DEF IInv, StatesFit, ClientsStay
      <4>5. Settled
        BY <4>1, <4>2, <4>3, <4>4, QuietSettles
      <4>6. PeersStay
        BY <4>1 DEF PeersStay, IInv, TypeOK
      <4> QED
        BY <4>1, <4>3, <4>5, <4>6 DEF Done
    <3> QED
      BY <3>1, <3>2
  <2> QED
    BY <1>3, <2>2 DEF Done
<1> QED
  BY <1>1, <1>2, <1>3 DEF handle_client

-----------------------------------------------------------------------------
(* The steps of the server. *)

\* The invariant and the action properties, of one step.
Kept ==
    /\ IInv'
    /\ [L!process_args]_lists
    /\ OnlyOwnGivesUp /\ ToldAreQueued /\ SummonedAreTaken

\* The types of the variables that are not the lists'.
OuterTyped ==
    /\ status \in {"run", "exited", "crashed", "hung"}
    /\ mem \in [Addr -> Memory]
    /\ client_list \in Addr \cup {NULL}
    /\ ready \subseteq Fd \cup {ListenFd}
    /\ peer \in [Fd -> {"none", "open", "closed", "poked", "reset", "aborted"}]
    /\ unread \in [Fd -> 0 .. 1 + MaxUnread]
    /\ backlog \in 0 .. MaxBacklog

LEMMA TypeIs == OuterTyped /\ ListsKept /\ OwnersTyped => TypeOK
<1> SUFFICES ASSUME OuterTyped, ListsKept, OwnersTyped PROVE TypeOK
  OBVIOUS
<1>1. L!TypeOK
  BY ListFacts
<1> QED
  BY <1>1 DEF OuterTyped, OwnersTyped, TypeOK, Memory

LEMMA TypeNext == OuterTyped' /\ ListsKept' /\ OwnersTyped' => TypeOK'
  BY TypeIs, PTL

LEMMA SettledKeeps ==
    ASSUME IInv, Settled, OuterTyped', OneClientPerDescriptor', AcceptDue'
    PROVE  Kept
<1>1. ListsKept'
  BY OperationsKeep DEF IInv, Settled
<1>2. TypeOK'
  BY <1>1, TypeNext DEF Settled
<1> QED
  BY <1>1, <1>2 DEF Settled, Kept, IInv

LEMMA StoppedKeeps ==
    ASSUME IInv, Stopped
    PROVE  Kept
<1>1. /\ mem' = mem /\ client_list' = client_list /\ ready' = ready /\ peer' = peer
      /\ unread' = unread /\ backlog' = backlog /\ NoListChange
      /\ status' \in {"run", "exited", "crashed", "hung"}
  BY DEF Stopped, Halt, net, NoListChange
<1>2. OuterTyped' /\ OneClientPerDescriptor' /\ StatesFit' /\ ClientsStay /\ AcceptDue'
  BY <1>1 DEF IInv, TypeOK, OuterTyped, Memory, OneClientPerDescriptor, StatesFit, Live, ClientsStay,
              AcceptDue
<1>3. Settled
  BY <1>1, <1>2, QuietSettles
<1> QED
  BY <1>2, <1>3, SettledKeeps

\* The clients and the open descriptors stay; one more descriptor may be done.
LEMMA SameDescriptors ==
    ASSUME IInv, ClientsStay, PeersStay, ready' \subseteq ready
    PROVE  OneClientPerDescriptor'
<1>1. {mem[a].socket : a \in Live}' = {mem[a].socket : a \in Live}
  BY DEF ClientsStay
<1>2. {f \in Fd : peer[f] # "none"}' = {f \in Fd : peer[f] # "none"}
  BY DEF PeersStay
<1>3. \A a, b \in Live : mem[a].socket = mem[b].socket => a = b
  BY DEF IInv, OneClientPerDescriptor
<1>4. {mem[a].socket : a \in Live} = {f \in Fd : peer[f] # "none"}
  BY DEF IInv, OneClientPerDescriptor
<1>5. ready \subseteq {mem[a].socket : a \in Live} \cup {ListenFd}
  BY DEF IInv, OneClientPerDescriptor
<1>6. ready' \subseteq {mem[a].socket : a \in Live}' \cup {ListenFd}
  BY <1>1, <1>5
<1>7. \A a, b \in Live' : mem'[a].socket = mem'[b].socket => a = b
  BY <1>3 DEF ClientsStay
<1>8. {mem[a].socket : a \in Live}' = {f \in Fd : peer[f] # "none"}'
  BY <1>1, <1>2, <1>4
<1> QED
  BY <1>6, <1>7, <1>8 DEF OneClientPerDescriptor

LEMMA HandledKeeps ==
    ASSUME IInv, NEW fd \in Fd, Done, Consume(fd), Proceed(fd), UNCHANGED <<client_list, backlog>>
    PROVE  Kept
<1>1. ready' \subseteq ready
  BY DEF Proceed
<1>2. unread' \in [Fd -> 0 .. 1 + MaxUnread]
  <2>1. unread \in [Fd -> 0 .. 1 + MaxUnread] /\ MaxUnread \in Nat
    BY ServerAssumption DEF IInv, TypeOK
  <2>2. unread[fd] - 1 \in Int /\ 0 \in Int
    BY <2>1
  <2>3. Max({unread[fd] - 1, 0}) \in {unread[fd] - 1, 0} /\ Max({unread[fd] - 1, 0}) >= 0
    BY <2>2, MaxOfTwo
  <2>4. Max({unread[fd] - 1, 0}) \in 0 .. 1 + MaxUnread
    BY <2>1, <2>3
  <2> QED
    BY <2>1, <2>4 DEF Consume
<1>3. OuterTyped'
  BY <1>1, <1>2 DEF Done, ClientsStay, PeersStay, OuterTyped, IInv, TypeOK
<1>4. AcceptDue'
  BY <1>1 DEF AcceptDue, IInv
<1> QED
  BY <1>1, <1>3, <1>4, SameDescriptors, SettledKeeps DEF Done

\* What is left when client c is removed.
LEMMA RemovedClient ==
    ASSUME IInv, NEW c \in Live, mem' = [mem EXCEPT ![c] = Dead(mem[c].next)],
           CloseSocket(mem[c].socket)
    PROVE  /\ mem' \in [Addr -> Memory]
           /\ Live' = Live \ {c} /\ ~mem'[c].live
           /\ \A a \in Live : a # c => mem'[a] = mem[a]
           /\ peer' \in [Fd -> {"none", "open", "closed", "poked", "reset", "aborted"}]
           /\ unread' \in [Fd -> 0 .. 1 + MaxUnread]
           /\ {f \in Fd : peer[f] # "none"}' = {f \in Fd : peer[f] # "none"} \ {mem[c].socket}
<1>1. c \in Addr /\ mem[c] \in Client /\ mem[c].next \in Addr \cup {NULL} /\ mem[c].socket \in Fd
  BY ClientFacts, Fields DEF IInv
<1>2. mem' \in [Addr -> Memory]
  BY <1>1, ClientFacts DEF Memory, IInv
<1>3. mem'[c] = Dead(mem[c].next) /\ \A a \in Addr : a # c => mem'[a] = mem[a]
  BY <1>1, ClientFacts DEF IInv
<1>4. ~mem'[c].live
  BY <1>3 DEF Dead
<1>5. Live' = Live \ {c}
  BY <1>1, <1>3, <1>4 DEF Live
<1>6. /\ peer \in [Fd -> {"none", "open", "closed", "poked", "reset", "aborted"}]
      /\ unread \in [Fd -> 0 .. 1 + MaxUnread] /\ 0 \in 0 .. 1 + MaxUnread
  BY ServerAssumption DEF IInv, TypeOK
<1>7. /\ peer' = [peer EXCEPT ![mem[c].socket] = "none"]
      /\ unread' = [unread EXCEPT ![mem[c].socket] = 0]
  BY DEF CloseSocket
<1>8. /\ peer' \in [Fd -> {"none", "open", "closed", "poked", "reset", "aborted"}]
      /\ {f \in Fd : peer[f] # "none"}' = {f \in Fd : peer[f] # "none"} \ {mem[c].socket}
  BY <1>1, <1>6, <1>7
<1>9. unread' \in [Fd -> 0 .. 1 + MaxUnread]
  BY <1>6, <1>7
<1> QED
  BY <1>2, <1>3, <1>4, <1>5, <1>8, <1>9, ClientFacts DEF IInv

\* What LeaveLists does for each type of client.
LEMMA LeavesLists ==
    ASSUME IInv, NEW c \in Live, LeaveLists(c),
           Live' = Live \ {c}, \A a \in Live : a # c => mem'[a] = mem[a]
    PROVE  /\ [L!process_args]_lists
           /\ RosterMatchesClients'
           /\ \A j \in Entries' : \E k \in Entries : Stays(j, k) /\ owner[stu_list[k]] # c
           /\ \A k \in Entries : OwnName(owner[stu_list[k]]) /\ owner[stu_list[k]] # c
                                    => stu_list[k] \in L!Queued'
<1> DEFINE n == mem[c].name
<1>1. mem[c].type \in {"N", "S", "T"}
  BY ClientFacts, Fields DEF IInv
<1>2. \A k \in Entries : HasClient(k)
  BY EntriesAre DEF IInv
<1>3. mem[c].type # "T" => \A m \in Names : TasNamed(m)' = TasNamed(m)
  BY DEF TasNamed
<1>4. mem[c].type # "N" => n \in Names
  <2>1. mem[c].type # "N" => n # NULL
    BY DEF IInv, StatesFit
  <2> QED
    BY <2>1, ClientFacts, Fields DEF IInv
<1>5. CASE mem[c].type = "N"
  <2>1. UNCHANGED lists
    BY <1>5 DEF LeaveLists
  <2>2. student' = student /\ stu_list' = stu_list /\ ta_list' = ta_list
    BY <2>1 DEF lists
  <2>3. RosterMatchesClients'
    BY <1>3, <1>5, <2>2, RosterKept DEF Tas
  <2>4. \A k \in Entries : owner[stu_list[k]] # c
    BY <1>2, <1>5 DEF HasClient
  <2> QED
    BY <2>1, <2>2, <2>3, <2>4 DEF Stays, Entries, L!Queued
<1>6. CASE mem[c].type = "S"
  <2>1. L!give_up_waiting(n) /\ n \in Names
    BY <1>4, <1>6 DEF LeaveLists
  <2>2. L!process_args
    BY <2>1 DEF L!process_args
  <2>3. /\ ta_list' = ta_list
        /\ \A j \in Entries' : \E k \in Entries : Stays(j, k) /\ student[stu_list[k]].name # n
        /\ \A k \in Entries : student[stu_list[k]].name # n => stu_list[k] \in L!Queued'
    BY <2>1, GiveUpGives DEF IInv
  <2>4. RosterMatchesClients'
    BY <1>3, <1>6, <2>3, RosterKept DEF Tas
  <2>5. \A k \in Entries : student[stu_list[k]].name # n => owner[stu_list[k]] # c
    BY <1>2 DEF HasClient
  <2>6. ASSUME NEW k \in Entries, OwnName(owner[stu_list[k]]), owner[stu_list[k]] # c
        PROVE  stu_list[k] \in L!Queued'
    <3>1. mem[owner[stu_list[k]]].name # n
      BY <2>6 DEF OwnName
    <3>2. student[stu_list[k]].name # n
      BY <1>2, <3>1 DEF HasClient
    <3> QED
      BY <2>3, <3>2
  <2> QED
    BY <2>2, <2>3, <2>4, <2>5, <2>6
<1>7. CASE mem[c].type = "T"
  <2>1. L!remove_ta(n) /\ n \in Names /\ L!OnRoster(n)
    BY <1>4, <1>7, TaIsListed DEF LeaveLists
  <2>2. L!process_args
    BY <2>1 DEF L!process_args
  <2>3. /\ stu_list' = stu_list
        /\ \A j \in Entries : Stays(j, j)
    BY <2>1, RemoveTaGives DEF IInv
  <2>4. PICK i \in Tas : ta_list[i].name = n /\ ta_list' = L!RemoveAt(ta_list, i)
    BY <2>1, RemoveTaGives DEF IInv
  <2>5. \A k \in Entries : owner[stu_list[k]] # c
    BY <1>2, <1>7 DEF HasClient
  <2>6. RosterMatchesClients'
    <3>1. ASSUME NEW m \in Names
          PROVE  Cardinality(Named(ta_list', m)) = Cardinality(TasNamed(m)')
      <4>1. ta_list \in Seq(L!Ta) /\ i \in 1 .. Len(ta_list) /\ ta_list' = LP!RemoveAt(ta_list, i)
        BY <2>4, SameRemoveAt, ListFacts DEF IInv, L!TypeOK
      <4>2. Cardinality(Named(ta_list', m))
                = Cardinality(Named(ta_list, m)) - (IF ta_list[i].name = m THEN 1 ELSE 0)
        BY <4>1, CountWithout
      <4>3. Cardinality(Named(ta_list, m)) = Cardinality(TasNamed(m))
        BY RosterIs DEF IInv
      <4>4. IsFiniteSet(TasNamed(m)) /\ Cardinality(TasNamed(m)) \in Nat
        <5>1. TasNamed(m) \in SUBSET Addr
          BY ClientFacts DEF TasNamed, IInv
        <5> QED
          BY <5>1, ServerAssumption, FS_Subset, FS_CardinalityType
      <4>5. TasNamed(m)' = TasNamed(m) \ {c} /\ (c \in TasNamed(m) <=> n = m)
        BY <1>7 DEF TasNamed
      <4>6. Cardinality(TasNamed(m) \ {c})
                = IF c \in TasNamed(m) THEN Cardinality(TasNamed(m)) - 1 ELSE Cardinality(TasNamed(m))
        BY <4>4, FS_RemoveElement
      <4> QED
        BY <2>4, <4>2, <4>3, <4>4, <4>5, <4>6
    <3> QED
      BY <3>1, RosterIsNext
  <2> QED
    BY <2>2, <2>3, <2>5, <2>6 DEF Entries, L!Queued
<1> QED
  BY <1>1, <1>5, <1>6, <1>7

LEMMA RemoveKeeps ==
    ASSUME IInv, NEW c \in Live, remove_client(c)
    PROVE  Kept
<1> DEFINE fd == mem[c].socket
<1>1. CASE Halt("crashed")
  BY <1>1, StoppedKeeps DEF Stopped
<1>2. CASE /\ LeaveLists(c) /\ Track(c)
           /\ client_list' = IF c = client_list THEN mem[c].next ELSE client_list
           /\ mem' = [mem EXCEPT ![c] = Dead(mem[c].next)]
           /\ CloseSocket(fd) /\ Proceed(fd) /\ UNCHANGED backlog
  <2>1. /\ mem' \in [Addr -> Memory]
        /\ Live' = Live \ {c} /\ ~mem'[c].live
        /\ \A a \in Live : a # c => mem'[a] = mem[a]
        /\ peer' \in [Fd -> {"none", "open", "closed", "poked", "reset", "aborted"}]
        /\ unread' \in [Fd -> 0 .. 1 + MaxUnread]
        /\ {f \in Fd : peer[f] # "none"}' = {f \in Fd : peer[f] # "none"} \ {fd}
    BY <1>2, RemovedClient
  <2>2. /\ [L!process_args]_lists
        /\ RosterMatchesClients'
        /\ \A j \in Entries' : \E k \in Entries : Stays(j, k) /\ owner[stu_list[k]] # c
        /\ \A k \in Entries : OwnName(owner[stu_list[k]]) /\ owner[stu_list[k]] # c
                                 => stu_list[k] \in L!Queued'
    BY <1>2, <2>1, LeavesLists
  <2>3. c \in Addr /\ mem[c].next \in Addr \cup {NULL} /\ fd \in Fd
    BY ClientFacts, Fields DEF IInv
  <2>4. /\ OwnersTyped'
        /\ \A s \in SAddr : student[s] # L!Freed /\ student'[s] # L!Freed => owner'[s] = owner[s]
    BY <1>2, <2>3, TrackFacts DEF IInv
  <2>5. OuterTyped'
    BY <1>2, <2>1, <2>3 DEF OuterTyped, Proceed, IInv, TypeOK
  <2>6. StatesFit' /\ AcceptDue'
    BY <1>2, <2>1 DEF StatesFit, AcceptDue, Proceed, IInv
  <2>7. QueueEntriesHaveClients'
    <3>1. ASSUME NEW j \in Entries' PROVE HasClient(j)'
      <4>1. PICK k \in Entries : Stays(j, k) /\ owner[stu_list[k]] # c
        BY <2>2
      <4>2. owner[stu_list[k]] \in Live
        BY EntriesAre DEF IInv, HasClient
      <4>3. student[stu_list[k]] # L!Freed /\ stu_list[k] \in SAddr /\ student'[stu_list[k]] = student[stu_list[k]]
        BY <4>1, ListFacts DEF IInv, Stays
      <4>4. owner'[stu_list[k]] = owner[stu_list[k]]
        BY <2>4, <4>3
      <4> QED
        BY <2>1, <4>1, <4>2, <4>4, EntryKept
    <3> QED
      BY <3>1, EntriesAre
  <2>8. OnlyOwnGivesUp
    <3>1. ASSUME NEW s \in L!Queued, s \notin L!Queued', OwnName(owner[s])
          PROVE  ~mem'[owner[s]].live
      <4>1. PICK k \in Entries : s = stu_list[k]
        BY DEF L!Queued, Entries
      <4>2. owner[s] = c
        BY <2>2, <3>1, <4>1
      <4> QED
        BY <2>1, <4>2
    <3> QED
      BY <3>1 DEF OnlyOwnGivesUp
  <2>9. ToldAreQueued /\ SummonedAreTaken
    BY <2>1 DEF ToldAreQueued, SummonedAreTaken, Enters, Summoned
  <2>10. OneClientPerDescriptor'
    <3>1. /\ \A a, b \in Live : mem[a].socket = mem[b].socket => a = b
          /\ {mem[a].socket : a \in Live} = {f \in Fd : peer[f] # "none"}
          /\ ready \subseteq {mem[a].socket : a \in Live} \cup {ListenFd}
      BY DEF IInv, OneClientPerDescriptor
    <3>2. {mem[a].socket : a \in Live}' = {mem[a].socket : a \in Live} \ {fd}
      <4>1. \A a \in Live' : a \in Live /\ a # c /\ mem'[a].socket = mem[a].socket /\ mem[a].socket # fd
        BY <2>1, <3>1
      <4>2. \A a \in Live : mem[a].socket # fd => a \in Live' /\ mem'[a].socket = mem[a].socket
        BY <2>1
      <4> QED
        BY <4>1, <4>2
    <3>3. ready' \subseteq {mem[a].socket : a \in Live}' \cup {ListenFd}
      BY <1>2, <3>1, <3>2 DEF Proceed
    <3>4. \A a, b \in Live' : mem'[a].socket = mem'[b].socket => a = b
      BY <2>1, <3>1
    <3>5. {mem[a].socket : a \in Live}' = {f \in Fd : peer[f] # "none"}'
      BY <2>1, <3>1, <3>2
    <3> QED
      BY <3>3, <3>4, <3>5 DEF OneClientPerDescriptor
  <2> QED
    BY <2>2, <2>4, <2>5, <2>6, <2>7, <2>8, <2>9, <2>10, SettledKeeps DEF Settled
<1> QED
  BY <1>1, <1>2 DEF remove_client

\* Writing the next field of a freed struct changes nothing else of it.
LEMMA DeadRelinked ==
    ASSUME NEW x \in Addr \cup {NULL}, NEW y \in Addr \cup {NULL}
    PROVE  [Dead(x) EXCEPT !.next = y] = Dead(y)
<1> DEFINE Blank == [live : {FALSE}, next : Addr \cup {NULL}]
<1>1. ASSUME NEW d \in Blank PROVE d = Dead(d.next)
  BY DEF Dead
<1>2. Dead(x) \in Blank
  BY DEF Dead
<1>3. \A d \in Blank : [d EXCEPT !.next = y] \in Blank /\ [d EXCEPT !.next = y].next = y
  OBVIOUS
<1> HIDE DEF Blank
<1> DEFINE e == [Dead(x) EXCEPT !.next = y]
<1>4. e \in Blank /\ e.next = y
  BY <1>2, <1>3
<1> HIDE DEF e
<1>5. e = Dead(y)
  BY <1>1, <1>4
<1> QED
  BY <1>5 DEF e

\* A struct in use keeps everything else when another is linked behind it.
LEMMA Relinked ==
    ASSUME NEW e \in Client, NEW a \in Addr
    PROVE  LET linked == [e EXCEPT !.next = a]
           IN  /\ linked \in Client
               /\ linked.socket = e.socket /\ linked.state = e.state
               /\ linked.type = e.type /\ linked.name = e.name
BY DEF Client

\* What is added when a connection is accepted.
LEMMA AddedClient ==
    ASSUME IInv, NEW fd \in Fd, NEW a \in Addr \ Live, NEW l,
           \/ mem' = [mem EXCEPT ![a] = NewClient(fd)]
           \/ mem' = [[mem EXCEPT ![a] = NewClient(fd)] EXCEPT ![l].next = a]
    PROVE  /\ mem' \in [Addr -> Memory]
           /\ Live' = Live \cup {a}
           /\ mem'[a].socket = fd /\ mem'[a].state = "NAME" /\ mem'[a].type = "N"
           /\ \A b \in Live : /\ mem'[b].socket = mem[b].socket /\ mem'[b].state = mem[b].state
                              /\ mem'[b].type = mem[b].type /\ mem'[b].name = mem[b].name
<1> DEFINE m == [mem EXCEPT ![a] = NewClient(fd)]
<1>1. NewClient(fd) \in Client /\ NewClient(fd).socket = fd /\ NewClient(fd).state = "NAME"
      /\ NewClient(fd).type = "N"
  BY ServerAssumption DEF NewClient, Client, States, Levels
<1>2. m \in [Addr -> Memory] /\ m[a] = NewClient(fd) /\ \A b \in Addr : b # a => m[b] = mem[b]
  BY <1>1, ClientFacts DEF Memory, IInv
<1> HIDE DEF m
<1>3. ASSUME NEW b \in Addr
      PROVE  /\ mem'[b] \in Memory /\ (mem'[b].live <=> m[b].live)
             /\ m[b] \in Client => /\ mem'[b].socket = m[b].socket /\ mem'[b].state = m[b].state
                                   /\ mem'[b].type = m[b].type /\ mem'[b].name = m[b].name
  <2>1. mem'[b] = m[b] \/ mem'[b] = [m[b] EXCEPT !.next = a]
    BY <1>2 DEF m
  <2>2. CASE m[b] \in Client /\ mem'[b] = [m[b] EXCEPT !.next = a]
    <3>1. /\ mem'[b] \in Client
          /\ mem'[b].socket = m[b].socket /\ mem'[b].state = m[b].state
          /\ mem'[b].type = m[b].type /\ mem'[b].name = m[b].name
      BY <2>2, Relinked
    <3> QED
      BY <2>2, <3>1, LiveIs DEF Memory
  <2>3. CASE m[b] \notin Client /\ mem'[b] = [m[b] EXCEPT !.next = a]
    <3>1. PICK x \in Addr \cup {NULL} : m[b] = Dead(x)
      BY <1>2, <2>3 DEF Memory
    <3>2. mem'[b] = Dead(a)
      BY <2>3, <3>1, DeadRelinked
    <3> QED
      BY <2>3, <3>1, <3>2, LiveIs DEF Memory, Dead
  <2>4. CASE mem'[b] = m[b]
    BY <1>2, <2>4
  <2> QED
    BY <2>1, <2>2, <2>3, <2>4
<1>4. mem' \in [Addr -> Memory]
  <2>1. DOMAIN mem' = Addr /\ mem' = [b \in Addr |-> mem'[b]]
    BY <1>2 DEF m
  <2> QED
    BY <1>3, <2>1
<1>5. \A b \in Addr : mem'[b].live <=> b \in Live \cup {a}
  BY <1>1, <1>2, <1>3, Fields DEF Live
<1>6. Live' = Live \cup {a}
  BY <1>5, ClientFacts DEF Live, IInv
<1> QED
  BY <1>1, <1>2, <1>3, <1>4, <1>6, ClientFacts DEF IInv

LEMMA AcceptedKeeps ==
    ASSUME IInv, ListenFd \in ready, NEW fd \in Fd, peer[fd] = "none", Accepted(fd),
           NEW a \in Addr \ Live, NEW l,
           \/ mem' = [mem EXCEPT ![a] = NewClient(fd)]
           \/ mem' = [[mem EXCEPT ![a] = NewClient(fd)] EXCEPT ![l].next = a],
           client_list' \in Addr \cup {NULL}
    PROVE  Kept
<1>1. /\ mem' \in [Addr -> Memory]
      /\ Live' = Live \cup {a}
      /\ mem'[a].socket = fd /\ mem'[a].state = "NAME" /\ mem'[a].type = "N"
      /\ \A b \in Live : /\ mem'[b].socket = mem[b].socket /\ mem'[b].state = mem[b].state
                         /\ mem'[b].type = mem[b].type /\ mem'[b].name = mem[b].name
  BY AddedClient
<1>2. /\ NoListChange /\ status' = "run" /\ ready' = ready \ {ListenFd}
      /\ backlog' = backlog - 1
      /\ \/ peer' = [peer EXCEPT ![fd] = "open"] /\ UNCHANGED unread
         \/ /\ peer' = [peer EXCEPT ![fd] = "poked"]
            /\ \E u \in 0 .. MaxUnread : unread' = [unread EXCEPT ![fd] = u]
  BY DEF Accepted, Proceed
<1>3. /\ student' = student /\ stu_list' = stu_list /\ ta_list' = ta_list /\ owner' = owner
      /\ lists' = lists
  BY <1>2 DEF NoListChange, lists
<1>4. OuterTyped'
  <2>1. backlog' \in 0 .. MaxBacklog
    BY <1>2, ServerAssumption DEF IInv, AcceptDue, TypeOK
  <2>2. peer' \in [Fd -> {"none", "open", "closed", "poked", "reset", "aborted"}]
    BY <1>2 DEF IInv, TypeOK
  <2>3. unread' \in [Fd -> 0 .. 1 + MaxUnread]
    <3>1. \A u \in 0 .. MaxUnread : u \in 0 .. 1 + MaxUnread
      BY ServerAssumption
    <3> QED
      BY <1>2, <3>1 DEF IInv, TypeOK
  <2> QED
    BY <1>1, <1>2, <2>1, <2>2, <2>3 DEF OuterTyped, IInv, TypeOK
<1>5. StatesFit' /\ AcceptDue'
  BY <1>1, <1>2 DEF StatesFit, AcceptDue, IInv
<1>6. RosterMatchesClients'
  <2>1. \A m \in Names : TasNamed(m)' = TasNamed(m)
    BY <1>1 DEF TasNamed
  <2> QED
    BY <1>3, <2>1, RosterKept DEF Tas
<1>7. QueueEntriesHaveClients'
  <2>1. ASSUME NEW j \in Entries' PROVE HasClient(j)'
    <3>1. j \in Entries /\ Stays(j, j)
      BY <1>3 DEF Entries, Stays
    <3>2. owner[stu_list[j]] \in Live
      BY <3>1, EntriesAre DEF IInv, HasClient
    <3> QED
      BY <1>1, <1>3, <3>1, <3>2, EntryKept
  <2> QED
    BY <2>1, EntriesAre
<1>8. OnlyOwnGivesUp /\ ToldAreQueued /\ SummonedAreTaken /\ OwnersTyped'
  BY <1>1, <1>3 DEF OnlyOwnGivesUp, L!Queued, ToldAreQueued, SummonedAreTaken, Enters, Summoned,
                    OwnersTyped, IInv, TypeOK
<1>9. OneClientPerDescriptor'
  <2>1. /\ \A x, y \in Live : mem[x].socket = mem[y].socket => x = y
        /\ {mem[x].socket : x \in Live} = {f \in Fd : peer[f] # "none"}
        /\ ready \subseteq {mem[x].socket : x \in Live} \cup {ListenFd}
    BY DEF IInv, OneClientPerDescriptor
  <2>2. \A x \in Live : mem[x].socket # fd
    BY <2>1
  <2>3. {mem[x].socket : x \in Live}' = {mem[x].socket : x \in Live} \cup {fd}
    BY <1>1
  <2>4. {f \in Fd : peer[f] # "none"}' = {f \in Fd : peer[f] # "none"} \cup {fd}
    BY <1>2 DEF IInv, TypeOK
  <2>5. \A x, y \in Live' : mem'[x].socket = mem'[y].socket => x = y
    BY <1>1, <2>1, <2>2
  <2>6. ready' \subseteq {mem[x].socket : x \in Live}' \cup {ListenFd}
    BY <1>2, <2>1, <2>3
  <2>7. {mem[x].socket : x \in Live}' = {f \in Fd : peer[f] # "none"}'
    BY <2>1, <2>3, <2>4
  <2> QED
    BY <2>5, <2>6, <2>7 DEF OneClientPerDescriptor
<1> QED
  BY <1>3, <1>4, <1>5, <1>6, <1>7, <1>8, <1>9, SettledKeeps DEF Settled

LEMMA AcceptKeeps ==
    ASSUME IInv, ListenFd \in ready, accept_connection
    PROVE  Kept
<1>1. CASE FreeFds = {} /\ Halt("exited")
  BY <1>1, StoppedKeeps DEF Stopped
<1>2. CASE FreeFds # {} /\ LET fd == Min(FreeFds) IN add_client(fd, Accepted(fd))
  <2>1. FreeFds \in SUBSET Nat
    BY ServerAssumption DEF FreeFds
  <2>2. PICK fd \in Fd : peer[fd] = "none" /\ add_client(fd, Accepted(fd))
    <3>1. Min(FreeFds) \in FreeFds
      BY <1>2, <2>1, MinNat
    <3> QED
      BY <1>2, <3>1 DEF FreeFds
  <2>3. PICK a \in Addr \ Live :
          LET m == [mem EXCEPT ![a] = NewClient(fd)]
          IN  \/ client_list = NULL /\ mem' = m /\ client_list' = a /\ Accepted(fd)
              \/ /\ mem' = [m EXCEPT ![LastIn(m, client_list)].next = a]
                 /\ client_list' = client_list /\ Accepted(fd)
              \/ Halt("hung") \/ Halt("crashed")
    BY <2>2 DEF add_client
  <2>4. CASE Halt("hung") \/ Halt("crashed")
    BY <2>4, StoppedKeeps DEF Stopped
  <2>5. CASE mem' = [mem EXCEPT ![a] = NewClient(fd)] /\ client_list' = a /\ Accepted(fd)
    BY <2>2, <2>5, AcceptedKeeps
  <2>6. ASSUME NEW l, mem' = [[mem EXCEPT ![a] = NewClient(fd)] EXCEPT ![l].next = a],
               client_list' = client_list, Accepted(fd)
        PROVE  Kept
    <3>1. client_list' \in Addr \cup {NULL}
      BY <2>6 DEF IInv, TypeOK
    <3> QED
      BY <2>2, <2>6, <3>1, AcceptedKeeps
  <2> QED
    BY <2>3, <2>4, <2>5, <2>6
<1> QED
  BY <1>1, <1>2 DEF accept_connection

LEMMA ScanKeeps ==
    ASSUME IInv, Scan
    PROVE  Kept
<1>1. status = "run" /\ ready # {}
  BY DEF Scan
<1>2. Min(ready) \in ready /\ ready \subseteq Fd \cup {ListenFd}
  <2>1. ready \subseteq Fd \cup {ListenFd}
    BY DEF IInv, TypeOK
  <2>2. ready \in SUBSET Nat
    BY <2>1, ServerAssumption
  <2> QED
    BY <1>1, <2>1, <2>2, MinNat
<1>3. CASE Min(ready) = ListenFd /\ accept_connection
  BY <1>2, <1>3, AcceptKeeps
<1>4. ASSUME NEW fd, NEW c \in find_client(fd), Mishap(c) \/ Dispatch(c)
      PROVE  Kept
  <2>1. CASE Mishap(c) \/ Halt("crashed")
    BY <2>1, StoppedKeeps DEF Mishap, Stopped
  <2>2. ASSUME c \in Addr PROVE c \in Live
    BY <1>4, <2>2, WalkFinds DEF find_client
  <2>3. CASE c \in Addr /\ remove_client(c)
    BY <2>2, <2>3, RemoveKeeps
  <2>4. CASE c \in Addr /\ handle_client(c)
    <3>1. mem[c].socket \in Fd
      BY <2>2, <2>4, ClientFacts, Fields DEF IInv
    <3> QED
      BY <1>1, <2>2, <2>4, <3>1, HandleSettles, RemoveKeeps, StoppedKeeps, HandledKeeps
  <2> QED
    BY <1>4, <2>1, <2>3, <2>4 DEF Dispatch
<1> QED
  BY <1>3, <1>4 DEF Scan

\* Steps in which no client is handled.
LEMMA IdleKeeps ==
    ASSUME IInv, UNCHANGED <<mem, lists, owner>>, OuterTyped', OneClientPerDescriptor', AcceptDue'
    PROVE  Kept
<1>1. mem' = mem /\ NoListChange
  BY DEF NoListChange
<1>2. ClientsStay /\ StatesFit'
  BY <1>1, ClientFacts DEF ClientsStay, Live, IInv, StatesFit
<1>3. Settled
  BY <1>1, <1>2, QuietSettles
<1> QED
  BY <1>3, SettledKeeps

LEMMA SelectKeeps ==
    ASSUME IInv, Select
    PROVE  Kept
<1>1. PICK typed \in SUBSET {f \in Fd : peer[f] = "open"} : ready' = MustReport \cup typed
  BY DEF Select
<1>2. ready' \subseteq {f \in Fd : peer[f] # "none"} \cup {ListenFd}
  BY <1>1 DEF MustReport, Departed
<1>3. /\ status' = status /\ mem' = mem /\ client_list' = client_list /\ peer' = peer
      /\ unread' = unread /\ backlog' = backlog /\ UNCHANGED <<lists, owner>>
  BY DEF Select, net
<1>4. OuterTyped'
  BY <1>2, <1>3 DEF OuterTyped, Memory, IInv, TypeOK
<1>5. OneClientPerDescriptor'
  <2>1. /\ \A x, y \in Live : mem[x].socket = mem[y].socket => x = y
        /\ {mem[x].socket : x \in Live} = {f \in Fd : peer[f] # "none"}
    BY DEF IInv, OneClientPerDescriptor
  <2>2. ready' \subseteq {mem[x].socket : x \in Live} \cup {ListenFd}
    BY <1>2, <2>1
  <2> QED
    BY <1>3, <2>1, <2>2 DEF OneClientPerDescriptor, Live
<1>6. AcceptDue'
  <2>1. ASSUME ListenFd \in ready' PROVE backlog > 0
    <3>1. ListenFd \notin Fd
      BY ServerAssumption
    <3> QED
      BY <1>1, <2>1, <3>1 DEF MustReport
  <2> QED
    BY <1>3, <2>1 DEF AcceptDue
<1> QED
  BY <1>3, <1>4, <1>5, <1>6, IdleKeeps

LEMMA PeersKeep ==
    ASSUME IInv, Peers
    PROVE  Kept
<1>1. /\ status' = status /\ mem' = mem /\ client_list' = client_list /\ ready' = ready
      /\ UNCHANGED <<lists, owner>>
  BY DEF Peers
<1>2. ClientsStay
  BY <1>1, ClientFacts DEF ClientsStay, Live, IInv
<1>3. /\ PeersStay
      /\ unread' \in [Fd -> 0 .. 1 + MaxUnread]
      /\ backlog' \in 0 .. MaxBacklog /\ backlog' >= backlog
  <2>1. /\ peer \in [Fd -> {"none", "open", "closed", "poked", "reset", "aborted"}]
        /\ unread \in [Fd -> 0 .. 1 + MaxUnread] /\ backlog \in 0 .. MaxBacklog
        /\ MaxUnread \in Nat /\ MaxBacklog \in Nat
    BY ServerAssumption DEF IInv, TypeOK
  <2>2. CASE Connect
    BY <2>1, <2>2 DEF Connect, PeersStay
  <2>3. ASSUME NEW fd \in Fd, ResetArrives(fd)
        PROVE  /\ PeersStay
               /\ unread' \in [Fd -> 0 .. 1 + MaxUnread]
               /\ backlog' \in 0 .. MaxBacklog /\ backlog' >= backlog
    BY <2>1, <2>3 DEF ResetArrives, PeersStay
  <2>4. ASSUME NEW fd \in Fd, NEW how \in Departures, PeerLeaves(fd, how)
        PROVE  /\ PeersStay
               /\ unread' \in [Fd -> 0 .. 1 + MaxUnread]
               /\ backlog' \in 0 .. MaxBacklog /\ backlog' >= backlog
    <3>1. how \in {"closed", "aborted"}
      BY ServerAssumption
    <3>2. PeersStay
      BY <2>1, <2>4, <3>1 DEF PeerLeaves, PeersStay
    <3>3. unread' \in [Fd -> 0 .. 1 + MaxUnread]
      <4>1. \A more \in 0 .. MaxUnread : 1 + more \in 0 .. 1 + MaxUnread /\ more \in 0 .. 1 + MaxUnread
        BY <2>1
      <4> QED
        BY <2>1, <2>4, <4>1 DEF PeerLeaves
    <3> QED
      BY <2>1, <2>4, <3>2, <3>3 DEF PeerLeaves
  <2> QED
    BY <2>2, <2>3, <2>4 DEF Peers
<1>4. OuterTyped'
  BY <1>1, <1>3 DEF OuterTyped, PeersStay, Memory, IInv, TypeOK
<1>5. AcceptDue'
  BY <1>1, <1>3 DEF AcceptDue, IInv, TypeOK
<1> QED
  BY <1>1, <1>2, <1>3, <1>4, <1>5, SameDescriptors, IdleKeeps

-----------------------------------------------------------------------------
(* The behaviours. *)

LEMMA StutterKeeps ==
    ASSUME IInv, UNCHANGED vars
    PROVE  Kept
<1>1. /\ status' = status /\ mem' = mem /\ client_list' = client_list /\ ready' = ready
      /\ peer' = peer /\ unread' = unread /\ backlog' = backlog /\ UNCHANGED <<lists, owner>>
  BY DEF vars, net
<1>2. OuterTyped' /\ OneClientPerDescriptor' /\ AcceptDue'
  BY <1>1 DEF IInv, TypeOK, OuterTyped, Memory, OneClientPerDescriptor, AcceptDue, Live
<1> QED
  BY <1>1, <1>2, IdleKeeps

LEMMA StepKept ==
    ASSUME IInv, [Next]_vars
    PROVE  Kept
<1>1. CASE Select
  BY <1>1, SelectKeeps
<1>2. CASE Scan
  BY <1>2, ScanKeeps
<1>3. CASE Peers
  BY <1>3, PeersKeep
<1>4. CASE UNCHANGED vars
  BY <1>4, StutterKeeps
<1> QED
  BY <1>1, <1>2, <1>3, <1>4 DEF Next

LEMMA SameInit == L!Init <=> LP!Init
  BY DEF L!Init, LP!Init, L!Freed, LP!Freed

LEMMA InitHolds == Init => IInv
<1> SUFFICES ASSUME Init PROVE IInv
  OBVIOUS
<1>1. ListsKept
  BY SameInit, ListsAssumptionHolds, LP!InitEstablishes DEF Init, ListsKept
<1>2. OuterTyped /\ OwnersTyped
  <2>1. /\ status = "run" /\ client_list = NULL /\ ready = {} /\ backlog = 0
        /\ mem = [a \in Addr |-> Dead(NULL)]
        /\ peer = [f \in Fd |-> "none"] /\ unread = [f \in Fd |-> 0]
        /\ owner = [s \in SAddr |-> NULL]
    BY DEF Init
  <2>2. mem \in [Addr -> Memory]
    BY <2>1 DEF Memory
  <2>3. 0 \in 0 .. 1 + MaxUnread /\ 0 \in 0 .. MaxBacklog
    BY ServerAssumption
  <2> QED
    BY <2>1, <2>2, <2>3 DEF OuterTyped, OwnersTyped
<1>3. TypeOK
  BY <1>1, <1>2, TypeIs
<1>4. Live = {} /\ ready = {} /\ \A f \in Fd : peer[f] = "none"
  BY DEF Live, Init, Dead
<1>5. StatesFit /\ AcceptDue /\ OneClientPerDescriptor
  BY <1>4 DEF StatesFit, AcceptDue, OneClientPerDescriptor
<1>6. stu_list = << >> /\ ta_list = << >>
  BY DEF Init, L!Init
<1>7. QueueEntriesHaveClients
  <2>1. DOMAIN stu_list = {}
    BY <1>6, EmptySeq
  <2> QED
    BY <2>1 DEF QueueEntriesHaveClients
<1>8. RosterMatchesClients
  <2>1. DOMAIN ta_list = {}
    BY <1>6, EmptySeq
  <2>2. ASSUME NEW n \in Names
        PROVE  /\ {i \in DOMAIN ta_list : ta_list[i].name = n} = {}
               /\ {a \in Live : mem[a].type = "T" /\ mem[a].name = n} = {}
    BY <1>4, <2>1
  <2> QED
    BY <2>2 DEF RosterMatchesClients
<1> QED
  BY <1>1, <1>3, <1>5, <1>7, <1>8 DEF IInv

\* The inductive invariant is one: it holds when the server starts to listen and
\* every iteration of its loop, and everything the peers do, keeps it.
THEOREM StepKeepsIInv == IInv /\ [Next]_vars => IInv'
  BY StepKept DEF Kept

THEOREM InvariantHolds == Spec => []IInv
  BY InitHolds, StepKeepsIInv, PTL DEF Spec

\* Client structs, descriptors and lists hold what their types say, for every
\* number of connections: a client that is live always has a state, a socket and
\* a type, and a struct that was freed is only ever a next pointer.
THEOREM TypeCorrect == Spec => []TypeOK
<1>1. IInv => TypeOK
  BY DEF IInv
<1> QED
  BY <1>1, InvariantHolds, PTL

\* Every open connection has one client struct and the other way around, and a
\* descriptor that select reported is still open when the loop comes to it.
THEOREM OneClientEachDescriptor == Spec => []OneClientPerDescriptor
<1>1. IInv => OneClientPerDescriptor
  BY DEF IInv
<1> QED
  BY <1>1, InvariantHolds, PTL

\* No departure, kick or summons leaves a queue entry or a TA list entry without
\* its client, or a client without its entry, also when users share a name.
THEOREM ListsAlwaysMatch == Spec => []ListsMatchClients
<1>1. IInv => ListsMatchClients
  BY DEF IInv, ListsMatchClients
<1> QED
  BY <1>1, InvariantHolds, PTL

\* The server changes the queue and the TA list by the operations of hcq.c only:
\* each behaviour of it is one of HcqLists, whose theorems therefore hold of it.
THEOREM ServerImplementsLists == Spec => ListsOnlyByOperations
<1>1. Init => L!Init
  BY DEF Init
<1>2. IInv /\ [Next]_vars => [L!process_args]_(L!lists)
  <2>1. IInv /\ [Next]_vars => [L!process_args]_lists
    BY StepKept DEF Kept
  <2> QED
    BY <2>1 DEF lists, L!lists
<1> QED
  BY <1>1, <1>2, InvariantHolds, PTL DEF Spec, ListsOnlyByOperations, L!Spec

\* While nobody else has their name, students leave the queue to a TA or because
\* they left themselves: no other departure takes them out.
THEOREM OthersNeverGiveUp == Spec => OnlyOwnGiveUp
<1>1. IInv /\ [Next]_vars =>
        [\A s \in L!Queued \ L!Queued' :
            OwnName(owner[s]) => s \in L!Served' \/ ~mem'[owner[s]].live]_vars
  BY StepKept DEF Kept, OnlyOwnGivesUp
<1> QED
  BY <1>1, InvariantHolds, PTL DEF Spec, OnlyOwnGiveUp

\* A student who is told to have been entered into the queue is in it, whatever
\* clients of that name have come and gone.
THEOREM ToldAlwaysQueued == Spec => ToldIsQueued
<1>1. IInv /\ [Next]_vars =>
        [\A a \in Addr :
            Enters(a) => \E i \in DOMAIN stu_list' : owner'[stu_list'[i]] = a]_vars
  BY StepKept DEF Kept, ToldAreQueued, Entries
<1> QED
  BY <1>1, InvariantHolds, PTL DEF Spec, ToldIsQueued

\* A client who is told that it is their turn is the student the TA takes from
\* the queue in that step.
THEOREM SummonedAlwaysTaken == Spec => SummonedIsTaken
<1>1. IInv /\ [Next]_vars =>
        [\A a \in Addr : Summoned(a) =>
            \E s \in L!Queued : owner[s] = a /\ s \in L!Served']_vars
  BY StepKept DEF Kept, SummonedAreTaken
<1> QED
  BY <1>1, InvariantHolds, PTL DEF Spec, SummonedIsTaken
=============================================================================
