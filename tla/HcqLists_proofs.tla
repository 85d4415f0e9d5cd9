-------------------------- MODULE HcqLists_proofs --------------------------
(***************************************************************************)
(* Proofs about the student queue and the TA list (HcqLists), for every    *)
(* set of addresses, names and courses, and for callers that may or may    *)
(* not keep TA names unique.                                               *)
(***************************************************************************)
EXTENDS HcqLists, SequenceTheorems, TLAPS

(* Lemmas about the sequence operators the lists are built from. *)

\* Taking a node out of a list keeps the others, in order.
LEMMA RemoveAtProperties ==
    ASSUME NEW S, NEW s \in Seq(S), NEW i \in 1 .. Len(s)
    PROVE  /\ RemoveAt(s, i) \in Seq(S)
           /\ Len(RemoveAt(s, i)) = Len(s) - 1
           /\ \A j \in 1 .. Len(s) - 1 :
                 RemoveAt(s, i)[j] = IF j < i THEN s[j] ELSE s[j + 1]
<1> DEFINE front == SubSeq(s, 1, i - 1)
           back == SubSeq(s, i + 1, Len(s))
<1>1. /\ front \in Seq(S) /\ Len(front) = i - 1
      /\ \A j \in 1 .. i - 1 : front[j] = s[j]
  <2>1. CASE i = 1
    BY <2>1, SubSeqEmpty, EmptySeq, LenProperties
  <2>2. CASE i # 1
    BY <2>2, SubSeqProperties, LenProperties
  <2> QED
    BY <2>1, <2>2
<1>2. /\ back \in Seq(S) /\ Len(back) = Len(s) - i
      /\ \A j \in 1 .. Len(s) - i : back[j] = s[i + j]
  <2>1. CASE i = Len(s)
    BY <2>1, SubSeqEmpty, EmptySeq, LenProperties
  <2>2. CASE i # Len(s)
    BY <2>2, SubSeqProperties, LenProperties
  <2> QED
    BY <2>1, <2>2
<1>3. RemoveAt(s, i) = front \o back
  BY DEF RemoveAt
<1>4. Len(s) \in Nat
  BY LenProperties
<1> HIDE DEF front, back
<1>5. /\ front \o back \in Seq(S)
      /\ Len(front \o back) = Len(front) + Len(back)
      /\ \A j \in 1 .. Len(front) + Len(back) :
            (front \o back)[j] = IF j <= Len(front) THEN front[j] ELSE back[j - Len(front)]
  BY <1>1, <1>2, ConcatProperties
<1>6. ASSUME NEW j \in 1 .. Len(s) - 1
      PROVE  (front \o back)[j] = IF j < i THEN s[j] ELSE s[j + 1]
  <2>1. CASE j < i
    BY <2>1, <1>1, <1>2, <1>4, <1>5
  <2>2. CASE ~(j < i)
    <3>1. j - (i - 1) \in 1 .. Len(s) - i /\ i + (j - (i - 1)) = j + 1
      BY <2>2, <1>4
    <3>2. (front \o back)[j] = back[j - (i - 1)]
      BY SMTT(30), <2>2, <1>1, <1>2, <1>4, <1>5
    <3>3. back[j - (i - 1)] = s[i + (j - (i - 1))]
      BY <3>1, <1>2
    <3> QED
      BY <2>2, <3>1, <3>2, <3>3
  <2> QED
    BY <2>1, <2>2
<1> QED
  BY <1>1, <1>2, <1>3, <1>4, <1>5, <1>6

\* The position in a list of the node that is at j after the i-th is taken out.
Before(i, j) == IF j < i THEN j ELSE j + 1

LEMMA RemoveAtPositions ==
    ASSUME NEW S, NEW s \in Seq(S), NEW i \in 1 .. Len(s), NEW r, r = RemoveAt(s, i)
    PROVE  /\ r \in Seq(S)
           /\ \A j \in 1 .. Len(r) : /\ Before(i, j) \in 1 .. Len(s) /\ Before(i, j) # i
                                     /\ r[j] = s[Before(i, j)]
           /\ \A j, k \in 1 .. Len(r) : j < k <=> Before(i, j) < Before(i, k)
           /\ \A k \in 1 .. Len(s) : k # i => \E j \in 1 .. Len(r) : Before(i, j) = k
<1>1. /\ r \in Seq(S) /\ Len(r) = Len(s) - 1 /\ Len(s) \in Nat
      /\ \A j \in 1 .. Len(s) - 1 : r[j] = s[Before(i, j)]
  BY RemoveAtProperties, LenProperties DEF Before
<1>2. \A j \in 1 .. Len(r) : Before(i, j) \in 1 .. Len(s) /\ Before(i, j) # i
  BY <1>1 DEF Before
<1>3. \A j, k \in 1 .. Len(r) : j < k <=> Before(i, j) < Before(i, k)
  BY <1>1 DEF Before
<1>4. ASSUME NEW k \in 1 .. Len(s), k # i
      PROVE  \E j \in 1 .. Len(r) : Before(i, j) = k
  <2>1. CASE k < i
    BY <1>1, <1>4, <2>1 DEF Before
  <2>2. CASE ~(k < i)
    <3>1. k - 1 \in 1 .. Len(r) /\ Before(i, k - 1) = k
      BY <1>1, <1>4, <2>2 DEF Before
    <3> QED
      BY <3>1
  <2> QED
    BY <2>1, <2>2
<1> QED
  BY <1>1, <1>2, <1>3, <1>4

\* A new TA comes first, the others move back by one.
LEMMA ConsProperties ==
    ASSUME NEW S, NEW s \in Seq(S), NEW e \in S
    PROVE  /\ Cons(e, s) \in Seq(S)
           /\ Len(Cons(e, s)) = Len(s) + 1
           /\ Cons(e, s)[1] = e
           /\ \A j \in 1 .. Len(s) : Cons(e, s)[j + 1] = s[j]
  BY ConcatProperties, LenProperties DEF Cons

-----------------------------------------------------------------------------
(* The inductive invariant, one element at a time.  None of the properties  *)
(* below is inductive alone: freeing a struct keeps the others intact only  *)
(* because it has one owner, and a name stays unique in the queue only      *)
(* because queued structs are not freed and given to another student.       *)

Q == 1 .. Len(stu_list)
T == 1 .. Len(ta_list)
Serves(i) == ta_list[i].current_student

QueuedAllocated == \A i \in Q : student[stu_list[i]] # Freed
ServedAllocated == \A i \in T : Serves(i) # NULL => student[Serves(i)] # Freed
QueuedOnce == \A i, j \in Q : stu_list[i] = stu_list[j] => i = j
ServedOnce == \A i, j \in T : Serves(i) # NULL /\ Serves(i) = Serves(j) => i = j
Apart == \A i \in Q, j \in T : stu_list[i] # Serves(j)
Reachable ==
    \A a \in SAddr : student[a] # Freed =>
        (\E i \in Q : stu_list[i] = a) \/ (\E j \in T : Serves(j) = a)
NamedOnce == \A i, j \in Q : student[stu_list[i]].name = student[stu_list[j]].name => i = j

IInv ==
    /\ TypeOK
    /\ QueuedAllocated /\ ServedAllocated
    /\ QueuedOnce /\ ServedOnce /\ Apart
    /\ Reachable
    /\ NamedOnce

LEMMA Lengths ==
    ASSUME TypeOK
    PROVE  /\ Len(stu_list) \in Nat /\ DOMAIN stu_list = Q
           /\ Len(ta_list) \in Nat /\ DOMAIN ta_list = T
           /\ \A i \in Q : stu_list[i] \in SAddr
           /\ \A i \in T : /\ ta_list[i] \in Ta
                           /\ Serves(i) \in SAddr \cup {NULL}
<1>1. Len(stu_list) \in Nat /\ DOMAIN stu_list = Q
  BY LenProperties DEF TypeOK, Q
<1>2. Len(ta_list) \in Nat /\ DOMAIN ta_list = T
  BY LenProperties DEF TypeOK, T
<1>3. \A i \in Q : stu_list[i] \in SAddr
  BY ElementOfSeq DEF TypeOK, Q
<1>4. \A i \in T : ta_list[i] \in Ta
  BY ElementOfSeq DEF TypeOK, T
<1> QED
  BY <1>1, <1>2, <1>3, <1>4 DEF Ta, Serves

\* The queue without its i-th student, and the TA list without its i-th TA.
LEMMA QueueWithout ==
    ASSUME TypeOK, NEW i \in Q, stu_list' = RemoveAt(stu_list, i)
    PROVE  /\ stu_list' \in Seq(SAddr)
           /\ \A j \in Q' : /\ Before(i, j) \in Q /\ Before(i, j) # i
                            /\ stu_list'[j] = stu_list[Before(i, j)]
           /\ \A j, k \in Q' : j < k <=> Before(i, j) < Before(i, k)
           /\ \A k \in Q : k # i => \E j \in Q' : Before(i, j) = k
<1> DEFINE r == RemoveAt(stu_list, i)
<1>1. stu_list \in Seq(SAddr) /\ i \in 1 .. Len(stu_list) /\ stu_list' = r
  BY DEF TypeOK, Q
<1> HIDE DEF r
<1>2. /\ r \in Seq(SAddr)
      /\ \A j \in 1 .. Len(r) : /\ Before(i, j) \in 1 .. Len(stu_list) /\ Before(i, j) # i
                                /\ r[j] = stu_list[Before(i, j)]
      /\ \A j, k \in 1 .. Len(r) : j < k <=> Before(i, j) < Before(i, k)
      /\ \A k \in 1 .. Len(stu_list) : k # i => \E j \in 1 .. Len(r) : Before(i, j) = k
  <2>1. r = RemoveAt(stu_list, i)
    BY DEF r
  <2> QED
    BY <1>1, <2>1, RemoveAtPositions
<1> QED
  BY <1>1, <1>2 DEF Q

LEMMA RosterWithout ==
    ASSUME TypeOK, NEW i \in T, ta_list' = RemoveAt(ta_list, i)
    PROVE  /\ ta_list' \in Seq(Ta)
           /\ \A j \in T' : /\ Before(i, j) \in T /\ Before(i, j) # i
                            /\ ta_list'[j] = ta_list[Before(i, j)]
           /\ \A j, k \in T' : j < k <=> Before(i, j) < Before(i, k)
           /\ \A k \in T : k # i => \E j \in T' : Before(i, j) = k
<1> DEFINE r == RemoveAt(ta_list, i)
<1>1. ta_list \in Seq(Ta) /\ i \in 1 .. Len(ta_list) /\ ta_list' = r
  BY DEF TypeOK, T
<1> HIDE DEF r
<1>2. /\ r \in Seq(Ta)
      /\ \A j \in 1 .. Len(r) : /\ Before(i, j) \in 1 .. Len(ta_list) /\ Before(i, j) # i
                                /\ r[j] = ta_list[Before(i, j)]
      /\ \A j, k \in 1 .. Len(r) : j < k <=> Before(i, j) < Before(i, k)
      /\ \A k \in 1 .. Len(ta_list) : k # i => \E j \in 1 .. Len(r) : Before(i, j) = k
  <2>1. r = RemoveAt(ta_list, i)
    BY DEF r
  <2> QED
    BY <1>1, <2>1, RemoveAtPositions
<1> QED
  BY <1>1, <1>2 DEF T

\* The element-wise invariant says what the properties say of the lists.
LEMMA IInvImpliesProperties ==
    IInv => OneQuestionEach /\ NoDangling /\ NoLeak /\ OneOwner
<1> SUFFICES ASSUME IInv PROVE OneQuestionEach /\ NoDangling /\ NoLeak /\ OneOwner
  OBVIOUS
<1> USE DEF IInv
<1>1. OneQuestionEach
  BY Lengths DEF OneQuestionEach, NamedOnce
<1>2. NoDangling
  BY Lengths DEF NoDangling, Queued, Served, Allocated, QueuedAllocated, ServedAllocated, Serves
<1>3. NoLeak
  BY Lengths, ListsAssumption DEF NoLeak, Queued, Served, Allocated, Reachable, Serves
<1>4. OneOwner
  <2>1. \A i, j \in DOMAIN stu_list : stu_list[i] = stu_list[j] => i = j
    BY Lengths DEF QueuedOnce
  <2>2. \A i, j \in DOMAIN ta_list :
           /\ ta_list[i].current_student # NULL
           /\ ta_list[i].current_student = ta_list[j].current_student
           => i = j
    BY Lengths DEF ServedOnce, Serves
  <2>3. Queued \cap Served = {}
    BY Lengths DEF Apart, Queued, Served, Serves
  <2> QED
    BY <2>1, <2>2, <2>3 DEF OneOwner
<1> QED
  BY <1>1, <1>2, <1>3, <1>4

LEMMA InitEstablishes == Init => IInv
<1> SUFFICES ASSUME Init PROVE IInv
  OBVIOUS
<1>1. TypeOK /\ Q = {} /\ T = {}
  BY EmptySeq DEF Init, TypeOK, Q, T
<1> QED
  BY <1>1 DEF Init, IInv, QueuedAllocated, ServedAllocated, QueuedOnce, ServedOnce, Apart,
              Reachable, NamedOnce

-----------------------------------------------------------------------------
(* Every operation preserves the invariant. *)

LEMMA StutterKeeps == IInv /\ UNCHANGED lists => IInv'
  BY DEF IInv, lists, TypeOK, Q, T, Serves, QueuedAllocated, ServedAllocated, QueuedOnce,
         ServedOnce, Apart, Reachable, NamedOnce

\* A struct that is not allocated is in neither list, so the new student's
\* struct may take its place without a second owner.
LEMMA AddStudentKeeps ==
    ASSUME IInv, NEW n \in Names, NEW c \in Courses \cup {BadCourse}, add_student(n, c)
    PROVE  IInv'
<1>1. CASE UNCHANGED lists
  BY <1>1, StutterKeeps
<1>2. ASSUME ~InQueue(n), c \in Courses, NEW a \in malloc_student,
             student' = [student EXCEPT ![a] = [name |-> n, course |-> c]],
             stu_list' = Append(stu_list, a), UNCHANGED ta_list
      PROVE  IInv'
  <2> DEFINE new == [name |-> n, course |-> c]
  <2>1. TypeOK
    BY DEF IInv
  <2>2. a \in SAddr /\ student[a] = Freed
    BY DEF malloc_student
  <2>3. new \in Student /\ new # Freed /\ new.name = n
    BY <1>2, ListsAssumption DEF Student, Freed
  <2>4. /\ stu_list' \in Seq(SAddr) /\ Len(stu_list') = Len(stu_list) + 1
        /\ stu_list'[Len(stu_list) + 1] = a
        /\ \A i \in Q : stu_list'[i] = stu_list[i]
    BY <1>2, <2>1, <2>2, AppendProperties DEF TypeOK, Q
  <2>5. Q' = Q \cup {Len(stu_list) + 1} /\ Len(stu_list) + 1 \notin Q /\ T' = T
    BY <1>2, <2>1, <2>4, Lengths DEF Q, T
  <2>6. /\ student'[a] = new
        /\ \A b \in SAddr : b # a => student'[b] = student[b]
    BY <1>2, <2>1, <2>2 DEF TypeOK
  <2>7. \A i \in Q : stu_list[i] \in SAddr /\ stu_list[i] # a
    BY <2>1, <2>2, Lengths DEF IInv, QueuedAllocated
  <2>8. \A i \in T : /\ Serves(i)' = Serves(i) /\ Serves(i) \in SAddr \cup {NULL}
                     /\ Serves(i) # a
    BY <1>2, <2>1, <2>2, ListsAssumption, Lengths DEF IInv, ServedAllocated, Serves
  <2>9. TypeOK'
    BY <1>2, <2>1, <2>3, <2>4 DEF TypeOK
  <2> HIDE DEF new
  <2>10. QueuedAllocated'
    BY <2>3, <2>4, <2>5, <2>6, <2>7 DEF IInv, QueuedAllocated
  <2>11. ServedAllocated'
    BY <2>5, <2>6, <2>8 DEF IInv, ServedAllocated
  <2>12. QueuedOnce'
    BY <2>4, <2>5, <2>7 DEF IInv, QueuedOnce
  <2>13. ServedOnce'
    BY <2>5, <2>8 DEF IInv, ServedOnce
  <2>14. Apart'
    BY <2>4, <2>5, <2>7, <2>8 DEF IInv, Apart
  <2>15. Reachable'
    BY <2>4, <2>5, <2>6, <2>8 DEF IInv, Reachable
  <2>16. NamedOnce'
    <3>1. \A i \in Q : student[stu_list[i]].name # n
      BY <1>2, <2>1, Lengths DEF InQueue
    <3> QED
      BY <2>3, <2>4, <2>5, <2>6, <2>7, <3>1 DEF IInv, NamedOnce
  <2> QED
    BY <2>9, <2>10, <2>11, <2>12, <2>13, <2>14, <2>15, <2>16 DEF IInv
<1> QED
  BY <1>1, <1>2 DEF add_student

\* The struct that is freed was queued here only, and no TA serves it.
LEMMA GiveUpKeeps ==
    ASSUME IInv, NEW n \in Names, give_up_waiting(n)
    PROVE  IInv'
<1>1. CASE UNCHANGED lists
  BY <1>1, StutterKeeps
<1>2. ASSUME NEW i \in DOMAIN stu_list,
             stu_list' = RemoveAt(stu_list, i),
             student' = [student EXCEPT ![stu_list[i]] = Freed],
             UNCHANGED ta_list
      PROVE  IInv'
  <2> DEFINE s == stu_list[i]
  <2>1. TypeOK
    BY DEF IInv
  <2>2. i \in Q /\ s \in SAddr
    BY <2>1, Lengths
  <2>3. /\ stu_list' \in Seq(SAddr)
        /\ \A j \in Q' : /\ Before(i, j) \in Q /\ Before(i, j) # i
                         /\ stu_list'[j] = stu_list[Before(i, j)]
        /\ \A j, k \in Q' : j < k <=> Before(i, j) < Before(i, k)
        /\ \A k \in Q : k # i => \E j \in Q' : Before(i, j) = k
    BY <1>2, <2>1, <2>2, QueueWithout
  <2>4. T' = T /\ \A j, k \in Q' : Before(i, j) = Before(i, k) => j = k
    BY <1>2, <2>1, <2>3, Lengths, LenProperties DEF Q, T
  <2>5. /\ student'[s] = Freed
        /\ \A b \in SAddr : b # s => student'[b] = student[b]
    BY <1>2, <2>1, <2>2 DEF TypeOK
  <2>6. \A j \in Q : stu_list[j] \in SAddr /\ (j # i => stu_list[j] # s)
    BY <2>1, <2>2, Lengths DEF IInv, QueuedOnce
  <2>7. \A j \in T : /\ Serves(j)' = Serves(j) /\ Serves(j) \in SAddr \cup {NULL}
                     /\ Serves(j) # s
    BY <1>2, <2>1, <2>2, Lengths DEF IInv, Apart, Serves
  <2>8. TypeOK'
    BY <1>2, <2>1, <2>3 DEF TypeOK
  <2> HIDE DEF s
  <2>9. QueuedAllocated'
    BY <2>3, <2>4, <2>5, <2>6 DEF IInv, QueuedAllocated
  <2>10. ServedAllocated'
    BY <2>4, <2>5, <2>7 DEF IInv, ServedAllocated
  <2>11. QueuedOnce'
    BY <2>3, <2>4 DEF IInv, QueuedOnce
  <2>12. ServedOnce'
    BY <2>4, <2>7 DEF IInv, ServedOnce
  <2>13. Apart'
    BY <2>3, <2>4, <2>7 DEF IInv, Apart
  <2>14. Reachable'
    <3>1. ASSUME NEW b \in SAddr, student'[b] # Freed
          PROVE  (\E k \in Q' : stu_list'[k] = b) \/ (\E j \in T' : Serves(j)' = b)
      <4>1. student[b] # Freed /\ b # s
        BY <2>5, <3>1
      <4>2. CASE \E k \in Q : stu_list[k] = b
        BY <2>3, <4>1, <4>2 DEF s
      <4>3. CASE \E j \in T : Serves(j) = b
        BY <2>4, <2>7, <4>3
      <4> QED
        BY <4>1, <4>2, <4>3 DEF IInv, Reachable
    <3> QED
      BY <3>1 DEF Reachable
  <2>15. NamedOnce'
    BY <2>3, <2>4, <2>5, <2>6 DEF IInv, NamedOnce
  <2> QED
    BY <2>8, <2>9, <2>10, <2>11, <2>12, <2>13, <2>14, <2>15 DEF IInv
<1> QED
  BY <1>1, <1>2 DEF give_up_waiting

LEMMA AddTaKeeps ==
    ASSUME IInv, NEW n \in Names, add_ta(n)
    PROVE  IInv'
<1> DEFINE new == [name |-> n, current_student |-> NULL]
<1>1. TypeOK
  BY DEF IInv
<1>2. /\ student' = student /\ stu_list' = stu_list /\ Q' = Q
      /\ ta_list' = Cons(new, ta_list) /\ new \in Ta
  BY DEF add_ta, Q, Ta
<1>3. /\ ta_list' \in Seq(Ta) /\ Len(ta_list') = Len(ta_list) + 1 /\ Len(ta_list) \in Nat
      /\ ta_list'[1] = new
      /\ \A j \in T : ta_list'[j + 1] = ta_list[j]
  <2> HIDE DEF new
  <2>1. ta_list \in Seq(Ta) /\ Len(ta_list) \in Nat
    BY <1>1, LenProperties DEF TypeOK
  <2>2. /\ Cons(new, ta_list) \in Seq(Ta)
        /\ Len(Cons(new, ta_list)) = Len(ta_list) + 1
        /\ Cons(new, ta_list)[1] = new
        /\ \A j \in 1 .. Len(ta_list) : Cons(new, ta_list)[j + 1] = ta_list[j]
    <3>1. new \in Ta
      BY <1>2
    <3> QED
      BY <2>1, <3>1, ConsProperties
  <2> QED
    BY <1>2, <2>1, <2>2 DEF T
<1>4. /\ \A j \in T' : j = 1 \/ (j - 1 \in T /\ Serves(j)' = Serves(j - 1))
      /\ \A j \in T : j + 1 \in T' /\ Serves(j + 1)' = Serves(j)
      /\ 1 \in T' /\ Serves(1)' = NULL /\ T \subseteq Nat /\ T' \subseteq Nat
  <2>1. ASSUME NEW j \in T', j # 1 PROVE j - 1 \in T /\ Serves(j)' = Serves(j - 1)
    <3>1. j - 1 \in T /\ (j - 1) + 1 = j
      BY <1>3, <2>1 DEF T
    <3> QED
      BY <1>3, <3>1 DEF Serves
  <2> QED
    BY <1>3, <2>1 DEF T, Serves
<1>5. TypeOK'
  BY <1>1, <1>2, <1>3 DEF TypeOK
<1>6. QueuedAllocated' /\ QueuedOnce' /\ NamedOnce'
  BY <1>2 DEF IInv, QueuedAllocated, QueuedOnce, NamedOnce
<1>7. ServedAllocated'
  BY <1>2, <1>4 DEF IInv, ServedAllocated
<1>8. ServedOnce'
  <2> SUFFICES ASSUME NEW i \in T', NEW j \in T', Serves(i)' # NULL, Serves(i)' = Serves(j)'
               PROVE  i = j
    BY DEF ServedOnce
  <2>1. i - 1 \in T /\ j - 1 \in T /\ Serves(i - 1) = Serves(j - 1) /\ Serves(i - 1) # NULL
    BY <1>4
  <2> QED
    BY <1>4, <2>1 DEF IInv, ServedOnce
<1>9. Apart'
  <2>1. \A i \in Q : stu_list[i] # NULL
    BY <1>1, Lengths, ListsAssumption
  <2> QED
    BY <1>2, <1>4, <2>1 DEF IInv, Apart
<1>10. Reachable'
  BY <1>2, <1>4 DEF IInv, Reachable
<1> QED
  BY <1>5, <1>6, <1>7, <1>8, <1>9, <1>10 DEF IInv

\* Freeing a TA's student changes that struct only.
LEMMA ReleaseFrees ==
    ASSUME TypeOK, NEW s \in SAddr \cup {NULL}, release(s)
    PROVE  /\ student' \in [SAddr -> Student \cup {Freed}]
           /\ \A b \in SAddr : student'[b] = IF b = s THEN Freed ELSE student[b]
  BY ListsAssumption DEF TypeOK, release

LEMMA RemoveTaKeeps ==
    ASSUME IInv, NEW n \in Names, remove_ta(n)
    PROVE  IInv'
<1>1. CASE UNCHANGED lists
  BY <1>1, StutterKeeps
<1>2. ASSUME NEW i \in DOMAIN ta_list,
             release(ta_list[i].current_student),
             ta_list' = RemoveAt(ta_list, i),
             UNCHANGED stu_list
      PROVE  IInv'
  <2> DEFINE s == Serves(i)
  <2>1. TypeOK
    BY DEF IInv
  <2>2. i \in T /\ s \in SAddr \cup {NULL} /\ release(s)
    BY <1>2, <2>1, Lengths DEF Serves
  <2>3. /\ student' \in [SAddr -> Student \cup {Freed}]
        /\ \A b \in SAddr : student'[b] = IF b = s THEN Freed ELSE student[b]
    BY <2>1, <2>2, ReleaseFrees
  <2>4. /\ ta_list' \in Seq(Ta)
        /\ \A j \in T' : /\ Before(i, j) \in T /\ Before(i, j) # i
                         /\ ta_list'[j] = ta_list[Before(i, j)]
        /\ \A j, k \in T' : j < k <=> Before(i, j) < Before(i, k)
        /\ \A k \in T : k # i => \E j \in T' : Before(i, j) = k
    BY <1>2, <2>1, <2>2, RosterWithout
  <2>5. /\ \A j, k \in T' : Before(i, j) = Before(i, k) => j = k
        /\ \A j \in T' : Serves(j)' = Serves(Before(i, j))
    BY <2>1, <2>4, Lengths, LenProperties DEF T, Serves
  <2>6. Q' = Q /\ \A j \in Q : stu_list'[j] = stu_list[j] /\ stu_list[j] \in SAddr
                               /\ stu_list[j] # s
    BY <1>2, <2>1, <2>2, Lengths DEF Q, IInv, Apart
  <2>7. \A j \in T : /\ Serves(j) \in SAddr \cup {NULL}
                     /\ j # i /\ Serves(j) # NULL => Serves(j) # s
    BY <2>1, <2>2, Lengths DEF IInv, ServedOnce
  <2>8. TypeOK'
    BY <1>2, <2>1, <2>3, <2>4 DEF TypeOK
  <2> HIDE DEF s
  <2>9. QueuedAllocated'
    BY <2>3, <2>6 DEF IInv, QueuedAllocated
  <2>10. ServedAllocated'
    <3>1. ASSUME NEW j \in T', Serves(j)' # NULL PROVE student'[Serves(j)'] # Freed
      <4>1. PICK k \in T : k # i /\ Serves(j)' = Serves(k)
        BY <2>4, <2>5, <3>1
      <4>2. Serves(k) \in SAddr /\ Serves(k) # s /\ student[Serves(k)] # Freed
        BY <2>7, <3>1, <4>1 DEF IInv, ServedAllocated
      <4> QED
        BY <2>3, <4>1, <4>2
    <3> QED
      BY <3>1 DEF ServedAllocated
  <2>11. QueuedOnce'
    BY <2>6 DEF IInv, QueuedOnce
  <2>12. ServedOnce'
    BY <2>4, <2>5 DEF IInv, ServedOnce
  <2>13. Apart'
    BY <2>4, <2>5, <2>6 DEF IInv, Apart
  <2>14. Reachable'
    <3>1. ASSUME NEW b \in SAddr, student'[b] # Freed
          PROVE  (\E k \in Q' : stu_list'[k] = b) \/ (\E j \in T' : Serves(j)' = b)
      <4>1. student[b] # Freed /\ b # s
        BY <2>3, <3>1
      <4>2. CASE \E k \in Q : stu_list[k] = b
        BY <2>6, <4>2
      <4>3. CASE \E j \in T : Serves(j) = b
        BY <2>4, <2>5, <4>1, <4>3 DEF s
      <4> QED
        BY <4>1, <4>2, <4>3 DEF IInv, Reachable
    <3> QED
      BY <3>1 DEF Reachable
  <2>15. NamedOnce'
    BY <2>3, <2>6 DEF IInv, NamedOnce
  <2> QED
    BY <2>8, <2>9, <2>10, <2>11, <2>12, <2>13, <2>14, <2>15 DEF IInv
<1> QED
  BY <1>1, <1>2 DEF remove_ta

\* The TA's list entry is overwritten; what the others serve stays.
LEMMA CurrentChanges ==
    ASSUME TypeOK, NEW i \in T, NEW h \in SAddr \cup {NULL},
           ta_list' = [ta_list EXCEPT ![i].current_student = h]
    PROVE  /\ ta_list' \in Seq(Ta) /\ T' = T
           /\ Serves(i)' = h /\ \A j \in T : j # i => Serves(j)' = Serves(j)
           /\ \A j \in T : ta_list'[j].name = ta_list[j].name
<1> DEFINE new == [ta_list[i] EXCEPT !.current_student = h]
<1>1. ta_list[i] \in Ta
  BY Lengths
<1>2. new \in Ta /\ new.current_student = h /\ new.name = ta_list[i].name
  BY <1>1 DEF Ta
<1>3. ta_list' = [ta_list EXCEPT ![i] = new]
  OBVIOUS
<1>4. ta_list \in Seq(Ta) /\ i \in 1 .. Len(ta_list)
  BY DEF TypeOK, T
<1> HIDE DEF new
<1>5. /\ ta_list' \in Seq(Ta) /\ Len(ta_list') = Len(ta_list)
      /\ \A j \in 1 .. Len(ta_list) : ta_list'[j] = IF j = i THEN new ELSE ta_list[j]
  BY <1>2, <1>3, <1>4, ExceptSeq
<1> QED
  BY <1>2, <1>4, <1>5 DEF T, Serves

\* The TA's student is replaced by the head of the queue, which thereby changes
\* hands, or by nobody.
LEMMA NextOverallKeeps ==
    ASSUME IInv, NEW n \in Names, next_overall(n)
    PROVE  IInv'
<1>1. CASE UNCHANGED lists
  BY <1>1, StutterKeeps
<1>2. ASSUME NEW i \in DOMAIN ta_list, release(ta_list[i].current_student)
      PROVE  /\ i \in T /\ Serves(i) \in SAddr \cup {NULL}
             /\ student' \in [SAddr -> Student \cup {Freed}]
             /\ \A b \in SAddr : student'[b] = IF b = Serves(i) THEN Freed ELSE student[b]
             /\ \A j \in Q : stu_list[j] \in SAddr /\ stu_list[j] # Serves(i)
             /\ \A j \in T : /\ Serves(j) \in SAddr \cup {NULL}
                             /\ j # i /\ Serves(j) # NULL => Serves(j) # Serves(i)
  <2>1. TypeOK
    BY DEF IInv
  <2>2. i \in T /\ Serves(i) \in SAddr \cup {NULL} /\ release(Serves(i))
    BY <1>2, <2>1, Lengths DEF Serves
  <2> QED
    BY <2>1, <2>2, ReleaseFrees, Lengths DEF IInv, Apart, ServedOnce
<1>3. ASSUME NEW i \in DOMAIN ta_list, release(ta_list[i].current_student),
             stu_list = << >>,
             ta_list' = [ta_list EXCEPT ![i].current_student = NULL],
             UNCHANGED stu_list
      PROVE  IInv'
  <2>1. TypeOK /\ i \in T /\ Q = {} /\ Q' = {}
    BY <1>2, <1>3 DEF IInv, Q
  <2>2. /\ ta_list' \in Seq(Ta) /\ T' = T
        /\ Serves(i)' = NULL /\ \A j \in T : j # i => Serves(j)' = Serves(j)
    BY <1>3, <2>1, CurrentChanges
  <2>3. TypeOK'
    BY <1>2, <1>3, <2>1, <2>2 DEF TypeOK
  <2>4. QueuedAllocated' /\ QueuedOnce' /\ Apart' /\ NamedOnce'
    BY <2>1 DEF QueuedAllocated, QueuedOnce, Apart, NamedOnce
  <2>5. ServedAllocated'
    BY <1>2, <1>3, <2>2 DEF IInv, ServedAllocated
  <2>6. ServedOnce'
    BY <2>2 DEF IInv, ServedOnce
  <2>7. Reachable'
    BY <1>2, <1>3, <2>1, <2>2 DEF IInv, Reachable
  <2> QED
    BY <2>3, <2>4, <2>5, <2>6, <2>7 DEF IInv
<1>4. ASSUME NEW i \in DOMAIN ta_list, release(ta_list[i].current_student),
             stu_list # << >>,
             ta_list' = [ta_list EXCEPT ![i].current_student = stu_list[1]],
             stu_list' = RemoveAt(stu_list, 1)
      PROVE  IInv'
  <2> DEFINE h == stu_list[1]
             s == Serves(i)
  <2>1. TypeOK /\ i \in T
    BY <1>2, <1>4 DEF IInv
  <2>2. 1 \in Q /\ h \in SAddr /\ h # s /\ h # NULL
    <3>1. 1 \in Q
      BY <1>4, <2>1, EmptySeq DEF TypeOK, Q
    <3> QED
      BY <1>2, <1>4, <3>1, ListsAssumption
  <2>3. /\ ta_list' \in Seq(Ta) /\ T' = T
        /\ Serves(i)' = h /\ \A j \in T : j # i => Serves(j)' = Serves(j)
    BY <1>4, <2>1, <2>2, CurrentChanges
  <2>4. /\ stu_list' \in Seq(SAddr)
        /\ \A j \in Q' : /\ Before(1, j) \in Q /\ Before(1, j) # 1
                         /\ stu_list'[j] = stu_list[Before(1, j)]
        /\ \A j, k \in Q' : j < k <=> Before(1, j) < Before(1, k)
        /\ \A k \in Q : k # 1 => \E j \in Q' : Before(1, j) = k
    BY <1>4, <2>1, <2>2, QueueWithout
  <2>5. \A j, k \in Q' : Before(1, j) = Before(1, k) => j = k
    BY <2>4, LenProperties DEF Q
  <2>6. /\ student' \in [SAddr -> Student \cup {Freed}]
        /\ \A b \in SAddr : student'[b] = IF b = s THEN Freed ELSE student[b]
        /\ \A j \in Q : stu_list[j] \in SAddr /\ stu_list[j] # s
        /\ \A j \in Q : j # 1 => stu_list[j] # h
        /\ \A j \in T : /\ Serves(j) \in SAddr \cup {NULL} /\ Serves(j) # h
                        /\ j # i /\ Serves(j) # NULL => Serves(j) # s
    BY <1>2, <1>4, <2>2 DEF IInv, QueuedOnce, Apart
  <2>7. TypeOK'
    BY <2>3, <2>4, <2>6 DEF TypeOK
  <2> HIDE DEF h, s
  <2>8. QueuedAllocated'
    BY <2>4, <2>6 DEF IInv, QueuedAllocated
  <2>9. ServedAllocated'
    <3>1. student[h] # Freed
      BY <2>2 DEF IInv, QueuedAllocated, h
    <3> QED
      BY <2>2, <2>3, <2>6, <3>1 DEF IInv, ServedAllocated
  <2>10. QueuedOnce'
    BY <2>4, <2>5 DEF IInv, QueuedOnce
  <2>11. ServedOnce'
    BY <2>2, <2>3, <2>6 DEF IInv, ServedOnce
  <2>12. Apart'
    BY <2>3, <2>4, <2>6 DEF IInv, Apart
  <2>13. Reachable'
    <3>1. ASSUME NEW b \in SAddr, student'[b] # Freed
          PROVE  (\E k \in Q' : stu_list'[k] = b) \/ (\E j \in T' : Serves(j)' = b)
      <4>1. student[b] # Freed /\ b # s
        BY <2>6, <3>1
      <4>2. CASE \E k \in Q : stu_list[k] = b
        BY <2>1, <2>3, <2>4, <4>2 DEF h
      <4>3. CASE \E j \in T : Serves(j) = b
        BY <2>3, <4>1, <4>3 DEF s
      <4> QED
        BY <4>1, <4>2, <4>3 DEF IInv, Reachable
    <3> QED
      BY <3>1 DEF Reachable
  <2>14. NamedOnce'
    BY <2>4, <2>5, <2>6 DEF IInv, NamedOnce
  <2> QED
    BY <2>7, <2>8, <2>9, <2>10, <2>11, <2>12, <2>13, <2>14 DEF IInv
<1> QED
  BY <1>1, <1>3, <1>4 DEF next_overall

-----------------------------------------------------------------------------
(* What holds of every behaviour. *)

LEMMA StepKeeps == IInv /\ [process_args]_lists => IInv'
<1> SUFFICES ASSUME IInv, process_args PROVE IInv'
  BY StutterKeeps
<1> PICK n \in Names :
        \/ \E c \in Courses \cup {BadCourse} : add_student(n, c)
        \/ give_up_waiting(n) \/ add_ta(n) \/ remove_ta(n) \/ next_overall(n)
  BY DEF process_args
<1> QED
  BY AddStudentKeeps, GiveUpKeeps, AddTaKeeps, RemoveTaKeeps, NextOverallKeeps

LEMMA AlwaysIInv == Spec => []IInv
  BY InitEstablishes, StepKeeps, PTL DEF Spec

\* The lists hold what their types say: no operation of hcq.c stores anything
\* but student structs in the queue and TAs in the TA list.
THEOREM TypeCorrect == Spec => []TypeOK
<1>1. IInv => TypeOK
  BY DEF IInv
<1> QED
  BY <1>1, AlwaysIInv, PTL

\* add_student keeps its promise of one question for each student, whatever
\* the other operations do to the queue in between.
THEOREM OneQuestionPerStudent == Spec => []OneQuestionEach
  BY IInvImpliesProperties, AlwaysIInv, PTL

\* The student structs are managed correctly: none is freed while a list points
\* at it, none is lost, and none has two owners, for any number of students and
\* TAs, also when TAs share a name.
THEOREM HeapIsDisciplined == Spec => []HeapDiscipline
<1>1. IInv => HeapDiscipline
  BY IInvImpliesProperties DEF HeapDiscipline
<1> QED
  BY <1>1, AlwaysIInv, PTL

-----------------------------------------------------------------------------
(* The order of the queue. *)

\* What an operation can do to the queue: nothing, append a struct that is not
\* in it, or take one node out.
LEMMA QueueSteps ==
    ASSUME IInv, process_args
    PROVE  \/ UNCHANGED stu_list
           \/ \E a \in SAddr \ Queued : stu_list' = Append(stu_list, a)
           \/ \E i \in Q : stu_list' = RemoveAt(stu_list, i)
<1>1. TypeOK
  BY DEF IInv
<1>2. PICK n \in Names :
        \/ \E c \in Courses \cup {BadCourse} : add_student(n, c)
        \/ give_up_waiting(n) \/ add_ta(n) \/ remove_ta(n) \/ next_overall(n)
  BY DEF process_args
<1>3. ASSUME NEW c \in Courses \cup {BadCourse}, add_student(n, c), stu_list' # stu_list
      PROVE  \E a \in SAddr \ Queued : stu_list' = Append(stu_list, a)
  <2>1. PICK a \in malloc_student : stu_list' = Append(stu_list, a)
    BY <1>3 DEF add_student, lists
  <2>2. a \in SAddr /\ a \notin Queued
    BY <1>1, Lengths DEF malloc_student, Queued, IInv, QueuedAllocated
  <2> QED
    BY <2>1, <2>2
<1>4. ASSUME give_up_waiting(n), stu_list' # stu_list
      PROVE  \E i \in Q : stu_list' = RemoveAt(stu_list, i)
  BY <1>1, <1>4, Lengths DEF give_up_waiting, lists
<1>5. ASSUME next_overall(n), stu_list' # stu_list
      PROVE  \E i \in Q : stu_list' = RemoveAt(stu_list, i)
  <2>1. stu_list # << >> /\ stu_list' = RemoveAt(stu_list, 1)
    BY <1>5 DEF next_overall, lists
  <2>2. 1 \in Q
    BY <1>1, <2>1, EmptySeq DEF TypeOK, Q
  <2> QED
    BY <2>1, <2>2
<1> QED
  BY <1>2, <1>3, <1>4, <1>5 DEF add_ta, remove_ta, lists

LEMMA StepKeepsOrder == IInv /\ [process_args]_lists => [KeepsOrder /\ NewcomersLast]_lists
<1> SUFFICES ASSUME IInv, process_args PROVE KeepsOrder /\ NewcomersLast
  OBVIOUS
<1>1. TypeOK /\ TypeOK'
  BY StepKeeps DEF IInv
<1>2. Q = DOMAIN stu_list /\ Q' = DOMAIN stu_list' /\ Q \subseteq Nat /\ Q' \subseteq Nat
  BY <1>1, LenProperties DEF TypeOK, Q
<1>3. CASE UNCHANGED stu_list
  BY <1>2, <1>3 DEF KeepsOrder, NewcomersLast, Queued, IInv, QueuedOnce
<1>4. ASSUME NEW a \in SAddr \ Queued, stu_list' = Append(stu_list, a)
      PROVE  KeepsOrder /\ NewcomersLast
  <2>1. \A j \in Q' : \/ j \in Q /\ stu_list'[j] = stu_list[j]
                      \/ stu_list'[j] = a /\ \A k \in Q : k < j
    <3>1. stu_list \in Seq(SAddr) /\ Len(stu_list) \in Nat /\ a \in SAddr
      BY <1>1, LenProperties DEF TypeOK
    <3>2. /\ Len(Append(stu_list, a)) = Len(stu_list) + 1
          /\ \A j \in 1 .. Len(stu_list) : Append(stu_list, a)[j] = stu_list[j]
          /\ Append(stu_list, a)[Len(stu_list) + 1] = a
      BY <3>1, AppendProperties
    <3> QED
      BY <1>4, <3>1, <3>2 DEF Q
  <2>2. \A j \in Q : stu_list[j] # a
    BY <1>2, <1>4 DEF Queued
  <2>3. KeepsOrder
    <3> SUFFICES ASSUME NEW p \in Q, NEW q \in Q, NEW k \in Q', NEW l \in Q', p < q,
                        stu_list[p] = stu_list'[k], stu_list[q] = stu_list'[l]
                 PROVE  k < l
      BY <1>2 DEF KeepsOrder
    <3>1. k \in Q /\ l \in Q /\ stu_list[k] = stu_list[p] /\ stu_list[l] = stu_list[q]
      BY <2>1, <2>2
    <3> QED
      BY <3>1 DEF IInv, QueuedOnce
  <2>4. NewcomersLast
    BY <1>2, <2>1 DEF NewcomersLast, Queued
  <2> QED
    BY <2>3, <2>4
<1>5. ASSUME NEW i \in Q, stu_list' = RemoveAt(stu_list, i)
      PROVE  KeepsOrder /\ NewcomersLast
  <2>1. /\ \A j \in Q' : Before(i, j) \in Q /\ stu_list'[j] = stu_list[Before(i, j)]
        /\ \A j, k \in Q' : j < k <=> Before(i, j) < Before(i, k)
    BY <1>5, <1>1, QueueWithout
  <2>2. KeepsOrder
    <3> SUFFICES ASSUME NEW p \in Q, NEW q \in Q, NEW k \in Q', NEW l \in Q', p < q,
                        stu_list[p] = stu_list'[k], stu_list[q] = stu_list'[l]
                 PROVE  k < l
      BY <1>2 DEF KeepsOrder
    <3>1. /\ Before(i, k) \in Q /\ stu_list[p] = stu_list[Before(i, k)]
          /\ Before(i, l) \in Q /\ stu_list[q] = stu_list[Before(i, l)]
      BY <2>1
    <3>2. p = Before(i, k) /\ q = Before(i, l)
      BY <3>1 DEF IInv, QueuedOnce
    <3> QED
      BY <2>1, <3>2
  <2>3. NewcomersLast
    BY <1>2, <2>1 DEF NewcomersLast, Queued
  <2> QED
    BY <2>2, <2>3
<1> QED
  BY <1>3, <1>4, <1>5, QueueSteps

\* First come, first served: no operation makes two waiting students change
\* places, and whoever joins is behind all who wait.
THEOREM QueueIsFair == Spec => ArrivalOrder
  BY AlwaysIInv, StepKeepsOrder, PTL DEF Spec, ArrivalOrder

-----------------------------------------------------------------------------
(* The refinement: HcqLists implements HelpDesk when callers keep TA names  *)
(* unique.  Each operation on the lists is one step of the abstract help    *)
(* desk, or none.                                                           *)

\* Looking a TA up by name finds the one TA of that name.
TaNamedOnce == \A i, j \in T : ta_list[i].name = ta_list[j].name => i = j
RInv == IInv /\ TaNamedOnce

\* The refinement mapping, one element at a time.
WaitingFacts ==
    /\ waiting \in Seq(Names)
    /\ Len(waiting) = Len(stu_list) /\ Len(stu_list) \in Nat
    /\ \A i \in Q : waiting[i] = student[stu_list[i]].name
HelpingFacts ==
    /\ helping = [t \in DOMAIN helping |-> helping[t]]
    /\ DOMAIN helping = {ta_list[i].name : i \in T}
    /\ \A i \in T : /\ helping[ta_list[i].name] = HelpedBy(Serves(i))
                    /\ ta_list[i].name \in Names

LEMMA WaitingIs == RInv => WaitingFacts
<1> SUFFICES ASSUME RInv PROVE WaitingFacts
  OBVIOUS
<1>1. TypeOK
  BY DEF RInv, IInv
<1>2. \A i \in Q : student[stu_list[i]].name \in Names
  BY <1>1, Lengths DEF RInv, IInv, QueuedAllocated, TypeOK, Student
<1>3. Len(stu_list) \in Nat /\ waiting = [i \in 1 .. Len(stu_list) |-> student[stu_list[i]].name]
  BY <1>1, Lengths DEF waiting, Q
<1>4. waiting \in [1 .. Len(stu_list) -> Names]
  BY <1>2, <1>3 DEF Q
<1>5. waiting \in Seq(Names)
  BY <1>3, <1>4, SeqDef
<1> QED
  BY <1>3, <1>4, <1>5, LenProperties DEF Q, WaitingFacts

LEMMA HelpingIs == RInv => HelpingFacts
<1> SUFFICES ASSUME RInv PROVE HelpingFacts
  OBVIOUS
<1>1. TypeOK
  BY DEF RInv, IInv
<1>2. DOMAIN ta_list = T /\ \A i \in T : ta_list[i] \in Ta
  BY <1>1, Lengths
<1>3. ASSUME NEW i \in T
      PROVE  (CHOOSE j \in DOMAIN ta_list : IsFirstTa(j, ta_list[i].name)) = i
  <2>1. IsFirstTa(i, ta_list[i].name)
    <3>1. \A j \in 1 .. i - 1 : j \in T /\ j # i
      BY <1>1, Lengths DEF T
    <3> QED
      BY <1>2, <3>1 DEF IsFirstTa, RInv, TaNamedOnce
  <2>2. \A j \in DOMAIN ta_list : IsFirstTa(j, ta_list[i].name) => j = i
    BY <1>2 DEF IsFirstTa, RInv, TaNamedOnce
  <2> QED
    BY <1>2, <2>1, <2>2
<1>4. \A i \in T : helping[ta_list[i].name] = HelpedBy(Serves(i))
  BY <1>2, <1>3 DEF helping, Serves
<1>5. /\ helping = [t \in DOMAIN helping |-> helping[t]]
      /\ DOMAIN helping = {ta_list[i].name : i \in T}
  BY <1>2 DEF helping
<1>6. \A i \in T : ta_list[i].name \in Names
  BY <1>2 DEF Ta
<1> QED
  BY <1>4, <1>5, <1>6 DEF HelpingFacts

LEMMA MappingNext == RInv' => WaitingFacts' /\ HelpingFacts'
  BY WaitingIs, HelpingIs, PTL

-----------------------------------------------------------------------------
(* One lemma for each operation: TA names stay unique, and the abstract help *)
(* desk takes the corresponding step.                                        *)

LEMMA StutterMaps == UNCHANGED lists => UNCHANGED Desk!desk /\ (RInv => TaNamedOnce')
<1> SUFFICES ASSUME UNCHANGED lists PROVE UNCHANGED Desk!desk /\ (RInv => TaNamedOnce')
  OBVIOUS
<1>1. waiting' = waiting
  BY DEF lists, waiting
<1>2. helping' = helping
  BY DEF lists, helping, HelpedBy, IsFirstTa
<1> QED
  BY <1>1, <1>2 DEF Desk!desk, RInv, TaNamedOnce, T, lists

LEMMA AddStudentMaps ==
    ASSUME RInv, NEW n \in Names, NEW c \in Courses \cup {BadCourse}, add_student(n, c)
    PROVE  TaNamedOnce' /\ (Desk!Arrive(n) \/ UNCHANGED Desk!desk)
<1>1. CASE UNCHANGED lists
  BY <1>1, StutterMaps
<1>2. ASSUME ~InQueue(n), c \in Courses, NEW a \in malloc_student,
             student' = [student EXCEPT ![a] = [name |-> n, course |-> c]],
             stu_list' = Append(stu_list, a), UNCHANGED ta_list
      PROVE  TaNamedOnce' /\ Desk!Arrive(n)
  <2>1. TypeOK /\ IInv /\ WaitingFacts /\ HelpingFacts
    BY WaitingIs, HelpingIs DEF RInv, IInv
  <2>2. TaNamedOnce'
    BY <1>2 DEF RInv, TaNamedOnce, T
  <2>3. WaitingFacts' /\ HelpingFacts'
    BY <2>1, <2>2, AddStudentKeeps, MappingNext DEF RInv
  <2>4. a \in SAddr /\ student[a] = Freed
    BY DEF malloc_student
  <2>5. /\ \A b \in SAddr : b # a => student'[b] = student[b]
        /\ student'[a].name = n
    BY <1>2, <2>1, <2>4 DEF TypeOK
  <2>6. \A i \in Q : waiting[i] # n
    BY <1>2, <2>1, Lengths DEF InQueue, WaitingFacts
  <2>7. waiting' = Append(waiting, n)
    <3>1. /\ stu_list' \in Seq(SAddr) /\ Len(stu_list') = Len(stu_list) + 1
          /\ stu_list'[Len(stu_list) + 1] = a
          /\ \A i \in Q : /\ stu_list'[i] = stu_list[i]
                          /\ stu_list[i] \in SAddr /\ stu_list[i] # a
      BY <1>2, <2>1, <2>4, Lengths, AppendProperties DEF TypeOK, Q, IInv, QueuedAllocated
    <3>2. /\ Q' = Q \cup {Len(stu_list) + 1} /\ Q = 1 .. Len(stu_list)
          /\ Q' = 1 .. Len(stu_list')
      BY <2>1, <3>1 DEF Q, WaitingFacts
    <3>3. /\ Append(waiting, n) \in Seq(Names)
          /\ Len(Append(waiting, n)) = Len(stu_list) + 1
          /\ Append(waiting, n)[Len(stu_list) + 1] = n
          /\ \A i \in Q : Append(waiting, n)[i] = waiting[i]
      BY <2>1, <3>2, AppendProperties DEF WaitingFacts
    <3>4. \A i \in Q' : waiting'[i] = Append(waiting, n)[i]
      BY <2>1, <2>3, <2>5, <3>1, <3>2, <3>3 DEF WaitingFacts
    <3> QED
      BY <2>3, <3>1, <3>2, <3>3, <3>4, SeqEqual DEF WaitingFacts
  <2>8. helping' = helping
    <3>1. \A i \in T : /\ Serves(i)' = Serves(i) /\ Serves(i) \in SAddr \cup {NULL}
                       /\ Serves(i) # a
      BY <1>2, <2>1, <2>4, ListsAssumption, Lengths DEF IInv, ServedAllocated, Serves
    <3>2. T' = T /\ \A i \in T : HelpedBy(Serves(i))' = HelpedBy(Serves(i))
      BY <1>2, <2>5, <3>1 DEF HelpedBy, T
    <3> QED
      BY <1>2, <2>1, <2>3, <3>2 DEF HelpingFacts
  <2> QED
    BY <2>1, <2>2, <2>6, <2>7, <2>8, LenProperties DEF Desk!Arrive, WaitingFacts, Q
<1> QED
  BY <1>1, <1>2 DEF add_student

\* Taking a node out of the queue takes the name out of the abstract queue, when
\* the other students keep their names.
LEMMA WaitingShrinks ==
    ASSUME RInv, RInv', NEW i \in Q, stu_list' = RemoveAt(stu_list, i),
           \A j \in Q : j # i => student'[stu_list[j]] = student[stu_list[j]]
    PROVE  waiting' = RemoveAt(waiting, i) /\ i \in DOMAIN waiting
<1>1. TypeOK /\ WaitingFacts /\ WaitingFacts'
  BY WaitingIs, MappingNext DEF RInv, IInv
<1>2. stu_list \in Seq(SAddr) /\ i \in 1 .. Len(stu_list) /\ i \in 1 .. Len(waiting)
  BY <1>1 DEF TypeOK, Q, WaitingFacts
<1>3. /\ Len(stu_list') = Len(stu_list) - 1
      /\ \A j \in 1 .. Len(stu_list) - 1 : stu_list'[j] = stu_list[Before(i, j)]
  BY <1>2, RemoveAtProperties DEF Before
<1>4. /\ RemoveAt(waiting, i) \in Seq(Names)
      /\ Len(RemoveAt(waiting, i)) = Len(stu_list) - 1
      /\ \A j \in 1 .. Len(stu_list) - 1 : RemoveAt(waiting, i)[j] = waiting[Before(i, j)]
  BY <1>1, <1>2, RemoveAtProperties DEF WaitingFacts, Before
<1>5. \A j \in 1 .. Len(stu_list) - 1 : Before(i, j) \in Q /\ Before(i, j) # i
  BY <1>1, <1>2 DEF Before, Q, WaitingFacts
<1>6. ASSUME NEW j \in 1 .. Len(stu_list) - 1
      PROVE  waiting'[j] = RemoveAt(waiting, i)[j]
  <2>1. Q' = 1 .. Len(stu_list) - 1
    BY <1>3 DEF Q
  <2>2. waiting'[j] = student'[stu_list[Before(i, j)]].name
    BY <1>1, <1>3, <2>1 DEF WaitingFacts
  <2>3. student'[stu_list[Before(i, j)]] = student[stu_list[Before(i, j)]]
    BY <1>5
  <2> QED
    BY <1>1, <1>4, <1>5, <2>2, <2>3 DEF WaitingFacts
<1>7. waiting' = RemoveAt(waiting, i)
  BY <1>1, <1>3, <1>4, <1>6, SeqEqual DEF WaitingFacts
<1>8. i \in DOMAIN waiting
  BY <1>1, <1>2, LenProperties DEF WaitingFacts
<1> QED
  BY <1>7, <1>8

LEMMA GiveUpMaps ==
    ASSUME RInv, NEW n \in Names, give_up_waiting(n)
    PROVE  TaNamedOnce' /\ (Desk!GiveUp(n) \/ UNCHANGED Desk!desk)
<1>1. CASE UNCHANGED lists
  BY <1>1, StutterMaps
<1>2. ASSUME NEW i \in DOMAIN stu_list, IsFirstStudent(i, n),
             stu_list' = RemoveAt(stu_list, i),
             student' = [student EXCEPT ![stu_list[i]] = Freed],
             UNCHANGED ta_list
      PROVE  TaNamedOnce' /\ Desk!GiveUp(n)
  <2> DEFINE s == stu_list[i]
  <2>1. TypeOK /\ IInv /\ WaitingFacts /\ HelpingFacts
    BY WaitingIs, HelpingIs DEF RInv, IInv
  <2>2. TaNamedOnce'
    BY <1>2 DEF RInv, TaNamedOnce, T
  <2>3. WaitingFacts' /\ HelpingFacts'
    BY <2>1, <2>2, GiveUpKeeps, MappingNext DEF RInv
  <2>4. i \in Q /\ s \in SAddr /\ waiting[i] = n
    BY <1>2, <2>1, Lengths DEF IsFirstStudent, WaitingFacts
  <2>5. \A b \in SAddr : b # s => student'[b] = student[b]
    BY <1>2, <2>1, <2>4 DEF TypeOK
  <2>6. waiting' = RemoveAt(waiting, i) /\ i \in DOMAIN waiting
    <3>1. \A j \in Q : j # i => stu_list[j] \in SAddr /\ stu_list[j] # s
      BY <2>1, <2>4, Lengths DEF IInv, QueuedOnce
    <3>2. \A j \in Q : j # i => student'[stu_list[j]] = student[stu_list[j]]
      BY <2>5, <3>1
    <3>3. RInv'
      BY <2>2, <2>1, GiveUpKeeps DEF RInv
    <3> QED
      BY <1>2, <2>4, <3>2, <3>3, WaitingShrinks
  <2>7. helping' = helping
    <3>1. \A j \in T : /\ Serves(j)' = Serves(j) /\ Serves(j) \in SAddr \cup {NULL}
                       /\ Serves(j) # s
      BY <1>2, <2>1, <2>4, Lengths DEF IInv, Apart, Serves
    <3>2. T' = T /\ \A j \in T : HelpedBy(Serves(j))' = HelpedBy(Serves(j))
      BY <1>2, <2>5, <3>1 DEF HelpedBy, T
    <3> QED
      BY <1>2, <2>1, <2>3, <3>2 DEF HelpingFacts
  <2> QED
    BY <2>2, <2>4, <2>6, <2>7 DEF Desk!GiveUp, Desk!RemoveAt, RemoveAt
<1> QED
  BY <1>1, <1>2 DEF give_up_waiting

LEMMA AddTaMaps ==
    ASSUME RInv, NEW n \in Names, ~OnRoster(n), add_ta(n)
    PROVE  TaNamedOnce' /\ Desk!StartShift(n)
<1> DEFINE new == [name |-> n, current_student |-> NULL]
<1>1. TypeOK /\ IInv /\ WaitingFacts /\ HelpingFacts
  BY WaitingIs, HelpingIs DEF RInv, IInv
<1>2. student' = student /\ stu_list' = stu_list /\ ta_list' = Cons(new, ta_list)
  BY DEF add_ta
<1>3. /\ Len(ta_list') = Len(ta_list) + 1 /\ Len(ta_list) \in Nat
      /\ ta_list'[1] = new
      /\ \A j \in T : ta_list'[j + 1] = ta_list[j]
  <2>1. ta_list \in Seq(Ta) /\ Len(ta_list) \in Nat /\ new \in Ta
    BY <1>1, LenProperties DEF TypeOK, Ta
  <2> HIDE DEF new
  <2>2. /\ Len(Cons(new, ta_list)) = Len(ta_list) + 1
        /\ Cons(new, ta_list)[1] = new
        /\ \A j \in 1 .. Len(ta_list) : Cons(new, ta_list)[j + 1] = ta_list[j]
    BY <2>1, ConsProperties
  <2> QED
    BY <1>2, <2>1, <2>2 DEF T
<1>4. /\ \A j \in T' : j = 1 \/ (j - 1 \in T /\ ta_list'[j] = ta_list[j - 1])
      /\ \A j \in T : j + 1 \in T' /\ ta_list'[j + 1] = ta_list[j]
      /\ 1 \in T' /\ T \subseteq Nat /\ T' \subseteq Nat
  <2>1. ASSUME NEW j \in T', j # 1 PROVE j - 1 \in T /\ ta_list'[j] = ta_list[j - 1]
    <3>1. j - 1 \in T /\ (j - 1) + 1 = j
      BY <1>3, <2>1 DEF T
    <3> QED
      BY <1>3, <3>1
  <2> QED
    BY <1>3, <2>1 DEF T
<1>5. \A j \in T : ta_list[j].name # n
  BY <1>1, Lengths DEF OnRoster
<1>6. TaNamedOnce'
  <2> SUFFICES ASSUME NEW i \in T', NEW j \in T', ta_list'[i].name = ta_list'[j].name
               PROVE  i = j
    BY DEF TaNamedOnce
  <2>1. CASE i = 1 \/ j = 1
    BY <1>3, <1>4, <1>5, <2>1
  <2>2. CASE i # 1 /\ j # 1
    <3>1. /\ i - 1 \in T /\ j - 1 \in T
          /\ ta_list[i - 1].name = ta_list[j - 1].name
      BY <1>4, <2>2
    <3>2. i - 1 = j - 1
      BY <3>1 DEF RInv, TaNamedOnce
    <3> QED
      BY <1>4, <3>2
  <2> QED
    BY <2>1, <2>2
<1>7. HelpingFacts'
  BY <1>1, <1>6, AddTaKeeps, MappingNext DEF RInv
<1>8. waiting' = waiting
  BY <1>2 DEF waiting
<1>9. /\ n \notin DOMAIN helping
      /\ DOMAIN helping' = DOMAIN helping \cup {n}
  <2>1. /\ DOMAIN helping = {ta_list[j].name : j \in T}
        /\ DOMAIN helping' = {ta_list'[j].name : j \in T'}
    BY <1>1, <1>7 DEF HelpingFacts
  <2>2. ta_list'[1].name = n
    BY <1>3
  <2>3. ASSUME NEW j \in T' PROVE ta_list'[j].name \in {ta_list[k].name : k \in T} \cup {n}
    <3>1. CASE j = 1
      BY <3>1, <2>2
    <3>2. CASE j # 1
      BY <3>2, <1>4
    <3> QED
      BY <3>1, <3>2
  <2>4. ASSUME NEW j \in T PROVE ta_list[j].name \in {ta_list'[k].name : k \in T'}
    BY <1>4
  <2>5. n \in {ta_list'[k].name : k \in T'}
    BY <1>4, <2>2
  <2> QED
    BY <1>5, <2>1, <2>3, <2>4, <2>5
<1>10. helping'[n] = NULL
  <2>1. HelpedBy(Serves(1))' = NULL /\ ta_list'[1].name = n
    BY <1>3 DEF HelpedBy, Serves
  <2> QED
    BY <1>4, <1>7, <2>1 DEF HelpingFacts
<1>11. ASSUME NEW t \in DOMAIN helping PROVE helping'[t] = helping[t]
  <2>1. PICK j \in T : ta_list[j].name = t
    BY <1>1, <1>11 DEF HelpingFacts
  <2>2. /\ j + 1 \in T' /\ ta_list'[j + 1].name = t
        /\ HelpedBy(Serves(j + 1))' = HelpedBy(Serves(j))
    BY <1>2, <1>4, <2>1 DEF HelpedBy, Serves
  <2> QED
    BY <1>1, <1>7, <2>1, <2>2 DEF HelpingFacts
<1>12. helping' = [u \in DOMAIN helping \cup {n} |-> IF u = n THEN NULL ELSE helping[u]]
  BY <1>7, <1>9, <1>10, <1>11 DEF HelpingFacts
<1> QED
  BY <1>6, <1>8, <1>9, <1>12 DEF Desk!StartShift

\* Releasing a TA's student changes nobody else's name: neither of those who
\* wait nor of those whom other TAs serve.
LEMMA ReleaseKeepsOthers ==
    ASSUME IInv, NEW i \in T, release(Serves(i))
    PROVE  /\ \A j \in Q : student'[stu_list[j]] = student[stu_list[j]]
           /\ \A j \in T : j # i /\ Serves(j) # NULL => student'[Serves(j)] = student[Serves(j)]
<1>1. TypeOK
  BY DEF IInv
<1>2. /\ Serves(i) \in SAddr \cup {NULL}
      /\ \A b \in SAddr : b # Serves(i) => student'[b] = student[b]
  BY <1>1, Lengths, ReleaseFrees
<1>3. \A j \in Q : stu_list[j] \in SAddr /\ stu_list[j] # Serves(i)
  BY <1>1, Lengths DEF IInv, Apart
<1>4. \A j \in T : j # i /\ Serves(j) # NULL => Serves(j) \in SAddr /\ Serves(j) # Serves(i)
  BY <1>1, Lengths DEF IInv, ServedOnce
<1> QED
  BY <1>2, <1>3, <1>4

LEMMA RemoveTaMaps ==
    ASSUME RInv, NEW n \in Names, remove_ta(n)
    PROVE  TaNamedOnce' /\ (Desk!EndShift(n) \/ UNCHANGED Desk!desk)
<1>1. CASE UNCHANGED lists
  BY <1>1, StutterMaps
<1>2. ASSUME NEW i \in DOMAIN ta_list, IsFirstTa(i, n),
             release(ta_list[i].current_student),
             ta_list' = RemoveAt(ta_list, i),
             UNCHANGED stu_list
      PROVE  TaNamedOnce' /\ Desk!EndShift(n)
  <2>1. TypeOK /\ IInv /\ WaitingFacts /\ HelpingFacts
    BY WaitingIs, HelpingIs DEF RInv, IInv
  <2>2. i \in T /\ release(Serves(i)) /\ ta_list[i].name = n
    BY <1>2, <2>1, Lengths DEF IsFirstTa, Serves
  <2>3. /\ \A j \in T' : /\ Before(i, j) \in T /\ Before(i, j) # i
                         /\ ta_list'[j] = ta_list[Before(i, j)]
        /\ \A j, k \in T' : j < k <=> Before(i, j) < Before(i, k)
        /\ \A k \in T : k # i => \E j \in T' : Before(i, j) = k
    BY <1>2, <2>1, <2>2, RosterWithout
  <2>4. \A j, k \in T' : Before(i, j) = Before(i, k) => j = k
    <3>1. T \subseteq Nat /\ T' \subseteq Nat
      BY <2>1, <2>2 DEF T
    <3> QED
      BY <2>3, <3>1
  <2>5. TaNamedOnce'
    BY <2>3, <2>4 DEF RInv, TaNamedOnce
  <2>6. WaitingFacts' /\ HelpingFacts'
    BY <2>1, <2>5, RemoveTaKeeps, MappingNext DEF RInv
  <2>7. waiting' = waiting
    <3>1. Q' = Q /\ \A j \in Q : waiting'[j] = waiting[j]
      BY <1>2, <2>1, <2>2, <2>6, ReleaseKeepsOthers DEF WaitingFacts, Q
    <3> QED
      BY <1>2, <2>1, <2>6, <3>1, SeqEqual DEF WaitingFacts, Q
  <2>8. \A j \in T' : /\ HelpedBy(Serves(j))' = HelpedBy(Serves(Before(i, j)))
                      /\ ta_list'[j].name = ta_list[Before(i, j)].name
    BY <2>1, <2>2, <2>3, ReleaseKeepsOthers DEF HelpedBy, Serves
  <2>9. \A j \in T : j # i => ta_list[j].name # n
    BY <2>2 DEF RInv, TaNamedOnce
  <2>10. n \in DOMAIN helping /\ DOMAIN helping' = DOMAIN helping \ {n}
    BY <2>1, <2>2, <2>3, <2>6, <2>9 DEF HelpingFacts
  <2>11. ASSUME NEW t \in DOMAIN helping' PROVE helping'[t] = helping[t]
    <3>1. PICK j \in T' : ta_list'[j].name = t
      BY <2>6, <2>11 DEF HelpingFacts
    <3> QED
      BY <2>1, <2>3, <2>6, <2>8, <3>1 DEF HelpingFacts
  <2>12. helping' = [t \in DOMAIN helping \ {n} |-> helping[t]]
    BY <2>6, <2>10, <2>11 DEF HelpingFacts
  <2> QED
    BY <2>5, <2>7, <2>10, <2>12 DEF Desk!EndShift, Desk!Restrict
<1> QED
  BY <1>1, <1>2 DEF remove_ta

\* What the desk sees when TA i gets h, or nobody, as current student.
LEMMA HelpingChanges ==
    ASSUME RInv, RInv', NEW i \in T, NEW h \in SAddr \cup {NULL}, release(Serves(i)),
           ta_list' = [ta_list EXCEPT ![i].current_student = h]
    PROVE  helping' = [helping EXCEPT ![ta_list[i].name] = HelpedBy(h)']
<1>1. TypeOK /\ IInv /\ HelpingFacts /\ HelpingFacts'
  BY HelpingIs, MappingNext DEF RInv, IInv
<1>2. /\ T' = T /\ Serves(i)' = h
      /\ \A j \in T : j # i => Serves(j)' = Serves(j)
      /\ \A j \in T : ta_list'[j].name = ta_list[j].name
  BY <1>1, CurrentChanges
<1>3. DOMAIN helping' = DOMAIN helping /\ ta_list[i].name \in DOMAIN helping
  BY <1>1, <1>2 DEF HelpingFacts
<1>4. helping'[ta_list[i].name] = HelpedBy(h)'
  <2>1. HelpedBy(Serves(i))' = HelpedBy(h)'
    BY <1>2 DEF HelpedBy
  <2> QED
    BY <1>1, <1>2, <2>1 DEF HelpingFacts
<1>5. ASSUME NEW t \in DOMAIN helping, t # ta_list[i].name
      PROVE  helping'[t] = helping[t]
  <2>1. PICK j \in T : ta_list[j].name = t
    BY <1>1, <1>5 DEF HelpingFacts
  <2>2. j # i
    BY <1>5, <2>1
  <2>3. HelpedBy(Serves(j))' = HelpedBy(Serves(j))
    BY <1>1, <1>2, <2>2, ReleaseKeepsOthers DEF HelpedBy
  <2> QED
    BY <1>1, <1>2, <2>1, <2>3 DEF HelpingFacts
<1> QED
  BY <1>1, <1>3, <1>4, <1>5 DEF HelpingFacts

LEMMA NextOverallMaps ==
    ASSUME RInv, NEW n \in Names, next_overall(n)
    PROVE  TaNamedOnce' /\ (Desk!TakeNext(n) \/ UNCHANGED Desk!desk)
<1>1. CASE UNCHANGED lists
  BY <1>1, StutterMaps
<1>2. ASSUME NEW i \in DOMAIN ta_list, IsFirstTa(i, n), release(ta_list[i].current_student),
             NEW h \in SAddr \cup {NULL},
             ta_list' = [ta_list EXCEPT ![i].current_student = h]
      PROVE  /\ i \in T /\ release(Serves(i)) /\ ta_list[i].name = n
             /\ n \in DOMAIN helping
             /\ TaNamedOnce' /\ RInv'
             /\ helping' = [helping EXCEPT ![n] = HelpedBy(h)']
             /\ \A j \in Q : student'[stu_list[j]] = student[stu_list[j]]
  <2>1. TypeOK /\ IInv /\ HelpingFacts
    BY HelpingIs DEF RInv, IInv
  <2>2. i \in T /\ release(Serves(i)) /\ ta_list[i].name = n
    BY <1>2, <2>1, Lengths DEF IsFirstTa, Serves
  <2>3. TaNamedOnce'
    BY <1>2, <2>1, <2>2, CurrentChanges DEF RInv, TaNamedOnce
  <2>4. RInv'
    BY <2>1, <2>3, NextOverallKeeps DEF RInv
  <2>5. helping' = [helping EXCEPT ![n] = HelpedBy(h)']
    BY <1>2, <2>2, <2>4, HelpingChanges
  <2>6. n \in DOMAIN helping
    BY <2>1, <2>2 DEF HelpingFacts
  <2> QED
    BY <2>1, <2>2, <2>3, <2>4, <2>5, <2>6, ReleaseKeepsOthers
<1>3. ASSUME NEW i \in DOMAIN ta_list, IsFirstTa(i, n), release(ta_list[i].current_student),
             stu_list = << >>,
             ta_list' = [ta_list EXCEPT ![i].current_student = NULL],
             UNCHANGED stu_list
      PROVE  TaNamedOnce' /\ Desk!TakeNext(n)
  <2>1. WaitingFacts /\ WaitingFacts' /\ TypeOK
    BY <1>2, <1>3, WaitingIs, MappingNext DEF RInv, IInv
  <2>2. waiting = << >> /\ waiting' = << >>
    BY <1>3, <2>1, EmptySeq DEF WaitingFacts
  <2>3. HelpedBy(NULL)' = NULL
    BY DEF HelpedBy
  <2> QED
    BY <1>2, <1>3, <2>2, <2>3 DEF Desk!TakeNext
<1>4. ASSUME NEW i \in DOMAIN ta_list, IsFirstTa(i, n), release(ta_list[i].current_student),
             stu_list # << >>,
             ta_list' = [ta_list EXCEPT ![i].current_student = stu_list[1]],
             stu_list' = RemoveAt(stu_list, 1)
      PROVE  TaNamedOnce' /\ Desk!TakeNext(n)
  <2>1. WaitingFacts /\ TypeOK
    BY WaitingIs DEF RInv, IInv
  <2>2. 1 \in Q /\ stu_list[1] \in SAddr /\ stu_list[1] # NULL
    <3>1. 1 \in Q
      BY <1>4, <2>1, EmptySeq DEF TypeOK, Q
    <3> QED
      BY <2>1, <3>1, Lengths, ListsAssumption
  <2>3. PICK h \in SAddr : h = stu_list[1]
    BY <2>2
  <2>4. /\ TaNamedOnce' /\ RInv' /\ n \in DOMAIN helping
        /\ helping' = [helping EXCEPT ![n] = HelpedBy(h)']
        /\ \A j \in Q : student'[stu_list[j]] = student[stu_list[j]]
    BY <1>2, <1>4, <2>3
  <2>5. waiting' = RemoveAt(waiting, 1) /\ 1 \in DOMAIN waiting
    BY <1>4, <2>2, <2>4, WaitingShrinks
  <2>6. waiting # << >>
    BY <2>1, <2>2, EmptySeq DEF WaitingFacts, Q
  <2>7. HelpedBy(h)' = waiting[1]
    BY <2>1, <2>2, <2>3, <2>4 DEF HelpedBy, WaitingFacts
  <2> QED
    BY <2>4, <2>5, <2>6, <2>7 DEF Desk!TakeNext, Desk!RemoveAt, RemoveAt
<1> QED
  BY <1>1, <1>3, <1>4 DEF next_overall

-----------------------------------------------------------------------------
LEMMA InitMaps == Init => RInv /\ Desk!Init
<1> SUFFICES ASSUME Init PROVE RInv /\ Desk!Init
  OBVIOUS
<1>1. IInv /\ T = {} /\ ta_list = << >> /\ stu_list = << >>
  BY InitEstablishes, EmptySeq DEF Init, T
<1>2. RInv
  BY <1>1 DEF RInv, TaNamedOnce
<1>3. WaitingFacts /\ HelpingFacts
  BY <1>2, WaitingIs, HelpingIs
<1>4. waiting = << >>
  BY <1>1, <1>3, EmptySeq DEF WaitingFacts
<1>5. DOMAIN helping = {}
  BY <1>1, <1>3 DEF HelpingFacts
<1>6. helping = << >>
  BY <1>1 DEF helping
<1> QED
  BY <1>2, <1>4, <1>6 DEF Desk!Init

LEMMA StepMaps ==
    ASSUME UniqueTas
    PROVE  RInv /\ [process_args]_lists => RInv' /\ [Desk!Next]_(Desk!desk)
<1> SUFFICES ASSUME RInv, [process_args]_lists
             PROVE  TaNamedOnce' /\ [Desk!Next]_(Desk!desk)
  BY StepKeeps DEF RInv
<1>1. CASE UNCHANGED lists
  BY <1>1, StutterMaps
<1>2. CASE process_args
  <2>1. PICK n \in Names :
          \/ \E c \in Courses \cup {BadCourse} : add_student(n, c)
          \/ give_up_waiting(n)
          \/ ~OnRoster(n) /\ add_ta(n)
          \/ remove_ta(n)
          \/ next_overall(n)
    BY <1>2 DEF process_args
  <2> QED
    BY <2>1, AddStudentMaps, GiveUpMaps, AddTaMaps, RemoveTaMaps, NextOverallMaps
       DEF Desk!Next
<1> QED
  BY <1>1, <1>2

\* With unique TA names the lists are first come, first served in the full sense
\* of HelpDesk: each command takes exactly the student, and touches exactly the
\* TA, that the abstract help desk says.
THEOREM ListsImplementDesk ==
    ASSUME UniqueTas
    PROVE  Spec => ImplementsDesk
  BY InitMaps, StepMaps, PTL DEF Spec, ImplementsDesk, Desk!Spec
=============================================================================
