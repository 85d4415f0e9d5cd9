------------------------------ MODULE HcqLists ------------------------------
(***************************************************************************)
(* The student queue and the TA list of the help centre: A4/hcq.c, driven  *)
(* by the command interpreter A4/helpcentre.c.  (The server, HcqServer,    *)
(* calls the same operations on the same lists.)                           *)
(*                                                                         *)
(* Student structs live on a heap and are referred to by address, because  *)
(* the structs change hands: add_student allocates one and queues it,      *)
(* next_overall moves it from the queue to a TA, and four different        *)
(* operations free it.  A linked list is the sequence of its nodes.  TA    *)
(* structs are created, linked, unlinked and freed inside one operation    *)
(* each, so the TA list holds them by value.                               *)
(***************************************************************************)
EXTENDS Naturals, Sequences, SequencesExt

CONSTANTS
    SAddr,      \* addresses malloc may return for a student struct (bounds the queue)
    Names,      \* names of students and TAs
    Courses,    \* the valid course codes
    BadCourse,  \* any other course code
    MaxTas,     \* bound on the length of the TA list
    UniqueTas,  \* TRUE: callers keep TA names unique, as add_ta's comment assumes
    NULL

ASSUME ListsAssumption ==
    /\ NULL \notin SAddr \cup Names \cup Courses
    /\ BadCourse \notin Courses
    /\ MaxTas \in Nat
    /\ UniqueTas \in BOOLEAN

VARIABLES
    student,    \* the student structs; name = NULL marks an address not allocated
    stu_list,   \* the waiting queue, addresses of student structs
    ta_list     \* the TA list, newest first

lists == <<student, stu_list, ta_list>>

Student == [name : Names, course : Courses]
Ta == [name : Names, current_student : SAddr \cup {NULL}]
Freed == [name |-> NULL, course |-> NULL]

\* (faulty variant) the address of a student a TA still serves is reused.
reuse_student == {a \in SAddr : \A i \in DOMAIN stu_list : stu_list[i] # a}

malloc_student == {a \in SAddr : student[a] = Freed}

\* find_student: the first node with this name, as its position in the queue.
IsFirstStudent(i, n) ==
    /\ i \in DOMAIN stu_list
    /\ student[stu_list[i]].name = n
    /\ \A j \in 1 .. i - 1 : student[stu_list[j]].name # n

\* (faulty variant) only the head of the queue is compared.
AtHead(n) == stu_list # << >> /\ student[stu_list[1]].name = n

InQueue(n) == \E i \in DOMAIN stu_list : student[stu_list[i]].name = n

\* find_ta: the first TA with this name, as its position in the TA list.
IsFirstTa(i, n) ==
    /\ i \in DOMAIN ta_list
    /\ ta_list[i].name = n
    /\ \A j \in 1 .. i - 1 : ta_list[j].name # n

OnRoster(n) == \E i \in DOMAIN ta_list : ta_list[i].name = n

-----------------------------------------------------------------------------
TypeOK ==
    /\ student \in [SAddr -> Student \cup {Freed}]
    /\ stu_list \in Seq(SAddr)
    /\ ta_list \in Seq(Ta)

Init ==
    /\ student = [a \in SAddr |-> Freed]
    /\ stu_list = << >>
    /\ ta_list = << >>

\* (faulty variant) the new student is put in front.
add_student_first(n, c) ==
    /\ ~InQueue(n) /\ c \in Courses
    /\ \E a \in malloc_student :
         /\ student' = [student EXCEPT ![a] = [name |-> n, course |-> c]]
         /\ stu_list' = Cons(a, stu_list)
    /\ UNCHANGED ta_list

\* A name already in the queue is refused before the course is looked at.
add_student(n, c) ==
    \/ InQueue(n) /\ UNCHANGED lists                                \* return 1
    \/ ~InQueue(n) /\ c \notin Courses /\ UNCHANGED lists           \* return 2
    \/ /\ ~InQueue(n) /\ c \in Courses
       /\ \E a \in malloc_student :
            /\ student' = [student EXCEPT ![a] = [name |-> n, course |-> c]]
            /\ stu_list' = Append(stu_list, a)
       /\ UNCHANGED ta_list

give_up_waiting(n) ==
    \/ ~InQueue(n) /\ UNCHANGED lists                               \* return 1
    \/ \E i \in DOMAIN stu_list :
         /\ IsFirstStudent(i, n)
         /\ stu_list' = RemoveAt(stu_list, i)                       \* route_around_overall
         /\ student' = [student EXCEPT ![stu_list[i]] = Freed]
         /\ UNCHANGED ta_list

\* (faulty variant) current_student is not set, and the TA's struct is where the
\* struct of the newest TA was.
add_ta_unset(n) ==
    /\ ta_list' = Cons([name |-> n, current_student |->
                            IF ta_list = << >> THEN NULL ELSE ta_list[1].current_student],
                       ta_list)
    /\ UNCHANGED <<student, stu_list>>

add_ta(n) ==
    /\ ta_list' = Cons([name |-> n, current_student |-> NULL], ta_list)
    /\ UNCHANGED <<student, stu_list>>

\* (faulty variants) only the name is freed; nothing is freed.
release_name(s) == student' = IF s = NULL THEN student ELSE [student EXCEPT ![s].name = NULL]
release_nothing(s) == UNCHANGED student

\* The free of the student being served, at the head of take_student.
release(s) == student' = IF s = NULL THEN student ELSE [student EXCEPT ![s] = Freed]

\* remove_ta calls take_student(ta, NULL, NULL), then unlinks and frees the TA.
remove_ta(n) ==
    \/ ~OnRoster(n) /\ UNCHANGED lists                              \* return 1
    \/ \E i \in DOMAIN ta_list :
         /\ IsFirstTa(i, n)
         /\ release(ta_list[i].current_student)
         /\ ta_list' = RemoveAt(ta_list, i)
         /\ UNCHANGED stu_list

\* next_overall and the take_student it calls: the TA's present student is
\* freed, and the head of the queue, if any, is unlinked and becomes current.
next_overall(n) ==
    \/ ~OnRoster(n) /\ UNCHANGED lists                              \* return 1
    \/ \E i \in DOMAIN ta_list :
         /\ IsFirstTa(i, n)
         /\ release(ta_list[i].current_student)
         /\ IF stu_list = << >>
              THEN /\ ta_list' = [ta_list EXCEPT ![i].current_student = NULL]
                   /\ UNCHANGED stu_list
              ELSE /\ ta_list' = [ta_list EXCEPT ![i].current_student = stu_list[1]]
                   /\ stu_list' = RemoveAt(stu_list, 1)

\* One command of helpcentre.c.  The two print commands change no state.
process_args ==
    \E n \in Names :
        \/ \E c \in Courses \cup {BadCourse} : add_student(n, c)
        \/ give_up_waiting(n)
        \/ /\ Len(ta_list) < MaxTas
           /\ UniqueTas => ~OnRoster(n)
           /\ add_ta(n)
        \/ remove_ta(n)
        \/ next_overall(n)

Spec == Init /\ [][process_args]_lists

-----------------------------------------------------------------------------
(* Properties *)

Allocated == {a \in SAddr : student[a] # Freed}
Queued == {stu_list[i] : i \in DOMAIN stu_list}
Served == {ta_list[i].current_student : i \in DOMAIN ta_list} \ {NULL}

\* A student has at most one question in the queue (the comment of
\* add_student): no two queued structs carry the same name, although the same
\* name may be served and waiting at once.
OneQuestionEach ==
    \A i, j \in DOMAIN stu_list :
        student[stu_list[i]].name = student[stu_list[j]].name => i = j

\* No list points at a struct that was freed: neither the queue after
\* give_up_waiting, nor a TA after take_student or remove_ta.
NoDangling == Queued \cup Served \subseteq Allocated

\* Every allocated struct can still be reached from a list, so that some later
\* operation can free it: moving a student to a TA and replacing that TA's
\* previous student leaks neither.
NoLeak == Allocated \subseteq Queued \cup Served

\* A struct has one owner: it is queued once, or served by one TA, and never
\* both; otherwise the free of one owner frees it under the other.
OneOwner ==
    /\ \A i, j \in DOMAIN stu_list : stu_list[i] = stu_list[j] => i = j
    /\ \A i, j \in DOMAIN ta_list :
          /\ ta_list[i].current_student # NULL
          /\ ta_list[i].current_student = ta_list[j].current_student
          => i = j
    /\ Queued \cap Served = {}

\* The heap discipline of the lists: what is freed is off every list, what is
\* allocated is on one, and only once.
HeapDiscipline == NoDangling /\ NoLeak /\ OneOwner

\* Arrival order is kept: two students who both stay in the queue over a step
\* keep their relative order, and a newcomer is behind everyone.
KeepsOrder ==
    \A i, j \in DOMAIN stu_list : \A k, l \in DOMAIN stu_list' :
        (i < j /\ stu_list[i] = stu_list'[k] /\ stu_list[j] = stu_list'[l]) => k < l
NewcomersLast ==
    \A k, l \in DOMAIN stu_list' :
        (stu_list'[k] \notin Queued /\ stu_list'[l] \in Queued) => l < k
ArrivalOrder == [][KeepsOrder /\ NewcomersLast]_lists

(* The refinement of HelpDesk, for callers that keep TA names unique. *)
waiting == [i \in DOMAIN stu_list |-> student[stu_list[i]].name]
HelpedBy(s) == IF s = NULL THEN NULL ELSE student[s].name
helping ==
    [t \in {ta_list[i].name : i \in DOMAIN ta_list} |->
        HelpedBy(ta_list[CHOOSE i \in DOMAIN ta_list : IsFirstTa(i, t)].current_student)]

Desk == INSTANCE HelpDesk WITH Idle <- NULL

\* The lists and their pointers implement the abstract help desk: the queue is
\* served first come first served, only the head is taken, and a TA command
\* touches the TA it names and no other.
ImplementsDesk == Desk!Spec
=============================================================================
