----------------------------- MODULE HcqCourses -----------------------------
(***************************************************************************)
(* The first version of the help centre, A2/hcq.c and A2/helpcentre.c: a   *)
(* waiting student is threaded on two linked lists at once, the overall    *)
(* queue (next_overall) and the queue of one course (next_course, with a   *)
(* head and a tail in the course), and courses keep statistics.            *)
(*                                                                         *)
(* The lists are modelled with their pointers, because every operation     *)
(* updates one list through a node found in the other.  Times are left     *)
(* out.  add_student allocates before it looks for the name, and a refused *)
(* student's struct is never freed; the second struct it allocates for     *)
(* every student, from which it copies the first, is left out.             *)
(***************************************************************************)
EXTENDS Integers, Sequences, FiniteSets, SequencesExt

CONSTANTS
    SAddr,      \* addresses malloc may return for a student struct
    Names, Courses, BadCourse,
    MaxTas,     \* bound on the TA list
    MaxCount,   \* bound on the arrivals for a course
    MaxBailed,  \* bound on each count of those who gave up
    MaxLeaked,  \* bound on the refused students
    CarefulTas, \* TRUE: a TA asks for a course only while somebody waits for it
    NULL

ASSUME CoursesAssumption ==
    /\ NULL \notin SAddr \cup Names \cup Courses /\ BadCourse \notin Courses
    /\ IsFiniteSet(SAddr)
    /\ MaxTas \in Nat /\ MaxCount \in Nat /\ MaxBailed \in Nat /\ MaxLeaked \in Nat
    /\ CarefulTas \in BOOLEAN

VARIABLES
    status,         \* "run" or "crashed"
    student,        \* the student structs
    stu_list,       \* head of the overall queue
    head, tail,     \* per course: head and tail of its queue
    ta_list,        \* the TA list, newest first
    helped, bailed, \* per course: the statistics
    arrived,        \* (history) per course: students added
    leaked          \* (history) the structs allocated for refused students

queues == <<student, stu_list, head, tail>>
stats == <<helped, bailed, arrived, leaked>>
vars == <<status, queues, ta_list, stats>>

Ptr == SAddr \cup {NULL}
Student == [name : Names, course : Courses, next_overall : Ptr, next_course : Ptr]
Ta == [name : Names, current_student : Ptr]
Freed == [name |-> NULL]

TypeOK ==
    /\ status \in {"run", "crashed"}
    /\ \A a \in SAddr : student[a] \in Student \/ student[a] = Freed
    /\ stu_list \in Ptr /\ head \in [Courses -> Ptr] /\ tail \in [Courses -> Ptr]
    /\ ta_list \in Seq(Ta)
    /\ helped \in [Courses -> 0 .. MaxCount] /\ bailed \in [Courses -> 0 .. MaxBailed]
    /\ arrived \in [Courses -> 0 .. MaxCount]
    /\ leaked \subseteq SAddr

Init ==
    /\ status = "run"
    /\ student = [a \in SAddr |-> Freed]
    /\ stu_list = NULL
    /\ head = [c \in Courses |-> NULL] /\ tail = [c \in Courses |-> NULL]
    /\ ta_list = << >>
    /\ helped = [c \in Courses |-> 0] /\ bailed = [c \in Courses |-> 0]
    /\ arrived = [c \in Courses |-> 0]
    /\ leaked = {}

-----------------------------------------------------------------------------
Allocated == {a \in SAddr : student[a] # Freed}

\* The nodes of the list that starts at h, in order.
Nodes(h, next_field) ==
    LET node[k \in 1 .. Cardinality(SAddr) + 1] ==
          IF k = 1 THEN h ELSE IF node[k - 1] = NULL THEN NULL ELSE next_field[node[k - 1]]
    IN  [k \in 1 .. Cardinality({j \in DOMAIN node : node[j] # NULL}) |-> node[k]]
Overall == Nodes(stu_list, [a \in Allocated |-> student[a].next_overall])
InCourse(c) == Nodes(head[c], [a \in Allocated |-> student[a].next_course])

find_student(n) == {i \in DOMAIN Overall : student[Overall[i]].name = n}
find_ta(n) == {i \in DOMAIN ta_list : ta_list[i].name = n}
IsFirst(i, hits) == i \in hits /\ \A j \in hits : i <= j

Crash == status' = "crashed" /\ UNCHANGED <<queues, ta_list, stats>>

\* (faulty variant) the new student goes to the head of the course queue.
LinkCourseFirst(s, a, c) ==
    /\ student' = [s EXCEPT ![a].next_course = head[c]]
    /\ head' = [head EXCEPT ![c] = a]
    /\ tail' = IF head[c] = NULL THEN [tail EXCEPT ![c] = a] ELSE tail

\* The new student a, already in the structs s, goes to the tail of course c.
LinkCourse(s, a, c) ==
    /\ student' = IF head[c] = NULL THEN s ELSE [s EXCEPT ![tail[c]].next_course = a]
    /\ head' = IF head[c] = NULL THEN [head EXCEPT ![c] = a] ELSE head
    /\ tail' = [tail EXCEPT ![c] = a]

\* Looks the course up first, unlike the version in A4, and allocates before it
\* looks for the name.
add_student(n, c) ==
    \/ c \notin Courses /\ UNCHANGED vars                           \* return 2
    \/ /\ c \in Courses
       /\ \E a \in {x \in SAddr : student[x] = Freed} :
            LET new == [name |-> n, course |-> c, next_overall |-> NULL, next_course |-> NULL]
                allocated == [student EXCEPT ![a] = new]
            IN  \/ /\ find_student(n) # {}                           \* return 1
                   /\ student' = allocated /\ leaked' = leaked \cup {a}
                   /\ UNCHANGED <<stu_list, head, tail, arrived>>
                \/ /\ find_student(n) = {}
                   /\ LinkCourse(IF Overall = << >> THEN allocated
                                 ELSE [allocated EXCEPT ![Last(Overall)].next_overall = a],
                                 a, c)
                   /\ stu_list' = IF stu_list = NULL THEN a ELSE stu_list
                   /\ arrived' = [arrived EXCEPT ![c] = @ + 1]
                   /\ UNCHANGED leaked
       /\ UNCHANGED <<status, ta_list, helped, bailed>>

\* The nodes looked up are the student's own, not its predecessors, so each
\* next field is assigned to itself: the student is counted but stays queued.
give_up_waiting(n) ==
    \/ find_student(n) = {} /\ UNCHANGED vars                       \* return 1
    \/ \E i \in DOMAIN Overall :
         /\ IsFirst(i, find_student(n))
         /\ LET s == Overall[i]
                c == student[s].course
            IN  IF Contains(InCourse(c), s)
                  THEN /\ bailed' = [bailed EXCEPT ![c] = @ + 1]
                       /\ UNCHANGED <<status, queues, ta_list, helped, arrived, leaked>>
                  ELSE Crash

add_ta(n) ==
    /\ ta_list' = Cons([name |-> n, current_student |-> NULL], ta_list)
    /\ UNCHANGED <<status, queues, stats>>

\* A TA may hold a struct that was freed (see take_next_course), and malloc may
\* have given the same struct to a student who is waiting, with another TA, or was
\* refused.  Releasing any of these is undefined: the model stops there.
Dangles(s) == s # NULL /\ student[s] = Freed
Misused(s) ==
    /\ s # NULL
    /\ \/ Dangles(s)
       \/ Contains(Overall, s) \/ s \in leaked
       \/ Cardinality({i \in DOMAIN ta_list : ta_list[i].current_student = s}) > 1

\* (faulty variants) only the name is freed; nothing is freed; nobody is counted.
ReleasedName(s) == IF s = NULL THEN student ELSE [student EXCEPT ![s].name = NULL]
NotReleased(s) == student
HelpedNobody(s) == helped

\* release_current_student, with the structs and counters it leaves behind.
Released(s) == IF s = NULL THEN student ELSE [student EXCEPT ![s] = Freed]
Helped(s) == IF s = NULL THEN helped ELSE [helped EXCEPT ![student[s].course] = @ + 1]

remove_ta(n) ==
    \/ find_ta(n) = {} /\ UNCHANGED vars                            \* return 1
    \/ \E i \in DOMAIN ta_list :
         LET s == ta_list[i].current_student
         IN  /\ IsFirst(i, find_ta(n))
             /\ \/ Misused(s) /\ Crash
                \/ /\ ~Misused(s)
                   /\ student' = Released(s) /\ helped' = Helped(s)
                   /\ ta_list' = RemoveAt(ta_list, i)
                   /\ UNCHANGED <<status, stu_list, head, tail, bailed, arrived, leaked>>

\* (faulty variant) the tail is forgotten.
PopHead(c, s) ==
    head' = [head EXCEPT ![c] = student[head[c]].next_course] /\ UNCHANGED tail

\* The head of course c, or both ends when it was the only one waiting.
PopCourse(c, s) ==
    IF head[c] = tail[c]
      THEN head' = [head EXCEPT ![c] = NULL] /\ tail' = [tail EXCEPT ![c] = NULL]
      ELSE head' = [head EXCEPT ![c] = student[head[c]].next_course] /\ UNCHANGED tail

take_next_overall(i) ==
    LET s == ta_list[i].current_student
    IN  /\ student' = Released(s) /\ helped' = Helped(s)
        /\ ta_list' = [ta_list EXCEPT ![i].current_student = stu_list]
        /\ \/ stu_list = NULL /\ UNCHANGED <<stu_list, head, tail>>
           \/ /\ stu_list # NULL
              /\ PopCourse(student[stu_list].course, stu_list)
              /\ stu_list' = student[stu_list].next_overall

\* With nobody waiting for the course the function returns with the released
\* student still current.
take_next_course(i, c) ==
    LET s == ta_list[i].current_student
        free == Released(s)
        took == head[c]
    IN  /\ helped' = Helped(s)
        /\ \/ /\ c \notin Courses                                   \* return 2
              /\ ta_list' = [ta_list EXCEPT ![i].current_student = NULL]
              /\ student' = free /\ UNCHANGED <<stu_list, head, tail>>
           \/ /\ c \in Courses /\ took = NULL
              /\ student' = free /\ UNCHANGED <<ta_list, stu_list, head, tail>>
           \/ /\ c \in Courses /\ took # NULL
              /\ ta_list' = [ta_list EXCEPT ![i].current_student = took]
              /\ PopCourse(c, took)
              /\ IF took = stu_list
                   THEN stu_list' = student[took].next_overall /\ student' = free
                   ELSE /\ \E p \in Range(Overall) :
                             /\ student[p].next_overall = took
                             /\ student' = [free EXCEPT ![p].next_overall =
                                                          student[took].next_overall]
                        /\ UNCHANGED stu_list

\* The command next, with a course or without one (NULL).
next(n, c) ==
    \/ find_ta(n) = {} /\ UNCHANGED vars                            \* return 1
    \/ \E i \in DOMAIN ta_list :
         /\ IsFirst(i, find_ta(n))
         /\ \/ Misused(ta_list[i].current_student) /\ Crash
            \/ /\ ~Misused(ta_list[i].current_student)
               /\ IF c = NULL THEN take_next_overall(i) ELSE take_next_course(i, c)
               /\ UNCHANGED <<status, bailed, arrived, leaked>>

\* Reads only, but dereferences what find_course returns.
stats_by_course(c) == c \notin Courses /\ Crash

process_args ==
    /\ status = "run"
    /\ \E n \in Names :
        \/ \E c \in Courses \cup {BadCourse} :
             /\ c \in Courses => arrived[c] < MaxCount /\ Cardinality(leaked) < MaxLeaked
             /\ add_student(n, c)
        \/ (\A c \in Courses : bailed[c] < MaxBailed) /\ give_up_waiting(n)
        \/ Len(ta_list) < MaxTas /\ find_ta(n) = {} /\ add_ta(n)
        \/ remove_ta(n)
        \/ next(n, NULL)
        \/ \E c \in Courses \cup {BadCourse} :
             /\ CarefulTas /\ c \in Courses => head[c] # NULL
             /\ next(n, c)
        \/ \E c \in Courses \cup {BadCourse} : stats_by_course(c)

Spec == Init /\ [][process_args]_vars

-----------------------------------------------------------------------------
(* Properties *)

Queued == ToSet(Overall)
Served == {ta_list[i].current_student : i \in DOMAIN ta_list} \ {NULL}

\* p is the list q restricted to the members of S, in the same order.
Restricts(p, q, S) ==
    /\ ToSet(p) = ToSet(q) \cap S
    /\ \A i, j \in DOMAIN p, k, l \in DOMAIN q :
          p[i] = q[k] /\ p[j] = q[l] => (i < j <=> k < l)

\* The two threadings agree: the queue of a course is the overall queue
\* restricted to that course, in the same order, and its tail is its last node.
\* Each operation looks only at one end or at one of the lists.
CourseListsAgree ==
    \A c \in Courses :
        /\ Restricts(InCourse(c), Overall, {a \in Allocated : student[a].course = c})
        /\ tail[c] = IF head[c] = NULL THEN NULL ELSE Last(InCourse(c))

\* Every struct in use is waiting or with one TA, and never both; those that are
\* neither, and that nobody will free, are the structs of refused students.
OneOwner ==
    /\ Queued \cap Served = {} /\ (Queued \cup Served) \cap leaked = {}
    /\ Queued \cup Served \cup leaked = Allocated
    /\ Len(Overall) = Cardinality(Queued)
    /\ \A i, j \in DOMAIN ta_list :
          /\ ta_list[i].current_student # NULL
          /\ ta_list[i].current_student = ta_list[j].current_student
          => i = j

\* Who was let in for a course is waiting, being helped or was helped, by the
\* numbers stats_by_course prints.  Who gave up is among them: it stays queued, is
\* counted as waiting and as gave_up, and may be helped yet, so that the fourth
\* number printed comes on top of the arrivals.
StatisticsAddUp ==
    \A c \in Courses :
        arrived[c] = Len(InCourse(c)) + helped[c]
                       + Cardinality({a \in Served : student[a].course = c})

\* Every student who was let in is somewhere, once, in the lists and in the
\* statistics, whoever gave up or was refused in between.
EveryoneAccountedFor == OneOwner /\ StatisticsAddUp

\* No student is passed over by one who asks about the same course and came
\* later, whichever of the two forms of next the TAs use.
FirstOfCourse ==
    [][\A a \in (Queued \ Queued') \cap Served' :
          \A b \in Queued : (/\ student[b].course = student[a].course
                             /\ \E i, j \in DOMAIN Overall :
                                   i < j /\ Overall[i] = b /\ Overall[j] = a)
                            => b \notin Queued']_vars

\* (refuted by any student who gives up) give_up_waiting: "remove the student from the queues".
GiveUpLeavesQueue ==
    [][bailed' # bailed => Queued' # Queued]_vars

\* (refuted when nobody waits for the course) take_next_course: "If no student is
\* waiting for this course, then TA ta_name simply finishes with the student they
\* are currently helping, ... and sets current_student for this TA to NULL".
NoTaHoldsFreed == \A i \in DOMAIN ta_list : ~Dangles(ta_list[i].current_student)
=============================================================================
