------------------------------ MODULE HelpDesk ------------------------------
(***************************************************************************)
(* What the help-centre queue promises, without lists, pointers or heap:   *)
(* students wait in order of arrival, a TA who asks for the next student   *)
(* gets the one who has waited longest, and nobody else leaves the queue   *)
(* except by giving up.  HcqLists (A4/hcq.c) implements this.              *)
(***************************************************************************)
EXTENDS Sequences, SequencesExt

CONSTANTS
    Names,      \* of students and TAs
    Idle        \* no name: a TA who helps nobody

VARIABLES
    waiting,    \* the names waiting, the longest wait first
    helping     \* for each TA on duty, the name being helped or Idle

desk == <<waiting, helping>>

Init ==
    /\ waiting = << >>
    /\ helping = << >>

Arrive(s) ==
    /\ \A i \in DOMAIN waiting : waiting[i] # s
    /\ waiting' = Append(waiting, s)
    /\ UNCHANGED helping

GiveUp(s) ==
    /\ \E i \in DOMAIN waiting : waiting[i] = s /\ waiting' = RemoveAt(waiting, i)
    /\ UNCHANGED helping

StartShift(t) ==
    /\ t \notin DOMAIN helping
    /\ helping' = [u \in DOMAIN helping \cup {t} |-> IF u = t THEN Idle ELSE helping[u]]
    /\ UNCHANGED waiting

\* The TA leaves, and with the TA the student being helped, if any.
EndShift(t) ==
    /\ t \in DOMAIN helping
    /\ helping' = Restrict(helping, DOMAIN helping \ {t})
    /\ UNCHANGED waiting

\* The TA is done with the present student and takes the head of the queue.
TakeNext(t) ==
    /\ t \in DOMAIN helping
    /\ \/ /\ waiting = << >>
          /\ helping' = [helping EXCEPT ![t] = Idle]
          /\ UNCHANGED waiting
       \/ /\ waiting # << >>
          /\ helping' = [helping EXCEPT ![t] = waiting[1]]
          /\ waiting' = RemoveAt(waiting, 1)

Next ==
    \E n \in Names :
        Arrive(n) \/ GiveUp(n) \/ StartShift(n) \/ EndShift(n) \/ TakeNext(n)

Spec == Init /\ [][Next]_desk
=============================================================================
