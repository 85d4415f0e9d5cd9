----------------------------- MODULE QueryPool -----------------------------
(***************************************************************************)
(* The word query of A3: query.c forks one worker per indexed directory    *)
(* and talks to each over two pipes.  For every word typed, the master     *)
(* writes the word to one worker after the other and reads that worker's   *)
(* frequency records up to an empty one.  At the end it closes its write   *)
(* ends, which is what makes the workers exit, and waits for them.         *)
(*                                                                         *)
(* A pipe is at end of file when no process holds its write end any more,  *)
(* and a write is fatal when none holds its read end.  Every fork copies   *)
(* every descriptor, so who holds which end is part of the state.          *)
(***************************************************************************)
EXTENDS Integers, Sequences, FiniteSets

CONSTANTS
    N,              \* subdirectories, hence workers
    MaxRecs,        \* bound on the records one worker has for a word
    PipeCap,        \* records a pipe holds before a write blocks
    MAXRECORDS,     \* records the master keeps for a word
    MaxQueries,     \* bound on the words typed
    WorkersMayDie   \* TRUE: a worker may be killed, or find no index, at any time

ASSUME PoolAssumption ==
    /\ N \in Nat \ {0} /\ MaxRecs \in Nat /\ PipeCap \in Nat \ {0}
    /\ MAXRECORDS \in Nat /\ MAXRECORDS >= N * MaxRecs
    /\ MaxQueries \in Nat /\ WorkersMayDie \in BOOLEAN

Workers == 1 .. N
Master == 0
Procs == Workers \cup {Master}

VARIABLES
    pc,             \* per process: where it is
    i,              \* the master's loop variable
    child_freqr,    \* the master's record buffer
    got,            \* records handed to insert for the present word
    owes,           \* per worker: records left to send for the present word
    words, freqs,   \* per worker: contents of its two pipes
    wordsR, wordsW, freqsR, freqsW,     \* who holds each end
    sent,           \* (history) per worker: records sent for the present word
    asked           \* words typed so far

ends == <<wordsR, wordsW, freqsR, freqsW>>
vars == <<pc, i, child_freqr, got, owes, words, freqs, ends, sent, asked>>

Record == [freq : {1}, from : Workers, file : 1 .. MaxRecs]
EmptyRecord == [freq |-> 0]

TypeOK ==
    /\ pc[Master] \in {"fork", "close", "prompt", "ask", "collect", "shut", "wait",
                       "done", "killed"}
    /\ \A w \in Workers : pc[w] \in {"unborn", "fresh", "read", "answer", "dead"}
    /\ i \in 1 .. N + 1
    /\ child_freqr \in Record \cup {EmptyRecord}
    /\ got \in Seq(Record) /\ Len(got) <= MAXRECORDS
    /\ owes \in [Workers -> -1 .. MaxRecs]
    /\ words \in [Workers -> Seq({"word"})]
    /\ freqs \in [Workers -> Seq(Record \cup {EmptyRecord})]
    /\ \A w \in Workers : Len(freqs[w]) <= PipeCap
    /\ wordsR \in [Workers -> SUBSET Procs] /\ wordsW \in [Workers -> SUBSET Procs]
    /\ freqsR \in [Workers -> SUBSET Procs] /\ freqsW \in [Workers -> SUBSET Procs]
    /\ sent \in [Workers -> Seq(Record)]
    /\ asked \in 0 .. MaxQueries

\* All pipes are made before the first fork.
Init ==
    /\ pc = [p \in Procs |-> IF p = Master THEN "fork" ELSE "unborn"]
    /\ i = 1 /\ child_freqr = EmptyRecord /\ got = << >>
    /\ owes = [w \in Workers |-> -1]
    /\ words = [w \in Workers |-> << >>] /\ freqs = [w \in Workers |-> << >>]
    /\ wordsR = [w \in Workers |-> {Master}] /\ wordsW = [w \in Workers |-> {Master}]
    /\ freqsR = [w \in Workers |-> {Master}] /\ freqsW = [w \in Workers |-> {Master}]
    /\ sent = [w \in Workers |-> << >>] /\ asked = 0

-----------------------------------------------------------------------------
Goto(p, l) == pc' = [pc EXCEPT ![p] = l]

\* Process p ends: whatever it held is closed.
Drop(held, p) == [w \in Workers |-> held[w] \ {p}]
Ends(p, l) ==
    /\ Goto(p, l)
    /\ wordsR' = Drop(wordsR, p) /\ wordsW' = Drop(wordsW, p)
    /\ freqsR' = Drop(freqsR, p) /\ freqsW' = Drop(freqsW, p)

(* The master: query.c, main *)

Fork ==
    /\ pc[Master] = "fork" /\ i <= N
    /\ pc' = [pc EXCEPT ![i] = "fresh", ![Master] = IF i = N THEN "close" ELSE "fork"]
    /\ wordsR' = [w \in Workers |-> wordsR[w] \cup (IF Master \in wordsR[w] THEN {i} ELSE {})]
    /\ wordsW' = [w \in Workers |-> wordsW[w] \cup (IF Master \in wordsW[w] THEN {i} ELSE {})]
    /\ freqsR' = [w \in Workers |-> freqsR[w] \cup (IF Master \in freqsR[w] THEN {i} ELSE {})]
    /\ freqsW' = [w \in Workers |-> freqsW[w] \cup (IF Master \in freqsW[w] THEN {i} ELSE {})]
    /\ i' = i + 1
    /\ UNCHANGED <<child_freqr, got, owes, words, freqs, sent, asked>>

MasterCloses ==
    /\ pc[Master] = "close"
    /\ Goto(Master, "prompt")
    /\ wordsR' = Drop(wordsR, Master) /\ freqsW' = Drop(freqsW, Master)
    /\ UNCHANGED <<i, child_freqr, got, owes, words, freqs, wordsW, freqsR, sent, asked>>

\* fgets: a word, or the end of the input.
Prompt ==
    /\ pc[Master] = "prompt"
    /\ \/ /\ asked < MaxQueries
          /\ asked' = asked + 1
          /\ i' = 1 /\ got' = << >> /\ child_freqr' = EmptyRecord
          /\ sent' = [w \in Workers |-> << >>]
          /\ Goto(Master, "ask")
       \/ Goto(Master, "shut") /\ UNCHANGED <<asked, i, got, child_freqr, sent>>
    /\ UNCHANGED <<owes, words, freqs, ends>>

\* Write the word to worker i; with nobody left to read it SIGPIPE is fatal.
Ask ==
    /\ pc[Master] = "ask" /\ i <= N
    /\ \/ /\ wordsR[i] # {}
          /\ words' = [words EXCEPT ![i] = Append(@, "word")]
          /\ Goto(Master, "collect") /\ UNCHANGED ends
       \/ wordsR[i] = {} /\ Ends(Master, "killed") /\ UNCHANGED words
    /\ UNCHANGED <<i, child_freqr, got, owes, freqs, sent, asked>>

\* (faulty variant) one record is read from each worker.
Never(r) == FALSE

\* The condition of the loop over a worker's records.
More(r) == r.freq > 0

\* One round of the do-while loop.  The result of Read is not looked at: at end
\* of file the record read before is there still, and is taken once more.  got is
\* what is handed to insert: those that insert refuses are among it (FreqRecords).
Collect ==
    /\ pc[Master] = "collect"
    /\ \/ /\ freqs[i] # << >>
          /\ child_freqr' = Head(freqs[i])
          /\ freqs' = [freqs EXCEPT ![i] = Tail(@)]
       \/ /\ freqs[i] = << >> /\ freqsW[i] = {}
          /\ UNCHANGED <<child_freqr, freqs>>
    /\ IF More(child_freqr')
         THEN /\ got' = IF Len(got) < MAXRECORDS THEN Append(got, child_freqr') ELSE got
              /\ UNCHANGED <<pc, i>>
         ELSE i' = i + 1 /\ Goto(Master, "ask") /\ UNCHANGED got
    /\ UNCHANGED <<owes, words, ends, sent, asked>>

\* All workers have answered: print what insert kept and go back for the next word.
Report ==
    /\ pc[Master] = "ask" /\ i = N + 1
    /\ Goto(Master, "prompt")
    /\ UNCHANGED <<i, child_freqr, got, owes, words, freqs, ends, sent, asked>>

Shut ==
    /\ pc[Master] = "shut"
    /\ Goto(Master, "wait")
    /\ wordsW' = Drop(wordsW, Master)
    /\ UNCHANGED <<i, child_freqr, got, owes, words, freqs, wordsR, freqsR, freqsW, sent, asked>>

Wait ==
    /\ pc[Master] = "wait" /\ \A w \in Workers : pc[w] = "dead"
    /\ Ends(Master, "done")
    /\ UNCHANGED <<i, child_freqr, got, owes, words, freqs, sent, asked>>

MasterStep == Fork \/ MasterCloses \/ Prompt \/ Ask \/ Collect \/ Report \/ Shut \/ Wait

-----------------------------------------------------------------------------
(* A worker: the child branch of query.c and run_worker in worker.c *)

\* (faulty variant) the ends inherited from the other workers' pipes stay open.
ChildClosesOwn(w) ==
    /\ pc[w] = "fresh"
    /\ Goto(w, "read")
    /\ wordsW' = [wordsW EXCEPT ![w] = @ \ {w}]
    /\ freqsR' = [freqsR EXCEPT ![w] = @ \ {w}]
    /\ UNCHANGED <<i, child_freqr, got, owes, words, freqs, wordsR, freqsW, sent, asked>>

\* The child keeps the read end of its words and the write end of its records.
ChildCloses(w) ==
    /\ pc[w] = "fresh"
    /\ Goto(w, "read")
    /\ wordsW' = Drop(wordsW, w) /\ freqsR' = Drop(freqsR, w)
    /\ wordsR' = [v \in Workers |-> IF v = w THEN wordsR[v] ELSE wordsR[v] \ {w}]
    /\ freqsW' = [v \in Workers |-> IF v = w THEN freqsW[v] ELSE freqsW[v] \ {w}]
    /\ UNCHANGED <<i, child_freqr, got, owes, words, freqs, sent, asked>>

\* A word comes, with any number of records to answer it, or the end of file.
ReadWord(w) ==
    /\ pc[w] = "read"
    /\ \/ /\ words[w] # << >>
          /\ words' = [words EXCEPT ![w] = Tail(@)]
          /\ \E n \in 0 .. MaxRecs : owes' = [owes EXCEPT ![w] = n]
          /\ Goto(w, "answer") /\ UNCHANGED ends
       \/ /\ words[w] = << >> /\ wordsW[w] = {}
          /\ Ends(w, "dead") /\ UNCHANGED <<words, owes>>
    /\ UNCHANGED <<i, child_freqr, got, freqs, sent, asked>>

\* (faulty variants) the index is one too high; the last record is sent again
\* where the empty one should be.
RecordBehind(w) ==
    IF owes[w] = 0 THEN EmptyRecord ELSE [freq |-> 1, from |-> w, file |-> owes[w] + 1]
RecordAgain(w) ==
    [freq |-> 1, from |-> w, file |-> IF owes[w] = 0 THEN 1 ELSE owes[w]]

\* The next record of the answer, or the empty record that ends it.
NextRecord(w) ==
    IF owes[w] = 0 THEN EmptyRecord ELSE [freq |-> 1, from |-> w, file |-> owes[w]]

\* One Write of the answer.
WriteRecord(w) ==
    /\ pc[w] = "answer"
    /\ \/ /\ freqsR[w] # {} /\ Len(freqs[w]) < PipeCap
          /\ freqs' = [freqs EXCEPT ![w] = Append(@, NextRecord(w))]
          /\ sent' = IF owes[w] = 0 THEN sent
                     ELSE [sent EXCEPT ![w] = Append(@, NextRecord(w))]
          /\ owes' = [owes EXCEPT ![w] = @ - 1]
          /\ (IF owes[w] = 0 THEN Goto(w, "read") ELSE UNCHANGED pc) /\ UNCHANGED ends
       \/ freqsR[w] = {} /\ Ends(w, "dead") /\ UNCHANGED <<freqs, sent, owes>>
    /\ UNCHANGED <<i, child_freqr, got, words, asked>>

\* The worker is killed, or exits because its directory holds no index.
Die(w) ==
    /\ WorkersMayDie /\ pc[w] \in {"fresh", "read", "answer"}
    /\ Ends(w, "dead")
    /\ UNCHANGED <<i, child_freqr, got, owes, words, freqs, sent, asked>>

WorkerStep(w) == ChildCloses(w) \/ ReadWord(w) \/ WriteRecord(w)

Next == MasterStep \/ \E w \in Workers : WorkerStep(w) \/ Die(w)

\* The processes are scheduled.  That the user types, or ends the input, is not
\* assumed: Prompt is left out of the master's fairness.
Spec ==
    /\ Init /\ [][Next]_vars
    /\ WF_vars(MasterStep /\ pc[Master] # "prompt")
    /\ \A w \in Workers : WF_vars(WorkerStep(w))

-----------------------------------------------------------------------------
(* Properties *)

Gathered == pc[Master] = "ask" /\ i = N + 1
SomeoneDied == \E w \in Workers : pc[w] = "dead"

\* How many of the records handed to insert are of the workers up to w.
Upto(w) == Cardinality({k \in DOMAIN got : got[k].from <= w})

\* What has been handed to insert when the master comes to print is exactly what
\* the workers found for that word, one worker after the other, unless one of them
\* has died: no record is lost on its way, taken twice, or left in a pipe for the
\* next word.  What insert then keeps of them is the business of FreqRecords.
AnswersAreComplete ==
    Gathered /\ ~SomeoneDied =>
        \A w \in Workers : sent[w] = SubSeq(got, Upto(w - 1) + 1, Upto(w))

\* Master and workers stay in step.  Between two words every pipe of a living
\* worker is empty and the worker waits for a word (or is still starting); and a
\* worker never has two words before it, for read takes up to MAXWORD bytes and
\* would run them together.
InStep ==
    /\ pc[Master] = "prompt" =>
         \A w \in Workers : pc[w] # "dead" => words[w] = << >> /\ freqs[w] = << >> /\ pc[w] # "answer"
    /\ \A w \in Workers : Len(words[w]) + (IF pc[w] = "answer" THEN 1 ELSE 0) <= 1

\* Every answer belongs to its word: all of it reaches insert, and nothing of it is
\* left behind.
AnswersMatch == AnswersAreComplete /\ InStep

\* The answer to a word is printed, or a worker has died: the master never waits
\* for a record that no worker is going to send.
QueryIsAnswered ==
    pc[Master] = "ask" /\ i = 1 ~> pc[Master] \in {"prompt", "killed"} \/ SomeoneDied

\* Closing the write ends makes every worker exit and the master's wait return,
\* and no worker outlives a master that was killed: nobody keeps an end of
\* another worker's pipe open.
EverybodyExits ==
    /\ pc[Master] = "shut" ~> pc[Master] = "done"
    /\ pc[Master] = "killed" ~> \A w \in Workers : pc[w] \in {"dead", "unborn"}

\* (refuted when a worker dies while it answers) every word is answered.
AnyQueryIsAnswered ==
    pc[Master] = "ask" /\ i = 1 ~> pc[Master] \in {"prompt", "killed"}
=============================================================================
