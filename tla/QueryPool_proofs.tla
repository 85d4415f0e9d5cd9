-------------------------- MODULE QueryPool_proofs --------------------------
(***************************************************************************)
(* Proofs about the word query (QueryPool), for any number of workers, of  *)
(* records and of words, whichever workers die, and whenever they do.      *)
(* Behind them, those about the array in which the master collects the     *)
(* records of a word (FreqRecords), for every length of the array and      *)
(* every number and frequency of the records.                              *)
(***************************************************************************)
EXTENDS QueryPool, FreqRecords, FiniteSetTheorems, SequenceTheorems, WellFoundedInduction, TLAPS

-----------------------------------------------------------------------------
(* The inductive invariant.  At most one worker is at work on a word: the   *)
(* one the master collects from.  It has the word before it, or is in the   *)
(* middle of its answer, or has answered; all others are idle.  A worker    *)
(* that died leaves what it left in its pipes, and the master goes past it  *)
(* only once nobody holds their write ends, or the answer was complete.     *)

Labels == {"fork", "close", "prompt", "ask", "collect", "shut", "wait", "done", "killed",
           "unborn", "fresh", "read", "answer", "dead"}

Processes ==
    /\ pc \in [Procs -> Labels]
    /\ pc[Master] = "fork" => /\ i <= N
                              /\ \A w \in Workers : Master \in freqsW[w]
                              /\ \A w \in Workers : w >= i <=> pc[w] = "unborn"
    /\ pc[Master] # "fork" => \A w \in Workers : pc[w] # "unborn"
    /\ pc[Master] = "collect" => i <= N

\* The ends a worker uses are held by the same processes; a living worker is one.
EndsHeld ==
    /\ wordsR = freqsW
    /\ \A w \in Workers : pc[w] \in {"fresh", "read", "answer"} => w \in freqsW[w]

\* How many records the pipe of w holds, without the empty one at the end.
Pending(w) ==
    IF freqs[w] # << >> /\ freqs[w][Len(freqs[w])] = EmptyRecord
      THEN Len(freqs[w]) - 1 ELSE Len(freqs[w])

\* What is in front of the empty record are records of w.
RecordsOf(w, n) == \A k \in 1 .. n : freqs[w][k] \in Record /\ freqs[w][k].from = w

Idle(w) == words[w] = << >> /\ freqs[w] = << >> /\ pc[w] # "answer"
Asked(w) ==
    /\ words[w] = <<"word">> /\ freqs[w] = << >> /\ pc[w] # "answer" /\ sent[w] = << >>
Answering(w) ==
    /\ words[w] = << >> /\ pc[w] \in {"answer", "dead"}
    /\ RecordsOf(w, Len(freqs[w]))
    /\ pc[w] = "answer" => owes[w] >= 0 /\ Len(sent[w]) + owes[w] <= MaxRecs
Answered(w) ==
    /\ words[w] = << >> /\ pc[w] # "answer" /\ freqs[w] # << >>
    /\ RecordsOf(w, Len(freqs[w]) - 1) /\ freqs[w][Len(freqs[w])] = EmptyRecord

\* A dead worker that never read its word.
Buried(w) ==
    /\ pc[w] = "dead" /\ words[w] = <<"word">> /\ freqs[w] = << >> /\ freqsW[w] = {}

AtWork(w) == pc[Master] = "collect" /\ i = w

\* Master and workers are in step.
Exchange ==
    \A w \in Workers :
        /\ AtWork(w) => Asked(w) \/ Answering(w) \/ Answered(w)
        /\ ~AtWork(w) => Idle(w) \/ Buried(w)

\* Before a worker is asked it has sent nothing for the word.
SentLater ==
    /\ \A w \in Workers : Len(sent[w]) <= MaxRecs
    /\ pc[Master] \in {"ask", "collect"} => \A w \in Workers : w > i => sent[w] = << >>
    /\ pc[Master] = "ask" => \A w \in Workers : w = i => sent[w] = << >>

\* What a worker has sent is in the master's records, in the place of its turn,
\* and then in its pipe.
Split(w) ==
    LET taken == Upto(w) - Upto(w - 1)
    IN  /\ Len(sent[w]) = taken + Pending(w)
        /\ \A k \in 1 .. taken : sent[w][k] = got[Upto(w - 1) + k]
        /\ \A k \in 1 .. Pending(w) : sent[w][taken + k] = freqs[w][k]

Gathering ==
    pc[Master] \in {"ask", "collect"} /\ ~SomeoneDied =>
        /\ \A k \in DOMAIN got : got[k].from <= i
        /\ \A w \in Workers : Split(w)
        /\ \A w \in Workers \cup {0} : Upto(w) <= w * MaxRecs

IInv ==
    /\ TypeOK
    /\ Processes
    /\ EndsHeld
    /\ Exchange
    /\ SentLater
    /\ Gathering

-----------------------------------------------------------------------------
(* Counting in the master's records. *)

UptoIn(s, w) == Cardinality({k \in DOMAIN s : s[k].from <= w})

LEMMA UptoIs == \A w : Upto(w) = UptoIn(got, w)
  BY DEF Upto, UptoIn

LEMMA UptoNext == \A w : Upto(w)' = UptoIn(got', w)
  BY DEF Upto, UptoIn

LEMMA UptoBounds ==
    ASSUME NEW s \in Seq(Record), NEW v \in Int, NEW w \in Int, v <= w
    PROVE  /\ UptoIn(s, v) \in Nat /\ UptoIn(s, w) \in Nat
           /\ UptoIn(s, v) <= UptoIn(s, w) /\ UptoIn(s, w) <= Len(s)
           /\ (\A k \in DOMAIN s : s[k].from <= v) => UptoIn(s, v) = Len(s)
<1>1. Len(s) \in Nat /\ DOMAIN s = 1 .. Len(s) /\ \A k \in DOMAIN s : s[k] \in Record
  BY LenProperties, ElementOfSeq
<1>2. \A k \in DOMAIN s : s[k].from \in Int
  BY <1>1, PoolAssumption DEF Record, Workers
<1>3. IsFiniteSet(DOMAIN s) /\ Cardinality(DOMAIN s) = Len(s)
  BY <1>1, FS_Interval
<1> DEFINE L(x) == {k \in DOMAIN s : s[k].from <= x}
<1>4. L(v) \subseteq L(w) /\ L(w) \subseteq DOMAIN s
  BY <1>2
<1>5. IsFiniteSet(L(w)) /\ Cardinality(L(w)) <= Len(s)
  BY <1>3, <1>4, FS_Subset
<1>6. IsFiniteSet(L(v)) /\ Cardinality(L(v)) <= Cardinality(L(w))
  BY <1>4, <1>5, FS_Subset
<1>7. Cardinality(L(v)) \in Nat /\ Cardinality(L(w)) \in Nat
  BY <1>5, <1>6, FS_CardinalityType
<1>8. (\A k \in DOMAIN s : s[k].from <= v) => L(v) = DOMAIN s
  OBVIOUS
<1> QED
  BY <1>3, <1>5, <1>6, <1>7, <1>8 DEF UptoIn

LEMMA UptoAll ==
    ASSUME NEW s \in Seq(Record), NEW v \in Int, \A k \in DOMAIN s : s[k].from <= v
    PROVE  UptoIn(s, v) = Len(s)
<1>1. v <= v
  OBVIOUS
<1> QED
  BY <1>1, UptoBounds

LEMMA UptoAppend ==
    ASSUME NEW s \in Seq(Record), NEW r \in Record, NEW w \in Int
    PROVE  UptoIn(Append(s, r), w) = IF r.from <= w THEN UptoIn(s, w) + 1 ELSE UptoIn(s, w)
<1> DEFINE t == Append(s, r)
           A == {k \in DOMAIN s : s[k].from <= w}
           B == {k \in DOMAIN t : t[k].from <= w}
<1>1. Len(s) \in Nat /\ DOMAIN s = 1 .. Len(s)
  BY LenProperties
<1>2. /\ DOMAIN t = 1 .. Len(s) + 1
      /\ \A k \in 1 .. Len(s) : t[k] = s[k]
      /\ t[Len(s) + 1] = r
  BY <1>1, AppendProperties, LenProperties
<1> HIDE DEF t
<1>3. IsFiniteSet(A)
  <2>1. IsFiniteSet(DOMAIN s)
    BY <1>1, FS_Interval
  <2> QED
    BY <2>1, FS_Subset
<1>4. CASE r.from <= w
  <2>1. B = A \cup {Len(s) + 1} /\ Len(s) + 1 \notin A
    BY <1>1, <1>2, <1>4
  <2>2. Cardinality(B) = Cardinality(A) + 1
    BY <1>3, <2>1, FS_AddElement
  <2> QED
    BY <1>4, <2>2 DEF UptoIn, t
<1>5. CASE ~(r.from <= w)
  <2>1. B = A
    BY <1>1, <1>2, <1>5
  <2> QED
    BY <1>5, <2>1 DEF UptoIn, t
<1> QED
  BY <1>4, <1>5

LEMMA UptoEmpty == \A w : UptoIn(<< >>, w) = 0
  BY FS_EmptySet DEF UptoIn

-----------------------------------------------------------------------------
(* Types, and what is known of a step. *)

LEMMA WorkerFacts ==
    /\ N \in Nat /\ 0 \notin Workers /\ Master = 0 /\ Procs = Workers \cup {0}
    /\ \A w \in Workers : w \in Int /\ w \in Procs /\ w # Master
    /\ EmptyRecord \notin Record /\ EmptyRecord.freq = 0 /\ \A r \in Record : r.freq = 1
  BY PoolAssumption DEF Workers, Master, Procs, EmptyRecord, Record

\* Nobody comes back to life, and everybody starts before the first word.
LEMMA DeadStays ==
    ASSUME IInv, [Next]_vars
    PROVE  SomeoneDied => SomeoneDied'
<1>1. pc \in [Procs -> Labels]
  BY DEF IInv, Processes
<1>2. ASSUME NEW w \in Workers, pc[w] = "dead" PROVE pc'[w] = "dead"
  <2>1. CASE MasterStep
    BY <1>1, <1>2, <2>1, WorkerFacts
       DEF MasterStep, Fork, MasterCloses, Prompt, Ask, Collect, Report, Shut, Wait, Goto, Ends,
           IInv, Processes
  <2>2. ASSUME NEW v \in Workers, WorkerStep(v) PROVE pc'[w] = "dead"
    BY <1>1, <1>2, <2>2, WorkerFacts DEF WorkerStep, ChildCloses, ReadWord, WriteRecord, Goto, Ends
  <2>3. ASSUME NEW v \in Workers, Die(v) PROVE pc'[w] = "dead"
    BY <1>1, <1>2, <2>3, WorkerFacts DEF Die, Goto, Ends
  <2>4. CASE UNCHANGED vars
    BY <1>2, <2>4 DEF vars
  <2> QED
    BY <2>1, <2>2, <2>3, <2>4 DEF Next
<1> QED
  BY <1>2 DEF SomeoneDied

-----------------------------------------------------------------------------
(* Each part of the invariant is kept by every step. *)

LEMMA ProcessesKept ==
    ASSUME IInv, [Next]_vars
    PROVE  Processes'
<1>1. pc \in [Procs -> Labels] /\ i \in 1 .. N + 1
  BY DEF IInv, Processes, TypeOK
<1>2. CASE Fork
  <2>1. i \in Workers /\ i # Master /\ i \in Procs
    BY <1>1, <1>2, WorkerFacts DEF Fork, Workers
  <2>2. /\ pc' \in [Procs -> Labels]
        /\ pc'[Master] = (IF i = N THEN "close" ELSE "fork") /\ pc'[i] = "fresh"
        /\ \A w \in Workers : w # i => pc'[w] = pc[w]
    BY <1>1, <1>2, <2>1, WorkerFacts DEF Fork, Labels
  <2>3. \A w \in Workers : Master \in freqsW'[w]
    <3>1. pc[Master] = "fork"
      BY <1>2 DEF Fork
    <3>2. \A w \in Workers : Master \in freqsW[w]
      BY <3>1 DEF IInv, Processes
    <3> QED
      BY <1>2, <3>2 DEF Fork
  <2>4. pc[Master] = "fork" /\ i' = i + 1 /\ \A w \in Workers : w >= i <=> pc[w] = "unborn"
    BY <1>2 DEF Fork, IInv, Processes
  <2>5. CASE i = N
    BY <2>2, <2>4, <2>5, <1>1, WorkerFacts DEF Processes, Workers
  <2>6. CASE i # N
    BY <2>2, <2>3, <2>4, <2>6, <1>1, WorkerFacts DEF Processes, Workers, IInv
  <2> QED
    BY <2>5, <2>6
<1>3. CASE MasterCloses \/ Prompt \/ Report \/ Shut \/ Wait
  BY <1>1, <1>3, WorkerFacts DEF MasterCloses, Prompt, Report, Shut, Wait, Goto, Ends, IInv, Processes,
     Labels
<1>4. CASE Ask
  BY <1>1, <1>4, WorkerFacts DEF Ask, Goto, Ends, IInv, Processes, Labels
<1>5. CASE Collect
  BY <1>1, <1>5, WorkerFacts DEF Collect, Goto, IInv, Processes, Labels
<1>6. ASSUME NEW w \in Workers, WorkerStep(w) \/ Die(w) PROVE Processes'
  <2>1. /\ pc' \in [Procs -> Labels] /\ pc'[Master] = pc[Master] /\ i' = i
        /\ pc[w] # "unborn" /\ pc'[w] # "unborn"
        /\ \A v \in Workers : v # w => pc'[v] = pc[v]
        /\ \A v \in Workers : Master \in freqsW[v] => Master \in freqsW'[v]
    <3>1. i' = i /\ pc[w] # "unborn" /\ \E l \in {"read", "answer", "dead"} : pc' = [pc EXCEPT ![w] = l]
      BY <1>1, <1>6, WorkerFacts
         DEF WorkerStep, Die, ChildCloses, ReadWord, WriteRecord, Goto, Ends
    <3>2. freqsW' = freqsW \/ ChildCloses(w) \/ freqsW' = Drop(freqsW, w)
      BY <1>6 DEF WorkerStep, Die, ReadWord, WriteRecord, Ends, ends
    <3>3. \A v \in Workers : Master \in freqsW[v] => Master \in freqsW'[v]
      BY <3>2, WorkerFacts DEF ChildCloses, Drop
    <3> QED
      BY <1>1, <3>1, <3>3, WorkerFacts DEF Labels
  <2> QED
    BY <2>1 DEF IInv, Processes
<1>7. CASE UNCHANGED vars
  BY <1>7 DEF vars, ends, IInv, Processes
<1> QED
  BY <1>2, <1>3, <1>4, <1>5, <1>6, <1>7 DEF Next, MasterStep

LEMMA EndsKept ==
    ASSUME IInv, [Next]_vars
    PROVE  EndsHeld'
<1>1. /\ pc \in [Procs -> Labels] /\ i \in 1 .. N + 1
      /\ wordsR = freqsW /\ freqsW \in [Workers -> SUBSET Procs]
      /\ \A w \in Workers : pc[w] \in {"fresh", "read", "answer"} => w \in freqsW[w]
  BY DEF IInv, Processes, TypeOK, EndsHeld
<1>2. CASE Fork
  <2>1. i \in Workers
    BY <1>1, <1>2, WorkerFacts DEF Fork, Workers
  <2>2. \A w \in Workers : i \in freqsW'[w] /\ freqsW[w] \subseteq freqsW'[w]
    BY <1>2 DEF Fork, IInv, Processes
  <2>3. \A w \in Workers : w # i => pc'[w] = pc[w]
    BY <1>1, <1>2, <2>1, WorkerFacts DEF Fork
  <2>4. wordsR' = freqsW'
    BY <1>1, <1>2 DEF Fork
  <2> QED
    BY <1>1, <2>2, <2>3, <2>4 DEF EndsHeld
<1>3. CASE MasterStep /\ ~Fork
  <2>1. \A w \in Workers : pc'[w] = pc[w]
    BY <1>1, <1>3, WorkerFacts
       DEF MasterStep, MasterCloses, Prompt, Ask, Collect, Report, Shut, Wait, Goto, Ends
  <2>2. wordsR' = freqsW' /\ \A w \in Workers : w \in freqsW[w] => w \in freqsW'[w]
    <3>1. \/ wordsR' = wordsR /\ freqsW' = freqsW
          \/ wordsR' = Drop(wordsR, Master) /\ freqsW' = Drop(freqsW, Master)
      BY <1>3 DEF MasterStep, MasterCloses, Prompt, Ask, Collect, Report, Shut, Wait, Ends, ends
    <3>2. Drop(wordsR, Master) = Drop(freqsW, Master)
      BY <1>1
    <3>3. \A w \in Workers : w \in freqsW[w] => w \in Drop(freqsW, Master)[w]
      BY WorkerFacts DEF Drop
    <3> QED
      BY <1>1, <3>1, <3>2, <3>3
  <2> QED
    BY <1>1, <2>1, <2>2 DEF EndsHeld
<1>4. ASSUME NEW w \in Workers, WorkerStep(w) \/ Die(w) PROVE EndsHeld'
  <2>1. \/ /\ wordsR' = wordsR /\ freqsW' = freqsW
           /\ pc[w] \in {"fresh", "read", "answer"}
           /\ \A v \in Workers : v # w => pc'[v] = pc[v]
        \/ ChildCloses(w)
        \/ Ends(w, "dead")
    BY <1>1, <1>4, WorkerFacts DEF WorkerStep, Die, ReadWord, WriteRecord, Goto, ends
  <2>2. CASE /\ wordsR' = wordsR /\ freqsW' = freqsW
             /\ pc[w] \in {"fresh", "read", "answer"}
             /\ \A v \in Workers : v # w => pc'[v] = pc[v]
    BY <1>1, <2>2 DEF EndsHeld
  <2>3. CASE ChildCloses(w)
    BY <1>1, <2>3, WorkerFacts DEF ChildCloses, Goto, EndsHeld
  <2>4. CASE Ends(w, "dead")
    BY <1>1, <2>4, WorkerFacts DEF Ends, Goto, Drop, EndsHeld
  <2> QED
    BY <2>1, <2>2, <2>3, <2>4
<1>5. CASE UNCHANGED vars
  BY <1>1, <1>5 DEF vars, ends, EndsHeld
<1> QED
  BY <1>2, <1>3, <1>4, <1>5 DEF Next

\* The master's read from the worker it collects from: a record, the empty
\* record, or the end of the file.
Takes ==
    /\ pc' = pc /\ i' = i
    /\ freqs[i] # << >> /\ freqs[i][1] \in Record /\ freqs[i][1].from = i
    /\ child_freqr' = freqs[i][1]
    /\ freqs' = [freqs EXCEPT ![i] = Tail(@)]
    /\ got' = IF Len(got) < MAXRECORDS THEN Append(got, freqs[i][1]) ELSE got
MovesOn ==
    /\ pc' = [pc EXCEPT ![Master] = "ask"] /\ i' = i + 1
    /\ got' = got
Finishes ==
    /\ MovesOn
    /\ Answered(i) /\ Len(freqs[i]) = 1
    /\ child_freqr' = EmptyRecord
    /\ freqs' = [freqs EXCEPT ![i] = << >>]
Lost ==
    /\ freqs[i] = << >> /\ freqsW[i] = {} /\ pc[i] = "dead"
    /\ freqs' = freqs /\ child_freqr' = child_freqr
    /\ \/ MovesOn
       \/ /\ pc' = pc /\ i' = i /\ child_freqr \in Record
          /\ got' = IF Len(got) < MAXRECORDS THEN Append(got, child_freqr) ELSE got

LEMMA CollectDoes ==
    ASSUME IInv, Collect
    PROVE  /\ i \in Workers /\ AtWork(i) /\ pc[Master] = "collect"
           /\ freqs[i] \in Seq(Record \cup {EmptyRecord}) /\ DOMAIN freqs = Workers
           /\ Takes \/ Finishes \/ Lost
           /\ UNCHANGED <<owes, words, ends, sent, asked>>
<1>1. /\ pc[Master] = "collect" /\ i \in Workers /\ AtWork(i)
      /\ freqs \in [Workers -> Seq(Record \cup {EmptyRecord})] /\ DOMAIN freqs = Workers
      /\ child_freqr \in Record \cup {EmptyRecord}
  BY WorkerFacts DEF Collect, IInv, Processes, TypeOK, AtWork, Workers
<1>2. freqs[i] \in Seq(Record \cup {EmptyRecord}) /\ DOMAIN freqs[i] = 1 .. Len(freqs[i])
      /\ Len(freqs[i]) \in Nat
  BY <1>1, LenProperties
<1>3. Asked(i) \/ Answering(i) \/ Answered(i)
  BY <1>1 DEF IInv, Exchange
<1>4. \A r \in Record \cup {EmptyRecord} : More(r) <=> r \in Record
  BY WorkerFacts DEF More
<1>5. /\ More(child_freqr') => /\ got' = IF Len(got) < MAXRECORDS THEN Append(got, child_freqr') ELSE got
                               /\ pc' = pc /\ i' = i
      /\ ~More(child_freqr') => MovesOn
  BY DEF Collect, MovesOn, Goto
<1>6. ASSUME freqs[i] # << >>, child_freqr' = Head(freqs[i]), freqs' = [freqs EXCEPT ![i] = Tail(@)]
      PROVE  Takes \/ Finishes
  <2>1. Len(freqs[i]) >= 1 /\ child_freqr' = freqs[i][1]
    BY <1>2, <1>6, EmptySeq
  <2>2. CASE Len(freqs[i]) = 1 /\ freqs[i][1] = EmptyRecord
    <3>1. Answered(i)
      <4>1. ~RecordsOf(i, Len(freqs[i]))
        BY <2>2, WorkerFacts DEF RecordsOf
      <4> QED
        BY <1>3, <1>6, <4>1 DEF Asked, Answering
    <3>2. Tail(freqs[i]) \in Seq(Record \cup {EmptyRecord}) /\ Len(Tail(freqs[i])) = 0
      BY <1>2, <1>6, <2>2, HeadTailProperties
    <3>3. Tail(freqs[i]) = << >>
      BY <3>2, EmptySeq
    <3>4. MovesOn
      BY <1>4, <1>5, <2>1, <2>2, WorkerFacts
    <3>5. freqs' = [freqs EXCEPT ![i] = << >>]
      BY <1>6, <3>3
    <3> QED
      BY <2>1, <2>2, <3>1, <3>4, <3>5 DEF Finishes
  <2>3. CASE ~(Len(freqs[i]) = 1 /\ freqs[i][1] = EmptyRecord)
    <3>1. freqs[i][1] \in Record /\ freqs[i][1].from = i
      <4>1. CASE Answering(i)
        <5>1. 1 \in 1 .. Len(freqs[i])
          BY <1>2, <2>1
        <5> QED
          BY <4>1, <5>1 DEF Answering, RecordsOf
      <4>2. CASE Answered(i)
        <5>1. Len(freqs[i]) # 1
          BY <2>3, <4>2 DEF Answered
        <5>2. Len(freqs[i]) \in Nat
          BY <1>2
        <5>3. \A n \in Nat : n >= 1 /\ n # 1 => 1 \in 1 .. n - 1
          OBVIOUS
        <5>4. 1 \in 1 .. Len(freqs[i]) - 1
          BY <2>1, <5>1, <5>2, <5>3
        <5> QED
          BY <4>2, <5>4 DEF Answered, RecordsOf
      <4>3. ~Asked(i)
        BY <1>6 DEF Asked
      <4> QED
        BY <1>3, <4>1, <4>2, <4>3
    <3>2. pc' = pc /\ i' = i /\ got' = IF Len(got) < MAXRECORDS THEN Append(got, freqs[i][1]) ELSE got
      BY <1>4, <1>5, <2>1, <3>1
    <3> QED
      BY <1>6, <2>1, <3>1, <3>2 DEF Takes
  <2> QED
    BY <2>2, <2>3
<1>7. ASSUME freqs[i] = << >>, freqsW[i] = {}, UNCHANGED <<child_freqr, freqs>>
      PROVE  Lost
  <2>1. pc[i] = "dead"
    BY <1>1, <1>7 DEF IInv, Processes, EndsHeld, TypeOK
  <2>2. child_freqr' = child_freqr
    BY <1>7
  <2>3. CASE More(child_freqr)
    <3>1. child_freqr \in Record /\ pc' = pc /\ i' = i
          /\ got' = IF Len(got) < MAXRECORDS THEN Append(got, child_freqr) ELSE got
      BY <1>1, <1>4, <1>5, <2>2, <2>3
    <3> QED
      BY <1>7, <2>1, <2>2, <3>1 DEF Lost
  <2>4. CASE ~More(child_freqr)
    <3>1. MovesOn
      BY <1>5, <2>2, <2>4
    <3> QED
      BY <1>7, <2>1, <2>2, <3>1 DEF Lost
  <2> QED
    BY <2>3, <2>4
<1>8. UNCHANGED <<owes, words, ends, sent, asked>>
  BY DEF Collect
<1> QED
  BY <1>1, <1>2, <1>6, <1>7, <1>8 DEF Collect

\* What a worker's write does, when the pipe is open and has room.
Writes(w) ==
    /\ Len(freqs[w]) < PipeCap
    /\ freqs' = [freqs EXCEPT ![w] = Append(@, NextRecord(w))]
    /\ owes' = [owes EXCEPT ![w] = @ - 1]
    /\ \/ /\ owes[w] = 0 /\ NextRecord(w) = EmptyRecord
          /\ sent' = sent /\ pc' = [pc EXCEPT ![w] = "read"]
       \/ /\ owes[w] # 0 /\ NextRecord(w) \in Record /\ NextRecord(w).from = w
          /\ sent' = [sent EXCEPT ![w] = Append(@, NextRecord(w))] /\ pc' = pc
    /\ UNCHANGED ends

LEMMA WriteDoes ==
    ASSUME IInv, NEW w \in Workers, WriteRecord(w)
    PROVE  /\ AtWork(w) /\ Answering(w) /\ pc[w] = "answer"
           /\ freqs[w] \in Seq(Record \cup {EmptyRecord}) /\ DOMAIN freqs = Workers
           /\ owes[w] \in 0 .. MaxRecs /\ Len(sent[w]) + owes[w] <= MaxRecs
           /\ Writes(w) \/ (Ends(w, "dead") /\ UNCHANGED <<freqs, sent, owes>>)
           /\ UNCHANGED <<i, child_freqr, got, words, asked>>
<1>1. /\ pc[w] = "answer" /\ UNCHANGED <<i, child_freqr, got, words, asked>>
      /\ freqs \in [Workers -> Seq(Record \cup {EmptyRecord})] /\ owes \in [Workers -> -1 .. MaxRecs]
  BY DEF WriteRecord, IInv, TypeOK
<1>2. AtWork(w) /\ Answering(w)
  BY <1>1 DEF IInv, Exchange, Idle, Buried, Asked, Answered
<1>3. owes[w] \in 0 .. MaxRecs /\ Len(sent[w]) + owes[w] <= MaxRecs
  BY <1>1, <1>2, PoolAssumption DEF Answering
<1>4. /\ owes[w] = 0 => NextRecord(w) = EmptyRecord
      /\ owes[w] # 0 => NextRecord(w) \in Record /\ NextRecord(w).from = w
  BY <1>3, PoolAssumption DEF NextRecord, Record
<1>5. Writes(w) \/ (Ends(w, "dead") /\ UNCHANGED <<freqs, sent, owes>>)
  BY <1>4 DEF WriteRecord, Writes, Goto
<1> QED
  BY <1>1, <1>2, <1>3, <1>5

\* The types of who holds which end.
EndsTyped ==
    /\ wordsR \in [Workers -> SUBSET Procs] /\ wordsW \in [Workers -> SUBSET Procs]
    /\ freqsR \in [Workers -> SUBSET Procs] /\ freqsW \in [Workers -> SUBSET Procs]

LEMMA EndsTypedKept ==
    ASSUME IInv, [Next]_vars
    PROVE  EndsTyped'
<1>1. EndsTyped
  BY DEF IInv, TypeOK, EndsTyped
<1>2. ASSUME NEW p \in Procs, NEW l, Ends(p, l) PROVE EndsTyped'
  BY <1>1, <1>2 DEF Ends, Drop, EndsTyped
<1>3. CASE UNCHANGED ends
  BY <1>1, <1>3 DEF ends, EndsTyped
<1>4. CASE Fork
  <2>1. i \in Procs
    BY <1>4, WorkerFacts DEF Fork, IInv, TypeOK, Workers
  <2> QED
    BY <1>1, <1>4, <2>1 DEF Fork, EndsTyped
<1>5. CASE MasterCloses
  BY <1>1, <1>5 DEF MasterCloses, Drop, EndsTyped
<1>6. CASE Shut
  BY <1>1, <1>6 DEF Shut, Drop, EndsTyped
<1>7. ASSUME NEW w \in Workers, ChildCloses(w) PROVE EndsTyped'
  BY <1>1, <1>7 DEF ChildCloses, Drop, EndsTyped
<1>8. CASE MasterStep
  BY <1>2, <1>3, <1>4, <1>5, <1>6, <1>8, WorkerFacts
     DEF MasterStep, Prompt, Ask, Collect, Report, Wait
<1>9. ASSUME NEW w \in Workers, WorkerStep(w) \/ Die(w) PROVE EndsTyped'
  BY <1>2, <1>3, <1>7, <1>9, WorkerFacts DEF WorkerStep, ReadWord, WriteRecord, Die
<1>10. CASE UNCHANGED vars
  BY <1>3, <1>10 DEF vars
<1> QED
  BY <1>8, <1>9, <1>10 DEF Next

\* Where each process is.
PlacesTyped ==
    /\ pc[Master] \in {"fork", "close", "prompt", "ask", "collect", "shut", "wait",
                       "done", "killed"}
    /\ \A w \in Workers : pc[w] \in {"unborn", "fresh", "read", "answer", "dead"}

LEMMA PlacesTypedKept ==
    ASSUME IInv, [Next]_vars
    PROVE  PlacesTyped'
<1>1. PlacesTyped /\ pc \in [Procs -> Labels]
  BY DEF IInv, TypeOK, Processes, PlacesTyped
<1>2. ASSUME NEW l \in {"fork", "close", "prompt", "ask", "collect", "shut", "wait", "done", "killed"},
             pc' = [pc EXCEPT ![Master] = l]
      PROVE  PlacesTyped'
  BY <1>1, <1>2, WorkerFacts DEF PlacesTyped
<1>3. ASSUME NEW w \in Workers, NEW l \in {"unborn", "fresh", "read", "answer", "dead"},
             pc' = [pc EXCEPT ![w] = l]
      PROVE  PlacesTyped'
  BY <1>1, <1>3, WorkerFacts DEF PlacesTyped
<1>4. CASE pc' = pc
  BY <1>1, <1>4 DEF PlacesTyped
<1>5. CASE Fork
  <2>1. i \in Workers
    BY <1>5, WorkerFacts DEF Fork, IInv, TypeOK, Workers
  <2> QED
    BY <1>1, <1>5, <2>1, WorkerFacts DEF Fork, PlacesTyped
<1>6. CASE MasterStep
  BY <1>2, <1>4, <1>5, <1>6
     DEF MasterStep, MasterCloses, Prompt, Ask, Collect, Report, Shut, Wait, Goto, Ends
<1>7. ASSUME NEW w \in Workers, WorkerStep(w) \/ Die(w) PROVE PlacesTyped'
  BY <1>3, <1>4, <1>7 DEF WorkerStep, ChildCloses, ReadWord, WriteRecord, Die, Goto, Ends
<1>8. CASE UNCHANGED vars
  BY <1>4, <1>8 DEF vars
<1> QED
  BY <1>6, <1>7, <1>8 DEF Next

\* What the pipes and the two memories hold.
DataTyped ==
    /\ i \in 1 .. N + 1
    /\ child_freqr \in Record \cup {EmptyRecord}
    /\ got \in Seq(Record) /\ Len(got) <= MAXRECORDS
    /\ owes \in [Workers -> -1 .. MaxRecs]
    /\ words \in [Workers -> Seq({"word"})]
    /\ freqs \in [Workers -> Seq(Record \cup {EmptyRecord})]
    /\ \A w \in Workers : Len(freqs[w]) <= PipeCap
    /\ sent \in [Workers -> Seq(Record)]
    /\ asked \in 0 .. MaxQueries

LEMMA DataTypedKept ==
    ASSUME IInv, [Next]_vars
    PROVE  DataTyped'
<1> USE PoolAssumption
<1>1. DataTyped
  BY DEF IInv, TypeOK, DataTyped
<1>2. CASE UNCHANGED <<i, child_freqr, got, owes, words, freqs, sent, asked>>
  BY <1>1, <1>2 DEF DataTyped
<1>3. CASE Fork
  BY <1>1, <1>3 DEF Fork, DataTyped
<1>4. CASE Prompt
  <2>1. << >> \in Seq(Record) /\ Len(<< >>) = 0
    BY EmptySeq
  <2>2. [w \in Workers |-> << >>] \in [Workers -> Seq(Record)]
    BY <2>1
  <2>3. 1 \in 1 .. N + 1 /\ 0 <= MAXRECORDS
    OBVIOUS
  <2>4. /\ owes' = owes /\ words' = words /\ freqs' = freqs
        /\ i' \in 1 .. N + 1 /\ child_freqr' \in Record \cup {EmptyRecord}
        /\ got' \in Seq(Record) /\ Len(got') <= MAXRECORDS /\ sent' \in [Workers -> Seq(Record)]
    BY <1>1, <1>4, <2>1, <2>2, <2>3 DEF Prompt, DataTyped
  <2>5. asked' \in 0 .. MaxQueries
    BY <1>1, <1>4 DEF Prompt, DataTyped
  <2> QED
    BY <1>1, <2>4, <2>5 DEF DataTyped
<1>5. CASE Ask
  <2>1. CASE words' = [words EXCEPT ![i] = Append(@, "word")]
    <3>1. \A s \in Seq({"word"}) : Append(s, "word") \in Seq({"word"})
      BY AppendProperties
    <3> QED
      BY <1>1, <1>5, <2>1, <3>1 DEF Ask, DataTyped
  <2> QED
    BY <1>1, <1>5, <2>1 DEF Ask, DataTyped
<1>6. CASE Collect
  <2>1. /\ i \in Workers /\ i + 1 \in 1 .. N + 1
        /\ owes' = owes /\ words' = words /\ sent' = sent /\ asked' = asked
    BY <1>6, CollectDoes, WorkerFacts DEF Workers
  <2>2. ASSUME NEW r \in Record, got' = IF Len(got) < MAXRECORDS THEN Append(got, r) ELSE got
        PROVE  got' \in Seq(Record) /\ Len(got') <= MAXRECORDS
    BY <1>1, <2>2, AppendProperties, LenProperties DEF DataTyped
  <2>3. CASE Takes
    <3>1. Tail(freqs[i]) \in Seq(Record \cup {EmptyRecord}) /\ Len(Tail(freqs[i])) <= PipeCap
      BY <1>1, <2>1, <2>3, HeadTailProperties, LenProperties DEF Takes, DataTyped
    <3> QED
      BY <1>1, <2>1, <2>2, <2>3, <3>1 DEF Takes, DataTyped
  <2>4. CASE Finishes
    <3>1. << >> \in Seq(Record \cup {EmptyRecord}) /\ Len(<< >>) = 0
      BY EmptySeq
    <3>2. 0 <= PipeCap
      BY PoolAssumption
    <3>3. freqs' = [freqs EXCEPT ![i] = << >>] /\ got' = got /\ i' = i + 1
          /\ child_freqr' = EmptyRecord
      BY <2>4 DEF Finishes, MovesOn
    <3>4. freqs' \in [Workers -> Seq(Record \cup {EmptyRecord})]
      BY <1>1, <2>1, <3>1, <3>3 DEF DataTyped
    <3>5. \A w \in Workers : Len(freqs'[w]) <= PipeCap
      BY <1>1, <2>1, <3>1, <3>2, <3>3 DEF DataTyped
    <3> QED
      BY <1>1, <2>1, <3>3, <3>4, <3>5 DEF DataTyped
  <2>5. CASE Lost
    BY <1>1, <2>1, <2>2, <2>5 DEF Lost, MovesOn, DataTyped
  <2> QED
    BY <1>6, <2>3, <2>4, <2>5, CollectDoes
<1>7. ASSUME NEW w \in Workers, ReadWord(w) PROVE DataTyped'
  <2>1. CASE words[w] # << >> /\ words' = [words EXCEPT ![w] = Tail(@)]
    <3>1. Tail(words[w]) \in Seq({"word"})
      BY <1>1, <2>1, HeadTailProperties DEF DataTyped
    <3>2. words' \in [Workers -> Seq({"word"})]
      BY <1>1, <2>1, <3>1 DEF DataTyped
    <3>3. 0 .. MaxRecs \subseteq -1 .. MaxRecs
      OBVIOUS
    <3>4. owes' \in [Workers -> -1 .. MaxRecs]
      BY <1>1, <1>7, <2>1, <3>3 DEF ReadWord, DataTyped
    <3>5. UNCHANGED <<i, child_freqr, got, freqs, sent, asked>>
      BY <1>7 DEF ReadWord
    <3> QED
      BY <1>1, <3>2, <3>4, <3>5 DEF DataTyped
  <2> QED
    BY <1>1, <1>7, <2>1 DEF ReadWord, DataTyped
<1>8. ASSUME NEW w \in Workers, WriteRecord(w) PROVE DataTyped'
  <2>1. /\ i' = i /\ child_freqr' = child_freqr /\ got' = got /\ words' = words /\ asked' = asked
        /\ owes[w] \in 0 .. MaxRecs
    BY <1>8, WriteDoes
  <2>2. CASE Writes(w)
    <3>1. NextRecord(w) \in Record \cup {EmptyRecord}
      BY <2>2 DEF Writes
    <3>2. /\ Append(freqs[w], NextRecord(w)) \in Seq(Record \cup {EmptyRecord})
          /\ Len(Append(freqs[w], NextRecord(w))) <= PipeCap
      BY <1>1, <2>2, <3>1, AppendProperties, LenProperties DEF Writes, DataTyped
    <3>3. owes[w] - 1 \in -1 .. MaxRecs
      BY <2>1
    <3>4. sent' \in [Workers -> Seq(Record)]
      <4>1. NextRecord(w) \in Record => Append(sent[w], NextRecord(w)) \in Seq(Record)
        BY <1>1, AppendProperties DEF DataTyped
      <4>2. \/ sent' = sent
            \/ NextRecord(w) \in Record /\ sent' = [sent EXCEPT ![w] = Append(@, NextRecord(w))]
        BY <2>2 DEF Writes
      <4> QED
        BY <1>1, <4>1, <4>2 DEF DataTyped
    <3> QED
      BY <1>1, <2>1, <2>2, <3>2, <3>3, <3>4 DEF Writes, DataTyped
  <2>3. CASE UNCHANGED <<freqs, sent, owes>>
    BY <1>2, <2>1, <2>3
  <2> QED
    BY <1>8, <2>2, <2>3, WriteDoes
<1>9. CASE MasterStep
  BY <1>2, <1>3, <1>4, <1>5, <1>6, <1>9 DEF MasterStep, MasterCloses, Report, Shut, Wait
<1>10. ASSUME NEW w \in Workers, WorkerStep(w) \/ Die(w) PROVE DataTyped'
  BY <1>2, <1>7, <1>8, <1>10 DEF WorkerStep, ChildCloses, Die
<1>11. CASE UNCHANGED vars
  BY <1>2, <1>11 DEF vars
<1> QED
  BY <1>9, <1>10, <1>11 DEF Next

LEMMA TypeKept ==
    ASSUME IInv, [Next]_vars
    PROVE  TypeOK'
  BY EndsTypedKept, PlacesTypedKept, DataTypedKept DEF TypeOK, EndsTyped, PlacesTyped, DataTyped

\* A step that leaves the pipes alone: processes may end, or start.
LEMMA QuietExchange ==
    ASSUME IInv, UNCHANGED <<words, freqs, owes, sent>>,
           \A w \in Workers : AtWork(w)' <=> AtWork(w),
           \A w \in Workers : Buried(w) => freqsW'[w] = {},
           \A w \in Workers : \/ pc'[w] = pc[w]
                              \/ pc'[w] = "dead"
                              \/ pc[w] \notin {"answer", "dead"} /\ pc'[w] \notin {"answer", "dead"}
    PROVE  Exchange'
<1> SUFFICES ASSUME NEW w \in Workers
             PROVE  /\ AtWork(w)' => Asked(w)' \/ Answering(w)' \/ Answered(w)'
                    /\ ~AtWork(w)' => Idle(w)' \/ Buried(w)'
  BY DEF Exchange
<1>1. /\ AtWork(w) => Asked(w) \/ Answering(w) \/ Answered(w)
      /\ ~AtWork(w) => Idle(w) \/ Buried(w)
  BY DEF IInv, Exchange
<1>2. words' = words /\ freqs' = freqs /\ owes' = owes /\ sent' = sent
  OBVIOUS
<1>3. /\ Asked(w) => Asked(w)'
      /\ Answering(w) => Answering(w)'
      /\ Answered(w) => Answered(w)'
      /\ Idle(w) => Idle(w)'
  BY <1>2 DEF Asked, Answering, Answered, Idle, RecordsOf
<1>4. Buried(w) => Buried(w)'
  BY <1>2 DEF Buried
<1> QED
  BY <1>1, <1>3, <1>4

\* A step of the exchange with w.
LEMMA ExchangeWith ==
    ASSUME IInv, NEW w \in Workers, AtWork(w) \/ AtWork(w)',
           \A v \in Workers : v # w => /\ pc'[v] = pc[v] /\ words'[v] = words[v]
                                       /\ freqs'[v] = freqs[v] /\ freqsW'[v] = freqsW[v],
           pc'[Master] = "collect" => i' = w,
           AtWork(w)' => Asked(w)' \/ Answering(w)' \/ Answered(w)',
           ~AtWork(w)' => Idle(w)' \/ Buried(w)',
           pc[Master] = "collect" => i = w
    PROVE  Exchange'
<1>1. ASSUME NEW v \in Workers, v # w
      PROVE  ~AtWork(v)' /\ (Idle(v)' \/ Buried(v)')
  <2>1. ~AtWork(v)'
    BY <1>1 DEF AtWork
  <2>2. ~AtWork(v)
    BY <1>1 DEF AtWork
  <2>3. Idle(v) \/ Buried(v)
    BY <2>2 DEF IInv, Exchange
  <2> QED
    BY <1>1, <2>1, <2>3 DEF Idle, Buried
<1> QED
  BY <1>1 DEF Exchange

LEMMA AskExchanges ==
    ASSUME IInv, Ask
    PROVE  Exchange'
<1>1. /\ pc[Master] = "ask" /\ i \in Workers /\ i' = i /\ pc \in [Procs -> Labels]
      /\ UNCHANGED <<owes, freqs, sent>> /\ words \in [Workers -> Seq({"word"})]
  BY WorkerFacts DEF Ask, IInv, Processes, TypeOK, Workers
<1>2. \A w \in Workers : ~AtWork(w)
  BY <1>1 DEF AtWork
<1>3. CASE wordsR[i] # {} /\ words' = [words EXCEPT ![i] = Append(@, "word")]
           /\ Goto(Master, "collect") /\ UNCHANGED ends
  <2>1. /\ pc'[Master] = "collect" /\ \A w \in Workers : pc'[w] = pc[w]
        /\ freqsW' = freqsW
    BY <1>1, <1>3, WorkerFacts DEF Goto, ends
  <2>2. Idle(i)
    BY <1>1, <1>2, <1>3 DEF IInv, Exchange, Buried, EndsHeld
  <2>3. words'[i] = <<"word">>
    BY <1>1, <1>3, <2>2 DEF Idle
  <2>4. sent[i] = << >>
    BY <1>1 DEF IInv, SentLater
  <2>5. Asked(i)'
    <3>1. words'[i] = <<"word">> /\ freqs'[i] = << >> /\ pc'[i] # "answer" /\ sent'[i] = << >>
      BY <1>1, <2>1, <2>2, <2>3, <2>4 DEF Idle
    <3> QED
      BY <1>1, <3>1 DEF Asked
  <2>6. \A v \in Workers : v # i => words'[v] = words[v]
    BY <1>1, <1>3
  <2> QED
    <3>1. PICK x \in Workers : x = i
      BY <1>1
    <3>2. Asked(x)' /\ AtWork(x)'
      BY <1>1, <2>1, <2>5, <3>1 DEF Asked, AtWork
    <3> QED
      BY <1>1, <2>1, <2>6, <3>1, <3>2, ExchangeWith
<1>4. CASE Ends(Master, "killed") /\ UNCHANGED words
  <2>1. /\ pc'[Master] = "killed" /\ \A w \in Workers : pc'[w] = pc[w] /\ freqsW'[w] \subseteq freqsW[w]
    BY <1>1, <1>4, WorkerFacts DEF Ends, Goto, Drop
  <2>2. \A w \in Workers : ~AtWork(w)' /\ (Buried(w) => freqsW'[w] = {})
    BY <2>1 DEF AtWork, Buried
  <2> QED
    BY <1>1, <1>2, <1>4, <2>1, <2>2, QuietExchange
<1> QED
  BY <1>3, <1>4 DEF Ask

LEMMA CollectExchanges ==
    ASSUME IInv, Collect
    PROVE  Exchange'
<1>1. PICK w \in Workers : w = i
  BY CollectDoes
<1>2. /\ pc[Master] = "collect" /\ AtWork(w) /\ UNCHANGED <<owes, words, ends, sent>>
      /\ freqs[w] \in Seq(Record \cup {EmptyRecord}) /\ DOMAIN freqs = Workers
      /\ pc \in [Procs -> Labels]
  BY <1>1, CollectDoes DEF IInv, Processes
<1>3. Asked(w) \/ Answering(w) \/ Answered(w)
  BY <1>2 DEF IInv, Exchange
<1>4. freqsW' = freqsW
  BY <1>2 DEF ends
<1>5. CASE Takes
  <2>1. /\ pc' = pc /\ i' = i /\ freqs[w] # << >> /\ freqs[w][1] \in Record
        /\ freqs' = [freqs EXCEPT ![w] = Tail(@)]
    BY <1>1, <1>5 DEF Takes
  <2>2. /\ Len(freqs[w]) \in Nat /\ Len(freqs[w]) >= 1
        /\ Len(freqs'[w]) = Len(freqs[w]) - 1
        /\ \A k \in 1 .. Len(freqs'[w]) : freqs'[w][k] = freqs[w][k + 1]
    BY <1>2, <2>1, HeadTailProperties, LenProperties, EmptySeq
  <2>3. ASSUME Answering(w) PROVE Answering(w)'
    <3>1. \A k \in 1 .. Len(freqs'[w]) : k + 1 \in 1 .. Len(freqs[w])
      BY <2>2
    <3>2. \A k \in 1 .. Len(freqs'[w]) : freqs'[w][k] \in Record /\ freqs'[w][k].from = w
      BY <2>2, <2>3, <3>1 DEF Answering, RecordsOf
    <3> QED
      BY <1>2, <2>1, <2>3, <3>2 DEF Answering, RecordsOf
  <2>4. ASSUME Answered(w) PROVE Answered(w)'
    <3>1. Len(freqs[w]) # 1
      BY <2>1, <2>4, WorkerFacts DEF Answered
    <3>2. Len(freqs'[w]) >= 1 /\ Len(freqs'[w]) \in Nat
      <4>1. \A n \in Nat : n >= 1 /\ n # 1 => n - 1 >= 1 /\ n - 1 \in Nat
        OBVIOUS
      <4> QED
        BY <2>2, <3>1, <4>1
    <3>3. freqs'[w] # << >>
      BY <3>2, EmptySeq
    <3>4. freqs'[w][Len(freqs'[w])] = EmptyRecord
      <4>1. freqs'[w][Len(freqs'[w])] = freqs[w][Len(freqs'[w]) + 1] /\ Len(freqs'[w]) + 1 = Len(freqs[w])
        BY <2>2, <3>2
      <4> QED
        BY <2>4, <4>1 DEF Answered
    <3>5. \A k \in 1 .. Len(freqs'[w]) - 1 : k \in 1 .. Len(freqs'[w]) /\ k + 1 \in 1 .. Len(freqs[w]) - 1
      BY <2>2, <3>2
    <3>6. \A k \in 1 .. Len(freqs'[w]) - 1 : freqs'[w][k] \in Record /\ freqs'[w][k].from = w
      BY <2>2, <2>4, <3>5 DEF Answered, RecordsOf
    <3> QED
      BY <1>2, <2>1, <2>4, <3>3, <3>4, <3>6 DEF Answered, RecordsOf
  <2>5. AtWork(w)' /\ (Answering(w)' \/ Answered(w)')
    BY <1>2, <1>3, <2>1, <2>3, <2>4 DEF AtWork, Asked
  <2> QED
    BY <1>1, <1>2, <1>4, <2>1, <2>5, ExchangeWith
<1>6. ASSUME MovesOn
      PROVE  /\ \A v \in Workers : pc'[v] = pc[v]
             /\ pc'[Master] = "ask" /\ ~AtWork(w)'
  BY <1>2, <1>6, WorkerFacts DEF MovesOn, AtWork
<1>7. CASE Finishes
  <2>1. Idle(w)'
    BY <1>1, <1>2, <1>6, <1>7 DEF Finishes, Answered, Idle
  <2>2. \A v \in Workers : v # w => freqs'[v] = freqs[v]
    BY <1>1, <1>7 DEF Finishes
  <2> QED
    BY <1>1, <1>2, <1>4, <1>6, <1>7, <2>1, <2>2, ExchangeWith DEF Finishes
<1>8. CASE Lost
  <2>1. freqs' = freqs /\ freqs[w] = << >> /\ freqsW[w] = {} /\ pc[w] = "dead"
    BY <1>1, <1>8 DEF Lost
  <2>2. CASE MovesOn
    <3>1. Idle(w)' \/ Buried(w)'
      BY <1>2, <1>3, <1>4, <1>6, <2>1, <2>2 DEF Asked, Answering, Answered, Idle, Buried
    <3> QED
      BY <1>1, <1>2, <1>4, <1>6, <2>1, <2>2, <3>1, ExchangeWith
  <2>3. CASE pc' = pc /\ i' = i
    BY <1>2, <1>4, <2>1, <2>3, QuietExchange DEF AtWork, Buried
  <2> QED
    BY <1>8, <2>2, <2>3 DEF Lost
<1> QED
  BY <1>5, <1>7, <1>8, CollectDoes

LEMMA WriteExchanges ==
    ASSUME IInv, NEW w \in Workers, WriteRecord(w)
    PROVE  Exchange'
<1>1. /\ AtWork(w) /\ Answering(w) /\ pc[w] = "answer" /\ i' = i /\ words' = words
      /\ owes[w] \in 0 .. MaxRecs /\ Len(sent[w]) + owes[w] <= MaxRecs
      /\ freqs[w] \in Seq(Record \cup {EmptyRecord}) /\ DOMAIN freqs = Workers
      /\ pc \in [Procs -> Labels] /\ sent \in [Workers -> Seq(Record)]
      /\ owes \in [Workers -> -1 .. MaxRecs]
  BY WriteDoes DEF IInv, Processes, TypeOK
<1>2. i = w /\ pc[Master] = "collect"
  BY <1>1 DEF AtWork
<1>3. CASE Writes(w)
  <2>1. pc'[Master] = "collect" /\ AtWork(w)' /\ freqsW' = freqsW
        /\ \A v \in Workers : v # w => pc'[v] = pc[v] /\ freqs'[v] = freqs[v]
    BY <1>1, <1>2, <1>3, WorkerFacts DEF Writes, AtWork, ends
  <2>2. /\ freqs'[w] # << >> /\ Len(freqs[w]) \in Nat /\ Len(freqs'[w]) = Len(freqs[w]) + 1
        /\ \A k \in 1 .. Len(freqs[w]) : freqs'[w][k] = freqs[w][k]
        /\ freqs'[w][Len(freqs'[w])] = NextRecord(w)
    <3>1. NextRecord(w) \in Record \cup {EmptyRecord} /\ freqs'[w] = Append(freqs[w], NextRecord(w))
      BY <1>1, <1>3 DEF Writes
    <3> QED
      BY <1>1, <3>1, AppendProperties, LenProperties
  <2>3. \A k \in 1 .. Len(freqs[w]) : freqs'[w][k] \in Record /\ freqs'[w][k].from = w
    BY <1>1, <2>2 DEF Answering, RecordsOf
  <2>4. ASSUME owes[w] = 0 PROVE Answered(w)'
    <3>1. NextRecord(w) = EmptyRecord /\ pc' = [pc EXCEPT ![w] = "read"]
      BY <1>3, <2>4 DEF Writes
    <3>2. pc'[w] # "answer" /\ Len(freqs'[w]) - 1 = Len(freqs[w])
      BY <1>1, <2>2, <3>1, WorkerFacts
    <3> QED
      BY <1>1, <2>2, <2>3, <3>1, <3>2 DEF Answered, Answering, RecordsOf
  <2>5. ASSUME owes[w] # 0 PROVE Answering(w)'
    <3>1. /\ NextRecord(w) \in Record /\ NextRecord(w).from = w /\ pc' = pc
          /\ sent' = [sent EXCEPT ![w] = Append(@, NextRecord(w))] /\ owes' = [owes EXCEPT ![w] = @ - 1]
      BY <1>3, <2>5 DEF Writes
    <3>2. Len(sent'[w]) = Len(sent[w]) + 1 /\ Len(sent[w]) \in Nat
      <4>1. sent[w] \in Seq(Record) /\ sent'[w] = Append(sent[w], NextRecord(w))
        BY <1>1, <3>1
      <4> QED
        BY <3>1, <4>1, AppendProperties, LenProperties
    <3>3. owes'[w] = owes[w] - 1
      BY <1>1, <3>1
    <3>4. owes'[w] >= 0 /\ Len(sent'[w]) + owes'[w] <= MaxRecs
      BY <1>1, <2>5, <3>2, <3>3, PoolAssumption
    <3>5. \A k \in 1 .. Len(freqs'[w]) : freqs'[w][k] \in Record /\ freqs'[w][k].from = w
      <4>1. \A k \in 1 .. Len(freqs'[w]) : k \in 1 .. Len(freqs[w]) \/ k = Len(freqs'[w])
        BY <2>2
      <4> QED
        BY <2>2, <2>3, <3>1, <4>1
    <3> QED
      BY <1>1, <3>1, <3>4, <3>5 DEF Answering, RecordsOf
  <2>6. Answered(w)' \/ Answering(w)'
    BY <2>4, <2>5
  <2> QED
    BY <1>1, <1>2, <2>1, <2>6, ExchangeWith
<1>4. CASE Ends(w, "dead") /\ UNCHANGED <<freqs, sent, owes>>
  <2>1. /\ pc'[w] = "dead" /\ pc'[Master] = pc[Master]
        /\ \A v \in Workers : (v # w => pc'[v] = pc[v]) /\ freqsW'[v] \subseteq freqsW[v]
    BY <1>1, <1>4, WorkerFacts DEF Ends, Goto, Drop
  <2>2. \A v \in Workers : (AtWork(v)' <=> AtWork(v)) /\ (Buried(v) => freqsW'[v] = {})
    BY <1>1, <2>1 DEF AtWork, Buried
  <2> QED
    BY <1>1, <1>4, <2>1, <2>2, QuietExchange
<1> QED
  BY <1>3, <1>4, WriteDoes

LEMMA ExchangeKept ==
    ASSUME IInv, [Next]_vars
    PROVE  Exchange'
<1>1. /\ pc \in [Procs -> Labels] /\ i \in 1 .. N + 1
      /\ freqsW \in [Workers -> SUBSET Procs] /\ words \in [Workers -> Seq({"word"})]
      /\ owes \in [Workers -> -1 .. MaxRecs]
  BY DEF IInv, Processes, TypeOK
<1>2. CASE Fork
  <2>1. /\ i \in Workers /\ pc[Master] = "fork" /\ pc[i] = "unborn"
        /\ \A w \in Workers : freqsW[w] # {}
    <3>1. i \in Workers /\ pc[Master] = "fork" /\ i >= i
      BY <1>1, <1>2, WorkerFacts DEF Fork, Workers
    <3> QED
      BY <3>1 DEF IInv, Processes
  <2>2. /\ pc'[Master] \in {"close", "fork"} /\ pc'[i] = "fresh"
        /\ \A w \in Workers : w # i => pc'[w] = pc[w]
        /\ UNCHANGED <<words, freqs, owes, sent>>
    BY <1>1, <1>2, <2>1, WorkerFacts DEF Fork
  <2>3. \A w \in Workers : ~AtWork(w) /\ ~AtWork(w)' /\ ~Buried(w)
    BY <2>1, <2>2 DEF AtWork, Buried
  <2> QED
    BY <2>1, <2>2, <2>3, QuietExchange
<1>3. CASE MasterCloses \/ Report \/ Shut \/ Wait
  <2>1. /\ pc[Master] # "collect" /\ pc'[Master] # "collect" /\ UNCHANGED <<words, freqs, owes, sent>>
        /\ \A w \in Workers : pc'[w] = pc[w]
    BY <1>1, <1>3, WorkerFacts DEF MasterCloses, Report, Shut, Wait, Goto, Ends
  <2>2. \A w \in Workers : freqsW'[w] \subseteq freqsW[w]
    BY <1>3 DEF MasterCloses, Report, Shut, Wait, Ends, Drop, ends
  <2>3. \A w \in Workers : ~AtWork(w) /\ ~AtWork(w)' /\ (Buried(w) => freqsW'[w] = {})
    BY <2>1, <2>2 DEF AtWork, Buried
  <2> QED
    BY <2>1, <2>3, QuietExchange
<1>4. CASE Prompt
  <2>1. /\ pc[Master] # "collect" /\ pc'[Master] # "collect" /\ UNCHANGED <<words, freqs, freqsW>>
        /\ \A w \in Workers : pc'[w] = pc[w]
    BY <1>1, <1>4, WorkerFacts DEF Prompt, Goto, ends
  <2>2. \A w \in Workers : ~AtWork(w) /\ ~AtWork(w)' /\ (Idle(w) \/ Buried(w))
    BY <2>1 DEF AtWork, IInv, Exchange
  <2>3. \A w \in Workers : Idle(w)' \/ Buried(w)'
    BY <2>1, <2>2 DEF Idle, Buried
  <2> QED
    BY <2>2, <2>3 DEF Exchange
<1>5. ASSUME NEW w \in Workers, pc[w] \notin {"answer", "dead"}, ChildCloses(w) PROVE Exchange'
  <2>1. /\ UNCHANGED <<words, freqs, owes, sent>> /\ i' = i /\ pc'[Master] = pc[Master]
        /\ pc'[w] = "read" /\ \A v \in Workers : v # w => pc'[v] = pc[v]
        /\ \A v \in Workers : freqsW'[v] \subseteq freqsW[v]
    BY <1>1, <1>5, WorkerFacts DEF ChildCloses, Goto
  <2>2. \A v \in Workers : (AtWork(v)' <=> AtWork(v)) /\ (Buried(v) => freqsW'[v] = {})
    BY <2>1 DEF AtWork, Buried
  <2> QED
    BY <1>5, <2>1, <2>2, QuietExchange
<1>6. ASSUME NEW w \in Workers, Ends(w, "dead"), UNCHANGED <<words, freqs, owes, sent, i>>
      PROVE  Exchange'
  <2>1. /\ pc'[w] = "dead" /\ pc'[Master] = pc[Master]
        /\ \A v \in Workers : (v # w => pc'[v] = pc[v]) /\ freqsW'[v] \subseteq freqsW[v]
    BY <1>1, <1>6, WorkerFacts DEF Ends, Goto, Drop
  <2>2. \A v \in Workers : (AtWork(v)' <=> AtWork(v)) /\ (Buried(v) => freqsW'[v] = {})
    BY <1>6, <2>1 DEF AtWork, Buried
  <2> QED
    BY <1>6, <2>1, <2>2, QuietExchange
<1>7. ASSUME NEW w \in Workers, ReadWord(w) PROVE Exchange'
  <2>1. CASE Ends(w, "dead") /\ UNCHANGED <<words, owes>>
    BY <1>6, <1>7, <2>1 DEF ReadWord
  <2>2. CASE /\ words[w] # << >> /\ words' = [words EXCEPT ![w] = Tail(@)]
             /\ \E n \in 0 .. MaxRecs : owes' = [owes EXCEPT ![w] = n]
             /\ Goto(w, "answer") /\ UNCHANGED ends
    <3>1. pc[w] = "read" /\ UNCHANGED <<i, freqs, sent>>
      BY <1>7 DEF ReadWord
    <3>2. AtWork(w) /\ Asked(w)
      BY <2>2, <3>1 DEF IInv, Exchange, Idle, Buried, Answering, Answered
    <3>3. words'[w] = << >>
      <4>1. words[w] = <<"word">> /\ words'[w] = Tail(words[w])
        BY <1>1, <2>2, <3>2 DEF Asked
      <4>2. Len(words[w]) = 1 /\ words[w] \in Seq({"word"})
        BY <1>1, <4>1
      <4>3. Tail(words[w]) \in Seq({"word"}) /\ Len(Tail(words[w])) = 0
        BY <2>2, <4>2, HeadTailProperties
      <4> QED
        BY <4>1, <4>3, EmptySeq
    <3>4. /\ pc'[w] = "answer" /\ pc'[Master] = pc[Master] /\ freqsW' = freqsW
          /\ \A v \in Workers : v # w => pc'[v] = pc[v] /\ words'[v] = words[v]
      BY <1>1, <2>2, WorkerFacts DEF Goto, ends
    <3>5. owes'[w] \in 0 .. MaxRecs /\ sent'[w] = << >> /\ freqs'[w] = << >>
      BY <1>1, <2>2, <3>1, <3>2 DEF Asked
    <3>6. /\ Len(sent'[w]) = 0 /\ Len(freqs'[w]) = 0
          /\ owes'[w] >= 0 /\ Len(sent'[w]) + owes'[w] <= MaxRecs
      BY <3>5, EmptySeq, PoolAssumption
    <3>7. Answering(w)'
      BY <3>3, <3>4, <3>6 DEF Answering, RecordsOf
    <3>8. AtWork(w)' /\ i = w
      BY <3>1, <3>2, <3>4 DEF AtWork
    <3> QED
      BY <3>1, <3>2, <3>4, <3>7, <3>8, ExchangeWith
  <2> QED
    BY <1>7, <2>1, <2>2 DEF ReadWord
<1>8. CASE MasterStep
  BY <1>2, <1>3, <1>4, <1>8, AskExchanges, CollectExchanges DEF MasterStep
<1>9. ASSUME NEW w \in Workers, WorkerStep(w) PROVE Exchange'
  <2>1. ChildCloses(w) => pc[w] \notin {"answer", "dead"}
    BY DEF ChildCloses
  <2> QED
    BY <1>5, <1>7, <1>9, <2>1, WriteExchanges DEF WorkerStep
<1>10. ASSUME NEW w \in Workers, Die(w) PROVE Exchange'
  BY <1>6, <1>10 DEF Die
<1>11. CASE UNCHANGED vars
  <2>1. UNCHANGED <<pc, i, words, freqs, owes, sent, freqsW>>
    BY <1>11 DEF vars, ends
  <2>2. \A w \in Workers : (AtWork(w)' <=> AtWork(w)) /\ (Buried(w) => freqsW'[w] = {})
    BY <2>1 DEF AtWork, Buried
  <2> QED
    BY <2>1, <2>2, QuietExchange
<1> QED
  BY <1>8, <1>9, <1>10, <1>11 DEF Next

LEMMA SentLaterKept ==
    ASSUME IInv, [Next]_vars
    PROVE  SentLater'
<1>1. /\ pc \in [Procs -> Labels] /\ i \in 1 .. N + 1 /\ sent \in [Workers -> Seq(Record)]
      /\ \A w \in Workers : Len(sent[w]) <= MaxRecs
      /\ pc[Master] \in {"ask", "collect"} => \A w \in Workers : w > i => sent[w] = << >>
      /\ pc[Master] = "ask" => \A w \in Workers : w = i => sent[w] = << >>
  BY DEF IInv, Processes, TypeOK, SentLater
<1>2. ASSUME sent' = sent, i' = i, pc'[Master] = pc[Master]
      PROVE  SentLater'
  BY <1>1, <1>2 DEF SentLater
<1>3. ASSUME sent' = sent, pc'[Master] \notin {"ask", "collect"}
      PROVE  SentLater'
  BY <1>1, <1>3 DEF SentLater
<1>4. CASE Fork
  <2>1. pc'[Master] \notin {"ask", "collect"} /\ sent' = sent
    BY <1>1, <1>4, WorkerFacts DEF Fork, Workers
  <2> QED
    BY <1>3, <2>1
<1>5. CASE MasterCloses \/ Report \/ Shut \/ Wait
  BY <1>1, <1>3, <1>5, WorkerFacts DEF MasterCloses, Report, Shut, Wait, Goto, Ends
<1>6. CASE Prompt
  <2>1. CASE sent' = [w \in Workers |-> << >>]
    <3>1. \A w \in Workers : sent'[w] = << >> /\ Len(sent'[w]) <= MaxRecs
      BY <2>1, EmptySeq, PoolAssumption
    <3> QED
      BY <3>1 DEF SentLater
  <2>2. CASE sent' = sent /\ Goto(Master, "shut")
    BY <1>1, <1>3, <2>2, WorkerFacts DEF Goto
  <2> QED
    BY <1>6, <2>1, <2>2 DEF Prompt
<1>7. CASE Ask
  <2>1. sent' = sent /\ i' = i /\ pc[Master] = "ask" /\ pc'[Master] \in {"collect", "killed"}
    BY <1>1, <1>7, WorkerFacts DEF Ask, Goto, Ends
  <2> QED
    BY <1>1, <2>1 DEF SentLater
<1>8. CASE Collect
  <2>1. sent' = sent /\ pc[Master] = "collect" /\ i \in Workers
    BY <1>8, CollectDoes
  <2>2. CASE pc' = pc /\ i' = i
    BY <1>2, <2>1, <2>2
  <2>3. CASE MovesOn
    <3>1. pc'[Master] = "ask" /\ i' = i + 1
      BY <1>1, <2>3, WorkerFacts DEF MovesOn
    <3>2. \A w \in Workers : (w > i' \/ w = i') => w > i
      BY <1>1, <3>1, WorkerFacts DEF Workers
    <3> QED
      BY <1>1, <2>1, <3>1, <3>2 DEF SentLater
  <2> QED
    BY <1>8, <2>2, <2>3, CollectDoes DEF Takes, Finishes, Lost
<1>9. ASSUME NEW w \in Workers, WriteRecord(w) PROVE SentLater'
  <2>1. /\ AtWork(w) /\ i' = i /\ owes[w] \in 0 .. MaxRecs /\ Len(sent[w]) + owes[w] <= MaxRecs
    BY <1>9, WriteDoes
  <2>2. pc'[Master] = pc[Master] /\ pc[Master] = "collect" /\ i = w
    BY <1>1, <1>9, <2>1, WorkerFacts DEF WriteRecord, Goto, Ends, AtWork
  <2>3. CASE sent' = sent
    BY <1>2, <2>1, <2>2, <2>3
  <2>4. CASE owes[w] # 0 /\ NextRecord(w) \in Record /\ sent' = [sent EXCEPT ![w] = Append(@, NextRecord(w))]
    <3>1. Len(sent'[w]) = Len(sent[w]) + 1 /\ Len(sent[w]) \in Nat
      <4>1. sent[w] \in Seq(Record) /\ sent'[w] = Append(sent[w], NextRecord(w))
        BY <1>1, <2>4
      <4> QED
        BY <2>4, <4>1, AppendProperties, LenProperties
    <3>2. Len(sent'[w]) <= MaxRecs
      BY <2>1, <2>4, <3>1, PoolAssumption
    <3>3. \A v \in Workers : v # w => sent'[v] = sent[v]
      BY <1>1, <2>4
    <3>4. \A v \in Workers : v > i' => v # w
      BY <2>1, <2>2, WorkerFacts
    <3> QED
      BY <1>1, <2>1, <2>2, <3>2, <3>3, <3>4 DEF SentLater
  <2> QED
    BY <1>9, <2>3, <2>4, WriteDoes DEF Writes
<1>10. ASSUME NEW w \in Workers, ChildCloses(w) \/ ReadWord(w) \/ Die(w) PROVE SentLater'
  BY <1>1, <1>2, <1>10, WorkerFacts DEF ChildCloses, ReadWord, Die, Goto, Ends
<1>11. CASE UNCHANGED vars
  BY <1>2, <1>11 DEF vars
<1> QED
  BY <1>4, <1>5, <1>6, <1>7, <1>8, <1>9, <1>10, <1>11 DEF Next, MasterStep, WorkerStep

\* Nothing the bookkeeping of the records refers to changes.
LEMMA QuietGathering ==
    ASSUME IInv, [Next]_vars, UNCHANGED <<got, sent, freqs>>,
           pc'[Master] \in {"ask", "collect"} => pc[Master] \in {"ask", "collect"} /\ i' = i
    PROVE  Gathering'
<1> SUFFICES ASSUME pc'[Master] \in {"ask", "collect"}, ~SomeoneDied'
             PROVE  /\ \A k \in DOMAIN got' : got'[k].from <= i'
                    /\ \A w \in Workers : Split(w)'
                    /\ \A w \in Workers \cup {0} : Upto(w)' <= w * MaxRecs
  BY DEF Gathering
<1>1. ~SomeoneDied
  BY DeadStays
<1>2. /\ \A k \in DOMAIN got : got[k].from <= i
      /\ \A w \in Workers : Split(w)
      /\ \A w \in Workers \cup {0} : Upto(w) <= w * MaxRecs
  BY <1>1 DEF IInv, Gathering
<1>3. \A w : Upto(w)' = Upto(w) /\ Upto(w - 1)' = Upto(w - 1)
  BY DEF Upto
<1>4. \A w : Pending(w)' = Pending(w)
  BY DEF Pending
<1>5. \A w \in Workers : Split(w)'
  BY <1>2, <1>3, <1>4 DEF Split
<1> QED
  BY <1>2, <1>3, <1>5

LEMMA PromptGathers ==
    ASSUME IInv, Prompt
    PROVE  Gathering'
<1> SUFFICES ASSUME pc'[Master] \in {"ask", "collect"}
             PROVE  /\ \A k \in DOMAIN got' : got'[k].from <= i'
                    /\ \A w \in Workers : Split(w)'
                    /\ \A w \in Workers \cup {0} : Upto(w)' <= w * MaxRecs
  BY DEF Gathering
<1>1. /\ pc[Master] = "prompt" /\ got' = << >> /\ freqs' = freqs
      /\ sent' = [w \in Workers |-> << >>]
  BY WorkerFacts DEF Prompt, Goto, IInv, Processes
<1>2. DOMAIN got' = {}
  BY <1>1, EmptySeq
<1>3. \A w : Upto(w)' = 0
  BY <1>1, UptoNext, UptoEmpty
<1>4. ASSUME NEW w \in Workers PROVE Split(w)'
  <2>1. freqs'[w] = << >>
    BY <1>1 DEF IInv, Exchange, AtWork, Idle, Buried
  <2>2. Pending(w)' = 0 /\ Len(sent'[w]) = 0
    BY <1>1, <2>1, EmptySeq DEF Pending
  <2>3. Upto(w)' = 0 /\ Upto(w - 1)' = 0
    BY <1>3
  <2> QED
    BY <2>2, <2>3 DEF Split
<1>5. \A w \in Workers \cup {0} : 0 <= w * MaxRecs
  <2>1. \A a, b \in Nat : 0 <= a * b
    OBVIOUS
  <2> QED
    BY <2>1, PoolAssumption DEF Workers
<1> QED
  BY <1>2, <1>3, <1>4, <1>5

LEMMA WriteGathers ==
    ASSUME IInv, NEW w \in Workers, WriteRecord(w)
    PROVE  Gathering'
<1>1. /\ AtWork(w) /\ Answering(w) /\ pc[w] = "answer" /\ i' = i /\ got' = got
      /\ freqs[w] \in Seq(Record \cup {EmptyRecord}) /\ DOMAIN freqs = Workers
      /\ pc \in [Procs -> Labels] /\ sent \in [Workers -> Seq(Record)]
      /\ got \in Seq(Record)
  BY WriteDoes DEF IInv, Processes, TypeOK
<1>2. i = w /\ pc[Master] = "collect"
  BY <1>1 DEF AtWork
<1>3. CASE Ends(w, "dead")
  <2>1. pc'[w] = "dead"
    BY <1>1, <1>3, WorkerFacts DEF Ends, Goto
  <2> QED
    BY <2>1 DEF Gathering, SomeoneDied
<1>4. CASE Writes(w)
  <2> SUFFICES ASSUME ~SomeoneDied
               PROVE  Gathering'
    <3>1. SomeoneDied => SomeoneDied'
      BY DeadStays DEF Next, WorkerStep
    <3> QED
      BY <3>1 DEF Gathering
  <2>1. /\ \A k \in DOMAIN got : got[k].from <= i
        /\ \A v \in Workers : Split(v)
        /\ \A v \in Workers \cup {0} : Upto(v) <= v * MaxRecs
    BY <1>2 DEF IInv, Gathering
  <2>2. \A v : Upto(v)' = Upto(v) /\ Upto(v - 1)' = Upto(v - 1)
    BY <1>1 DEF Upto
  <2>3. /\ freqs'[w] # << >> /\ Len(freqs[w]) \in Nat /\ Len(freqs'[w]) = Len(freqs[w]) + 1
        /\ \A k \in 1 .. Len(freqs[w]) : freqs'[w][k] = freqs[w][k]
        /\ freqs'[w][Len(freqs'[w])] = NextRecord(w)
        /\ \A v \in Workers : v # w => freqs'[v] = freqs[v]
    <3>1. /\ NextRecord(w) \in Record \cup {EmptyRecord} /\ freqs'[w] = Append(freqs[w], NextRecord(w))
          /\ \A v \in Workers : v # w => freqs'[v] = freqs[v]
      BY <1>1, <1>4 DEF Writes
    <3> QED
      BY <1>1, <3>1, AppendProperties, LenProperties
  <2>4. Pending(w) = Len(freqs[w])
    <3>1. freqs[w] # << >> => Len(freqs[w]) \in 1 .. Len(freqs[w])
      BY <1>1, <2>3, EmptySeq
    <3>2. freqs[w] # << >> => freqs[w][Len(freqs[w])] \in Record
      BY <1>1, <3>1 DEF Answering, RecordsOf
    <3> QED
      BY <3>2, WorkerFacts DEF Pending
  <2> DEFINE taken == Upto(w) - Upto(w - 1)
  <2>5. taken \in Nat /\ Len(sent[w]) \in Nat /\ Len(sent[w]) = taken + Len(freqs[w])
    <3>1. taken \in Nat
      BY <1>1, UptoIs, UptoBounds, WorkerFacts
    <3>2. Len(sent[w]) \in Nat
      BY <1>1, LenProperties
    <3> QED
      BY <2>1, <2>4, <3>1, <3>2 DEF Split
  <2>6. ASSUME NEW v \in Workers, v # w, sent'[v] = sent[v] PROVE Split(v)'
    <3>1. Pending(v)' = Pending(v)
      BY <2>3, <2>6 DEF Pending
    <3>2. Upto(v)' = Upto(v) /\ Upto(v - 1)' = Upto(v - 1)
      BY <2>2
    <3>3. freqs'[v] = freqs[v]
      BY <2>3, <2>6
    <3>4. Split(v)
      BY <2>1
    <3> QED
      BY <2>6, <1>1, <3>1, <3>2, <3>3, <3>4 DEF Split
  <2>7. CASE owes[w] = 0
    <3>1. NextRecord(w) = EmptyRecord /\ sent' = sent
      BY <1>4, <2>7 DEF Writes
    <3>2. Pending(w)' = Len(freqs[w])
      BY <2>3, <3>1 DEF Pending
    <3>3. Split(w)'
      <4>1. Upto(w)' = Upto(w) /\ Upto(w - 1)' = Upto(w - 1)
        BY <2>2
      <4>2. \A k \in 1 .. Len(freqs[w]) : freqs'[w][k] = freqs[w][k]
        BY <2>3
      <4>3. Split(w)
        BY <2>1
      <4> QED
        BY <1>1, <2>4, <3>1, <3>2, <4>1, <4>2, <4>3 DEF Split
    <3> QED
      BY <1>1, <2>1, <2>2, <2>6, <3>1, <3>3 DEF Gathering
  <2>8. CASE owes[w] # 0
    <3>1. NextRecord(w) \in Record /\ sent' = [sent EXCEPT ![w] = Append(@, NextRecord(w))]
      BY <1>4, <2>8 DEF Writes
    <3>2. Pending(w)' = Len(freqs[w]) + 1
      BY <2>3, <3>1, WorkerFacts DEF Pending
    <3>3. /\ Len(sent'[w]) = Len(sent[w]) + 1
          /\ \A k \in 1 .. Len(sent[w]) : sent'[w][k] = sent[w][k]
          /\ sent'[w][Len(sent[w]) + 1] = NextRecord(w)
          /\ \A v \in Workers : v # w => sent'[v] = sent[v]
      <4>1. /\ sent[w] \in Seq(Record) /\ sent'[w] = Append(sent[w], NextRecord(w))
            /\ \A v \in Workers : v # w => sent'[v] = sent[v]
        BY <1>1, <3>1
      <4> QED
        BY <3>1, <4>1, AppendProperties, LenProperties
    <3>4. Len(sent'[w]) = taken + Pending(w)'
      BY <2>3, <2>5, <3>2, <3>3
    <3>5. ASSUME NEW k \in 1 .. taken PROVE sent'[w][k] = got'[Upto(w - 1) + k]
      <4>1. k \in 1 .. Len(sent[w])
        BY <2>3, <2>5
      <4> QED
        BY <1>1, <2>1, <3>3, <4>1 DEF Split
    <3>6. ASSUME NEW k \in 1 .. Len(freqs[w]) + 1 PROVE sent'[w][taken + k] = freqs'[w][k]
      <4>1. CASE k \in 1 .. Len(freqs[w])
        <5>1. taken + k \in 1 .. Len(sent[w])
          BY <2>3, <2>5, <4>1
        <5>2. sent[w][taken + k] = freqs[w][k]
          BY <2>1, <2>4, <4>1 DEF Split
        <5> QED
          BY <2>3, <3>3, <4>1, <5>1, <5>2
      <4>2. CASE k = Len(freqs[w]) + 1
        <5>1. taken + k = Len(sent[w]) + 1
          BY <2>3, <2>5, <4>2
        <5> QED
          BY <2>3, <3>3, <4>2, <5>1
      <4> QED
        BY <2>3, <4>1, <4>2
    <3>7. Split(w)'
      <4>1. Upto(w)' = Upto(w) /\ Upto(w - 1)' = Upto(w - 1)
        BY <2>2
      <4> QED
        BY <3>2, <3>4, <3>5, <3>6, <4>1 DEF Split
    <3> QED
      BY <1>1, <2>1, <2>2, <2>6, <3>3, <3>7 DEF Gathering
  <2> QED
    BY <2>7, <2>8
<1> QED
  BY <1>3, <1>4, WriteDoes

\* A record is taken from the worker whose turn it is.
LEMMA TakesGathers ==
    ASSUME IInv, Collect, Takes, ~SomeoneDied
    PROVE  Gathering'
<1>1. PICK w \in Workers : w = i
  BY CollectDoes
<1> DEFINE r == freqs[w][1]
           taken == Upto(w) - Upto(w - 1)
<1>2. /\ pc[Master] = "collect" /\ sent' = sent /\ pc' = pc /\ i' = i
      /\ freqs[w] \in Seq(Record \cup {EmptyRecord}) /\ DOMAIN freqs = Workers
      /\ freqs[w] # << >> /\ r \in Record /\ r.from = w
      /\ freqs' = [freqs EXCEPT ![w] = Tail(@)]
      /\ got' = IF Len(got) < MAXRECORDS THEN Append(got, r) ELSE got
      /\ got \in Seq(Record) /\ sent \in [Workers -> Seq(Record)]
  BY <1>1, CollectDoes DEF Takes, IInv, TypeOK
<1> HIDE DEF r
<1>3. /\ \A k \in DOMAIN got : got[k].from <= w
      /\ \A v \in Workers : Split(v)
      /\ \A v \in Workers \cup {0} : Upto(v) <= v * MaxRecs
      /\ \A v \in Workers : v > w => sent[v] = << >>
      /\ Len(sent[w]) <= MaxRecs
  BY <1>1, <1>2 DEF IInv, Gathering, SentLater
<1>4. \A v \in Int : v >= w => Upto(v) = Len(got)
  <2> SUFFICES ASSUME NEW v \in Int, v >= w PROVE UptoIn(got, v) = Len(got)
    BY UptoIs
  <2>1. \A k \in DOMAIN got : got[k] \in Record
    BY <1>2, LenProperties
  <2>2. \A k \in DOMAIN got : got[k].from <= v
    BY <1>3, <2>1, WorkerFacts DEF Record
  <2> QED
    BY <1>2, <2>2, UptoAll
<1>5. \A v \in Int : Upto(v) \in Nat /\ Upto(v - 1) \in Nat /\ Upto(v - 1) <= Upto(v) /\ Upto(v) <= Len(got)
  <2> SUFFICES ASSUME NEW v \in Int
               PROVE  /\ UptoIn(got, v) \in Nat /\ UptoIn(got, v - 1) \in Nat
                      /\ UptoIn(got, v - 1) <= UptoIn(got, v) /\ UptoIn(got, v) <= Len(got)
    BY UptoIs
  <2> QED
    BY <1>2, UptoBounds
<1>6. /\ Len(freqs[w]) \in Nat /\ Len(freqs[w]) >= 1
      /\ Len(freqs'[w]) = Len(freqs[w]) - 1
      /\ \A k \in 1 .. Len(freqs'[w]) : freqs'[w][k] = freqs[w][k + 1]
      /\ freqs'[w] \in Seq(Record \cup {EmptyRecord})
      /\ \A v \in Workers : v # w => freqs'[v] = freqs[v]
  <2>1. freqs'[w] = Tail(freqs[w]) /\ \A v \in Workers : v # w => freqs'[v] = freqs[v]
    BY <1>2
  <2> QED
    BY <1>2, <2>1, HeadTailProperties, LenProperties, EmptySeq
<1>7. Pending(w) \in Nat /\ Pending(w) >= 1 /\ Pending(w)' = Pending(w) - 1 /\ Pending(w) <= Len(freqs[w])
  <2>1. CASE freqs[w][Len(freqs[w])] = EmptyRecord
    <3>1. Len(freqs[w]) # 1
      BY <1>2, <2>1, WorkerFacts DEF r
    <3>2. \A n \in Nat : n >= 1 /\ n # 1 => n - 1 \in Nat /\ n - 1 >= 1 /\ n - 1 + 1 = n
      OBVIOUS
    <3>3. /\ Len(freqs'[w]) \in Nat /\ Len(freqs'[w]) >= 1 /\ Len(freqs'[w]) + 1 = Len(freqs[w])
      BY <1>6, <3>1, <3>2
    <3>4. freqs'[w] # << >>
      BY <3>3, EmptySeq
    <3>5. freqs'[w][Len(freqs'[w])] = freqs[w][Len(freqs[w])]
      BY <1>6, <3>3
    <3> QED
      BY <1>2, <1>6, <2>1, <3>3, <3>4, <3>5 DEF Pending
  <2>2. CASE freqs[w][Len(freqs[w])] # EmptyRecord
    <3>1. ~(freqs'[w] # << >> /\ freqs'[w][Len(freqs'[w])] = EmptyRecord)
      <4>1. ASSUME freqs'[w] # << >> PROVE freqs'[w][Len(freqs'[w])] # EmptyRecord
        <5>1. Len(freqs'[w]) \in Nat \ {0}
          BY <1>6, <4>1, EmptySeq
        <5>2. Len(freqs'[w]) = Len(freqs[w]) - 1 /\ Len(freqs[w]) \in Nat
          BY <1>6
        <5>3. \A m, n \in Nat : m # 0 /\ m = n - 1 => m \in 1 .. m /\ m + 1 = n
          OBVIOUS
        <5>4. Len(freqs'[w]) \in 1 .. Len(freqs'[w]) /\ Len(freqs'[w]) + 1 = Len(freqs[w])
          BY <5>1, <5>2, <5>3
        <5> QED
          BY <1>6, <2>2, <5>4
      <4> QED
        BY <4>1
    <3> QED
      BY <1>6, <2>2, <3>1 DEF Pending
  <2> QED
    BY <2>1, <2>2
<1>8. taken \in Nat /\ Len(sent[w]) = taken + Pending(w) /\ Len(sent[w]) \in Nat
  <2>1. Len(sent[w]) \in Nat
    BY <1>2, LenProperties
  <2>2. taken \in Nat
    <3>1. Upto(w) \in Nat /\ Upto(w - 1) \in Nat /\ Upto(w - 1) <= Upto(w)
      BY <1>5, WorkerFacts
    <3> QED
      BY <3>1
  <2>3. Split(w)
    BY <1>3
  <2> QED
    BY <2>1, <2>2, <2>3 DEF Split
<1>9. /\ Upto(w) \in Nat /\ Upto(w - 1) \in Nat /\ Upto(w) = Upto(w - 1) + taken
      /\ Upto(w) = Len(got) /\ Len(got) \in Nat
  <2>1. w \in Int /\ w >= w
    BY WorkerFacts
  <2>2. Upto(w) \in Nat /\ Upto(w - 1) \in Nat /\ Upto(w) = Len(got)
    BY <1>4, <1>5, <2>1
  <2> QED
    BY <2>2
<1> HIDE DEF taken
<1>10. Len(got) + 1 <= w * MaxRecs /\ Len(got) < MAXRECORDS
  <2>1. w - 1 \in Workers \cup {0} /\ w \in 1 .. N
    BY PoolAssumption DEF Workers
  <2>2. Upto(w - 1) <= (w - 1) * MaxRecs
    BY <1>3, <2>1
  <2>3. Len(got) = Upto(w) /\ Upto(w) = Upto(w - 1) + taken /\ taken + 1 <= MaxRecs
    <3>1. Len(sent[w]) <= MaxRecs
      BY <1>3
    <3> QED
      BY <1>7, <1>8, <1>9, <3>1, PoolAssumption
  <2>4. (w - 1) * MaxRecs + MaxRecs = w * MaxRecs
    <3>1. \A a, b \in Int : (a - 1) * b + b = a * b
      OBVIOUS
    <3> QED
      BY <3>1, PoolAssumption, WorkerFacts
  <2>5. (w - 1) * MaxRecs \in Int /\ w * MaxRecs \in Int
    BY PoolAssumption, WorkerFacts
  <2>6. Len(got) + 1 <= w * MaxRecs
    <3>1. \A a, b, c, d \in Int : a <= b /\ c + 1 <= d => a + c + 1 <= b + d
      OBVIOUS
    <3> QED
      BY <1>8, <1>9, <2>2, <2>3, <2>4, <2>5, <3>1, PoolAssumption
  <2>7. w * MaxRecs <= N * MaxRecs
    <3>1. \A a, b, c \in Nat : a <= b => a * c <= b * c
      OBVIOUS
    <3> QED
      BY <2>1, <3>1, PoolAssumption
  <2> QED
    BY <1>2, <2>5, <2>6, <2>7, LenProperties, PoolAssumption
<1>11. /\ got' = Append(got, r) /\ Len(got') = Len(got) + 1 /\ DOMAIN got' = 1 .. Len(got) + 1
       /\ \A k \in 1 .. Len(got) : got'[k] = got[k]
       /\ got'[Len(got) + 1] = r /\ Len(got) \in Nat
  <2>1. got' = Append(got, r)
    BY <1>2, <1>10
  <2> QED
    BY <1>2, <2>1, AppendProperties, LenProperties
<1>12. \A v \in Int : Upto(v)' = IF w <= v THEN Upto(v) + 1 ELSE Upto(v)
  <2> SUFFICES ASSUME NEW v \in Int
               PROVE  UptoIn(got', v) = IF w <= v THEN UptoIn(got, v) + 1 ELSE UptoIn(got, v)
    BY UptoIs, UptoNext
  <2> QED
    BY <1>2, <1>11, UptoAppend
<1>13. \A k \in DOMAIN got' : got'[k].from <= i'
  <2>1. \A k \in 1 .. Len(got) : got'[k].from <= w
    BY <1>2, <1>3, <1>11, LenProperties
  <2>2. got'[Len(got) + 1].from <= w
    BY <1>2, <1>11, WorkerFacts
  <2> QED
    BY <1>1, <1>2, <1>11, <2>1, <2>2
<1>14. ASSUME NEW v \in Workers \cup {0} PROVE Upto(v)' <= v * MaxRecs
  <2>1. v \in Int
    BY WorkerFacts
  <2>2. CASE v < w
    BY <1>3, <1>12, <2>1, <2>2, WorkerFacts
  <2>3. CASE v >= w
    <3>1. Upto(v)' = Len(got) + 1
      BY <1>4, <1>12, <2>1, <2>3, WorkerFacts
    <3>2. w * MaxRecs <= v * MaxRecs
      <4>1. \A a, b, c \in Nat : a <= b => a * c <= b * c
        OBVIOUS
      <4> QED
        BY <2>3, <4>1, PoolAssumption DEF Workers
    <3>3. w * MaxRecs \in Int /\ v * MaxRecs \in Int
      BY <2>1, PoolAssumption, WorkerFacts
    <3> QED
      BY <1>10, <1>11, <3>1, <3>2, <3>3
  <2> QED
    BY <2>1, <2>2, <2>3, WorkerFacts
<1>15. ASSUME NEW v \in Workers PROVE Split(v)'
  <2>1. v \in Int /\ v - 1 \in Int /\ Split(v) /\ sent'[v] = sent[v]
    BY <1>2, <1>3, WorkerFacts
  <2>2. CASE v < w
    <3>1. Upto(v)' = Upto(v) /\ Upto(v - 1)' = Upto(v - 1)
      BY <1>12, <2>1, <2>2, WorkerFacts
    <3>2. freqs'[v] = freqs[v] /\ Pending(v)' = Pending(v)
      <4>1. freqs'[v] = freqs[v]
        BY <1>6, <2>2, WorkerFacts
      <4> QED
        BY <4>1 DEF Pending
    <3>3. \A k \in 1 .. Upto(v) - Upto(v - 1) : got'[Upto(v - 1) + k] = got[Upto(v - 1) + k]
      <4>1. /\ Upto(v) \in Nat /\ Upto(v - 1) \in Nat /\ Upto(v - 1) <= Upto(v)
            /\ Upto(v) <= Len(got) /\ Len(got) \in Nat
        BY <1>5, <1>9, <2>1
      <4>2. \A k \in 1 .. Upto(v) - Upto(v - 1) : Upto(v - 1) + k \in 1 .. Len(got)
        BY <4>1
      <4> QED
        BY <1>11, <4>2
    <3> QED
      BY <2>1, <3>1, <3>2, <3>3 DEF Split
  <2>3. CASE v > w
    <3>1. Upto(v)' = Len(got) + 1 /\ Upto(v - 1)' = Len(got) + 1
      BY <1>4, <1>12, <2>1, <2>3, WorkerFacts
    <3>2. Upto(v) = Len(got) /\ Upto(v - 1) = Len(got)
      <4>1. v >= w /\ v - 1 >= w
        BY <2>1, <2>3, WorkerFacts
      <4> QED
        BY <1>4, <2>1, <4>1
    <3>3. freqs'[v] = freqs[v] /\ Pending(v)' = Pending(v)
      <4>1. freqs'[v] = freqs[v]
        BY <1>6, <2>3, WorkerFacts
      <4> QED
        BY <4>1 DEF Pending
    <3>4. Upto(v)' - Upto(v - 1)' = 0 /\ Upto(v) - Upto(v - 1) = 0
      BY <1>11, <3>1, <3>2
    <3>5. 1 .. 0 = {}
      OBVIOUS
    <3> QED
      BY <2>1, <3>3, <3>4, <3>5 DEF Split
  <2>4. CASE v = w
    <3>1. Upto(w)' = Upto(w) + 1 /\ Upto(w - 1)' = Upto(w - 1) /\ Upto(w) = Len(got)
      BY <1>4, <1>12, WorkerFacts
    <3>2. Upto(w)' - Upto(w - 1)' = taken + 1
      BY <1>8, <1>9, <3>1
    <3>3. Len(sent[w]) = (taken + 1) + Pending(w)'
      BY <1>7, <1>8
    <3>4. sent[w][taken + 1] = r
      <4>1. 1 \in 1 .. Pending(w)
        BY <1>7
      <4> QED
        BY <1>3, <4>1 DEF Split, r, taken
    <3>5. ASSUME NEW k \in 1 .. taken + 1 PROVE sent[w][k] = got'[Upto(w - 1) + k]
      <4>1. CASE k \in 1 .. taken
        <5>1. Upto(w - 1) + k \in 1 .. Len(got)
          BY <1>8, <1>9, <4>1
        <5> QED
          BY <1>3, <1>11, <4>1, <5>1 DEF Split, taken
      <4>2. CASE k = taken + 1
        <5>1. Upto(w - 1) + k = Len(got) + 1
          BY <1>8, <1>9, <4>2
        <5> QED
          BY <1>11, <3>4, <4>2, <5>1
      <4> QED
        BY <1>8, <4>1, <4>2
    <3>6. ASSUME NEW k \in 1 .. Pending(w)' PROVE sent[w][(taken + 1) + k] = freqs'[w][k]
      <4>1. k + 1 \in 1 .. Pending(w) /\ k \in 1 .. Len(freqs'[w])
        BY <1>6, <1>7
      <4>2. sent[w][taken + (k + 1)] = freqs[w][k + 1]
        BY <1>3, <4>1 DEF Split, taken
      <4>3. taken + (k + 1) = (taken + 1) + k
        BY <1>7, <1>8
      <4> QED
        BY <1>6, <4>1, <4>2, <4>3
    <3> QED
      <4>1. sent'[w] = sent[w]
        BY <1>2
      <4>2. Upto(w - 1)' = Upto(w - 1)
        BY <3>1
      <4> QED
        BY <2>4, <3>2, <3>3, <3>5, <3>6, <4>1, <4>2 DEF Split
  <2> QED
    BY <2>1, <2>2, <2>3, <2>4, WorkerFacts
<1> QED
  BY <1>13, <1>14, <1>15 DEF Gathering

\* One round of the master's loop over a worker's records.
LEMMA CollectGathers ==
    ASSUME IInv, Collect
    PROVE  Gathering'
<1> SUFFICES ASSUME ~SomeoneDied
             PROVE  Gathering'
  <2>1. SomeoneDied => SomeoneDied'
    BY DeadStays DEF Next, MasterStep
  <2> QED
    BY <2>1 DEF Gathering
<1>1. PICK w \in Workers : w = i
  BY CollectDoes
<1>2. /\ pc[Master] = "collect" /\ sent' = sent /\ DOMAIN freqs = Workers
      /\ got \in Seq(Record)
      /\ Takes \/ Finishes \/ Lost
  BY CollectDoes DEF IInv, TypeOK
<1>3. CASE Takes
  BY <1>3, TakesGathers
<1>4. CASE Lost
  BY <1>4, CollectDoes DEF Lost, SomeoneDied
<1>5. CASE Finishes
  <2>1. /\ got' = got /\ i' = w + 1 /\ Answered(w) /\ Len(freqs[w]) = 1
        /\ freqs' = [freqs EXCEPT ![w] = << >>]
    BY <1>1, <1>5 DEF Finishes, MovesOn
  <2>2. /\ \A k \in DOMAIN got : got[k].from <= w
        /\ \A v \in Workers : Split(v)
        /\ \A v \in Workers \cup {0} : Upto(v) <= v * MaxRecs
    BY <1>1, <1>2 DEF IInv, Gathering
  <2>3. \A k \in DOMAIN got' : got'[k].from <= i'
    <3>1. \A k \in DOMAIN got : got[k] \in Record
      BY <1>2, LenProperties
    <3>2. \A k \in DOMAIN got : got[k].from \in Int
      BY <3>1, WorkerFacts DEF Record
    <3> QED
      BY <2>1, <2>2, <3>2, WorkerFacts
  <2>4. \A v : Upto(v)' = Upto(v) /\ Upto(v - 1)' = Upto(v - 1)
    BY <2>1 DEF Upto
  <2>5. Pending(w) = 0 /\ Pending(w)' = 0
    <3>1. freqs[w] # << >> /\ freqs[w][Len(freqs[w])] = EmptyRecord
      BY <2>1 DEF Answered
    <3>2. freqs'[w] = << >>
      BY <1>2, <2>1
    <3> QED
      BY <2>1, <3>1, <3>2, EmptySeq DEF Pending
  <2>6. ASSUME NEW v \in Workers PROVE Split(v)'
    <3>1. Upto(v)' = Upto(v) /\ Upto(v - 1)' = Upto(v - 1) /\ Split(v)
      BY <2>2, <2>4
    <3>2. CASE v = w
      <4>1. 1 .. 0 = {}
        OBVIOUS
      <4> QED
        BY <1>2, <2>1, <2>5, <3>1, <3>2, <4>1 DEF Split
    <3>3. CASE v # w
      <4>1. freqs'[v] = freqs[v]
        BY <1>2, <2>1, <3>3
      <4>2. Pending(v)' = Pending(v)
        BY <4>1 DEF Pending
      <4> QED
        BY <1>2, <2>1, <3>1, <4>1, <4>2 DEF Split
    <3> QED
      BY <3>2, <3>3
  <2> QED
    BY <2>2, <2>3, <2>4, <2>6 DEF Gathering
<1> QED
  BY <1>2, <1>3, <1>4, <1>5

LEMMA GatheringKept ==
    ASSUME IInv, [Next]_vars
    PROVE  Gathering'
<1>1. pc \in [Procs -> Labels] /\ i \in 1 .. N + 1
  BY DEF IInv, Processes, TypeOK
<1>2. CASE Prompt
  BY <1>2, PromptGathers
<1>3. CASE Collect
  BY <1>3, CollectGathers
<1>4. CASE MasterStep /\ ~Prompt /\ ~Collect
  <2>1. UNCHANGED <<got, sent, freqs>>
    BY <1>4 DEF MasterStep, Fork, MasterCloses, Ask, Report, Shut, Wait
  <2>2. CASE Fork
    <3>1. pc'[Master] = IF i = N THEN "close" ELSE "fork"
      BY <1>1, <2>2, WorkerFacts DEF Fork
    <3> QED
      BY <2>1, <3>1, QuietGathering
  <2>3. CASE ~Fork
    <3>1. pc'[Master] \in {"ask", "collect"} => pc[Master] \in {"ask", "collect"} /\ i' = i
      BY <1>1, <1>4, <2>3, WorkerFacts
         DEF MasterStep, MasterCloses, Ask, Report, Shut, Wait, Goto, Ends
    <3> QED
      BY <2>1, <3>1, QuietGathering
  <2> QED
    BY <2>2, <2>3
<1>5. ASSUME NEW w \in Workers, WriteRecord(w) PROVE Gathering'
  BY <1>5, WriteGathers
<1>6. ASSUME NEW w \in Workers, ChildCloses(w) \/ ReadWord(w) \/ Die(w) PROVE Gathering'
  <2>1. UNCHANGED <<got, sent, freqs, i>> /\ pc'[Master] = pc[Master]
    BY <1>1, <1>6, WorkerFacts DEF ChildCloses, ReadWord, Die, Goto, Ends
  <2> QED
    BY <2>1, QuietGathering
<1>7. CASE UNCHANGED vars
  <2>1. UNCHANGED <<got, sent, freqs, i, pc>>
    BY <1>7 DEF vars
  <2> QED
    BY <2>1, QuietGathering
<1> QED
  BY <1>2, <1>3, <1>4, <1>5, <1>6, <1>7 DEF Next, WorkerStep

-----------------------------------------------------------------------------
(* The invariant is inductive. *)

LEMMA InitHolds == Init => IInv
<1> SUFFICES ASSUME Init PROVE IInv
  OBVIOUS
<1>1. /\ pc \in [Procs -> Labels] /\ pc[Master] = "fork" /\ \A w \in Workers : pc[w] = "unborn"
      /\ i = 1 /\ 1 \in 1 .. N + 1 /\ 1 <= N
  BY WorkerFacts, PoolAssumption DEF Init, Labels
<1>2. /\ \A w \in Workers : words[w] = << >> /\ freqs[w] = << >> /\ sent[w] = << >>
      /\ \A w \in Workers : freqsW[w] = {Master}
      /\ got = << >> /\ wordsR = freqsW
  BY DEF Init
<1>3. TypeOK
  <2>1. Len(<< >>) = 0 /\ << >> \in Seq(Record) /\ << >> \in Seq({"word"})
        /\ << >> \in Seq(Record \cup {EmptyRecord})
    BY EmptySeq
  <2>2. 0 <= MAXRECORDS /\ 0 <= PipeCap /\ -1 \in -1 .. MaxRecs /\ 0 \in 0 .. MaxQueries
    BY PoolAssumption
  <2>3. {Master} \in SUBSET Procs
    BY WorkerFacts
  <2> QED
    BY <1>1, <1>2, <2>1, <2>2, <2>3 DEF Init, TypeOK
<1>4. Processes
  BY <1>1, <1>2, WorkerFacts DEF Processes, Workers
<1>5. EndsHeld
  BY <1>1, <1>2 DEF EndsHeld
<1>6. Exchange
  BY <1>1, <1>2 DEF Exchange, AtWork, Idle
<1>7. SentLater
  <2>1. Len(<< >>) = 0 /\ 0 <= MaxRecs
    BY EmptySeq, PoolAssumption
  <2> QED
    BY <1>1, <1>2, <2>1 DEF SentLater
<1>8. Gathering
  BY <1>1 DEF Gathering
<1> QED
  BY <1>3, <1>4, <1>5, <1>6, <1>7, <1>8 DEF IInv

\* Every step of the master and of a worker keeps the invariant.
THEOREM StepKeepsIInv == IInv /\ [Next]_vars => IInv'
  BY TypeKept, ProcessesKept, EndsKept, ExchangeKept, SentLaterKept, GatheringKept DEF IInv

\* The inductive invariant holds in every state that is reached.
THEOREM InvariantHolds == Spec => []IInv
<1>1. Init /\ [][Next]_vars => []IInv
  BY InitHolds, StepKeepsIInv, PTL
<1> QED
  BY <1>1, PTL DEF Spec

-----------------------------------------------------------------------------
(* The properties. *)

\* Between two words, and when all have answered, nobody is at work.
LEMMA NobodyAtWork ==
    ASSUME IInv, pc[Master] # "collect", NEW w \in Workers, pc[w] # "dead"
    PROVE  Idle(w)
  BY DEF IInv, Exchange, AtWork, Buried

LEMMA AnswersComplete == IInv => AnswersAreComplete
<1> SUFFICES ASSUME IInv, Gathered, ~SomeoneDied, NEW w \in Workers
             PROVE  sent[w] = SubSeq(got, Upto(w - 1) + 1, Upto(w))
  BY DEF AnswersAreComplete
<1> DEFINE m == Upto(w - 1)
           n == Upto(w)
<1>1. /\ got \in Seq(Record) /\ sent[w] \in Seq(Record)
      /\ Len(sent[w]) \in Nat /\ Len(got) \in Nat
      /\ DOMAIN sent[w] = 1 .. Len(sent[w]) /\ DOMAIN got = 1 .. Len(got)
  BY LenProperties DEF IInv, TypeOK
<1>2. Split(w)
  BY DEF IInv, Gathering, Gathered
<1>3. Pending(w) = 0
  <2>1. freqs[w] = << >>
    BY NobodyAtWork DEF Idle, SomeoneDied, Gathered
  <2> QED
    BY <2>1, EmptySeq DEF Pending
<1>4. m \in Nat /\ n \in Nat /\ m <= n /\ n <= Len(got)
  <2>1. /\ UptoIn(got, w - 1) \in Nat /\ UptoIn(got, w) \in Nat
        /\ UptoIn(got, w - 1) <= UptoIn(got, w) /\ UptoIn(got, w) <= Len(got)
    <3>1. w \in Int /\ w - 1 \in Int /\ w - 1 <= w
      BY WorkerFacts
    <3> QED
      BY <1>1, <3>1, UptoBounds
  <2> QED
    BY <2>1, UptoIs
<1>5. Len(sent[w]) = n - m /\ \A k \in 1 .. n - m : sent[w][k] = got[m + k]
  BY <1>1, <1>2, <1>3, <1>4 DEF Split
<1> HIDE DEF m, n
<1>6. /\ SubSeq(got, m + 1, n) \in Seq(Record)
      /\ Len(SubSeq(got, m + 1, n)) = n - m
      /\ \A k \in 1 .. n - m : SubSeq(got, m + 1, n)[k] = got[m + k]
  <2>1. m + 1 \in 1 .. Len(got) + 1 /\ n \in (m + 1) - 1 .. Len(got)
    BY <1>1, <1>4
  <2>2. /\ SubSeq(got, m + 1, n) \in Seq(Record)
        /\ Len(SubSeq(got, m + 1, n)) = n - (m + 1) + 1
        /\ \A k \in 1 .. n - (m + 1) + 1 : SubSeq(got, m + 1, n)[k] = got[m + 1 + k - 1]
    BY <1>1, <2>1, SubSeqProperties
  <2>3. n - (m + 1) + 1 = n - m /\ \A k \in Int : m + 1 + k - 1 = m + k
    BY <1>4
  <2> QED
    BY <2>2, <2>3
<1>7. sent[w] = SubSeq(got, m + 1, n)
  <2>1. PICK t \in Seq(Record) : t = SubSeq(got, m + 1, n)
    BY <1>6
  <2>2. Len(t) = n - m /\ \A k \in 1 .. n - m : t[k] = got[m + k]
    BY <1>6, <2>1
  <2>3. Len(sent[w]) = Len(t) /\ \A k \in 1 .. Len(sent[w]) : sent[w][k] = t[k]
    BY <1>5, <2>2
  <2>4. sent[w] = t
    BY <1>1, <2>3, SeqEqual
  <2> QED
    BY <2>1, <2>4
<1> QED
  BY <1>7 DEF m, n

LEMMA StepTogether == IInv => InStep
<1> SUFFICES ASSUME IInv, NEW w \in Workers
             PROVE  /\ pc[Master] = "prompt" /\ pc[w] # "dead" => Idle(w)
                    /\ Len(words[w]) + (IF pc[w] = "answer" THEN 1 ELSE 0) <= 1
  BY DEF InStep, Idle
<1>1. pc[Master] = "prompt" /\ pc[w] # "dead" => Idle(w)
  BY NobodyAtWork
<1>2. \/ words[w] = << >>
      \/ words[w] = <<"word">> /\ pc[w] # "answer"
  BY DEF IInv, Exchange, Idle, Asked, Answering, Answered, Buried
<1>3. ASSUME NEW s \in Seq({"word"}) PROVE (s = << >> => Len(s) = 0) /\ (s = <<"word">> => Len(s) = 1)
  BY EmptySeq
<1>4. words[w] \in Seq({"word"})
  BY DEF IInv, TypeOK
<1>5. \/ Len(words[w]) = 0
      \/ Len(words[w]) = 1 /\ pc[w] # "answer"
  BY <1>2, <1>3, <1>4
<1>6. Len(words[w]) + (IF pc[w] = "answer" THEN 1 ELSE 0) <= 1
  <2> DEFINE busy == IF pc[w] = "answer" THEN 1 ELSE 0
  <2>1. \A a, b \in 0 .. 1 : a = 0 \/ b = 0 => a + b <= 1
    OBVIOUS
  <2>2. busy \in 0 .. 1 /\ Len(words[w]) \in 0 .. 1
    BY <1>5
  <2>3. Len(words[w]) = 0 \/ busy = 0
    BY <1>5
  <2> HIDE DEF busy
  <2>4. Len(words[w]) + busy <= 1
    BY <2>1, <2>2, <2>3
  <2> QED
    BY <2>4 DEF busy
<1> QED
  BY <1>1, <1>6

\* Labels, buffers, pipes and their holders keep their types, and neither the
\* pipes nor the master's records take more than they have room for.
THEOREM TypeCorrect == Spec => []TypeOK
<1>1. IInv => TypeOK
  BY DEF IInv
<1> QED
  BY <1>1, InvariantHolds, PTL

\* What has been handed to insert when a word is printed is exactly what the workers
\* found for it, one worker after the other, unless one of them has died; and between
\* two words nothing is left in the pipes of a living worker.
THEOREM AnswersAlwaysMatch == Spec => []AnswersMatch
<1>1. IInv => AnswersMatch
  BY AnswersComplete, StepTogether DEF AnswersMatch
<1> QED
  BY <1>1, InvariantHolds, PTL
-----------------------------------------------------------------------------
(* The records of a word (FreqRecords).                                    *)
(*                                                                         *)
(* The inductive invariant.  The array is not sorted while records arrive: *)
(* the test against the last record only keeps that record, the second one *)
(* that entered, at the end for ever, behind the first one, which has      *)
(* fewer occurrences.  Everything before these two is in order and has     *)
(* more than both, which is why an exchange of two records sorts the array.*)

Used == 0 .. count - 1

\* The records in use are received ones; what follows them is empty.
ListedReceived ==
    /\ \A j \in Used : /\ array[j].filename \in 1 .. Len(received)
                       /\ array[j] = received[array[j].filename]
    /\ \A j \in count .. ArraySize : array[j] = Empty

NamesInOrder == \A k \in 1 .. Len(received) : received[k].filename = k

ListedOnce == \A j, k \in Used : j # k => array[j].filename # array[k].filename

\* All but the last are in order; the last belongs before the one before it.
AlmostRanked ==
    /\ \A j, k \in 0 .. count - 2 : j <= k => array[j].freq >= array[k].freq
    /\ \A j \in 0 .. count - 3 : array[j].freq >= array[count - 1].freq
    /\ count >= 2 => array[count - 1].freq >= array[count - 2].freq

\* What is left out was compared with the last record, or found the array full.
LeftOut ==
    \A k \in 1 .. Len(received) :
        (\A j \in Used : array[j] # received[k])
            => count = ArraySize \/ received[k].freq <= FreqAt(count - 1)

RecInv ==
    /\ RecTypeOK
    /\ ListedReceived
    /\ NamesInOrder
    /\ ListedOnce
    /\ AlmostRanked
    /\ LeftOut
    /\ PrintedIsRanked

-----------------------------------------------------------------------------
(* The smallest number of a set, and the larger of two. *)

Less == {p \in Nat \X Nat : p[1] < p[2]}

LEMMA MinNat ==
    ASSUME NEW S \in SUBSET Nat, S # {}
    PROVE  Min(S) \in S /\ \A y \in S : Min(S) <= y
<1>1. Less = OpToRel(<, Nat)
  BY Zenon DEF OpToRel, Less
<1>2. PICK x \in S : \A y \in S : ~(<<y, x>> \in Less)
  BY NatLessThanWellFounded, WFMin, <1>1
<1>3. ASSUME NEW y \in S PROVE x <= y
  <2>1. x \in Nat /\ y \in Nat /\ <<y, x>> \notin Less
    BY <1>2
  <2>2. ~(y < x)
    BY <2>1, Zenon DEF Less
  <2> QED
    BY <2>1, <2>2
<1> QED
  BY <1>3 DEF Min

LEMMA MaxOfTwo ==
    ASSUME NEW a \in Int, NEW b \in Int
    PROVE  Max({a, b}) \in {a, b}
<1>1. \E x \in {a, b} : \A y \in {a, b} : x >= y
  <2>1. CASE a >= b
    BY <2>1
  <2>2. CASE b >= a
    BY <2>2
  <2> QED
    BY <2>1, <2>2
<1> QED
  BY <1>1 DEF Max

-----------------------------------------------------------------------------
(* Lemmas about the array. *)

LEMMA RecTyping ==
    ASSUME RecTypeOK
    PROVE  /\ ArraySize \in Nat \ {0} /\ MaxFreq \in Nat \ {0} /\ MaxReceived \in Nat
           /\ count \in Nat /\ count <= ArraySize
           /\ before \in Nat
           /\ Len(received) \in Nat
           /\ DOMAIN array = Cells
           /\ \A j \in Cells : /\ array[j] \in Records \cup {Empty}
                               /\ array[j].freq \in Nat
                               /\ (array[j].freq = 0 <=> array[j] = Empty)
           /\ \A k \in 1 .. Len(received) : received[k] \in Records /\ received[k].freq \in Nat
<1>1. \A r \in Records \cup {Empty} : r.freq \in Nat /\ (r.freq = 0 <=> r = Empty)
  BY RecordsAssumption DEF Records, Empty
<1>2. received \in Seq(Records)
  BY DEF RecTypeOK
<1>3. \A k \in 1 .. Len(received) : received[k] \in Records
  BY <1>2
<1>4. Len(received) \in Nat
  BY <1>2
<1>5. \A j \in Cells : array[j] \in Records \cup {Empty}
  BY DEF RecTypeOK
<1> QED
  BY <1>1, <1>3, <1>4, <1>5, RecordsAssumption DEF RecTypeOK

LEMMA LastFreq == ASSUME RecTypeOK PROVE FreqAt(count - 1) \in Nat
<1>1. count \in Nat /\ count <= ArraySize /\ ArraySize \in Nat /\ before \in Nat
  BY RecTyping
<1>2. CASE count = 0
  BY <1>1, <1>2 DEF FreqAt
<1>3. CASE count > 0
  <2>1. count - 1 \in Cells /\ count - 1 # -1
    BY <1>1, <1>3 DEF Cells
  <2> QED
    BY <2>1, RecTyping DEF FreqAt
<1> QED
  BY <1>1, <1>2, <1>3

\* Where a record goes: behind all when there are fewer than two, and otherwise
\* in front of the last two, behind those that have more occurrences.
LEMMA Position ==
    ASSUME RecTypeOK, AlmostRanked, NEW child \in Records, NEW pos \in insert_pos(child)
    PROVE  /\ count < ArraySize
           /\ child.freq > FreqAt(count - 1)
           /\ pos \in Nat
           /\ count < 2 => pos = count
           /\ count >= 2 => pos <= count - 2 /\ child.freq >= array[pos].freq
           /\ \A j \in 0 .. count - 2 : j < pos => array[j].freq > child.freq
<1> DEFINE smaller == {j \in 0 .. count - 2 : child.freq >= array[j].freq}
<1>1. /\ count < ArraySize /\ child.freq > FreqAt(count - 1)
      /\ pos \in (IF smaller = {} THEN {count} ELSE {Min(smaller)})
  BY DEF insert_pos
<1>2. count \in Nat /\ child.freq \in Nat /\ \A j \in Cells : array[j].freq \in Nat
  BY RecTyping, RecordsAssumption DEF Records
<1>3. CASE count < 2
  <2>1. smaller = {}
    BY <1>2, <1>3
  <2> QED
    BY <1>1, <1>2, <1>3, <2>1
<1>4. CASE count >= 2
  <2>1. count - 2 \in 0 .. count - 2 /\ count - 2 \in Cells /\ count - 1 \in Cells /\ count - 1 # -1
    BY <1>1, <1>2, <1>4, RecTyping DEF Cells
  <2>2. child.freq >= array[count - 2].freq
    <3>1. array[count - 1].freq >= array[count - 2].freq
      BY <1>4 DEF AlmostRanked
    <3>2. child.freq > array[count - 1].freq
      BY <1>1, <2>1 DEF FreqAt
    <3>3. array[count - 1].freq \in Nat /\ array[count - 2].freq \in Nat
      BY <1>2, <2>1
    <3> QED
      BY <3>1, <3>2, <3>3, <1>2
  <2>3. count - 2 \in smaller
    BY <2>1, <2>2
  <2>4. smaller \in SUBSET Nat
    BY <1>2
  <2>5. Min(smaller) \in smaller /\ \A y \in smaller : Min(smaller) <= y
    BY <2>3, <2>4, MinNat
  <2>6. pos \in smaller /\ \A y \in smaller : pos <= y
    BY <1>1, <2>3, <2>5
  <2>7. ASSUME NEW j \in 0 .. count - 2, j < pos PROVE array[j].freq > child.freq
    <3>1. j \in Cells /\ j \in Nat /\ pos \in Nat
      BY <1>1, <1>2, <2>4, <2>6, RecTyping DEF Cells
    <3>2. j \notin smaller
      BY <2>6, <2>7, <3>1
    <3>3. ~(child.freq >= array[j].freq)
      BY <3>2
    <3>4. array[j].freq \in Nat
      BY <1>2, <3>1
    <3> QED
      BY <3>3, <3>4, <1>2
  <2> QED
    BY <1>1, <1>2, <1>4, <2>6, <2>7
<1> QED
  BY <1>2, <1>3, <1>4

\* What is where once a record has been put in its position.
LEMMA Moved ==
    ASSUME RecTypeOK, NEW child, NEW pos \in 0 .. count, count < ArraySize
    PROVE  /\ \A j \in Cells : j < pos => Shifted(child, pos)[j] = array[j]
           /\ Shifted(child, pos)[pos] = child
           /\ \A j \in Cells : pos < j /\ j <= count + 1 =>
                                  Shifted(child, pos)[j] = array[j - 1] /\ j - 1 \in Cells
           /\ \A j \in Cells : j > count + 1 => Shifted(child, pos)[j] = array[j]
<1>1. count \in Nat /\ pos \in Nat /\ ArraySize \in Nat /\ pos \in Cells
  BY RecTyping DEF Cells
<1> QED
  BY <1>1 DEF Shifted, Cells

\* Nothing that was listed is lost by it, and the last record stays last unless it
\* was the only one.
LEMMA StillListed ==
    ASSUME RecTypeOK, NEW child, NEW pos \in 0 .. count, count < ArraySize, NEW j \in Used
    PROVE  \E e \in 0 .. count : Shifted(child, pos)[e] = array[j]
<1>1. count \in Nat /\ pos \in Nat /\ ArraySize \in Nat /\ j \in Nat /\ j < count
  BY RecTyping DEF Used
<1>2. CASE j < pos
  BY <1>1, <1>2, Moved DEF Cells
<1>3. CASE j >= pos
  <2>1. j + 1 \in Cells /\ pos < j + 1 /\ j + 1 <= count + 1 /\ (j + 1) - 1 = j /\ j + 1 \in 0 .. count
    BY <1>1, <1>3 DEF Cells
  <2>2. Shifted(child, pos)[j + 1] = array[(j + 1) - 1]
    BY <2>1, Moved
  <2> QED
    BY <2>1, <2>2
<1> QED
  BY <1>1, <1>2, <1>3

\* A record that arrives is the next one received.
LEMMA Arrival ==
    ASSUME RecTypeOK, NEW child \in Records
    PROVE  /\ Append(received, child) \in Seq(Records)
           /\ Len(Append(received, child)) = Len(received) + 1
           /\ \A k \in 1 .. Len(received) : Append(received, child)[k] = received[k]
           /\ Append(received, child)[Len(received) + 1] = child
<1>1. received \in Seq(Records)
  BY DEF RecTypeOK
<1> QED
  BY <1>1, AppendProperties

-----------------------------------------------------------------------------
(* Each step on the array keeps the invariant. *)

LEMMA RecInitHolds == RecInit => RecInv
<1> SUFFICES ASSUME RecInit PROVE RecInv
  OBVIOUS
<1>1. received = << >> /\ printed = << >> /\ count = 0 /\ Len(received) = 0 /\ touched = -1
  BY DEF RecInit
<1>2. \A j \in Cells : array[j] = Empty
  BY DEF RecInit
<1>3. << >> \in Seq(Records) /\ array \in [Cells -> Records \cup {Empty}]
  BY DEF RecInit
<1>4. RecTypeOK
  <2>1. ArraySize \in Nat
    BY RecordsAssumption
  <2> QED
    BY <1>1, <1>3, <2>1 DEF RecTypeOK, RecInit
<1>5. ListedReceived /\ NamesInOrder /\ ListedOnce /\ AlmostRanked /\ LeftOut
  BY <1>1, <1>2 DEF ListedReceived, NamesInOrder, ListedOnce, AlmostRanked, LeftOut, Used, Cells
<1>6. PrintedIsRanked
  BY <1>1 DEF PrintedIsRanked
<1> QED
  BY <1>4, <1>5, <1>6 DEF RecInv

\* A record that is not inserted.
LEMMA RefusedKeeps ==
    ASSUME RecInv, NEW freq \in 1 .. MaxFreq, Len(received) < MaxReceived,
           received' = Append(received, [freq |-> freq, filename |-> Len(received) + 1]),
           insert_pos([freq |-> freq, filename |-> Len(received) + 1]) = {},
           UNCHANGED <<array, count, touched, before, printed>>
    PROVE  RecInv'
<1> DEFINE child == [freq |-> freq, filename |-> Len(received) + 1]
<1>1. child \in Records /\ child.freq = freq /\ child.filename = Len(received) + 1
  BY RecTyping DEF RecInv, Records
<1>2. /\ received' \in Seq(Records) /\ Len(received') = Len(received) + 1
      /\ \A k \in 1 .. Len(received) : received'[k] = received[k]
      /\ received'[Len(received) + 1] = child
  BY <1>1, Arrival DEF RecInv
<1>3. Len(received) \in Nat /\ count \in Nat /\ count <= ArraySize /\ ArraySize \in Nat
  BY RecTyping DEF RecInv
<1> HIDE DEF child
<1>4. RecTypeOK'
  BY <1>2 DEF RecInv, RecTypeOK
<1>5. ListedReceived'
  BY <1>2, <1>3 DEF RecInv, ListedReceived, Used
<1>6. NamesInOrder'
  <2>1. ASSUME NEW k \in 1 .. Len(received) + 1 PROVE received'[k].filename = k
    <3>1. CASE k = Len(received) + 1
      BY <1>1, <1>2, <3>1
    <3>2. CASE k \in 1 .. Len(received)
      BY <1>2, <3>2 DEF RecInv, NamesInOrder
    <3> QED
      BY <1>3, <3>1, <3>2
  <2> QED
    BY <1>2, <2>1 DEF NamesInOrder
<1>7. ListedOnce' /\ AlmostRanked' /\ PrintedIsRanked'
  BY DEF RecInv, ListedOnce, AlmostRanked, PrintedIsRanked, Used
<1>8. LeftOut'
  <2>1. count = ArraySize \/ freq <= FreqAt(count - 1)
    <3>1. ~(count < ArraySize /\ child.freq > FreqAt(count - 1))
      BY DEF insert_pos, child
    <3>2. FreqAt(count - 1) \in Nat
      BY LastFreq DEF RecInv
    <3> QED
      BY <1>1, <1>3, <3>1, <3>2
  <2>2. FreqAt(count - 1)' = FreqAt(count - 1)
    BY DEF FreqAt
  <2>3. ASSUME NEW k \in 1 .. Len(received) + 1, \A j \in Used : array[j] # received'[k]
        PROVE  count = ArraySize \/ received'[k].freq <= FreqAt(count - 1)
    <3>1. CASE k = Len(received) + 1
      BY <1>1, <1>2, <2>1, <3>1
    <3>2. CASE k \in 1 .. Len(received)
      BY <1>2, <2>3, <3>2 DEF RecInv, LeftOut
    <3> QED
      BY <1>3, <3>1, <3>2
  <2> QED
    BY <1>2, <2>2, <2>3 DEF LeftOut, Used
<1> QED
  BY <1>4, <1>5, <1>6, <1>7, <1>8 DEF RecInv

\* A record that is inserted.
LEMMA InsertedKeeps ==
    ASSUME RecInv, NEW freq \in 1 .. MaxFreq, Len(received) < MaxReceived,
           received' = Append(received, [freq |-> freq, filename |-> Len(received) + 1]),
           NEW pos \in insert_pos([freq |-> freq, filename |-> Len(received) + 1]),
           array' = Shifted([freq |-> freq, filename |-> Len(received) + 1], pos),
           count' = count + 1, touched' = Max({touched, count + 1}),
           UNCHANGED <<before, printed>>
    PROVE  RecInv'
<1> DEFINE child == [freq |-> freq, filename |-> Len(received) + 1]
<1>1. child \in Records /\ child.freq = freq /\ child.filename = Len(received) + 1
  BY RecTyping DEF RecInv, Records
<1>2. /\ received' \in Seq(Records) /\ Len(received') = Len(received) + 1
      /\ \A k \in 1 .. Len(received) : received'[k] = received[k]
      /\ received'[Len(received) + 1] = child
  BY <1>1, Arrival DEF RecInv
<1>3. /\ Len(received) \in Nat /\ count \in Nat /\ ArraySize \in Nat /\ freq \in Nat
      /\ \A j \in Cells : array[j].freq \in Nat
  BY RecTyping, RecordsAssumption DEF RecInv
<1> HIDE DEF child
<1>4. /\ count < ArraySize /\ child.freq > FreqAt(count - 1) /\ pos \in Nat
      /\ count < 2 => pos = count
      /\ count >= 2 => pos <= count - 2 /\ child.freq >= array[pos].freq
      /\ \A j \in 0 .. count - 2 : j < pos => array[j].freq > child.freq
  BY <1>1, Position DEF RecInv, child
<1>5. pos \in 0 .. count /\ pos \in Cells
  BY <1>3, <1>4 DEF Cells
<1>6. /\ \A j \in Cells : j < pos => array'[j] = array[j]
      /\ array'[pos] = child
      /\ \A j \in Cells : pos < j /\ j <= count + 1 => array'[j] = array[j - 1] /\ j - 1 \in Cells
      /\ \A j \in Cells : j > count + 1 => array'[j] = array[j]
  BY <1>4, <1>5, Moved DEF RecInv, child
<1>7. RecTypeOK'
  <2>1. array' \in [Cells -> Records \cup {Empty}]
    <3>1. array' = [j \in Cells |-> array'[j]]
      BY DEF Shifted
    <3>2. ASSUME NEW j \in Cells PROVE array'[j] \in Records \cup {Empty}
      <4>1. j < pos \/ j = pos \/ (pos < j /\ j <= count + 1) \/ j > count + 1
        BY <1>3, <1>4 DEF Cells
      <4>2. \A e \in Cells : array[e] \in Records \cup {Empty}
        BY DEF RecInv, RecTypeOK
      <4> QED
        BY <1>1, <1>6, <4>1, <4>2
    <3> QED
      BY <3>1, <3>2
  <2>2. count' \in 0 .. ArraySize
    BY <1>3, <1>4
  <2>3. touched' \in -1 .. ArraySize
    <3>1. touched \in -1 .. ArraySize /\ count + 1 \in -1 .. ArraySize
      BY <1>3, <1>4 DEF RecInv, RecTypeOK
    <3>2. Max({touched, count + 1}) \in {touched, count + 1}
      BY <3>1, MaxOfTwo
    <3> QED
      BY <3>1, <3>2
  <2> QED
    BY <1>2, <2>1, <2>2, <2>3 DEF RecInv, RecTypeOK
<1>8. ASSUME NEW j \in Used'
      PROVE  /\ j \in Cells /\ j \in 0 .. count
             /\ j < pos => array'[j] = array[j] /\ j \in Used
             /\ j = pos => array'[j] = child
             /\ j > pos => array'[j] = array[j - 1] /\ j - 1 \in Used
  BY <1>3, <1>4, <1>6 DEF Used, Cells
<1>9. ListedReceived'
  <2>1. ASSUME NEW j \in Used'
        PROVE  /\ array'[j].filename \in 1 .. Len(received')
               /\ array'[j] = received'[array'[j].filename]
    <3>1. CASE j = pos
      BY <1>1, <1>2, <1>3, <1>8, <3>1
    <3>2. ASSUME NEW e \in Used, array'[j] = array[e]
          PROVE  /\ array'[j].filename \in 1 .. Len(received')
                 /\ array'[j] = received'[array'[j].filename]
      <4>1. array[e].filename \in 1 .. Len(received) /\ array[e] = received[array[e].filename]
        BY DEF RecInv, ListedReceived
      <4> QED
        BY <1>2, <1>3, <3>2, <4>1
    <3> QED
      BY <1>4, <1>8, <3>1, <3>2 DEF Used
  <2>2. ASSUME NEW j \in count + 1 .. ArraySize PROVE array'[j] = Empty
    <3>1. \A e \in count .. ArraySize : array[e] = Empty
      BY DEF RecInv, ListedReceived
    <3>2. j \in Cells /\ pos < j
      BY <1>3, <1>4, <1>5 DEF Cells
    <3>3. CASE j = count + 1
      BY <1>3, <1>4, <1>6, <3>1, <3>2, <3>3
    <3>4. CASE j > count + 1
      BY <1>3, <1>6, <3>1, <3>2, <3>4
    <3> QED
      BY <1>3, <3>3, <3>4
  <2> QED
    BY <2>1, <2>2 DEF ListedReceived
<1>10. NamesInOrder'
  <2>1. ASSUME NEW k \in 1 .. Len(received) + 1 PROVE received'[k].filename = k
    <3>1. CASE k = Len(received) + 1
      BY <1>1, <1>2, <3>1
    <3>2. CASE k \in 1 .. Len(received)
      BY <1>2, <3>2 DEF RecInv, NamesInOrder
    <3> QED
      BY <1>3, <3>1, <3>2
  <2> QED
    BY <1>2, <2>1 DEF NamesInOrder
<1>11. ListedOnce'
  <2>1. \A e \in Used : array[e].filename # child.filename
    BY <1>1, <1>3 DEF RecInv, ListedReceived
  <2>2. ASSUME NEW j \in Used', NEW k \in Used', j < k
        PROVE  array'[j].filename # array'[k].filename
    <3>1. j \in Nat /\ k \in Nat
      BY <1>8
    <3>2. \A e, l \in Used : e # l => array[e].filename # array[l].filename
      BY DEF RecInv, ListedOnce
    <3>3. CASE k < pos
      BY <1>4, <1>8, <2>2, <3>1, <3>2, <3>3
    <3>4. CASE k = pos
      BY <1>4, <1>8, <2>1, <2>2, <3>1, <3>4
    <3>5. CASE j < pos /\ pos < k
      <4>1. array'[j] = array[j] /\ j \in Used /\ array'[k] = array[k - 1] /\ k - 1 \in Used /\ j # k - 1
        BY <1>4, <1>8, <3>1, <3>5
      <4> QED
        BY <3>2, <4>1
    <3>6. CASE j = pos
      BY <1>4, <1>8, <2>1, <2>2, <3>1, <3>6
    <3>7. CASE pos < j
      <4>1. array'[j] = array[j - 1] /\ j - 1 \in Used /\ array'[k] = array[k - 1] /\ k - 1 \in Used /\ j - 1 # k - 1
        BY <1>4, <1>8, <2>2, <3>1, <3>7
      <4> QED
        BY <3>2, <4>1
    <3> QED
      BY <1>4, <2>2, <3>1, <3>3, <3>4, <3>5, <3>6, <3>7
  <2> QED
    BY <1>8, <2>2 DEF ListedOnce
<1>12. AlmostRanked'
  <2>1. CASE count = 0
    BY <2>1 DEF AlmostRanked
  <2>2. CASE count = 1
    <3>1. array'[0] = array[0] /\ array'[1] = child /\ FreqAt(0) = array[0].freq
      BY <1>3, <1>4, <1>5, <1>6, <2>2 DEF FreqAt, Cells
    <3>2. child.freq > FreqAt(0)
      BY <1>4, <2>2
    <3>3. array'[0].freq \in Nat
      BY <1>3, <3>1, <2>2, <1>4 DEF Cells
    <3>4. array'[1].freq >= array'[0].freq
      BY <1>1, <1>3, <3>1, <3>2, <3>3
    <3>5. count + 1 = 2
      BY <2>2
    <3>6. \A j, k \in 0 .. 0 : j <= k => array'[j].freq >= array'[k].freq
      BY <3>3
    <3> QED
      BY <3>4, <3>5, <3>6 DEF AlmostRanked
  <2>3. CASE count >= 2
    <3>1. /\ pos <= count - 2 /\ child.freq >= array[pos].freq
          /\ array'[count] = array[count - 1] /\ array'[count - 1] = array[count - 2]
          /\ FreqAt(count - 1) = array[count - 1].freq
      <4>1. count \in Cells /\ count - 1 \in Cells /\ pos < count /\ pos < count - 1 /\ count - 1 # -1
        BY <1>3, <1>4, <2>3 DEF Cells
      <4>2. (count - 1) - 1 = count - 2
        BY <1>3
      <4> QED
        BY <1>3, <1>4, <1>6, <2>3, <4>1, <4>2 DEF FreqAt
    <3>2. /\ \A j, k \in 0 .. count - 2 : j <= k => array[j].freq >= array[k].freq
          /\ \A j \in 0 .. count - 3 : array[j].freq >= array[count - 1].freq
          /\ array[count - 1].freq >= array[count - 2].freq
      BY <2>3 DEF RecInv, AlmostRanked
    <3>3. \A j \in 0 .. count - 2 : j \in Cells /\ array[j].freq \in Nat
      BY <1>3, <1>4 DEF Cells
    <3>4. ASSUME NEW j \in 0 .. count - 1
          PROVE  /\ j \in Nat
                 /\ j < pos => array'[j] = array[j] /\ j \in 0 .. count - 2
                 /\ j = pos => array'[j] = child
                 /\ j > pos => array'[j] = array[j - 1] /\ j - 1 \in 0 .. count - 2
      BY <1>3, <1>4, <1>6, <3>1 DEF Cells
    <3>5. ASSUME NEW j \in 0 .. count - 1, NEW k \in 0 .. count - 1, j <= k
          PROVE  array'[j].freq >= array'[k].freq
      <4>1. CASE k < pos
        BY <3>2, <3>4, <3>5, <4>1, <1>4
      <4>2. CASE j < pos /\ k = pos
        <5>1. array'[j] = array[j] /\ j \in 0 .. count - 2 /\ array'[k] = child
          BY <3>4, <4>2
        <5>2. array[j].freq > child.freq /\ array[j].freq \in Nat /\ child.freq \in Nat
          BY <1>1, <1>3, <1>4, <3>3, <4>2, <5>1
        <5> QED
          BY <5>1, <5>2
      <4>3. CASE j < pos /\ pos < k
        <5>1. array'[j] = array[j] /\ j \in 0 .. count - 2 /\ array'[k] = array[k - 1] /\ k - 1 \in 0 .. count - 2 /\ j <= k - 1
          BY <3>4, <1>4, <4>3
        <5> QED
          BY <3>2, <5>1
      <4>4. CASE j = pos /\ k = pos
        BY <1>1, <1>3, <3>4, <4>4
      <4>5. CASE j = pos /\ pos < k
        <5>1. /\ array'[j] = child /\ array'[k] = array[k - 1] /\ k - 1 \in 0 .. count - 2
              /\ pos <= k - 1 /\ pos \in 0 .. count - 2
          <6>1. pos \in Nat /\ k \in Nat /\ count \in Nat
            BY <1>3, <1>4, <3>4
          <6> QED
            BY <3>1, <3>4, <4>5, <6>1
        <5>2. array[pos].freq >= array[k - 1].freq /\ array[pos].freq \in Nat /\ array[k - 1].freq \in Nat
          BY <3>2, <3>3, <5>1
        <5>3. child.freq >= array[pos].freq /\ child.freq \in Nat
          BY <1>1, <1>3, <3>1
        <5> QED
          BY <5>1, <5>2, <5>3
      <4>6. CASE pos < j
        <5>1. /\ array'[j] = array[j - 1] /\ j - 1 \in 0 .. count - 2 /\ array'[k] = array[k - 1]
              /\ k - 1 \in 0 .. count - 2 /\ j - 1 <= k - 1
          BY <3>4, <3>5, <1>4, <4>6
        <5> QED
          BY <3>2, <5>1
      <4> QED
        BY <1>4, <3>4, <3>5, <4>1, <4>2, <4>3, <4>4, <4>5, <4>6
    <3>6. ASSUME NEW j \in 0 .. count - 2
          PROVE  array'[j].freq >= array[count - 1].freq
      <4>1. j \in 0 .. count - 1 /\ j \in Nat /\ array[count - 1].freq \in Nat
        <5>1. j \in 0 .. count - 1 /\ j \in Nat
          <6>1. count \in Nat
            BY <1>3
          <6> QED
            BY <6>1
        <5>2. count - 1 \in Cells
          <6>1. count \in Nat /\ count < ArraySize /\ ArraySize \in Nat
            BY <1>3, <1>4
          <6> QED
            BY <2>3, <6>1 DEF Cells
        <5> QED
          BY <1>3, <5>1, <5>2
      <4>2. CASE j = pos
        BY <1>1, <1>3, <1>4, <3>1, <3>4, <4>1, <4>2
      <4>3. CASE j < pos
        <5>1. array'[j] = array[j] /\ array[j].freq > child.freq /\ child.freq > array[count - 1].freq
          BY <1>4, <3>1, <3>4, <4>1, <4>3
        <5> QED
          BY <1>1, <1>3, <3>3, <4>1, <5>1
      <4>4. CASE j > pos
        <5>1. array'[j] = array[j - 1] /\ j - 1 \in 0 .. count - 3
          BY <1>3, <1>4, <3>4, <4>1, <4>4
        <5> QED
          BY <3>2, <5>1
      <4> QED
        BY <1>4, <4>1, <4>2, <4>3, <4>4
    <3>7. (count + 1) - 1 = count /\ (count + 1) - 2 = count - 1 /\ (count + 1) - 3 = count - 2
      BY <1>3
    <3>8. array'[count].freq >= array'[count - 1].freq
      BY <3>1, <3>2
    <3> QED
      BY <3>1, <3>5, <3>6, <3>7, <3>8 DEF AlmostRanked
  <2> QED
    BY <1>3, <2>1, <2>2, <2>3
<1>13. LeftOut'
  <2>1. array'[count].freq >= FreqAt(count - 1) /\ array'[count].freq \in Nat
    <3>1. count \in Cells
      BY <1>3, <1>4 DEF Cells
    <3>2. CASE count < 2
      <4>1. array'[count] = child
        BY <1>4, <1>6, <3>2
      <4> QED
        BY <1>1, <1>3, <1>4, <4>1, LastFreq DEF RecInv
    <3>3. CASE count >= 2
      <4>1. pos < count /\ count <= count + 1 /\ count - 1 # -1
        BY <1>3, <1>4, <3>3
      <4>2. array'[count] = array[count - 1] /\ count - 1 \in Cells
        BY <1>6, <3>1, <4>1
      <4> QED
        BY <1>3, <4>1, <4>2 DEF FreqAt
    <3> QED
      BY <1>3, <3>2, <3>3
  <2>2. ASSUME NEW k \in 1 .. Len(received'), \A j \in Used' : array'[j] # received'[k]
        PROVE  received'[k].freq <= array'[count].freq
    <3>1. k # Len(received) + 1
      <4>1. pos \in Used'
        BY <1>3, <1>5 DEF Used
      <4> QED
        BY <1>2, <1>6, <2>2, <4>1
    <3>2. k \in 1 .. Len(received) /\ received'[k] = received[k]
      BY <1>2, <1>3, <3>1
    <3>3. \A j \in Used : array[j] # received[k]
      <4>1. SUFFICES ASSUME NEW j \in Used, array[j] = received[k] PROVE FALSE
        OBVIOUS
      <4>2. PICK e \in 0 .. count : Shifted(child, pos)[e] = array[j]
        BY <1>4, <1>5, StillListed DEF RecInv
      <4>3. e \in Used'
        BY <1>3 DEF Used
      <4> QED
        BY <2>2, <3>2, <4>1, <4>2, <4>3 DEF child
    <3>4. count # ArraySize
      BY <1>3, <1>4
    <3>5. received[k].freq <= FreqAt(count - 1)
      BY <3>2, <3>3, <3>4 DEF RecInv, LeftOut
    <3>6. received[k].freq \in Nat /\ FreqAt(count - 1) \in Nat
      BY <3>2, LastFreq, RecTyping DEF RecInv
    <3> QED
      BY <2>1, <3>2, <3>5, <3>6
  <2>3. FreqAt(count - 1)' = array'[count].freq
    <3>1. (count + 1) - 1 = count /\ count # -1
      BY <1>3
    <3> QED
      BY <3>1 DEF FreqAt
  <2> QED
    BY <2>2, <2>3 DEF LeftOut
<1>14. PrintedIsRanked'
  BY DEF RecInv, PrintedIsRanked
<1> QED
  BY <1>7, <1>9, <1>10, <1>11, <1>12, <1>13, <1>14 DEF RecInv

\* What the exchange of the last two gives.
LEMMA Exchanged ==
    ASSUME RecInv
    PROVE  /\ \A j \in Cells : (count < 2 \/ (j # count - 1 /\ j # count - 2)) => Swapped[j] = array[j]
           /\ count >= 2 => /\ Swapped[count - 1] = array[count - 2]
                            /\ Swapped[count - 2] = array[count - 1]
                            /\ count - 1 \in Cells /\ count - 2 \in Cells
<1>1. count \in Nat /\ count <= ArraySize /\ ArraySize \in Nat /\ DOMAIN array = Cells
  BY RecTyping DEF RecInv
<1>2. CASE count < 2
  BY <1>1, <1>2 DEF Swapped
<1>3. CASE count >= 2
  <2>1. count - 1 \in Cells /\ count - 2 \in Cells /\ count - 1 # count - 2
    BY <1>1, <1>3 DEF Cells
  <2> QED
    BY <1>1, <1>3, <2>1 DEF Swapped
<1> QED
  BY <1>1, <1>2, <1>3

\* The record at a place after the exchange, and where it was before.
LEMMA ShownAt ==
    ASSUME RecInv, NEW j \in Used
    PROVE  \E e \in Used : /\ Swapped[j] = array[e]
                           /\ count < 2 => e = j
                           /\ count >= 2 /\ j = count - 1 => e = count - 2
                           /\ count >= 2 /\ j = count - 2 => e = count - 1
                           /\ count >= 2 /\ j < count - 2 => e = j
<1>1. /\ count \in Nat /\ count <= ArraySize /\ ArraySize \in Nat
      /\ j \in Nat /\ j < count /\ j \in Cells
  BY RecTyping DEF RecInv, Used, Cells
<1>2. CASE count < 2 \/ j < count - 2
  <2>1. Swapped[j] = array[j]
    BY <1>1, <1>2, Exchanged
  <2>2. count >= 2 => j # count - 1 /\ j # count - 2
    BY <1>1, <1>2
  <2> QED
    BY <2>1, <2>2
<1>3. CASE count >= 2 /\ j = count - 1
  <2>1. count - 2 \in Used /\ Swapped[j] = array[count - 2] /\ j # count - 2 /\ ~(j < count - 2) /\ ~(count < 2)
    BY <1>1, <1>3, Exchanged DEF Used
  <2> QED
    BY <2>1
<1>4. CASE count >= 2 /\ j = count - 2
  <2>1. count - 1 \in Used /\ Swapped[j] = array[count - 1] /\ j # count - 1 /\ ~(j < count - 2) /\ ~(count < 2)
    BY <1>1, <1>4, Exchanged DEF Used
  <2> QED
    BY <2>1
<1> QED
  BY <1>1, <1>2, <1>3, <1>4

\* The loop that prints ends behind the last record in use.
LEMMA PrintsUsed ==
    ASSUME RecInv
    PROVE  print_freq_records(Swapped) = [j \in 1 .. count |-> Swapped[j - 1]]
<1> DEFINE empties == {j \in Cells : Swapped[j] = Empty}
<1>1. count \in Nat /\ count <= ArraySize /\ ArraySize \in Nat /\ count \in Cells
  BY RecTyping DEF RecInv, Cells
<1>2. count \in empties
  <2>1. array[count] = Empty
    BY <1>1 DEF RecInv, ListedReceived
  <2>2. count # count - 1 /\ count # count - 2
    BY <1>1
  <2> QED
    BY <1>1, <2>1, <2>2, Exchanged
<1>3. ASSUME NEW j \in empties, j < count PROVE FALSE
  <2>1. j \in Used
    BY <1>1, <1>3 DEF Used, Cells
  <2>2. PICK e \in Used : Swapped[j] = array[e]
    BY <2>1, ShownAt
  <2>3. array[e].filename \in 1 .. Len(received)
    BY DEF RecInv, ListedReceived
  <2>4. Empty.filename = 0
    BY DEF Empty
  <2> QED
    BY <1>3, <2>2, <2>3, <2>4
<1>4. empties \in SUBSET Nat
  BY <1>1 DEF Cells
<1>5. Min(empties) \in empties /\ \A y \in empties : Min(empties) <= y
  BY <1>2, <1>4, MinNat
<1>6. Min(empties) \in Nat /\ Min(empties) <= count /\ ~(Min(empties) < count)
  BY <1>2, <1>3, <1>4, <1>5
<1>7. Min(empties) = count
  BY <1>1, <1>6
<1> QED
  BY <1>7 DEF print_freq_records

\* The end of a word.
LEMMA AnswerKeeps ==
    ASSUME RecInv, answer
    PROVE  RecInv'
<1>1. /\ count \in Nat /\ count <= ArraySize /\ ArraySize \in Nat
      /\ \A j \in Cells : array[j].freq \in Nat
      /\ \A j \in Used : j \in Cells /\ j \in Nat /\ j < count
  BY RecTyping DEF RecInv, Used, Cells
<1>2. /\ printed' = [j \in 1 .. count |-> Swapped[j - 1]]
      /\ array' = [j \in Cells |-> Empty] /\ count' = 0 /\ touched' = -1
      /\ received' = << >> /\ before' = before
  BY PrintsUsed DEF answer
<1>3. RecTypeOK'
  <2>1. \A j \in Used : Swapped[j] \in Records
    <3>1. SUFFICES ASSUME NEW j \in Used PROVE Swapped[j] \in Records
      OBVIOUS
    <3>2. PICK e \in Used : Swapped[j] = array[e]
      BY ShownAt
    <3>3. array[e].filename \in 1 .. Len(received) /\ array[e] = received[array[e].filename]
      BY DEF RecInv, ListedReceived
    <3> QED
      BY <3>2, <3>3, RecTyping DEF RecInv
  <2>2. \A j \in 1 .. count : j - 1 \in Used
    BY <1>1 DEF Used
  <2>3. printed' \in [1 .. count -> Records]
    BY <1>2, <2>1, <2>2
  <2>4. printed' \in Seq(Records)
    BY <1>1, <2>3
  <2>5. << >> \in Seq(Records) /\ [j \in Cells |-> Empty] \in [Cells -> Records \cup {Empty}]
    OBVIOUS
  <2>6. 0 \in 0 .. ArraySize /\ -1 \in -1 .. ArraySize
    BY <1>1
  <2> QED
    BY <1>2, <2>4, <2>5, <2>6 DEF RecInv, RecTypeOK
<1>4. ListedReceived' /\ NamesInOrder' /\ ListedOnce' /\ AlmostRanked' /\ LeftOut'
  <2>1. Len(received') = 0
    BY <1>2
  <2> QED
    BY <1>2, <2>1 DEF ListedReceived, NamesInOrder, ListedOnce, AlmostRanked, LeftOut, Used, Cells
<1>5. PrintedIsRanked'
  <2>1. ASSUME NEW j \in Used, NEW k \in Used, j < k
        PROVE  /\ Swapped[j].freq >= Swapped[k].freq
               /\ Swapped[j].filename # Swapped[k].filename
    <3>1. count >= 2 /\ j \in Nat /\ k \in Nat /\ j # k /\ j # count - 1 /\ j <= count - 2 /\ k <= count - 1
      BY <1>1, <2>1
    <3>2. PICK e \in Used : /\ Swapped[j] = array[e]
                            /\ count >= 2 /\ j = count - 2 => e = count - 1
                            /\ count >= 2 /\ j < count - 2 => e = j
      BY ShownAt
    <3>3. PICK l \in Used : /\ Swapped[k] = array[l]
                            /\ count >= 2 /\ k = count - 1 => l = count - 2
                            /\ count >= 2 /\ k = count - 2 => l = count - 1
                            /\ count >= 2 /\ k < count - 2 => l = k
      BY ShownAt
    <3>4. /\ \A m, n \in 0 .. count - 2 : m <= n => array[m].freq >= array[n].freq
          /\ \A m \in 0 .. count - 3 : array[m].freq >= array[count - 1].freq
          /\ array[count - 1].freq >= array[count - 2].freq
      BY <3>1 DEF RecInv, AlmostRanked
    <3>5. CASE j = count - 2
      <4>1. k = count - 1 /\ e = count - 1 /\ l = count - 2
        BY <1>1, <2>1, <3>1, <3>2, <3>3, <3>5
      <4>2. e # l
        BY <1>1, <4>1
      <4> QED
        BY <3>2, <3>3, <3>4, <4>1, <4>2 DEF RecInv, ListedOnce
    <3>6. CASE j < count - 2
      <4>1. e = j /\ j \in 0 .. count - 2 /\ j \in 0 .. count - 3 /\ count - 2 \in 0 .. count - 2
        BY <1>1, <3>1, <3>2, <3>6
      <4>2. CASE k = count - 1
        <5>1. l = count - 2 /\ e # l /\ j <= count - 2
          BY <1>1, <3>1, <3>3, <3>6, <4>1, <4>2
        <5> QED
          BY <3>2, <3>3, <3>4, <4>1, <5>1 DEF RecInv, ListedOnce
      <4>3. CASE k = count - 2
        <5>1. l = count - 1 /\ e # l
          BY <1>1, <3>1, <3>3, <3>6, <4>1, <4>3
        <5> QED
          BY <3>2, <3>3, <3>4, <4>1, <5>1 DEF RecInv, ListedOnce
      <4>4. CASE k < count - 2
        <5>1. l = k /\ e # l /\ k \in 0 .. count - 2 /\ j <= k
          BY <1>1, <2>1, <3>1, <3>3, <4>1, <4>4
        <5> QED
          BY <3>2, <3>3, <3>4, <4>1, <5>1 DEF RecInv, ListedOnce
      <4> QED
        BY <1>1, <3>1, <4>2, <4>3, <4>4
    <3> QED
      BY <1>1, <3>1, <3>5, <3>6
  <2>2. \A j \in 1 .. count : j - 1 \in Used /\ printed'[j] = Swapped[j - 1] /\ j \in Nat
    BY <1>1, <1>2 DEF Used
  <2>3. DOMAIN printed' = 1 .. count
    BY <1>2
  <2>4. ASSUME NEW j \in 1 .. count, NEW k \in 1 .. count, j < k
        PROVE  /\ printed'[j].freq >= printed'[k].freq
               /\ printed'[j].filename # printed'[k].filename
    <3>1. j - 1 < k - 1
      BY <1>1, <2>4
    <3> QED
      BY <2>1, <2>2, <3>1
  <2> QED
    BY <2>3, <2>4 DEF PrintedIsRanked
<1> QED
  BY <1>3, <1>4, <1>5 DEF RecInv

\* Every step keeps the inductive invariant.
THEOREM RecStepKeeps == RecInv /\ [RecNext]_recvars => RecInv'
<1> SUFFICES ASSUME RecInv, [RecNext]_recvars PROVE RecInv'
  OBVIOUS
<1>1. CASE UNCHANGED recvars
  BY <1>1 DEF recvars, RecInv, RecTypeOK, ListedReceived, NamesInOrder, ListedOnce, AlmostRanked,
              LeftOut, PrintedIsRanked, Used, FreqAt
<1>2. CASE answer
  BY <1>2, AnswerKeeps
<1>3. ASSUME NEW f \in 1 .. MaxFreq, insert(f) PROVE RecInv'
  <2> DEFINE child == [freq |-> f, filename |-> Len(received) + 1]
  <2>1. CASE insert_pos(child) = {} /\ UNCHANGED <<array, count, touched>>
    BY <1>3, <2>1, RefusedKeeps DEF insert
  <2>2. ASSUME NEW pos \in insert_pos(child), array' = Shifted(child, pos),
               count' = count + 1, touched' = Max({touched, count + 1})
        PROVE  RecInv'
    BY <1>3, <2>2, InsertedKeeps DEF insert
  <2> QED
    BY <1>3, <2>1, <2>2 DEF insert
<1> QED
  BY <1>1, <1>2, <1>3 DEF RecNext

\* The inductive invariant holds in every state that is reached.
THEOREM RecInvariantHolds == RecSpec => []RecInv
  BY RecInitHolds, RecStepKeeps, PTL DEF RecSpec

-----------------------------------------------------------------------------
(* The properties of what is printed. *)

\* The variables keep their types; the highest cell written is the one right
\* behind the array.
THEOREM RecordsTypeCorrect == RecSpec => []RecTypeOK
<1>1. RecInv => RecTypeOK
  BY DEF RecInv
<1> QED
  BY <1>1, RecInvariantHolds, PTL

\* What is printed for a word is in order of descending frequency and names no
\* file twice, whatever the order in which the workers' records arrive: the
\* exchange of the last two is what it takes to sort the array.
THEOREM PrintedIsAlwaysRanked == RecSpec => []PrintedIsRanked
<1>1. RecInv => PrintedIsRanked
  BY DEF RecInv
<1> QED
  BY <1>1, RecInvariantHolds, PTL

\* A record that is left out while the array has room loses to every file that is
\* listed but one, the one the exchange puts last: it was no better than the second
\* to enter, and all but the first to enter are at least as good as that one.
THEOREM LeftOutAlwaysExceedOneOnly == RecSpec => []LeftOutExceedsOneOnly
<1>1. RecInv => LeftOutExceedsOneOnly
  <2> SUFFICES ASSUME RecInv, count < ArraySize, NEW k \in 1 .. Len(received),
                      \A j \in 0 .. count - 1 : array[j] # received[k],
                      NEW l \in 0 .. count - 1, array[l].freq < received[k].freq
               PROVE  l = count - 2
    BY DEF LeftOutExceedsOneOnly
  <2>1. /\ count \in Nat /\ count <= ArraySize /\ ArraySize \in Nat
        /\ received[k].freq \in Nat
        /\ \A j \in Cells : array[j].freq \in Nat
    BY RecTyping DEF RecInv
  <2>2. /\ l \in Nat /\ l < count /\ l \in Cells
        /\ count - 1 \in Cells /\ count - 1 # -1 /\ count # ArraySize
    BY <2>1 DEF Cells
  <2>3. received[k].freq <= array[count - 1].freq
    <3>1. count = ArraySize \/ received[k].freq <= FreqAt(count - 1)
      BY DEF RecInv, LeftOut, Used
    <3> QED
      BY <2>2, <3>1 DEF FreqAt
  <2>4. /\ array[l].freq \in Nat /\ array[count - 1].freq \in Nat
        /\ array[l].freq < received[k].freq
    BY <2>1, <2>2
  <2>5. array[l].freq < array[count - 1].freq
    <3>1. \A x, y, z \in Nat : x < y /\ y <= z => x < z
      OBVIOUS
    <3> QED
      BY <2>1, <2>3, <2>4, <3>1
  <2>6. ~(array[l].freq >= array[count - 1].freq)
    <3>1. \A x, z \in Nat : x < z => ~(x >= z)
      OBVIOUS
    <3> QED
      BY <2>4, <2>5, <3>1
  <2>7. l # count - 1
    <3>1. array[count - 1].freq >= array[count - 1].freq
      BY <2>4
    <3> QED
      BY <2>6, <3>1
  <2>8. ~(l \in 0 .. count - 3)
    BY <2>6 DEF RecInv, AlmostRanked
  <2> QED
    BY <2>1, <2>2, <2>7, <2>8
<1> QED
  BY <1>1, RecInvariantHolds, PTL
=============================================================================
