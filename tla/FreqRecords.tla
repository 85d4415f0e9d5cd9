---------------------------- MODULE FreqRecords ----------------------------
(***************************************************************************)
(* The master's collection of frequency records for one word (A3): insert  *)
(* and determine_insert_pos of worker.c, called by query.c for each record *)
(* it receives, and the exchange of the last two records before printing.  *)
(*                                                                         *)
(* The array is a function on indices from 0.  Indices at and above        *)
(* ArraySize (MAXRECORDS) are outside the allocation; index -1 holds what  *)
(* lies before it, which determine_insert_pos compares with for the first  *)
(* record.                                                                 *)
(*                                                                         *)
(* Rec stands before the names every specification has: the proofs about   *)
(* the word query extend this module and QueryPool.                        *)
(***************************************************************************)
EXTENDS Integers, Sequences, FiniteSetsExt

CONSTANTS
    ArraySize,      \* MAXRECORDS
    MaxFreq,        \* bound on frequencies
    MaxReceived     \* bound on the records received for a word

ASSUME RecordsAssumption ==
    ArraySize \in Nat \ {0} /\ MaxFreq \in Nat \ {0} /\ MaxReceived \in Nat

VARIABLES
    array,          \* master: a record per index; freq 0 is an empty record
    count,          \* num_elements
    before,         \* what array[-1].freq happens to be: any int, those below 0
                    \* stand with 0 and those above MaxFreq with MaxFreq, as the
                    \* comparisons with a frequency cannot tell them apart
    touched,        \* the highest index written for this word
    received,       \* (history) the records received for this word
    printed         \* the records printed last

recvars == <<array, count, before, touched, received, printed>>

\* A record names its file by the order of its arrival.
Records == [freq : 1 .. MaxFreq, filename : 1 .. MaxReceived]
Empty == [freq |-> 0, filename |-> 0]
Cells == 0 .. ArraySize

RecTypeOK ==
    /\ array \in [Cells -> Records \cup {Empty}]
    /\ count \in 0 .. ArraySize
    /\ before \in 0 .. MaxFreq
    /\ touched \in -1 .. ArraySize
    /\ received \in Seq(Records) /\ printed \in Seq(Records)

RecInit ==
    /\ array = [j \in Cells |-> Empty] /\ count = 0
    /\ before \in 0 .. MaxFreq
    /\ touched = -1 /\ received = << >> /\ printed = << >>

FreqAt(j) == IF j = -1 THEN before ELSE array[j].freq

\* (faulty variant) the record is compared with the first one.
insert_pos_first(child) ==
    IF count < ArraySize /\ child.freq > array[0].freq THEN {0} ELSE {}

\* The positions determine_insert_pos returns; none stands for -1.  Only a
\* record with more occurrences than the last one is inserted at all, and the
\* last one is not among those it is compared with.
insert_pos(child) ==
    LET smaller == {j \in 0 .. count - 2 : child.freq >= array[j].freq}
    IN  IF ~(count < ArraySize /\ child.freq > FreqAt(count - 1)) THEN {}
        ELSE IF smaller = {} THEN {count} ELSE {Min(smaller)}

\* (faulty variant) the cells are copied upwards, starting at the position.
Smeared(child, pos) ==
    [j \in Cells |-> IF j = pos THEN child
                     ELSE IF j \in pos + 1 .. count THEN array[pos]
                     ELSE array[j]]

\* insert shifts every cell from the position up to and including
\* array[count], which is still empty.
Shifted(child, pos) ==
    [j \in Cells |-> IF j = pos THEN child
                     ELSE IF j \in pos + 1 .. count + 1 THEN array[j - 1]
                     ELSE array[j]]

\* A record with a frequency arrives.
insert(freq) ==
    LET child == [freq |-> freq, filename |-> Len(received) + 1]
    IN  /\ Len(received) < MaxReceived
        /\ received' = Append(received, child)
        /\ \/ /\ insert_pos(child) = {}
              /\ UNCHANGED <<array, count, touched>>
           \/ \E pos \in insert_pos(child) :
                /\ array' = Shifted(child, pos)
                /\ count' = count + 1
                /\ touched' = Max({touched, count + 1})
        /\ UNCHANGED <<before, printed>>

\* (faulty variant) the last two are left as they are.
NotSwapped == array

\* The last two records exchanged.
Swapped == IF count < 2 THEN array
           ELSE [array EXCEPT ![count - 1] = array[count - 2], ![count - 2] = array[count - 1]]

\* The records of frp that are printed: those before the first empty one, which
\* lies behind the array when MAXRECORDS records are in it.
print_freq_records(frp) ==
    LET end == Min({j \in Cells : frp[j] = Empty})
    IN  [j \in 1 .. end |-> frp[j - 1]]

\* The end of a word: exchange the last two, print, and clear the array for the
\* next word.
answer ==
    /\ received # << >>
    /\ printed' = print_freq_records(Swapped)
    /\ array' = [j \in Cells |-> Empty] /\ count' = 0 /\ touched' = -1
    /\ received' = << >>
    /\ UNCHANGED before

RecNext == (\E f \in 1 .. MaxFreq : insert(f)) \/ answer

RecSpec == RecInit /\ [][RecNext]_recvars

-----------------------------------------------------------------------------
(* Properties *)

\* What is printed is in order of descending frequency, in spite of the test
\* against the last record only and thanks to the exchange of the last two, and no
\* file is printed twice for a word.
PrintedIsRanked ==
    \A j, k \in DOMAIN printed :
        j < k => /\ printed[j].freq >= printed[k].freq
                 /\ printed[j].filename # printed[k].filename

\* A record that was left out while the array has room has no more occurrences
\* than any file listed but one, the one printed last: with 1, 6 and 5 the 5 is
\* left out and the 1 is printed, but never two files with fewer.
LeftOutExceedsOneOnly ==
    count < ArraySize =>
        \A k \in 1 .. Len(received) :
            (\A j \in 0 .. count - 1 : array[j] # received[k])
                => {j \in 0 .. count - 1 : array[j].freq < received[k].freq} \subseteq {count - 2}

\* (refuted by a file less frequent than the second record) "one for each file where the word is found"
EveryFileIsListed ==
    count < ArraySize =>
        \A k \in 1 .. Len(received) : \E j \in 0 .. count - 1 : array[j] = received[k]

\* (refuted by one record more than fit) insert writes only to the MAXRECORDS records of the array.
StaysInArray == touched < ArraySize
=============================================================================
