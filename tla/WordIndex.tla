----------------------------- MODULE WordIndex -----------------------------
(***************************************************************************)
(* The word index of A3: indexer.c reads the files of a directory one      *)
(* after the other and counts their words in the list of freq_list.c, then *)
(* writes the list and the file names to two files.  It may be stopped at  *)
(* any time, and run again, for the same directory or for another one.     *)
(* A reader, a worker of query, counts the names, then loads both files    *)
(* with read_list, whatever the indexer is doing meanwhile, and looks      *)
(* words up with get_word of worker.c.                                     *)
(*                                                                         *)
(* Words are numbered in the order of strcmp.  A node keeps MAXWORD - 1    *)
(* characters: Cut gives the word that is left of a word, itself if it is  *)
(* short enough.  A proper prefix sorts before what it was cut from.       *)
(***************************************************************************)
EXTENDS Integers, Sequences, FiniteSets, SequencesExt, FiniteSetsExt

CONSTANTS
    MAXFILES,   \* the length of freq in a node and of the filenames array
    Files,      \* all files, by the names that are recorded for them
    Directories,\* the files of each directory the indexer is run for
    Dotted,     \* files with a name that begins with "./": those of "." or "./x"
    NumWords,   \* words are 1 .. NumWords
    Cut,        \* what create_node keeps of a word
    MaxTokens   \* per run of the indexer, bound on the words in all files together

Words == 1 .. NumWords

ASSUME IndexAssumption ==
    /\ MAXFILES \in Nat \ {0} /\ IsFiniteSet(Files)
    /\ Directories \subseteq SUBSET Files /\ Dotted \subseteq Files
    /\ MaxTokens \in Seq(Nat) /\ MaxTokens # << >>
    /\ NumWords \in Nat /\ Cut \in [Words -> Words]
    /\ \A w \in Words : Cut[w] <= w /\ Cut[Cut[w]] = Cut[w]
    /\ \A v, w \in Words : v <= w => Cut[v] <= Cut[w]

VARIABLES
    run,        \* how often the indexer has been started
    phase,      \* "indexing", "listing", "naming", and "ended", well or not
    open,       \* the file being read; empty before the first
    todo,       \* files readdir has not returned yet
    head,       \* the linked list: the sequence of its nodes
    filenames,  \* the names recorded so far, at their file numbers
    disk,       \* listfile and namefile, and whether they have been made
    reader,     \* the names counted, what was loaded; the run all of it is of, or 0
    seen,       \* (history) occurrences of each word in each file, in this run
    whole       \* (history) the run whose complete result is on disk, or 0

memory == <<open, todo, head, filenames, seen>>
vars == <<run, phase, memory, disk, reader, whole>>

MaxRuns == Len(MaxTokens)
MostTokens == Max(Range(MaxTokens))
Node == [word : Words, freq : [1 .. MAXFILES -> 0 .. MostTokens]]
Counts == [Words \X Files -> 0 .. MostTokens]
None == [occurrence \in Words \X Files |-> 0]
Tokens == SumFunctionOnSet(seen, Words \X Files)

TypeOK ==
    /\ run \in 1 .. MaxRuns /\ phase \in {"indexing", "listing", "naming", "ended"}
    /\ open \subseteq Files /\ todo \subseteq Files
    /\ head \in Seq(Node) /\ disk.list \in Seq(Node) /\ reader.list \in Seq(Node)
    /\ \A names \in {filenames, disk.names, reader.names} :
          names \in Seq(Files) /\ Len(names) <= MAXFILES
    /\ disk.made \subseteq {"list", "names"}
    /\ reader.at \in {"start", "counted", "list", "loaded", "refused", "overrun"}
    /\ reader.count \in 0 .. MAXFILES /\ reader.run \in 0 .. MaxRuns
    /\ seen \in Counts /\ whole \in [run : 0 .. MaxRuns, seen : Counts]

Unread == [at |-> "start", count |-> 0, list |-> << >>, names |-> << >>, run |-> 0]

Init ==
    /\ run = 1 /\ phase = "indexing" /\ open = {} /\ todo \in Directories
    /\ head = << >> /\ filenames = << >> /\ seen = None
    /\ disk = [list |-> << >>, names |-> << >>, made |-> {}]
    /\ reader = Unread /\ whole = [run |-> 0, seen |-> None]

-----------------------------------------------------------------------------
(* indexer.c *)

\* readdir returns the files in no particular order, each once.
NextFile ==
    /\ phase = "indexing" /\ todo # {}
    /\ \E f \in todo : open' = {f} /\ todo' = todo \ {f}
    /\ UNCHANGED <<run, phase, head, filenames, seen, disk, reader, whole>>

\* get_filenum: the names array with f in it, when there is room for f.
Known(f) == \E i \in DOMAIN filenames : filenames[i] = f
Recorded(f) == IF Known(f) THEN filenames ELSE Append(filenames, f)
get_filenum(f) == CHOOSE i \in DOMAIN Recorded(f) : Recorded(f)[i] = f

\* (faulty variants) the first occurrence is not counted; the counts of other files
\* are left as malloc returns them.
create_empty(w, n) == [word |-> Cut[w], freq |-> [i \in 1 .. MAXFILES |-> 0]]
create_unset(w, n) ==
    [word |-> Cut[w], freq |-> [i \in 1 .. MAXFILES |-> IF i = n THEN 1 ELSE MostTokens + 1]]

create_node(w, n) ==
    [word |-> Cut[w], freq |-> [i \in 1 .. MAXFILES |-> IF i = n THEN 1 ELSE 0]]

\* (faulty variants) new words go to the end; a node with the word is passed over.
PlaceLast(w) == Len(head) + 1
PlaceBehind(w) == Min({i \in DOMAIN head : head[i].word > w} \cup {Len(head) + 1})

\* The first node that does not sort before w, or the position after the last.
Place(w) == Min({i \in DOMAIN head : head[i].word >= w} \cup {Len(head) + 1})

HasRoom(f) == Known(f) \/ Len(filenames) < MAXFILES

\* add_word: the word is compared in full with what the nodes kept.
add_word(w, f) ==
    /\ HasRoom(f)
    /\ filenames' = Recorded(f)
    /\ head' = IF Place(w) \in DOMAIN head /\ head[Place(w)].word = w
                 THEN [head EXCEPT ![Place(w)].freq[get_filenum(f)] = @ + 1]
                 ELSE InsertAt(head, Place(w), create_node(w, get_filenum(f)))
    /\ seen' = [seen EXCEPT ![<<w, f>>] = @ + 1]
    /\ UNCHANGED <<run, phase, open, todo, disk, reader, whole>>

\* The process is gone, and its memory.
Ended ==
    /\ phase' = "ended" /\ open' = {} /\ todo' = {}
    /\ head' = << >> /\ filenames' = << >> /\ seen' = None
    /\ UNCHANGED <<run, reader>>

\* One word of the open file; the array of names may be full.
index_file ==
    /\ phase = "indexing"
    /\ \E f \in open, w \in Words :
        \/ Tokens < MaxTokens[run] /\ add_word(w, f)
        \/ ~HasRoom(f) /\ Ended /\ UNCHANGED <<disk, whole>>

\* write_list, one node or one name at a time; each file is made or emptied first.
\* When fclose cannot write what is left, the code reports that and goes on.
write_list ==
    \/ /\ phase = "indexing" /\ todo = {} /\ phase' = "listing"
       /\ disk' = [disk EXCEPT !.list = << >>, !.made = @ \cup {"list"}]
       /\ whole' = [run |-> 0, seen |-> None]
       /\ UNCHANGED <<run, memory, reader>>
    \/ /\ phase = "listing" /\ Len(disk.list) < Len(head)
       /\ disk' = [disk EXCEPT !.list = Append(@, head[Len(@) + 1])]
       /\ UNCHANGED <<run, phase, memory, reader, whole>>
    \/ /\ phase = "listing" /\ phase' = "naming"
       /\ disk' = [disk EXCEPT !.names = << >>, !.made = @ \cup {"names"}]
       /\ UNCHANGED <<run, memory, reader, whole>>
    \/ /\ phase = "naming" /\ Len(disk.names) < Len(filenames)
       /\ disk' = [disk EXCEPT !.names = Append(@, filenames[Len(@) + 1])]
       /\ UNCHANGED <<run, phase, memory, reader, whole>>
    \/ /\ phase = "naming" /\ Len(disk.names) = Len(filenames)
       /\ whole' = IF disk.list = head THEN [run |-> run, seen |-> seen] ELSE whole
       /\ Ended /\ UNCHANGED disk

\* The indexer is stopped, or exits because it cannot write, or ends and has not
\* written all names.
Stop == phase # "ended" /\ Ended /\ UNCHANGED <<disk, whole>>

\* A new run, when the files may say something else.
Rerun ==
    /\ phase = "ended" /\ run < MaxRuns
    /\ run' = run + 1 /\ phase' = "indexing" /\ todo' \in Directories
    /\ UNCHANGED <<open, head, filenames, seen, disk, reader, whole>>

-----------------------------------------------------------------------------
(* A reader *)

\* run_worker counts the names and makes its array as long, before it calls read_list.
count_names ==
    /\ reader.at = "start"
    /\ reader' = IF "names" \in disk.made
                    THEN [Unread EXCEPT !.at = "counted", !.count = Len(disk.names),
                                        !.run = whole.run]
                    ELSE [Unread EXCEPT !.at = "refused"]

\* What has been read is of one run if all of it is of the run that is on disk now.
SameRun == IF reader.run = whole.run THEN reader.run ELSE 0

\* read_list takes the nodes, then the names, and gives up as soon as it has read
\* MAXFILES names.  It does not know how long the array is: it writes behind an array
\* that is too short, and what happens then is not modelled.  The files are never
\* removed: the one that was counted is there.
read_nodes ==
    /\ reader.at = "counted"
    /\ reader' = IF "list" \in disk.made
                    THEN [reader EXCEPT !.at = "list", !.list = disk.list, !.run = SameRun]
                    ELSE [Unread EXCEPT !.at = "refused"]
read_names ==
    /\ reader.at = "list"
    /\ reader' = [reader EXCEPT
                    !.at = IF Len(disk.names) > reader.count THEN "overrun"
                           ELSE IF Len(disk.names) < MAXFILES THEN "loaded"
                           ELSE "refused",
                    !.names = disk.names,
                    !.run = SameRun]
read_list == (read_nodes \/ read_names) /\ UNCHANGED <<run, phase, memory, disk, whole>>

\* get_word, for a word the list has: the counts of the last node with this word.
NodesOf(w) == {i \in DOMAIN reader.list : reader.list[i].word = w}
get_word(w) == reader.list[Max(NodesOf(w))].freq

\* (faulty variant) a record is sent whatever the name.
AnyName(w) == {n \in 1 .. reader.count : get_word(w)[n] > 0}

\* run_worker sends the record of a file if it has a count and a name that begins
\* with "./".
Sent(w) == {n \in 1 .. reader.count : get_word(w)[n] > 0 /\ reader.names[n] \in Dotted}
SendRecords(w) == {<<reader.names[n], get_word(w)[n]>> : n \in Sent(w)}

\* A reader that has loaded an index, or has not, is not affected by what follows.
Next ==
    /\ reader.at \in {"start", "counted", "list"}
    /\ \/ NextFile \/ index_file \/ write_list \/ Stop \/ Rerun
       \/ count_names /\ UNCHANGED <<run, phase, memory, disk, whole>>
       \/ read_list

Spec == Init /\ [][Next]_vars

-----------------------------------------------------------------------------
(* Properties *)

\* The list stays in alphabetical order, also with words that were cut.
Sorted == \A i, j \in DOMAIN head : i < j => head[i].word <= head[j].word

\* Occurrences in f of all words that are cut to w.
Occurrences(w, f) ==
    SumFunctionOnSet(seen, {u \in Words : Cut[u] = w} \X {f})

\* No occurrence is lost or counted for another file: the nodes of a word
\* together hold, at the number of each file, its occurrences there.
CountedOnce ==
    \A w \in Words, f \in Files :
        LET n == get_filenum(f)
            column == [i \in DOMAIN head |->
                        IF Known(f) /\ head[i].word = w THEN head[i].freq[n] ELSE 0]
        IN  SumFunctionOnSet(column, DOMAIN head) = Occurrences(w, f)

\* Of whatever run all that a reader has read is, earlier runs and stopped ones having
\* left their files: what the reader sends for a word is what the files contained, if
\* no word was cut.  It is a record with the right count for each file with the word
\* and a name that begins with "./"; there is no record for any other file.
Lookup(w) == {<<f, whole.seen[<<w, f>>]>> : f \in {g \in Dotted : whole.seen[<<w, g>>] > 0}}
NothingCut == \A w \in Words, f \in Files : whole.seen[<<w, f>>] > 0 => Cut[w] = w
LookupsAreRight ==
    reader.at = "loaded" /\ reader.run # 0 /\ NothingCut =>
        \A w \in Words :
            /\ NodesOf(w) = {} => \A f \in Files : whole.seen[<<w, f>>] = 0
            /\ NodesOf(w) # {} => SendRecords(w) = Lookup(w)

\* (refuted by words that were cut) "If the word is in the list, ... should be
\* incremented.  If the word is not in the list, add it": no word has two nodes.
OneNodePerWord == \A i, j \in DOMAIN head : head[i].word = head[j].word => i = j

\* (refuted when every place for a name is used) what a run wrote completely can be
\* read back.
IndexIsReadable == ~(reader.at = "refused" /\ reader.run # 0)

\* (refuted by a run stopped between the two files, or read meanwhile) "An index
\* consists of the filenames file and the associated index file": a reader has the
\* name of every file a node has a count for.
CountsHaveNames ==
    reader.at = "loaded" =>
        \A i \in DOMAIN reader.list, n \in 1 .. MAXFILES :
            reader.list[i].freq[n] > 0 => n \in DOMAIN reader.names

\* (refuted by an indexer that runs between count_lines and read_list) "filenames must
\* point to an array of the correct size".
ArrayOfTheCorrectSize == reader.at # "overrun"
=============================================================================
