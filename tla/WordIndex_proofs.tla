-------------------------- MODULE WordIndex_proofs --------------------------
(***************************************************************************)
(* Proofs about the word index (WordIndex), for any number of files, words *)
(* and runs, and whatever create_node cuts.                                *)
(***************************************************************************)
EXTENDS WordIndex, SequenceTheorems, FiniteSetTheorems, WellFoundedInduction, TLAPS

-----------------------------------------------------------------------------
(* The inductive invariant.  What a node keeps of a word is not cut again:  *)
(* so a new node, which may be for a smaller word than the one it was put   *)
(* in place for, does not sort before the nodes in front of it.             *)

\* The types, with no bound on the counts: that needs what is said of them below.
Entry == [word : Words, freq : [1 .. MAXFILES -> Nat]]
Names == {names \in Seq(Files) : Len(names) <= MAXFILES}
Seen == [Words \X Files -> Nat]

MemoryTypes ==
    /\ phase \in {"indexing", "listing", "naming", "ended"}
    /\ open \subseteq Files /\ todo \subseteq Files
    /\ head \in Seq(Entry) /\ filenames \in Names /\ seen \in Seen

DiskTypes ==
    /\ run \in 1 .. MaxRuns /\ whole \in [run : 0 .. MaxRuns, seen : Seen]
    /\ disk \in [list : Seq(Entry), names : Names, made : SUBSET {"list", "names"}]

Stages == {"start", "counted", "list", "loaded", "refused", "overrun"}
ReaderTypes ==
    reader \in [at : Stages, count : 0 .. MAXFILES, list : Seq(Entry),
                names : Names, run : 0 .. MaxRuns]

KeptUncut == \A i \in DOMAIN head : Cut[head[i].word] = head[i].word

IInv == MemoryTypes /\ DiskTypes /\ ReaderTypes /\ KeptUncut /\ Sorted

-----------------------------------------------------------------------------
(* Smallest numbers, and insertion into a sequence. *)

Less == {p \in Nat \X Nat : p[1] < p[2]}

\* A set of natural numbers has a smallest one, which Min returns.
LEMMA MinNat ==
    ASSUME NEW S \in SUBSET Nat, S # {}
    PROVE  Min(S) \in S /\ \A y \in S : Min(S) <= y
<1>1. Less = OpToRel(<, Nat)
  BY Zenon DEF OpToRel, Less
<1>2. PICK x \in S : \A y \in S : ~(<<y, x>> \in Less)
  BY NatLessThanWellFounded, WFMin, <1>1
<1>3. ASSUME NEW y \in S PROVE x <= y
  <2>1. x \in Nat /\ y \in Nat /\ <<y, x>> \notin Less
    BY <1>2
  <2>2. ~(y < x)
    BY <2>1, Zenon DEF Less
  <2> QED
    BY <2>1, <2>2
<1> QED
  BY <1>3 DEF Min

\* The new element is at its place, those before stay, those behind move by one.
LEMMA InsertAtProperties ==
    ASSUME NEW S, NEW s \in Seq(S), NEW e \in S, NEW i \in 1 .. Len(s) + 1
    PROVE  /\ InsertAt(s, i, e) \in Seq(S)
           /\ Len(InsertAt(s, i, e)) = Len(s) + 1
           /\ \A j \in 1 .. Len(s) + 1 :
                 InsertAt(s, i, e)[j] =
                    IF j < i THEN s[j] ELSE IF j = i THEN e ELSE s[j - 1]
<1> DEFINE front == SubSeq(s, 1, i - 1)
           back == SubSeq(s, i, Len(s))
<1>0. Len(s) \in Nat
  BY LenProperties
<1>1. /\ front \in Seq(S) /\ Len(front) = i - 1
      /\ \A j \in 1 .. i - 1 : front[j] = s[j]
  <2>1. CASE i = 1
    BY <2>1, SubSeqEmpty, EmptySeq, LenProperties
  <2>2. CASE i # 1
    BY <2>2, SubSeqProperties, LenProperties
  <2> QED
    BY <2>1, <2>2
<1>2. /\ back \in Seq(S) /\ Len(back) = Len(s) - i + 1
      /\ \A j \in 1 .. Len(s) - i + 1 : back[j] = s[i + j - 1]
  <2>1. CASE i = Len(s) + 1
    BY <2>1, SubSeqEmpty, EmptySeq, LenProperties
  <2>2. CASE i # Len(s) + 1
    BY <2>2, SubSeqProperties, LenProperties
  <2> QED
    BY <2>1, <2>2
<1>3. InsertAt(s, i, e) = (front \o <<e>>) \o back
  BY DEF InsertAt
<1>4. <<e>> \in Seq(S) /\ Len(<<e>>) = 1 /\ <<e>>[1] = e
  OBVIOUS
<1> HIDE DEF front, back
<1>5. PICK f : f = front \o <<e>>
  OBVIOUS
<1>6. f \in Seq(S) /\ Len(f) = i /\ f[i] = e /\ \A j \in 1 .. i - 1 : f[j] = s[j]
  BY <1>0, <1>1, <1>4, <1>5, ConcatProperties
<1>7. /\ f \o back \in Seq(S)
      /\ Len(f \o back) = Len(f) + Len(back)
      /\ \A j \in 1 .. Len(f) + Len(back) :
            (f \o back)[j] = IF j <= Len(f) THEN f[j] ELSE back[j - Len(f)]
  BY <1>2, <1>6, ConcatProperties
<1>8. ASSUME NEW j \in 1 .. Len(s) + 1
      PROVE  (f \o back)[j] = IF j < i THEN s[j] ELSE IF j = i THEN e ELSE s[j - 1]
  <2>1. CASE j <= i
    BY <2>1, <1>0, <1>2, <1>6, <1>7
  <2>2. CASE ~(j <= i)
    <3>1. j - i \in 1 .. Len(s) - i + 1 /\ i + (j - i) - 1 = j - 1
      BY <2>2, <1>0
    <3>2. (f \o back)[j] = back[j - i]
      BY <2>2, <1>0, <1>2, <1>6, <1>7
    <3>3. back[j - i] = s[i + (j - i) - 1]
      BY <3>1, <1>2
    <3> QED
      BY <3>1, <3>2, <3>3, <2>2, <1>0
  <2> QED
    BY <2>1, <2>2
<1>9. InsertAt(s, i, e) = f \o back /\ Len(f \o back) = Len(s) + 1
  BY <1>0, <1>2, <1>3, <1>5, <1>6, <1>7
<1> QED
  BY <1>7, <1>8, <1>9

IsInserted(t, s, i, e) ==
    /\ DOMAIN s = 1 .. Len(s) /\ DOMAIN t = 1 .. Len(s) + 1 /\ t[i] = e
    /\ \A j \in 1 .. Len(s) + 1 : j < i => j \in 1 .. Len(s) /\ t[j] = s[j]
    /\ \A j \in 1 .. Len(s) + 1 : i < j => j - 1 \in 1 .. Len(s) /\ t[j] = s[j - 1]

LEMMA WithInserted ==
    ASSUME NEW S, NEW s \in Seq(S), NEW e \in S, NEW i \in 1 .. Len(s) + 1
    PROVE  IsInserted(InsertAt(s, i, e), s, i, e)
<1>1. PICK t : t = InsertAt(s, i, e)
  OBVIOUS
<1>2. /\ t \in Seq(S) /\ Len(t) = Len(s) + 1
      /\ \A j \in 1 .. Len(s) + 1 :
            t[j] = IF j < i THEN s[j] ELSE IF j = i THEN e ELSE s[j - 1]
  <2>1. /\ InsertAt(s, i, e) \in Seq(S) /\ Len(InsertAt(s, i, e)) = Len(s) + 1
        /\ \A j \in 1 .. Len(s) + 1 :
              InsertAt(s, i, e)[j] = IF j < i THEN s[j] ELSE IF j = i THEN e ELSE s[j - 1]
    BY InsertAtProperties
  <2> QED
    BY <1>1, <2>1, Zenon
<1>3. PICK k \in Nat : k = Len(s)
  BY LenProperties
<1>4. DOMAIN s = 1 .. Len(s) /\ DOMAIN t = 1 .. Len(s) + 1
  BY <1>2, LenProperties
<1>5. t[i] = e
  BY <1>2, <1>3
<1>6. ASSUME NEW j \in 1 .. Len(s) + 1, j < i PROVE j \in 1 .. Len(s) /\ t[j] = s[j]
  BY <1>2, <1>3, <1>6
<1>7. ASSUME NEW j \in 1 .. Len(s) + 1, i < j PROVE j - 1 \in 1 .. Len(s) /\ t[j] = s[j - 1]
  BY <1>2, <1>3, <1>7
<1>8. IsInserted(t, s, i, e)
  BY <1>4, <1>5, <1>6, <1>7 DEF IsInserted
<1> QED
  BY <1>1, <1>8

-----------------------------------------------------------------------------
(* Places in the list, and numbers of files. *)

\* The list is a sequence of nodes with words in order; a word has its place.
LEMMA HeadTypes ==
    ASSUME MemoryTypes
    PROVE  /\ Len(head) \in Nat /\ DOMAIN head = 1 .. Len(head)
           /\ \A i \in DOMAIN head : head[i].word \in Nat /\ head[i] \in Entry
<1>1. head \in Seq(Entry)
  BY DEF MemoryTypes
<1>2. Len(head) \in Nat /\ DOMAIN head = 1 .. Len(head)
  BY <1>1, LenProperties
<1>3. \A i \in DOMAIN head : head[i] \in Entry
  BY <1>1, <1>2, ElementOfSeq
<1>4. Words \subseteq Nat
  BY IndexAssumption DEF Words
<1> QED
  BY <1>2, <1>3, <1>4 DEF Entry

\* All nodes before the place of a word sort before it, and none behind does
\* when the list is in order.
LEMMA PlaceProperties ==
    ASSUME MemoryTypes, NEW w \in Words
    PROVE  /\ Place(w) \in 1 .. Len(head) + 1
           /\ \A i \in DOMAIN head : i < Place(w) => head[i].word < w
           /\ Place(w) \in DOMAIN head => head[Place(w)].word >= w
<1> DEFINE later == {i \in DOMAIN head : head[i].word >= w}
           S == later \cup {Len(head) + 1}
<1>1. /\ Len(head) \in Nat /\ DOMAIN head = 1 .. Len(head)
      /\ \A i \in DOMAIN head : head[i].word \in Nat
  BY HeadTypes
<1>2. S \in SUBSET Nat /\ S # {} /\ S \subseteq 1 .. Len(head) + 1
  BY <1>1
<1>3. w \in Nat
  BY IndexAssumption DEF Words
<1>4. PICK p : p = Place(w)
  OBVIOUS
<1>5. p = Min(S)
  BY <1>4 DEF Place
<1>6. p \in S /\ \A y \in S : p <= y
  BY <1>2, <1>5, MinNat
<1>7. p \in 1 .. Len(head) + 1
  BY <1>2, <1>6
<1>8. ASSUME NEW i \in DOMAIN head, i < p PROVE head[i].word < w
  <2>1. i \in Nat /\ ~(p <= i)
    BY <1>1, <1>7, <1>8
  <2>2. ~(head[i].word >= w)
    BY <2>1, <1>6
  <2> QED
    BY <2>2, <1>1, <1>3
<1>9. ASSUME p \in DOMAIN head PROVE head[p].word >= w
  BY <1>1, <1>6, <1>9
<1> QED
  BY <1>4, <1>7, <1>8, <1>9

\* With room for f, it is recorded, and has a number a node has a count for.
LEMMA RecordedTypes ==
    ASSUME MemoryTypes, NEW f \in Files, HasRoom(f)
    PROVE  Recorded(f) \in Names /\ get_filenum(f) \in 1 .. MAXFILES
<1>0. filenames \in Seq(Files) /\ Len(filenames) <= MAXFILES /\ Len(filenames) \in Nat
  BY LenProperties DEF MemoryTypes, Names
<1>1. MAXFILES \in Nat
  BY IndexAssumption
<1>2. /\ Recorded(f) \in Seq(Files) /\ Len(Recorded(f)) <= MAXFILES
      /\ \E i \in 1 .. Len(Recorded(f)) : Recorded(f)[i] = f
  <2>1. CASE Known(f)
    <3>1. Recorded(f) = filenames
      BY <2>1 DEF Recorded
    <3>2. DOMAIN filenames = 1 .. Len(filenames)
      BY <1>0, LenProperties
    <3> QED
      BY <1>0, <2>1, <3>1, <3>2 DEF Known
  <2>2. CASE ~Known(f)
    <3>1. Recorded(f) = Append(filenames, f) /\ Len(filenames) < MAXFILES
      BY <2>2 DEF Recorded, HasRoom
    <3>2. /\ Append(filenames, f) \in Seq(Files)
          /\ Len(Append(filenames, f)) = Len(filenames) + 1
          /\ Append(filenames, f)[Len(filenames) + 1] = f
      BY <1>0, AppendProperties
    <3> QED
      BY <1>0, <1>1, <3>1, <3>2
  <2> QED
    BY <2>1, <2>2
<1>3. DOMAIN Recorded(f) = 1 .. Len(Recorded(f)) /\ Len(Recorded(f)) \in Nat
  BY <1>2, LenProperties
<1>4. get_filenum(f) \in DOMAIN Recorded(f)
  BY <1>2, <1>3 DEF get_filenum
<1> QED
  BY <1>1, <1>2, <1>3, <1>4 DEF Names

-----------------------------------------------------------------------------
(* Every step keeps the invariant. *)

\* An occurrence of a word the list has: one count goes up, the words stay.
LEMMA CountedInPlace ==
    ASSUME IInv, NEW w \in Words, NEW p \in DOMAIN head, NEW n \in 1 .. MAXFILES,
           head' = [head EXCEPT ![p].freq[n] = @ + 1]
    PROVE  head' \in Seq(Entry) /\ KeptUncut' /\ Sorted'
<1>1. /\ Len(head) \in Nat /\ DOMAIN head = 1 .. Len(head) /\ head \in Seq(Entry)
      /\ \A i \in DOMAIN head : head[i] \in Entry
  BY HeadTypes DEF IInv, MemoryTypes
<1> DEFINE e == [head[p] EXCEPT !.freq[n] = @ + 1]
<1>2. e \in Entry /\ e.word = head[p].word
  <2>1. head[p] \in [word : Words, freq : [1 .. MAXFILES -> Nat]]
    BY <1>1 DEF Entry
  <2>2. PICK freq \in [1 .. MAXFILES -> Nat] : freq = head[p].freq
    BY <2>1
  <2>3. [freq EXCEPT ![n] = @ + 1] \in [1 .. MAXFILES -> Nat]
    OBVIOUS
  <2>4. e = [head[p] EXCEPT !.freq = [freq EXCEPT ![n] = @ + 1]]
    BY <2>2
  <2> HIDE DEF e
  <2> QED
    BY <2>1, <2>3, <2>4 DEF Entry
<1>3. head' = [head EXCEPT ![p] = e]
  OBVIOUS
<1> HIDE DEF e
<1>4. head' \in Seq(Entry)
  BY <1>1, <1>2, <1>3, ExceptSeq
<1>5. DOMAIN head' = DOMAIN head /\ \A i \in DOMAIN head : head'[i].word = head[i].word
  BY <1>1, <1>2, <1>3
<1> QED
  BY <1>4, <1>5 DEF IInv, KeptUncut, Sorted

\* An occurrence of a word the list does not have: a node with what is kept of it
\* goes to its place.  Those before have a word v < w that was not cut, and
\* v = Cut[v] <= Cut[w], the new word; those behind have one that is not before w.
LEMMA NewNodeInPlace ==
    ASSUME IInv, NEW w \in Words, NEW n \in 1 .. MAXFILES,
           head' = InsertAt(head, Place(w), create_node(w, n))
    PROVE  head' \in Seq(Entry) /\ KeptUncut' /\ Sorted'
<1>1. /\ Len(head) \in Nat /\ DOMAIN head = 1 .. Len(head) /\ head \in Seq(Entry)
      /\ \A i \in DOMAIN head : head[i].word \in Words /\ head[i].word \in Nat
  BY HeadTypes DEF IInv, MemoryTypes, Entry
<1>2. PICK p : p = Place(w)
  OBVIOUS
<1>3. PICK e : e = create_node(w, n)
  OBVIOUS
<1>4. /\ w \in Nat /\ Cut[w] \in Words /\ Cut[w] \in Nat
      /\ Cut[w] <= w /\ Cut[Cut[w]] = Cut[w]
  BY IndexAssumption DEF Words
<1>5. e \in Entry /\ e.word = Cut[w]
  BY <1>3, <1>4 DEF create_node, Entry
<1>6. /\ p \in 1 .. Len(head) + 1
      /\ \A i \in DOMAIN head : i < p => head[i].word < w
      /\ p \in DOMAIN head => head[p].word >= w
  BY <1>2, PlaceProperties DEF IInv
<1>7. /\ head' \in Seq(Entry) /\ Len(head') = Len(head) + 1
      /\ \A j \in 1 .. Len(head) + 1 :
            head'[j] = IF j < p THEN head[j] ELSE IF j = p THEN e ELSE head[j - 1]
  <2>1. head' = InsertAt(head, p, e)
    BY <1>2, <1>3
  <2> e \in Entry /\ head \in Seq(Entry) /\ p \in 1 .. Len(head) + 1
    BY <1>1, <1>5, <1>6
  <2>2. /\ InsertAt(head, p, e) \in Seq(Entry)
        /\ Len(InsertAt(head, p, e)) = Len(head) + 1
        /\ \A j \in 1 .. Len(head) + 1 :
              InsertAt(head, p, e)[j] =
                 IF j < p THEN head[j] ELSE IF j = p THEN e ELSE head[j - 1]
    BY InsertAtProperties
  <2> QED
    BY Zenon, <2>1, <2>2
<1>8. DOMAIN head' = 1 .. Len(head) + 1
  BY <1>7, LenProperties
<1>9. /\ \A j \in 1 .. Len(head) + 1 : j < p => j \in DOMAIN head /\ head'[j] = head[j]
      /\ head'[p] = e
      /\ \A j \in 1 .. Len(head) + 1 :
            p < j => j - 1 \in DOMAIN head /\ p <= j - 1 /\ head'[j] = head[j - 1]
  BY <1>1, <1>6, <1>7
<1>10. ASSUME NEW i \in DOMAIN head, i < p PROVE head[i].word <= Cut[w]
  <2>1. head[i].word \in Words /\ head[i].word \in Nat /\ head[i].word < w
    BY <1>1, <1>6, <1>10
  <2>2. Cut[head[i].word] <= Cut[w]
    BY <1>4, <2>1, IndexAssumption
  <2> QED
    BY <2>2 DEF IInv, KeptUncut
<1>11. ASSUME NEW i \in DOMAIN head, p <= i PROVE Cut[w] <= head[i].word
  <2>1. p \in DOMAIN head /\ head[p].word \in Nat /\ head[p].word >= w
    BY <1>1, <1>6, <1>11
  <2>2. head[p].word <= head[i].word
    BY <2>1, <1>1, <1>11 DEF IInv, Sorted
  <2> QED
    BY <2>1, <2>2, <1>1, <1>4
<1>12. KeptUncut'
  <2>1. ASSUME NEW j \in DOMAIN head' PROVE Cut[head'[j].word] = head'[j].word
    <3>1. CASE j < p
      BY <3>1, <2>1, <1>8, <1>9 DEF IInv, KeptUncut
    <3>2. CASE j = p
      BY <3>2, <1>4, <1>5, <1>9
    <3>3. CASE p < j
      BY <3>3, <2>1, <1>8, <1>9 DEF IInv, KeptUncut
    <3> QED
      BY <3>1, <3>2, <3>3, <1>6, <1>8
  <2> QED
    BY <2>1 DEF KeptUncut
<1>13. Sorted'
  <2>1. ASSUME NEW i \in DOMAIN head', NEW j \in DOMAIN head', i < j
        PROVE  head'[i].word <= head'[j].word
    <3>1. i \in 1 .. Len(head) + 1 /\ j \in 1 .. Len(head) + 1
      BY <1>8
    <3>2. CASE j < p
      <4>1. i \in DOMAIN head /\ j \in DOMAIN head /\ head'[i] = head[i] /\ head'[j] = head[j]
        BY <3>1, <3>2, <2>1, <1>6, <1>9
      <4> QED
        BY <4>1, <2>1 DEF IInv, Sorted
    <3>3. CASE j = p
      <4>1. i < p /\ i \in DOMAIN head /\ head'[i] = head[i]
        BY <3>1, <3>3, <2>1, <1>9
      <4> QED
        BY <4>1, <3>3, <1>5, <1>9, <1>10
    <3>4. CASE p < j /\ i < p
      <4>1. /\ i \in DOMAIN head /\ head'[i] = head[i]
            /\ j - 1 \in DOMAIN head /\ p <= j - 1 /\ head'[j] = head[j - 1]
        BY <3>1, <3>4, <1>9
      <4>2. head[i].word <= Cut[w] /\ Cut[w] <= head[j - 1].word
        BY <4>1, <3>4, <1>10, <1>11
      <4> QED
        BY <4>1, <4>2, <1>1, <1>4
    <3>5. CASE p < j /\ i = p
      BY <3>1, <3>5, <1>5, <1>9, <1>11
    <3>6. CASE p < i
      <4>1. /\ i - 1 \in DOMAIN head /\ head'[i] = head[i - 1]
            /\ j - 1 \in DOMAIN head /\ head'[j] = head[j - 1] /\ i - 1 < j - 1
        BY <3>1, <3>6, <2>1, <1>6, <1>9
      <4> QED
        BY <4>1 DEF IInv, Sorted
    <3> QED
      BY <3>1, <3>2, <3>3, <3>4, <3>5, <3>6, <2>1, <1>6
  <2> QED
    BY <2>1 DEF Sorted
<1> QED
  BY <1>7, <1>12, <1>13

\* A word is counted, in its node or in a new one.
LEMMA AddWordKeepsIInv ==
    ASSUME IInv, NEW w \in Words, NEW f \in Files, add_word(w, f)
    PROVE  IInv'
<1>1. PICK n \in 1 .. MAXFILES : n = get_filenum(f)
  BY RecordedTypes DEF IInv, add_word
<1>2. filenames' \in Names
  BY RecordedTypes DEF IInv, add_word
<1>3. head' \in Seq(Entry) /\ KeptUncut' /\ Sorted'
  <2>1. CASE Place(w) \in DOMAIN head /\ head[Place(w)].word = w
    <3>1. head' = [head EXCEPT ![Place(w)].freq[n] = @ + 1]
      BY <1>1, <2>1 DEF add_word
    <3> QED
      BY <2>1, <3>1, CountedInPlace
  <2>2. CASE ~(Place(w) \in DOMAIN head /\ head[Place(w)].word = w)
    <3>1. head' = InsertAt(head, Place(w), create_node(w, n))
      BY <1>1, <2>2 DEF add_word
    <3> QED
      BY <3>1, NewNodeInPlace
  <2> QED
    BY <2>1, <2>2
<1>4. seen' \in Seen
  <2>1. seen \in [Words \X Files -> Nat] /\ <<w, f>> \in Words \X Files
    BY DEF IInv, MemoryTypes, Seen
  <2>2. seen' = [seen EXCEPT ![<<w, f>>] = @ + 1]
    BY DEF add_word
  <2> QED
    BY <2>1, <2>2 DEF Seen
<1>5. MemoryTypes'
  BY <1>2, <1>3, <1>4 DEF IInv, MemoryTypes, add_word
<1>6. DiskTypes' /\ ReaderTypes'
  BY DEF IInv, DiskTypes, ReaderTypes, MaxRuns, add_word
<1> QED
  BY <1>3, <1>5, <1>6 DEF IInv

\* An empty memory, as before the first file, and at the end of a run.
LEMMA EmptyMemory ==
    /\ << >> \in Seq(Entry) /\ << >> \in Names /\ None \in Seen /\ 0 \in 0 .. MAXFILES
    /\ 0 \in 0 .. MaxRuns /\ MaxRuns \in Nat \ {0}
<1>1. MAXFILES \in Nat
  BY IndexAssumption
<1>2. Len(MaxTokens) \in Nat \ {0}
  BY IndexAssumption, EmptySeq, LenProperties
<1> QED
  BY <1>1, <1>2, EmptySeq DEF Names, None, Seen, MaxRuns

\* When the process is gone, what is left is on disk and with the reader.
LEMMA EndKeepsIInv ==
    ASSUME IInv, Ended, DiskTypes'
    PROVE  IInv'
<1>1. head' = << >>
  BY DEF Ended
<1>2. MemoryTypes'
  BY EmptyMemory DEF IInv, MemoryTypes, Ended
<1>3. ReaderTypes'
  BY DEF IInv, ReaderTypes, MaxRuns, Ended
<1>4. KeptUncut' /\ Sorted'
  BY <1>1 DEF KeptUncut, Sorted
<1> QED
  BY <1>2, <1>3, <1>4 DEF IInv

\* A step of write_list, or the end of the run.
LEMMA WriteKeepsIInv ==
    ASSUME IInv, write_list
    PROVE  IInv'
<1>1. CASE /\ UNCHANGED <<run, memory, reader>> /\ DiskTypes'
           /\ phase' \in {"indexing", "listing", "naming", "ended"}
  BY <1>1 DEF IInv, MemoryTypes, ReaderTypes, MaxRuns, KeptUncut, Sorted, memory
<1>2. /\ disk.list \in Seq(Entry) /\ disk.names \in Names
      /\ disk \in [list : Seq(Entry), names : Names, made : SUBSET {"list", "names"}]
      /\ run \in 1 .. MaxRuns /\ whole \in [run : 0 .. MaxRuns, seen : Seen]
      /\ phase \in {"indexing", "listing", "naming", "ended"}
  BY DEF IInv, MemoryTypes, DiskTypes
<1>3. CASE /\ phase = "indexing" /\ todo = {} /\ phase' = "listing"
           /\ disk' = [disk EXCEPT !.list = << >>, !.made = @ \cup {"list"}]
           /\ whole' = [run |-> 0, seen |-> None]
           /\ UNCHANGED <<run, memory, reader>>
  BY <1>1, <1>2, <1>3, EmptyMemory DEF DiskTypes, MaxRuns
<1>4. CASE /\ phase = "listing" /\ Len(disk.list) < Len(head)
           /\ disk' = [disk EXCEPT !.list = Append(@, head[Len(@) + 1])]
           /\ UNCHANGED <<run, phase, memory, reader, whole>>
  <2>1. Len(disk.list) + 1 \in DOMAIN head
    BY <1>2, <1>4, LenProperties DEF IInv, MemoryTypes
  <2>2. head[Len(disk.list) + 1] \in Entry
    BY <2>1, HeadTypes DEF IInv
  <2>3. Append(disk.list, head[Len(disk.list) + 1]) \in Seq(Entry)
    BY <1>2, <2>2, AppendProperties
  <2> QED
    BY <1>1, <1>2, <1>4, <2>3 DEF DiskTypes, MaxRuns
<1>5. CASE /\ phase = "listing" /\ phase' = "naming"
           /\ disk' = [disk EXCEPT !.names = << >>, !.made = @ \cup {"names"}]
           /\ UNCHANGED <<run, memory, reader, whole>>
  BY <1>1, <1>2, <1>5, EmptyMemory DEF DiskTypes, MaxRuns
<1>6. CASE /\ phase = "naming" /\ Len(disk.names) < Len(filenames)
           /\ disk' = [disk EXCEPT !.names = Append(@, filenames[Len(@) + 1])]
           /\ UNCHANGED <<run, phase, memory, reader, whole>>
  <2>1. /\ filenames \in Seq(Files) /\ Len(filenames) <= MAXFILES
        /\ disk.names \in Seq(Files) /\ MAXFILES \in Nat
    BY <1>2, IndexAssumption DEF IInv, MemoryTypes, Names
  <2>2. Len(disk.names) \in Nat /\ Len(filenames) \in Nat /\ DOMAIN filenames = 1 .. Len(filenames)
    BY <2>1, LenProperties
  <2>3. filenames[Len(disk.names) + 1] \in Files
    BY <1>6, <2>1, <2>2, ElementOfSeq
  <2>4. /\ Append(disk.names, filenames[Len(disk.names) + 1]) \in Seq(Files)
        /\ Len(Append(disk.names, filenames[Len(disk.names) + 1])) = Len(disk.names) + 1
    BY <2>1, <2>3, AppendProperties
  <2>5. Append(disk.names, filenames[Len(disk.names) + 1]) \in Names
    BY <1>6, <2>1, <2>2, <2>4 DEF Names
  <2> QED
    BY <1>1, <1>2, <1>6, <2>5 DEF DiskTypes, MaxRuns
<1>7. CASE /\ phase = "naming" /\ Len(disk.names) = Len(filenames)
           /\ whole' = IF disk.list = head THEN [run |-> run, seen |-> seen] ELSE whole
           /\ Ended /\ UNCHANGED disk
  <2>1. run \in 0 .. MaxRuns /\ seen \in Seen /\ run' = run
    BY <1>2, <1>7, EmptyMemory DEF IInv, MemoryTypes, Ended
  <2>2. DiskTypes'
    BY <1>2, <1>7, <2>1 DEF DiskTypes, MaxRuns
  <2> QED
    BY <1>7, <2>2, EndKeepsIInv
<1> QED
  BY <1>3, <1>4, <1>5, <1>6, <1>7 DEF write_list

\* The names are counted, or read_list reads one of the files.
Reads ==
    \/ count_names /\ UNCHANGED <<run, phase, memory, disk, whole>>
    \/ read_list

LEMMA ReadKeepsIInv ==
    ASSUME IInv, Reads
    PROVE  IInv'
<1>1. /\ disk.list \in Seq(Entry) /\ disk.names \in Names /\ whole.run \in 0 .. MaxRuns
      /\ 0 \in 0 .. MaxRuns /\ << >> \in Seq(Entry) /\ << >> \in Names
      /\ reader \in [at : Stages, count : 0 .. MAXFILES, list : Seq(Entry),
                     names : Names, run : 0 .. MaxRuns]
      /\ 0 \in 0 .. MAXFILES /\ SameRun \in 0 .. MaxRuns
  BY EmptyMemory DEF IInv, DiskTypes, ReaderTypes, SameRun
<1>2. Len(disk.names) \in 0 .. MAXFILES
  BY <1>1, IndexAssumption, LenProperties DEF Names
<1>3. Unread \in [at : Stages, count : 0 .. MAXFILES, list : Seq(Entry),
                  names : Names, run : 0 .. MaxRuns]
  BY <1>1 DEF Unread, Stages
<1>4. ReaderTypes'
  <2>1. CASE count_names
    BY <1>1, <1>2, <1>3, <2>1 DEF count_names, ReaderTypes, MaxRuns, Stages
  <2>2. CASE read_nodes
    BY <1>1, <1>3, <2>2 DEF read_nodes, ReaderTypes, MaxRuns, Stages
  <2>3. CASE read_names
    <3>1. PICK at \in Stages, r \in 0 .. MaxRuns :
              reader' = [reader EXCEPT !.at = at, !.names = disk.names, !.run = r]
      <4> DEFINE a == IF Len(disk.names) > reader.count THEN "overrun"
                        ELSE IF Len(disk.names) < MAXFILES THEN "loaded" ELSE "refused"
      <4>1. a \in Stages
        BY DEF Stages
      <4>2. reader' = [reader EXCEPT !.at = a, !.names = disk.names, !.run = SameRun]
        BY <2>3 DEF read_names
      <4> HIDE DEF a
      <4> QED
        BY <1>1, <4>1, <4>2
    <3> QED
      BY <1>1, <3>1 DEF ReaderTypes, MaxRuns
  <2> QED
    BY <2>1, <2>2, <2>3 DEF Reads, read_list
<1>5. UNCHANGED <<run, phase, memory, disk, whole>>
  BY DEF Reads, read_list
<1> QED
  BY <1>4, <1>5 DEF IInv, MemoryTypes, DiskTypes, MaxRuns, KeptUncut, Sorted, memory

LEMMA InitHasIInv == Init => IInv
<1> SUFFICES ASSUME Init PROVE IInv
  OBVIOUS
<1>1. MemoryTypes
  BY EmptyMemory, IndexAssumption DEF Init, MemoryTypes
<1>2. DiskTypes
  BY EmptyMemory DEF Init, DiskTypes
<1>3. ReaderTypes
  BY EmptyMemory DEF Init, ReaderTypes, Unread, Stages
<1>4. KeptUncut /\ Sorted
  BY DEF Init, KeptUncut, Sorted
<1> QED
  BY <1>1, <1>2, <1>3, <1>4 DEF IInv

LEMMA StepKeepsIInv == IInv /\ [Next]_vars => IInv'
<1> SUFFICES ASSUME IInv, [Next]_vars PROVE IInv'
  OBVIOUS
<1> USE DEF IInv
<1>1. CASE NextFile
  BY <1>1 DEF NextFile, MemoryTypes, DiskTypes, ReaderTypes, MaxRuns, KeptUncut, Sorted
<1>2. CASE index_file
  <2>1. PICK f \in open, w \in Words :
            \/ Tokens < MaxTokens[run] /\ add_word(w, f)
            \/ ~HasRoom(f) /\ Ended /\ UNCHANGED <<disk, whole>>
    BY <1>2 DEF index_file
  <2>2. CASE add_word(w, f)
    <3>1. f \in Files
      BY DEF MemoryTypes
    <3> QED
      BY <2>2, <3>1, AddWordKeepsIInv
  <2>3. CASE Ended /\ UNCHANGED <<disk, whole>>
    BY <2>3, EndKeepsIInv DEF DiskTypes, MaxRuns, Ended
  <2> QED
    BY <2>1, <2>2, <2>3
<1>3. CASE write_list
  BY <1>3, WriteKeepsIInv
<1>4. CASE Stop
  BY <1>4, EndKeepsIInv DEF Stop, DiskTypes, MaxRuns, Ended
<1>5. CASE Rerun
  <2>1. run' \in 1 .. MaxRuns
    BY <1>5, EmptyMemory DEF Rerun, DiskTypes
  <2>2. todo' \subseteq Files
    BY <1>5, IndexAssumption DEF Rerun
  <2> QED
    BY <1>5, <2>1, <2>2
       DEF Rerun, MemoryTypes, DiskTypes, ReaderTypes, MaxRuns, KeptUncut, Sorted
<1>6. CASE Reads
  BY <1>6, ReadKeepsIInv
<1>7. CASE UNCHANGED vars
  BY <1>7 DEF vars, memory, MemoryTypes, DiskTypes, ReaderTypes, MaxRuns, KeptUncut, Sorted
<1> QED
  BY <1>1, <1>2, <1>3, <1>4, <1>5, <1>6, <1>7 DEF Next, Reads

LEMMA InvariantHolds == Spec => []IInv
BY InitHasIInv, StepKeepsIInv, PTL DEF Spec

-----------------------------------------------------------------------------
(* Sums over sets.  SumFunctionOnSet adds the value of a chosen element to  *)
(* the sum over the others; no induction theorem can be used of it, so each *)
(* lemma looks at a smallest set for which it would fail.                   *)

\* What the recursion computes for all subsets of S at once.
Running(g, f, S) ==
    g = [s \in SUBSET S |->
            IF s = {} THEN 0
            ELSE f[CHOOSE x \in s : TRUE] + g[s \ {CHOOSE x \in s : TRUE}]]

\* Among sets of subsets, one of them has no other below it.
LEMMA SmallestSet ==
    ASSUME NEW S, IsFiniteSet(S), NEW B \in SUBSET (SUBSET S), B # {}
    PROVE  \E s \in B : \A t \in B : t \subseteq s => t = s
<1> DEFINE sizes == {Cardinality(s) : s \in B}
<1>1. \A s \in SUBSET S : IsFiniteSet(s) /\ Cardinality(s) \in Nat
  BY FS_Subset, FS_CardinalityType
<1>2. sizes \in SUBSET Nat /\ sizes # {}
  BY <1>1
<1>3. Min(sizes) \in sizes /\ \A y \in sizes : Min(sizes) <= y
  BY <1>2, MinNat
<1>4. PICK s \in B : Cardinality(s) = Min(sizes)
  BY <1>3
<1>5. ASSUME NEW t \in B, t \subseteq s PROVE t = s
  <2>1. Cardinality(s) <= Cardinality(t)
    BY <1>3, <1>4
  <2>2. Cardinality(t) <= Cardinality(s) /\ (Cardinality(s) = Cardinality(t) => s = t)
    BY <1>1, <1>5, FS_Subset
  <2> QED
    BY <1>1, <2>1, <2>2
<1> QED
  BY <1>5

\* There is such a function: for subsets with at most n elements, for every n.
LEMMA RunningExists ==
    ASSUME NEW S, IsFiniteSet(S), NEW f
    PROVE  \E g : Running(g, f, S)
<1> DEFINE Small(n) == {s \in SUBSET S : Cardinality(s) <= n}
           Upto(g, n) == g = [s \in Small(n) |->
                                IF s = {} THEN 0
                                ELSE f[CHOOSE x \in s : TRUE] + g[s \ {CHOOSE x \in s : TRUE}]]
           missing == {n \in Nat : \A g : ~Upto(g, n)}
<1>1. \A s \in SUBSET S : IsFiniteSet(s) /\ Cardinality(s) \in Nat
  BY FS_Subset, FS_CardinalityType
<1>2. missing = {}
  <2>1. SUFFICES ASSUME missing # {} PROVE FALSE
    OBVIOUS
  <2>2. PICK n \in missing : \A y \in missing : n <= y
    BY <2>1, MinNat
  <2>3. n # 0
    <3>1. \A s \in Small(0) : s = {}
      BY <1>1, FS_EmptySet
    <3> DEFINE g == [s \in Small(0) |-> 0]
    <3>2. Upto(g, 0)
      BY <3>1
    <3> QED
      BY <3>2
  <2>4. n - 1 \in Nat /\ n - 1 \notin missing
    <3>1. n \in Nat
      BY <2>2
    <3>2. n - 1 \in Nat /\ ~(n <= n - 1)
      BY <2>3, <3>1
    <3> HIDE DEF missing
    <3> QED
      BY <2>2, <3>2
  <2>5. PICK g : Upto(g, n - 1)
    BY <2>4
  <2> DEFINE h == [s \in Small(n) |->
                    IF s = {} THEN 0
                    ELSE f[CHOOSE x \in s : TRUE] + g[s \ {CHOOSE x \in s : TRUE}]]
  <2>6. ASSUME NEW s \in Small(n), s # {}
        PROVE  h[s \ {CHOOSE x \in s : TRUE}] = g[s \ {CHOOSE x \in s : TRUE}]
    <3>1. PICK c : c = CHOOSE x \in s : TRUE
      OBVIOUS
    <3>2. c \in s
      BY <2>6, <3>1
    <3>3. Cardinality(s \ {c}) = Cardinality(s) - 1
      BY <1>1, <3>2, FS_RemoveElement
    <3>4. s \ {c} \in Small(n - 1) /\ s \ {c} \in Small(n)
      BY <1>1, <2>4, <3>3
    <3> HIDE DEF Small
    <3>5. g[s \ {c}] = h[s \ {c}]
      BY <2>5, <3>4
    <3> QED
      BY <3>1, <3>5
  <2>7. Upto(h, n)
    <3>1. ASSUME NEW s \in Small(n)
          PROVE  h[s] = IF s = {} THEN 0
                        ELSE f[CHOOSE x \in s : TRUE] + h[s \ {CHOOSE x \in s : TRUE}]
      <4>1. h[s] = IF s = {} THEN 0
                   ELSE f[CHOOSE x \in s : TRUE] + g[s \ {CHOOSE x \in s : TRUE}]
        OBVIOUS
      <4> HIDE DEF h, Small
      <4> QED
        BY <2>6, <4>1
    <3>2. h = [s \in Small(n) |-> h[s]]
      OBVIOUS
    <3> HIDE DEF h, Small
    <3> QED
      BY <3>1, <3>2, Zenon
  <2> QED
    BY <2>2, <2>7
<1>3. Cardinality(S) \in Nat /\ Small(Cardinality(S)) = SUBSET S
  BY <1>1, FS_Subset
<1>4. PICK g : Upto(g, Cardinality(S))
  <2>1. Cardinality(S) \notin missing
    BY <1>2
  <2> HIDE DEF Upto
  <2> QED
    BY <1>3, <2>1
<1> QED
  BY <1>3, <1>4 DEF Running

LEMMA SumIsRunning ==
    ASSUME NEW S, IsFiniteSet(S), NEW f
    PROVE  \E g : Running(g, f, S) /\ SumFunctionOnSet(f, S) = g[S]
<1> DEFINE c == CHOOSE g : Running(g, f, S)
<1>1. Running(c, f, S)
  BY RunningExists
<1>2. SumFunctionOnSet(f, S) = c[S]
  BY Zenon DEF SumFunctionOnSet, FoldFunctionOnSet, MapThenFoldSet, Running
<1> QED
  BY <1>1, <1>2

\* Any element may be the first that is added, and sums are numbers.
LEMMA AnyElementFirst ==
    ASSUME NEW S, IsFiniteSet(S), NEW f, \A x \in S : f[x] \in Nat, NEW g, Running(g, f, S)
    PROVE  \A s \in SUBSET S :
              /\ g[s] \in Nat
              /\ \A x \in s : g[s] = f[x] + g[s \ {x}]
<1> DEFINE Good(s) == g[s] \in Nat /\ \A x \in s : g[s] = f[x] + g[s \ {x}]
           bad == {s \in SUBSET S : ~Good(s)}
<1>1. SUFFICES ASSUME bad # {} PROVE FALSE
  OBVIOUS
<1>2. PICK s \in bad : \A t \in bad : t \subseteq s => t = s
  <2>1. bad \in SUBSET (SUBSET S)
    OBVIOUS
  <2> HIDE DEF bad
  <2> QED
    BY <1>1, <2>1, SmallestSet
<1>3. ASSUME NEW t \in SUBSET S, t \subseteq s, t # s PROVE Good(t)
  BY <1>2, <1>3
<1>4. s # {}
  BY <1>2 DEF Running
<1>5. PICK c \in s : /\ c = CHOOSE x \in s : TRUE
                     /\ g[s] = f[c] + g[s \ {c}]
  BY <1>2, <1>4 DEF Running
<1>6. s \in SUBSET S /\ f[c] \in Nat
  BY <1>2
<1>7. Good(s \ {c})
  BY <1>3, <1>5, <1>6
<1>8. ASSUME NEW x \in s PROVE g[s] = f[x] + g[s \ {x}]
  <2>1. CASE x = c
    BY <1>5, <2>1
  <2>2. CASE x # c
    <3>1. Good(s \ {x})
      BY <1>3, <1>6
    <3>2. g[s \ {c}] = f[x] + g[(s \ {c}) \ {x}]
      BY <1>7, <2>2
    <3>3. g[s \ {x}] = f[c] + g[(s \ {x}) \ {c}]
      BY <2>2, <3>1
    <3>4. (s \ {c}) \ {x} = (s \ {x}) \ {c}
      OBVIOUS
    <3>5. Good((s \ {c}) \ {x})
      BY <1>3, <1>6
    <3>6. PICK a \in Nat : a = g[(s \ {c}) \ {x}]
      BY <3>5
    <3>7. f[x] \in Nat /\ f[c] \in Nat
      BY <1>6
    <3>8. PICK p \in Nat, q \in Nat : p = f[x] /\ q = f[c]
      BY <3>7
    <3>9. g[s] = q + (p + a) /\ g[s \ {x}] = q + a
      BY <1>5, <3>2, <3>3, <3>4, <3>6, <3>8, Zenon
    <3> QED
      BY <3>8, <3>9
  <2> QED
    BY <2>1, <2>2
<1>9. g[s] \in Nat
  BY <1>5, <1>6, <1>7
<1> QED
  BY <1>2, <1>8, <1>9

\* Functions that agree on a set have the same sums over its subsets.
LEMMA RunningAgree ==
    ASSUME NEW S, IsFiniteSet(S), NEW T \in SUBSET S, NEW f, NEW h,
           \A x \in T : f[x] = h[x],
           NEW g, Running(g, f, S), NEW k, Running(k, h, T)
    PROVE  \A s \in SUBSET T : g[s] = k[s]
<1> DEFINE bad == {s \in SUBSET T : g[s] # k[s]}
<1>1. SUFFICES ASSUME bad # {} PROVE FALSE
  OBVIOUS
<1>2. PICK s \in bad : \A t \in bad : t \subseteq s => t = s
  <2>1. bad \in SUBSET (SUBSET T) /\ IsFiniteSet(T)
    BY FS_Subset
  <2> HIDE DEF bad
  <2> QED
    BY <1>1, <2>1, SmallestSet
<1>3. s \in SUBSET T /\ s \in SUBSET S
  BY <1>2
<1>4. s # {}
  <2>1. g[{}] = 0 /\ k[{}] = 0
    BY DEF Running
  <2> QED
    BY <1>2, <2>1
<1>5. PICK c \in s : c = CHOOSE x \in s : TRUE
  BY <1>4
<1>6. g[s] = f[c] + g[s \ {c}] /\ k[s] = h[c] + k[s \ {c}]
  BY <1>3, <1>4, <1>5 DEF Running
<1>7. g[s \ {c}] = k[s \ {c}]
  BY <1>2, <1>3
<1>8. f[c] = h[c]
  BY <1>3
<1> QED
  BY <1>2, <1>6, <1>7, <1>8

\* The sum over nothing; with one element more; of functions that agree.
LEMMA SumOfNone == ASSUME NEW f PROVE SumFunctionOnSet(f, {}) = 0
<1>1. IsFiniteSet({})
  BY FS_EmptySet
<1>2. PICK g : Running(g, f, {}) /\ SumFunctionOnSet(f, {}) = g[{}]
  BY <1>1, SumIsRunning
<1> QED
  BY <1>2 DEF Running

LEMMA SumType ==
    ASSUME NEW S, IsFiniteSet(S), NEW f, \A x \in S : f[x] \in Nat
    PROVE  SumFunctionOnSet(f, S) \in Nat
<1>1. PICK g : Running(g, f, S) /\ SumFunctionOnSet(f, S) = g[S]
  BY SumIsRunning
<1> QED
  BY <1>1, AnyElementFirst

LEMMA SumAgrees ==
    ASSUME NEW S, IsFiniteSet(S), NEW f, NEW h, \A x \in S : f[x] = h[x]
    PROVE  SumFunctionOnSet(f, S) = SumFunctionOnSet(h, S)
<1>1. PICK g : Running(g, f, S) /\ SumFunctionOnSet(f, S) = g[S]
  BY SumIsRunning
<1>2. PICK k : Running(k, h, S) /\ SumFunctionOnSet(h, S) = k[S]
  BY SumIsRunning
<1>3. S \in SUBSET S
  OBVIOUS
<1>4. g[S] = k[S]
  <2>1. \A s \in SUBSET S : g[s] = k[s]
    BY <1>1, <1>2, <1>3, RunningAgree
  <2> QED
    BY <1>3, <2>1
<1> QED
  BY <1>1, <1>2, <1>4

LEMMA SumWithout ==
    ASSUME NEW S, IsFiniteSet(S), NEW f, \A x \in S : f[x] \in Nat, NEW x \in S
    PROVE  /\ SumFunctionOnSet(f, S) = f[x] + SumFunctionOnSet(f, S \ {x})
           /\ SumFunctionOnSet(f, S) \in Nat /\ SumFunctionOnSet(f, S \ {x}) \in Nat
<1>1. PICK g : Running(g, f, S) /\ SumFunctionOnSet(f, S) = g[S]
  BY SumIsRunning
<1>2. IsFiniteSet(S \ {x}) /\ S \ {x} \in SUBSET S
  BY FS_Subset
<1>3. PICK k : Running(k, f, S \ {x}) /\ SumFunctionOnSet(f, S \ {x}) = k[S \ {x}]
  BY <1>2, SumIsRunning
<1>4. g[S \ {x}] = k[S \ {x}]
  <2>1. PICK T : T = S \ {x}
    OBVIOUS
  <2>2. T \in SUBSET S /\ Running(k, f, T)
    BY <1>2, <1>3, <2>1
  <2>3. \A s \in SUBSET T : g[s] = k[s]
    BY <1>1, <2>2, RunningAgree
  <2> QED
    BY <2>1, <2>3
<1>5. g[S] = f[x] + g[S \ {x}] /\ g[S] \in Nat /\ g[S \ {x}] \in Nat
  <2>1. \A s \in SUBSET S : g[s] \in Nat /\ \A y \in s : g[s] = f[y] + g[s \ {y}]
    BY <1>1, AnyElementFirst
  <2> QED
    BY <1>2, <2>1
<1> QED
  BY <1>1, <1>3, <1>4, <1>5

\* What follows from taking an element away: one value goes up by one; a value is
\* no more than the sum; all values are zero, or all but one; fewer elements.
LEMMA SumOneMore ==
    ASSUME NEW S, IsFiniteSet(S), NEW f, \A x \in S : f[x] \in Nat,
           NEW z \in S, NEW h, h[z] = f[z] + 1, \A x \in S : x # z => h[x] = f[x]
    PROVE  SumFunctionOnSet(h, S) = SumFunctionOnSet(f, S) + 1
<1>1. \A x \in S : h[x] \in Nat
  <2>1. f[z] + 1 \in Nat
    OBVIOUS
  <2> QED
    BY <2>1
<1>2. /\ SumFunctionOnSet(f, S) = f[z] + SumFunctionOnSet(f, S \ {z})
      /\ SumFunctionOnSet(f, S \ {z}) \in Nat
  BY SumWithout
<1>3. /\ SumFunctionOnSet(h, S) = h[z] + SumFunctionOnSet(h, S \ {z})
  BY <1>1, SumWithout
<1>4. SumFunctionOnSet(f, S \ {z}) = SumFunctionOnSet(h, S \ {z})
  <2>1. PICK T : T = S \ {z}
    OBVIOUS
  <2>2. IsFiniteSet(T) /\ \A x \in T : f[x] = h[x]
    BY <2>1, FS_Subset
  <2>3. SumFunctionOnSet(f, T) = SumFunctionOnSet(h, T)
    BY <2>2, SumAgrees
  <2> QED
    BY <2>1, <2>3
<1>5. PICK a \in Nat, b \in Nat : a = f[z] /\ b = SumFunctionOnSet(f, S \ {z})
  BY <1>2
<1>6. SumFunctionOnSet(f, S) = a + b /\ SumFunctionOnSet(h, S) = (a + 1) + b
  BY <1>2, <1>3, <1>4, <1>5
<1> QED
  BY <1>5, <1>6

LEMMA SumMember ==
    ASSUME NEW S, IsFiniteSet(S), NEW f, \A x \in S : f[x] \in Nat, NEW z \in S
    PROVE  f[z] <= SumFunctionOnSet(f, S)
<1>1. /\ SumFunctionOnSet(f, S) = f[z] + SumFunctionOnSet(f, S \ {z})
      /\ SumFunctionOnSet(f, S \ {z}) \in Nat
  BY SumWithout
<1>2. PICK a \in Nat, b \in Nat : a = f[z] /\ b = SumFunctionOnSet(f, S \ {z})
  BY <1>1
<1> QED
  BY <1>1, <1>2

LEMMA SumOfZeros ==
    ASSUME NEW S, IsFiniteSet(S), NEW f, \A x \in S : f[x] = 0
    PROVE  SumFunctionOnSet(f, S) = 0
<1> DEFINE bad == {s \in SUBSET S : SumFunctionOnSet(f, s) # 0}
<1>1. SUFFICES ASSUME bad # {} PROVE FALSE
  OBVIOUS
<1>2. PICK s \in bad : \A t \in bad : t \subseteq s => t = s
  <2>1. bad \in SUBSET (SUBSET S)
    OBVIOUS
  <2> HIDE DEF bad
  <2> QED
    BY <1>1, <2>1, SmallestSet
<1>3. s \in SUBSET S /\ SumFunctionOnSet(f, s) # 0 /\ IsFiniteSet(s)
  BY <1>2, FS_Subset
<1>4. PICK x \in s : TRUE
  BY <1>3, SumOfNone
<1>5. SumFunctionOnSet(f, s \ {x}) = 0
  BY <1>2, <1>3
<1>6. \A y \in s : f[y] \in Nat
  BY <1>3
<1>7. SumFunctionOnSet(f, s) = f[x] + SumFunctionOnSet(f, s \ {x})
  BY <1>3, <1>6, SumWithout
<1> QED
  BY <1>3, <1>5, <1>7

LEMMA SumOfOne ==
    ASSUME NEW S, IsFiniteSet(S), NEW f, NEW z \in S, f[z] \in Nat,
           \A x \in S : x # z => f[x] = 0
    PROVE  SumFunctionOnSet(f, S) = f[z]
<1>1. \A x \in S : f[x] \in Nat
  OBVIOUS
<1>2. SumFunctionOnSet(f, S) = f[z] + SumFunctionOnSet(f, S \ {z})
  BY <1>1, SumWithout
<1>3. SumFunctionOnSet(f, S \ {z}) = 0
  <2>1. PICK T : T = S \ {z}
    OBVIOUS
  <2>2. IsFiniteSet(T) /\ \A x \in T : f[x] = 0
    BY <2>1, FS_Subset
  <2> QED
    BY <2>1, <2>2, SumOfZeros
<1> QED
  BY <1>2, <1>3

LEMMA SumOfFewer ==
    ASSUME NEW T, IsFiniteSet(T), NEW f, \A x \in T : f[x] \in Nat, NEW S \in SUBSET T
    PROVE  SumFunctionOnSet(f, S) <= SumFunctionOnSet(f, T)
<1> DEFINE bad == {s \in SUBSET T : ~(SumFunctionOnSet(f, T \ s) <= SumFunctionOnSet(f, T))}
<1>0. \A s \in SUBSET T : SumFunctionOnSet(f, s) \in Nat
  <2>1. ASSUME NEW s \in SUBSET T PROVE SumFunctionOnSet(f, s) \in Nat
    <3>1. IsFiniteSet(s) /\ \A x \in s : f[x] \in Nat
      BY FS_Subset
    <3> QED
      BY <3>1, SumType
  <2> QED
    BY <2>1
<1>1. bad = {}
  <2>1. SUFFICES ASSUME bad # {} PROVE FALSE
    OBVIOUS
  <2>2. PICK s \in bad : \A t \in bad : t \subseteq s => t = s
    <3>1. bad \in SUBSET (SUBSET T)
      OBVIOUS
    <3> HIDE DEF bad
    <3> QED
      BY <2>1, <3>1, SmallestSet
  <2>3. s \in SUBSET T /\ ~(SumFunctionOnSet(f, T \ s) <= SumFunctionOnSet(f, T))
    BY <2>2
  <2>4. T \ {} = T /\ T \in SUBSET T
    OBVIOUS
  <2>5. s # {}
    <3>1. PICK a \in Nat : a = SumFunctionOnSet(f, T)
      BY <1>0, <2>4
    <3> QED
      BY <2>3, <2>4, <3>1
  <2>6. PICK x \in s : TRUE
    BY <2>5
  <2>7. SumFunctionOnSet(f, T \ (s \ {x})) <= SumFunctionOnSet(f, T)
    <3>1. PICK t : t = s \ {x}
      OBVIOUS
    <3>2. t \in SUBSET T /\ t \subseteq s /\ t # s
      BY <2>3, <3>1
    <3>3. t \notin bad
      <4> HIDE DEF bad
      <4> QED
        BY <2>2, <3>2
    <3>4. SumFunctionOnSet(f, T \ t) <= SumFunctionOnSet(f, T)
      BY <3>2, <3>3
    <3> QED
      BY <3>1, <3>4
  <2>8. PICK U : U = T \ (s \ {x})
    OBVIOUS
  <2>9. x \in U /\ U \ {x} = T \ s /\ U \in SUBSET T
    BY <2>3, <2>8
  <2>10. IsFiniteSet(U) /\ \A y \in U : f[y] \in Nat
    BY <2>9, FS_Subset
  <2>11. SumFunctionOnSet(f, U) = f[x] + SumFunctionOnSet(f, U \ {x})
    BY <2>9, <2>10, SumWithout
  <2>12. SumFunctionOnSet(f, U) = f[x] + SumFunctionOnSet(f, T \ s)
    BY <2>9, <2>11
  <2>13. PICK a \in Nat, b \in Nat, c \in Nat :
             a = f[x] /\ b = SumFunctionOnSet(f, T \ s) /\ c = SumFunctionOnSet(f, T)
    BY <1>0, <2>4, <2>9, <2>10
  <2>14. a + b <= c /\ ~(b <= c)
    BY <2>3, <2>7, <2>8, <2>12, <2>13
  <2> QED
    BY <2>13, <2>14
<1>2. PICK s : s = T \ S
  OBVIOUS
<1>3. s \in SUBSET T /\ T \ s = S
  BY <1>2
<1>4. SumFunctionOnSet(f, T \ s) <= SumFunctionOnSet(f, T)
  BY <1>1, <1>3
<1> QED
  BY <1>3, <1>4

\* The values may be found elsewhere, each at a place of its own.
LEMMA SumMoved ==
    ASSUME NEW S, IsFiniteSet(S), NEW f, \A x \in S : f[x] \in Nat,
           NEW m, \A x, y \in S : m[x] = m[y] => x = y,
           NEW h, \A x \in S : h[m[x]] = f[x]
    PROVE  SumFunctionOnSet(h, {m[x] : x \in S}) = SumFunctionOnSet(f, S)
<1> DEFINE To(s) == {m[x] : x \in s}
           bad == {s \in SUBSET S : SumFunctionOnSet(h, To(s)) # SumFunctionOnSet(f, s)}
<1>1. SUFFICES ASSUME bad # {} PROVE FALSE
  OBVIOUS
<1>2. PICK s \in bad : \A t \in bad : t \subseteq s => t = s
  <2>1. bad \in SUBSET (SUBSET S)
    OBVIOUS
  <2> HIDE DEF bad
  <2> QED
    BY <1>1, <2>1, SmallestSet
<1>3. s \in SUBSET S /\ SumFunctionOnSet(h, To(s)) # SumFunctionOnSet(f, s) /\ IsFiniteSet(s)
  BY <1>2, FS_Subset
<1>4. s # {}
  <2>1. To({}) = {}
    OBVIOUS
  <2> HIDE DEF To
  <2> QED
    BY <1>3, <2>1, SumOfNone
<1>5. PICK x \in s : TRUE
  BY <1>4
<1>6. PICK t : t = s \ {x}
  OBVIOUS
<1>7. SumFunctionOnSet(h, To(t)) = SumFunctionOnSet(f, t)
  <2>1. t \in SUBSET S /\ t \subseteq s /\ t # s
    BY <1>3, <1>6
  <2> QED
    BY <1>2, <2>1
<1>8. To(s) \ {m[x]} = To(t) /\ m[x] \in To(s)
  BY <1>3, <1>6
<1>9. SumFunctionOnSet(f, s) = f[x] + SumFunctionOnSet(f, t)
  <2>1. \A y \in s : f[y] \in Nat
    BY <1>3
  <2> QED
    BY <1>3, <1>6, <2>1, SumWithout
<1>10. IsFiniteSet(To(s)) /\ \A z \in To(s) : h[z] \in Nat
  <2>1. \A z \in To(s) : h[z] \in Nat
    BY <1>3
  <2> QED
    <3>1. PICK k : k = [a \in s |-> m[a]]
      OBVIOUS
    <3>2. k \in Surjection(s, To(s))
      BY <3>1 DEF Surjection
    <3> HIDE DEF To
    <3>3. IsFiniteSet(To(s))
      BY <1>3, <3>2, FS_Surjection
    <3> QED
      BY <2>1, <3>3
<1>11. SumFunctionOnSet(h, To(s)) = h[m[x]] + SumFunctionOnSet(h, To(t))
  <2>1. PICK U, z : U = To(s) /\ z = m[x]
    OBVIOUS
  <2>2. z \in U /\ IsFiniteSet(U) /\ \A y \in U : h[y] \in Nat
    BY <1>8, <1>10, <2>1
  <2>3. SumFunctionOnSet(h, U) = h[z] + SumFunctionOnSet(h, U \ {z})
    BY <2>2, SumWithout
  <2> QED
    BY <1>8, <2>1, <2>3
<1>12. h[m[x]] = f[x]
  BY <1>3
<1> QED
  BY <1>3, <1>7, <1>9, <1>11, <1>12, Zenon

\* A value inserted among those of a sequence.
LEMMA SumInserted ==
    ASSUME NEW n \in Nat, NEW f, \A j \in 1 .. n : f[j] \in Nat,
           NEW p \in 1 .. n + 1, NEW h, h[p] \in Nat,
           \A j \in 1 .. n : h[IF j < p THEN j ELSE j + 1] = f[j]
    PROVE  SumFunctionOnSet(h, 1 .. n + 1) = h[p] + SumFunctionOnSet(f, 1 .. n)
<1> DEFINE m == [j \in 1 .. n |-> IF j < p THEN j ELSE j + 1]
<1>1. PICK S : S = 1 .. n
  OBVIOUS
<1>2. PICK T : T = 1 .. n + 1
  OBVIOUS
<1>3. IsFiniteSet(S) /\ IsFiniteSet(T) /\ p \in T
  BY <1>1, <1>2, FS_Interval
<1>4. {m[x] : x \in S} = T \ {p}
  <2>1. ASSUME NEW x \in S PROVE m[x] \in T \ {p}
    BY <1>1, <1>2
  <2>2. ASSUME NEW y \in T \ {p} PROVE \E x \in S : m[x] = y
    <3>1. CASE y < p
      <4>1. y \in S /\ m[y] = y
        BY <1>1, <1>2, <3>1
      <4> QED
        BY <4>1
    <3>2. CASE ~(y < p)
      <4>1. y - 1 \in S /\ m[y - 1] = y
        BY <1>1, <1>2, <3>2
      <4> QED
        BY <4>1
    <3> QED
      BY <3>1, <3>2
  <2> HIDE DEF m
  <2> QED
    BY <2>1, <2>2
<1>5. \A x, y \in S : m[x] = m[y] => x = y
  BY <1>1
<1>6. \A x \in S : h[m[x]] = f[x]
  BY <1>1
<1>7. \A x \in S : f[x] \in Nat
  BY <1>1
<1>8. \A y \in T : h[y] \in Nat
  <2>1. ASSUME NEW y \in T, y # p PROVE h[y] \in Nat
    <3>1. PICK x \in S : m[x] = y
      <4> HIDE DEF m
      <4> QED
        BY <1>4, <2>1
    <3> HIDE DEF m
    <3> QED
      BY <1>6, <1>7, <3>1
  <2> QED
    BY <2>1
<1> HIDE DEF m
<1>9. SumFunctionOnSet(h, {m[x] : x \in S}) = SumFunctionOnSet(f, S)
  BY <1>3, <1>5, <1>6, <1>7, SumMoved
<1>10. SumFunctionOnSet(h, T) = h[p] + SumFunctionOnSet(h, T \ {p})
  BY <1>3, <1>8, SumWithout
<1> QED
  BY <1>1, <1>2, <1>4, <1>9, <1>10, Zenon

-----------------------------------------------------------------------------
(* The inductive invariant of the counts.  Counts are not lost because the  *)
(* nodes of a word together hold its occurrences at the number of the file; *)
(* that a new file starts at zero, because no node counts for numbers not   *)
(* given out.  What write_list copies is that list, unchanged until the end *)
(* of the run; a reader can tell whether it was while it read.              *)

\* The number of f among names, and the count a node has for f if it is of word w.
In(names, f) == \E i \in DOMAIN names : names[i] = f
Number(names, f) == CHOOSE i \in DOMAIN names : names[i] = f
Cell(node, names, w, f) ==
    IF In(names, f) /\ node.word = w THEN node.freq[Number(names, f)] ELSE 0
Column(list, names, w, f) == [i \in DOMAIN list |-> Cell(list[i], names, w, f)]
OfWord(w, f) == {u \in Words : Cut[u] = w} \X {f}

\* A list and names that hold what was counted, as CountedOnce says of memory; no
\* file has two numbers, and no word two nodes unless a word was cut.
Counted(list, names, counts) ==
    \A w \in Words, f \in Files :
        SumFunctionOnSet(Column(list, names, w, f), DOMAIN list)
            = SumFunctionOnSet(counts, OfWord(w, f))
Distinct(names) == \A i, j \in DOMAIN names : names[i] = names[j] => i = j
Uncut(counts) == \A w \in Words, f \in Files : counts[<<w, f>>] > 0 => Cut[w] = w
OneNode(list) == \A i, j \in DOMAIN list : list[i].word = list[j].word => i = j
Matching(list, names, counts) ==
    /\ Distinct(names) /\ Counted(list, names, counts)
    /\ \A i \in DOMAIN list : Cut[list[i].word] = list[i].word
    /\ Uncut(counts) => OneNode(list)

\* In memory they match, and nodes have no counts for numbers not given out: so the
\* next file starts at zero.
MemoryMatches ==
    /\ Matching(head, filenames, seen)
    /\ \A i \in DOMAIN head, n \in 1 .. MAXFILES :
          n \notin DOMAIN filenames => head[i].freq[n] = 0
    /\ Tokens <= MaxTokens[run]
    /\ phase = "ended" => seen = None /\ head = << >> /\ filenames = << >>

\* What is being written is what memory has, up to some node or some name.
StartOf(written, all) ==
    /\ Len(written) <= Len(all)
    /\ \A i \in DOMAIN written : written[i] = all[i]
DiskFollows ==
    /\ phase = "listing" => StartOf(disk.list, head)
    /\ phase = "naming" => StartOf(disk.list, head) /\ StartOf(disk.names, filenames)
    /\ disk.list \in Seq(Node) /\ whole.seen \in Counts

\* While the result of a run is on disk nothing is written to it, and the files match.
WholeMatches ==
    /\ phase \in {"listing", "naming"} => whole.run = 0
    /\ whole.run <= run /\ (phase # "ended" => whole.run < run)
    /\ whole.run # 0 => Matching(disk.list, disk.names, whole.seen)

\* A reader that says what it has is of a run has counted the names of that run, and
\* has its list, as long as that is on disk; so the names it reads last are all of that
\* run's, and it has counted as many, if the run still is on disk.
ReaderMatches ==
    /\ reader.run <= run /\ (phase # "ended" => reader.run < run)
    /\ reader.at \in {"counted", "list"} /\ reader.run # 0 /\ reader.run = whole.run =>
          reader.count = Len(disk.names)
    /\ reader.at = "list" /\ reader.run # 0 /\ reader.run = whole.run =>
          reader.list = disk.list
    /\ reader.at = "loaded" /\ reader.run # 0 =>
          /\ reader.run = whole.run /\ reader.count = Len(disk.names)
          /\ reader.list = disk.list /\ reader.names = disk.names
    /\ reader.list \in Seq(Node)

CInv == MemoryMatches /\ DiskFollows /\ WholeMatches /\ ReaderMatches

-----------------------------------------------------------------------------
(* Lists, names and counts: types, and sets that can be summed over. *)

\* The elements of a list of nodes, in memory or not.
LEMMA ListTypes ==
    ASSUME NEW list \in Seq(Entry)
    PROVE  /\ Len(list) \in Nat /\ DOMAIN list = 1 .. Len(list) /\ IsFiniteSet(DOMAIN list)
           /\ \A i \in DOMAIN list :
                 /\ list[i] \in Entry /\ list[i].word \in Words
                 /\ \A n \in 1 .. MAXFILES : list[i].freq[n] \in Nat
<1>1. Len(list) \in Nat /\ DOMAIN list = 1 .. Len(list)
  BY LenProperties
<1>2. IsFiniteSet(1 .. Len(list))
  BY <1>1, FS_Interval
<1>3. \A i \in DOMAIN list : list[i] \in Entry
  BY <1>1, ElementOfSeq
<1> QED
  BY <1>1, <1>2, <1>3 DEF Entry

\* A recorded name has a number, which nodes have a count for.
LEMMA NumberProperties ==
    ASSUME NEW names \in Names
    PROVE  /\ Len(names) \in Nat /\ DOMAIN names = 1 .. Len(names)
           /\ DOMAIN names \subseteq 1 .. MAXFILES
           /\ \A i \in DOMAIN names : names[i] \in Files
           /\ \A f : In(names, f) => /\ Number(names, f) \in DOMAIN names
                                     /\ names[Number(names, f)] = f
<1>1. /\ names \in Seq(Files) /\ Len(names) <= MAXFILES /\ MAXFILES \in Nat
      /\ Len(names) \in Nat /\ DOMAIN names = 1 .. Len(names)
  BY IndexAssumption, LenProperties DEF Names
<1>2. \A i \in DOMAIN names : names[i] \in Files
  BY <1>1, ElementOfSeq
<1>3. ASSUME NEW f, In(names, f)
      PROVE  Number(names, f) \in DOMAIN names /\ names[Number(names, f)] = f
  BY <1>3 DEF In, Number
<1> QED
  BY <1>1, <1>2, <1>3

LEMMA CellType ==
    ASSUME NEW e \in Entry, NEW names \in Names, NEW w, NEW f
    PROVE  Cell(e, names, w, f) \in Nat
<1>1. \A n \in 1 .. MAXFILES : e.freq[n] \in Nat
  BY DEF Entry
<1>2. In(names, f) => Number(names, f) \in 1 .. MAXFILES
  BY NumberProperties
<1> QED
  BY <1>1, <1>2 DEF Cell

LEMMA ColumnTypes ==
    ASSUME NEW list \in Seq(Entry), NEW names \in Names, NEW w, NEW f
    PROVE  /\ IsFiniteSet(DOMAIN list)
           /\ \A i \in DOMAIN list :
                 /\ Column(list, names, w, f)[i] = Cell(list[i], names, w, f)
                 /\ Column(list, names, w, f)[i] \in Nat
<1>1. \A i \in DOMAIN list : Column(list, names, w, f)[i] = Cell(list[i], names, w, f)
  BY DEF Column
<1>2. \A i \in DOMAIN list : Cell(list[i], names, w, f) \in Nat
  BY ListTypes, CellType
<1> QED
  BY <1>1, <1>2, ListTypes

\* There are finitely many words and files.
LEMMA OccurrencesTypes ==
    /\ IsFiniteSet(Words \X Files)
    /\ \A w, f : f \in Files => OfWord(w, f) \in SUBSET (Words \X Files)
    /\ \A w, f : f \in Files => IsFiniteSet(OfWord(w, f))
<1>1. IsFiniteSet(Words) /\ IsFiniteSet(Files)
  BY IndexAssumption, FS_Interval DEF Words
<1>2. IsFiniteSet(Words \X Files)
  BY <1>1, FS_Product
<1>3. \A w, f : f \in Files => OfWord(w, f) \in SUBSET (Words \X Files)
  BY DEF OfWord
<1> QED
  BY <1>2, <1>3, FS_Subset

\* What one more occurrence adds to.
OneMoreIn(c, v, g) == [c EXCEPT ![<<v, g>>] = @ + 1]

LEMMA OneMoreOccurrence ==
    ASSUME NEW c \in Seen, NEW v \in Words, NEW g \in Files, NEW d, d = OneMoreIn(c, v, g)
    PROVE  /\ \A S : S = Words \X Files => SumFunctionOnSet(d, S) = SumFunctionOnSet(c, S) + 1
           /\ \A w \in Words, f \in Files :
                 SumFunctionOnSet(d, OfWord(w, f)) =
                    IF Cut[v] = w /\ f = g THEN SumFunctionOnSet(c, OfWord(w, f)) + 1
                                           ELSE SumFunctionOnSet(c, OfWord(w, f))
<1>1. PICK o \in Words \X Files : o = <<v, g>>
  OBVIOUS
<1>2. \A x \in Words \X Files : c[x] \in Nat
  BY DEF Seen
<1>3. d[o] = c[o] + 1 /\ \A x \in Words \X Files : x # o => d[x] = c[x]
  BY <1>1 DEF Seen, OneMoreIn
<1>4. ASSUME NEW S, S = Words \X Files
      PROVE  SumFunctionOnSet(d, S) = SumFunctionOnSet(c, S) + 1
  <2>1. IsFiniteSet(S) /\ o \in S /\ \A x \in S : c[x] \in Nat
    BY <1>2, <1>4, OccurrencesTypes
  <2>2. \A x \in S : x # o => d[x] = c[x]
    BY <1>3, <1>4
  <2> QED
    BY <1>3, <2>1, <2>2, SumOneMore
<1>5. ASSUME NEW w \in Words, NEW f \in Files
      PROVE  SumFunctionOnSet(d, OfWord(w, f)) =
                IF Cut[v] = w /\ f = g THEN SumFunctionOnSet(c, OfWord(w, f)) + 1
                                       ELSE SumFunctionOnSet(c, OfWord(w, f))
  <2>1. PICK S : S = OfWord(w, f)
    OBVIOUS
  <2>2. IsFiniteSet(S) /\ S \in SUBSET (Words \X Files)
    BY <2>1, OccurrencesTypes
  <2>3. o \in S <=> Cut[v] = w /\ f = g
    BY <1>1, <2>1 DEF OfWord
  <2>4. CASE o \in S
    <3>1. \A x \in S : c[x] \in Nat
      BY <1>2, <2>2
    <3>2. \A x \in S : x # o => d[x] = c[x]
      BY <1>3, <2>2
    <3>3. SumFunctionOnSet(d, S) = SumFunctionOnSet(c, S) + 1
      BY <1>3, <2>2, <2>4, <3>1, <3>2, SumOneMore
    <3> QED
      BY <2>1, <2>3, <2>4, <3>3
  <2>5. CASE o \notin S
    <3>1. \A x \in S : d[x] = c[x]
      BY <1>3, <2>2, <2>5
    <3>2. SumFunctionOnSet(d, S) = SumFunctionOnSet(c, S)
      BY <2>2, <3>1, SumAgrees
    <3> QED
      BY <2>1, <2>3, <2>5, <3>2
  <2> QED
    BY <2>4, <2>5
<1> QED
  BY <1>4, <1>5

\* Of no occurrences.
LEMMA NoOccurrence ==
    ASSUME NEW S \in SUBSET (Words \X Files)
    PROVE  SumFunctionOnSet(None, S) = 0
<1>1. IsFiniteSet(S)
  BY OccurrencesTypes, FS_Subset
<1>2. \A x \in S : None[x] = 0
  BY DEF None
<1> QED
  BY <1>1, <1>2, SumOfZeros

\* No run has more words than the longest.
LEMMA MostTokensBound ==
    MostTokens \in Nat /\ \A r \in 1 .. MaxRuns : MaxTokens[r] \in Nat /\ MaxTokens[r] <= MostTokens
<1> DEFINE S == Range(MaxTokens)
           bounds == {b \in Nat : \A x \in S : x <= b}
<1>1. /\ Len(MaxTokens) \in Nat \ {0} /\ DOMAIN MaxTokens = 1 .. Len(MaxTokens)
      /\ \A r \in 1 .. Len(MaxTokens) : MaxTokens[r] \in Nat
  BY IndexAssumption, EmptySeq, LenProperties, ElementOfSeq
<1>2. PICK D : D = 1 .. Len(MaxTokens)
  OBVIOUS
<1>3. IsFiniteSet(D) /\ \A r \in D : MaxTokens[r] \in Nat
  BY <1>1, <1>2, FS_Interval
<1>4. S \in SUBSET Nat /\ S # {} /\ \A r \in D : MaxTokens[r] \in S
  BY <1>1, <1>2 DEF Range
<1>5. bounds # {} /\ bounds \in SUBSET Nat
  <2>1. SumFunctionOnSet(MaxTokens, D) \in Nat
    BY <1>3, SumType
  <2>2. \A r \in D : MaxTokens[r] <= SumFunctionOnSet(MaxTokens, D)
    BY <1>3, SumMember
  <2>3. \A x \in S : \E r \in D : x = MaxTokens[r]
    BY <1>1, <1>2 DEF Range
  <2> HIDE DEF S
  <2>4. \A x \in S : x <= SumFunctionOnSet(MaxTokens, D)
    BY <2>2, <2>3
  <2> QED
    BY <2>1, <2>4
<1> HIDE DEF S
<1>6. PICK b \in bounds : \A y \in bounds : b <= y
  <2> HIDE DEF bounds
  <2> QED
    BY <1>5, MinNat
<1>7. b \in Nat /\ \A x \in S : x <= b
  BY <1>6
<1>8. b \in S
  <2>1. SUFFICES ASSUME b \notin S PROVE FALSE
    OBVIOUS
  <2>2. \A x \in S : x \in Nat /\ x <= b - 1
    BY <1>4, <1>7, <2>1
  <2>3. b - 1 \in Nat
    <3>1. PICK x \in S : TRUE
      BY <1>4
    <3>2. x \in Nat /\ x <= b - 1
      BY <2>2, <3>1
    <3> QED
      BY <1>7, <3>2
  <2>4. b - 1 \in bounds
    BY <2>2, <2>3
  <2>5. b <= b - 1
    <3> HIDE DEF bounds
    <3> QED
      BY <1>6, <2>4
  <2> QED
    BY <1>7, <2>5
<1>9. MostTokens \in S /\ \A x \in S : MostTokens >= x
  BY <1>7, <1>8 DEF MostTokens, Max, S
<1> QED
  BY <1>1, <1>2, <1>4, <1>9 DEF MaxRuns

-----------------------------------------------------------------------------
(* add_word counts an occurrence once. *)

\* In names that are distinct each has one number.
LEMMA NumberUnique ==
    ASSUME NEW names \in Names, Distinct(names), NEW i \in DOMAIN names
    PROVE  In(names, names[i]) /\ Number(names, names[i]) = i
<1>1. In(names, names[i])
  BY DEF In
<1>2. Number(names, names[i]) \in DOMAIN names /\ names[Number(names, names[i])] = names[i]
  BY <1>1, NumberProperties
<1> QED
  BY <1>1, <1>2 DEF Distinct

\* A file that is recorded is given the next number, and no other file another one.
LEMMA RecordedProperties ==
    ASSUME NEW f \in Files, MemoryTypes, HasRoom(f), Distinct(filenames)
    PROVE  /\ Recorded(f) \in Names /\ Distinct(Recorded(f)) /\ In(Recorded(f), f)
           /\ get_filenum(f) = Number(Recorded(f), f)
           /\ DOMAIN filenames \subseteq DOMAIN Recorded(f)
           /\ \A e \in Entry : (\A n \in 1 .. MAXFILES : n \notin DOMAIN filenames => e.freq[n] = 0)
                 => \A w, g : Cell(e, Recorded(f), w, g) = Cell(e, filenames, w, g)
<1>1. PICK names : names = Recorded(f)
  OBVIOUS
<1>2. names \in Names /\ filenames \in Names
  BY <1>1, RecordedTypes DEF MemoryTypes
<1>3. get_filenum(f) = Number(names, f)
  BY <1>1 DEF get_filenum, Number
<1>4. CASE Known(f)
  <2>1. names = filenames
    BY <1>1, <1>4 DEF Recorded
  <2>2. In(filenames, f)
    BY <1>4 DEF Known, In
  <2> QED
    BY <1>1, <1>2, <1>3, <2>1, <2>2
<1>5. CASE ~Known(f)
  <2>1. /\ Len(filenames) \in Nat /\ DOMAIN filenames = 1 .. Len(filenames)
        /\ filenames \in Seq(Files)
    BY <1>2, NumberProperties DEF Names
  <2>2. PICK k \in Nat : k = Len(filenames)
    BY <2>1
  <2>3. names = Append(filenames, f)
    BY <1>1, <1>5 DEF Recorded
  <2>4. /\ Len(names) = k + 1 /\ names[k + 1] = f
        /\ \A i \in 1 .. k : names[i] = filenames[i]
    BY <2>1, <2>2, <2>3, AppendProperties
  <2>5. DOMAIN filenames = 1 .. k /\ DOMAIN names = 1 .. k + 1
    BY <1>2, <2>1, <2>2, <2>4, NumberProperties
  <2>6. \A i \in 1 .. k : filenames[i] # f
    BY <1>5, <2>5 DEF Known
  <2>7. Distinct(names)
    <3>1. ASSUME NEW i \in 1 .. k + 1, NEW j \in 1 .. k + 1, names[i] = names[j] PROVE i = j
      <4>1. CASE i = k + 1 /\ j = k + 1
        BY <4>1
      <4>2. CASE i \in 1 .. k /\ j = k + 1
        BY <2>4, <2>6, <3>1, <4>2
      <4>3. CASE i = k + 1 /\ j \in 1 .. k
        BY <2>4, <2>6, <3>1, <4>3
      <4>4. CASE i \in 1 .. k /\ j \in 1 .. k
        <5>1. filenames[i] = filenames[j]
          BY <2>4, <3>1, <4>4
        <5> QED
          BY <2>5, <4>4, <5>1 DEF Distinct
      <4>5. (i = k + 1 \/ i \in 1 .. k) /\ (j = k + 1 \/ j \in 1 .. k)
        BY <2>2
      <4> QED
        BY <4>1, <4>2, <4>3, <4>4, <4>5
    <3> QED
      BY <2>5, <3>1 DEF Distinct
  <2>8. k + 1 \in DOMAIN names
    BY <2>2, <2>5
  <2>9. In(names, f) /\ Number(names, f) = k + 1
    BY <1>2, <2>4, <2>7, <2>8, NumberUnique
  <2>10. ASSUME NEW e \in Entry, \A n \in 1 .. MAXFILES : n \notin DOMAIN filenames => e.freq[n] = 0,
                NEW w, NEW g
         PROVE  Cell(e, names, w, g) = Cell(e, filenames, w, g)
    <3>1. CASE g = f
      <4>1. ~In(filenames, g)
        BY <1>5, <3>1 DEF Known, In
      <4>2. k + 1 \in 1 .. MAXFILES /\ k + 1 \notin DOMAIN filenames
        <5>1. k + 1 \in 1 .. MAXFILES
          BY <1>2, <2>8, NumberProperties
        <5> QED
          BY <2>2, <2>5, <5>1
      <4>3. e.freq[k + 1] = 0
        BY <2>10, <4>2
      <4> QED
        BY <2>9, <3>1, <4>1, <4>3 DEF Cell
    <3>2. CASE g # f /\ In(filenames, g)
      <4>1. PICK i \in 1 .. k : filenames[i] = g
        BY <2>5, <3>2 DEF In
      <4>2. Number(filenames, g) = i
        BY <1>2, <2>5, <4>1, NumberUnique
      <4>3. i \in DOMAIN names /\ names[i] = g
        BY <2>2, <2>4, <2>5, <4>1
      <4>4. In(names, g) /\ Number(names, g) = i
        BY <1>2, <2>7, <4>3, NumberUnique
      <4> QED
        BY <3>2, <4>2, <4>4 DEF Cell
    <3>3. CASE g # f /\ ~In(filenames, g)
      <4>1. ASSUME In(names, g) PROVE FALSE
        <5>1. PICK i \in 1 .. k + 1 : names[i] = g
          BY <2>5, <4>1 DEF In
        <5>2. i \in 1 .. k
          BY <2>2, <2>4, <3>3, <5>1
        <5> QED
          BY <2>4, <2>5, <3>3, <5>1, <5>2 DEF In
      <4> QED
        BY <3>3, <4>1 DEF Cell
    <3> QED
      BY <3>1, <3>2, <3>3
  <2>11. DOMAIN filenames \subseteq DOMAIN names
    BY <2>2, <2>5
  <2> QED
    BY <1>1, <1>2, <1>3, <2>7, <2>9, <2>10, <2>11
<1> QED
  BY <1>4, <1>5

\* One more in a node that has the word.
OneMoreFor(e, n) == [e EXCEPT !.freq[n] = @ + 1]

LEMMA CellOneMore ==
    ASSUME NEW names \in Names, Distinct(names), NEW g \in Files, In(names, g),
           NEW e \in Entry, NEW d, d = OneMoreFor(e, Number(names, g))
    PROVE  /\ d \in Entry /\ d.word = e.word
           /\ \A n \in 1 .. MAXFILES : n \notin DOMAIN names => d.freq[n] = e.freq[n]
           /\ \A w, f : Cell(d, names, w, f) =
                 IF e.word = w /\ f = g THEN Cell(e, names, w, f) + 1 ELSE Cell(e, names, w, f)
<1>1. PICK n \in DOMAIN names : n = Number(names, g) /\ names[n] = g
  BY NumberProperties
<1>2. n \in 1 .. MAXFILES
  BY NumberProperties
<1>3. e \in [word : Words, freq : [1 .. MAXFILES -> Nat]]
  BY DEF Entry
<1>4. PICK freq \in [1 .. MAXFILES -> Nat] : freq = e.freq
  BY <1>3
<1>5. PICK more : more = [freq EXCEPT ![n] = @ + 1]
  OBVIOUS
<1>6. /\ more \in [1 .. MAXFILES -> Nat] /\ more[n] = freq[n] + 1
      /\ \A m \in 1 .. MAXFILES : m # n => more[m] = freq[m]
  BY <1>2, <1>5
<1>7. d = [e EXCEPT !.freq = more]
  BY <1>1, <1>4, <1>5 DEF OneMoreFor
<1>8. d \in Entry /\ d.word = e.word /\ d.freq = more
  BY <1>3, <1>6, <1>7 DEF Entry
<1>9. \A m \in 1 .. MAXFILES : m \notin DOMAIN names => d.freq[m] = e.freq[m]
  BY <1>4, <1>6, <1>8
<1>10. ASSUME NEW w, NEW f
       PROVE  Cell(d, names, w, f) =
                 IF e.word = w /\ f = g THEN Cell(e, names, w, f) + 1 ELSE Cell(e, names, w, f)
  <2>1. CASE In(names, f)
    <3>1. PICK m \in DOMAIN names : m = Number(names, f) /\ names[m] = f
      BY <2>1, NumberProperties
    <3>2. m \in 1 .. MAXFILES
      BY NumberProperties
    <3>3. m = n <=> f = g
      BY <1>1, <3>1 DEF Distinct
    <3>4. /\ Cell(d, names, w, f) = IF e.word = w THEN more[m] ELSE 0
          /\ Cell(e, names, w, f) = IF e.word = w THEN freq[m] ELSE 0
      <4>1. /\ Cell(d, names, w, f) = IF d.word = w THEN d.freq[m] ELSE 0
            /\ Cell(e, names, w, f) = IF e.word = w THEN e.freq[m] ELSE 0
        BY <2>1, <3>1 DEF Cell
      <4>2. d.word = e.word /\ d.freq = more /\ e.freq = freq
        BY <1>4, <1>8
      <4> QED
        BY <4>1, <4>2, Zenon
    <3> QED
      BY <1>6, <3>2, <3>3, <3>4
  <2>2. CASE ~In(names, f)
    BY <2>2 DEF Cell
  <2> QED
    BY <2>1, <2>2
<1> QED
  BY <1>8, <1>9, <1>10

\* The first in a new node.
LEMMA CellOfNewNode ==
    ASSUME NEW names \in Names, Distinct(names), NEW g \in Files, In(names, g),
           NEW v \in Words, NEW d, d = create_node(v, Number(names, g))
    PROVE  /\ d \in Entry /\ d.word = Cut[v]
           /\ \A n \in 1 .. MAXFILES : n \notin DOMAIN names => d.freq[n] = 0
           /\ \A w, f : Cell(d, names, w, f) = IF Cut[v] = w /\ f = g THEN 1 ELSE 0
<1>1. PICK n \in DOMAIN names : n = Number(names, g) /\ names[n] = g
  BY NumberProperties
<1>2. n \in 1 .. MAXFILES /\ Cut[v] \in Words
  BY NumberProperties, IndexAssumption
<1>3. d = [word |-> Cut[v], freq |-> [i \in 1 .. MAXFILES |-> IF i = n THEN 1 ELSE 0]]
  BY <1>1 DEF create_node
<1>4. /\ d \in Entry /\ d.word = Cut[v]
      /\ \A m \in 1 .. MAXFILES : d.freq[m] = IF m = n THEN 1 ELSE 0
  BY <1>2, <1>3 DEF Entry
<1>5. \A m \in 1 .. MAXFILES : m \notin DOMAIN names => d.freq[m] = 0
  BY <1>4
<1>6. ASSUME NEW w, NEW f
      PROVE  Cell(d, names, w, f) = IF Cut[v] = w /\ f = g THEN 1 ELSE 0
  <2>1. CASE In(names, f)
    <3>1. PICK m \in DOMAIN names : m = Number(names, f) /\ names[m] = f
      BY <2>1, NumberProperties
    <3>2. m \in 1 .. MAXFILES
      BY NumberProperties
    <3>3. m = n <=> f = g
      BY <1>1, <3>1 DEF Distinct
    <3> QED
      BY <1>4, <2>1, <3>1, <3>2, <3>3 DEF Cell
  <2>2. CASE ~In(names, f)
    BY <2>2 DEF Cell
  <2> QED
    BY <2>1, <2>2
<1> QED
  BY <1>4, <1>5, <1>6

\* In a list whose columns add up, with one more in a node of what is left of v.
LEMMA CountedInNode ==
    ASSUME NEW list \in Seq(Entry), NEW names \in Names, NEW c \in Seen,
           Distinct(names), Counted(list, names, c),
           NEW v \in Words, NEW g \in Files, In(names, g),
           NEW p \in DOMAIN list, list[p].word = Cut[v],
           NEW more \in Seq(Entry), DOMAIN more = DOMAIN list,
           more[p] = OneMoreFor(list[p], Number(names, g)),
           \A i \in DOMAIN list : i # p => more[i] = list[i],
           NEW d, d = OneMoreIn(c, v, g)
    PROVE  /\ Counted(more, names, d)
           /\ \A i \in DOMAIN list :
                 /\ more[i].word = list[i].word
                 /\ \A n \in 1 .. MAXFILES : n \notin DOMAIN names => more[i].freq[n] = list[i].freq[n]
<1>0. \A w \in Words, f \in Files :
         SumFunctionOnSet(d, OfWord(w, f)) =
            IF Cut[v] = w /\ f = g THEN SumFunctionOnSet(c, OfWord(w, f)) + 1
                                   ELSE SumFunctionOnSet(c, OfWord(w, f))
  BY OneMoreOccurrence
<1>1. PICK o \in Entry, e \in Entry : o = list[p] /\ e = more[p]
  BY ListTypes
<1>2. e = OneMoreFor(o, Number(names, g))
  BY <1>1
<1>3. /\ e \in Entry /\ e.word = o.word
      /\ \A n \in 1 .. MAXFILES : n \notin DOMAIN names => e.freq[n] = o.freq[n]
      /\ \A w, f : Cell(e, names, w, f) =
            IF o.word = w /\ f = g THEN Cell(o, names, w, f) + 1 ELSE Cell(o, names, w, f)
  BY <1>2, CellOneMore
<1>6. ASSUME NEW w \in Words, NEW f \in Files
      PROVE  SumFunctionOnSet(Column(more, names, w, f), DOMAIN more)
                 = SumFunctionOnSet(d, OfWord(w, f))
  <2>1. PICK old, now, D : /\ old = Column(list, names, w, f) /\ now = Column(more, names, w, f)
                           /\ D = DOMAIN list
    OBVIOUS
  <2>2. IsFiniteSet(D) /\ \A i \in D : old[i] \in Nat /\ old[i] = Cell(list[i], names, w, f)
    BY <2>1, ColumnTypes
  <2>3. \A i \in D : now[i] = Cell(more[i], names, w, f)
    BY <2>1, ColumnTypes
  <2>4. \A i \in D : i # p => now[i] = old[i]
    BY <2>1, <2>2, <2>3
  <2>5. now[p] = IF Cut[v] = w /\ f = g THEN old[p] + 1 ELSE old[p]
    <3>1. p \in D
      BY <2>1
    <3>2. now[p] = Cell(e, names, w, f) /\ old[p] = Cell(o, names, w, f)
      BY <1>1, <2>2, <2>3, <3>1
    <3> QED
      BY <1>1, <1>3, <3>2
  <2>6. SumFunctionOnSet(old, D) = SumFunctionOnSet(c, OfWord(w, f))
    BY <2>1 DEF Counted
  <2>7. SumFunctionOnSet(d, OfWord(w, f)) =
            IF Cut[v] = w /\ f = g THEN SumFunctionOnSet(c, OfWord(w, f)) + 1
                                   ELSE SumFunctionOnSet(c, OfWord(w, f))
    BY <1>0
  <2>8. p \in D
    BY <2>1
  <2>9. CASE Cut[v] = w /\ f = g
    <3>1. SumFunctionOnSet(now, D) = SumFunctionOnSet(old, D) + 1
      BY <2>2, <2>4, <2>5, <2>8, <2>9, SumOneMore
    <3> QED
      BY <2>1, <2>6, <2>7, <2>9, <3>1
  <2>10. CASE ~(Cut[v] = w /\ f = g)
    <3>1. \A i \in D : old[i] = now[i]
      BY <2>4, <2>5, <2>8, <2>10
    <3>2. SumFunctionOnSet(old, D) = SumFunctionOnSet(now, D)
      BY <2>2, <3>1, SumAgrees
    <3> QED
      BY <2>1, <2>6, <2>7, <2>10, <3>2
  <2> QED
    BY <2>9, <2>10
<1>7. Counted(more, names, d)
  BY <1>6 DEF Counted
<1> QED
  BY <1>1, <1>3, <1>7

\* With a new node for what is left of v.
LEMMA CountedInNewNode ==
    ASSUME NEW list \in Seq(Entry), NEW names \in Names, NEW c \in Seen,
           Distinct(names), Counted(list, names, c),
           NEW v \in Words, NEW g \in Files, In(names, g), NEW p \in 1 .. Len(list) + 1,
           NEW more, more = InsertAt(list, p, create_node(v, Number(names, g))),
           NEW d, d = OneMoreIn(c, v, g)
    PROVE  Counted(more, names, d)
<1>0. \A w \in Words, f \in Files :
         SumFunctionOnSet(d, OfWord(w, f)) =
            IF Cut[v] = w /\ f = g THEN SumFunctionOnSet(c, OfWord(w, f)) + 1
                                   ELSE SumFunctionOnSet(c, OfWord(w, f))
  BY OneMoreOccurrence
<1>1. PICK e : e = create_node(v, Number(names, g))
  OBVIOUS
<1>2. /\ e \in Entry
      /\ \A w, f : Cell(e, names, w, f) = IF Cut[v] = w /\ f = g THEN 1 ELSE 0
  BY <1>1, CellOfNewNode
<1>3. PICK k \in Nat : k = Len(list)
  BY ListTypes
<1>4. /\ more \in Seq(Entry) /\ Len(more) = k + 1
      /\ \A j \in 1 .. k + 1 :
            more[j] = IF j < p THEN list[j] ELSE IF j = p THEN e ELSE list[j - 1]
  <2>1. more = InsertAt(list, p, e)
    BY <1>1
  <2>2. /\ InsertAt(list, p, e) \in Seq(Entry)
        /\ Len(InsertAt(list, p, e)) = Len(list) + 1
        /\ \A j \in 1 .. Len(list) + 1 :
              InsertAt(list, p, e)[j] =
                 IF j < p THEN list[j] ELSE IF j = p THEN e ELSE list[j - 1]
    BY <1>2, InsertAtProperties
  <2> QED
    BY Zenon, <1>3, <2>1, <2>2
<1>5. DOMAIN list = 1 .. k /\ DOMAIN more = 1 .. k + 1 /\ p \in 1 .. k + 1
  BY <1>3, <1>4, ListTypes
<1>6. more[p] = e /\ \A j \in 1 .. k : more[IF j < p THEN j ELSE j + 1] = list[j]
  <2>1. more[p] = e
    BY <1>4, <1>5
  <2>2. ASSUME NEW j \in 1 .. k PROVE more[IF j < p THEN j ELSE j + 1] = list[j]
    <3>1. CASE j < p
      <4>1. j \in 1 .. k + 1
        OBVIOUS
      <4> QED
        BY <1>4, <3>1, <4>1
    <3>2. CASE ~(j < p)
      <4>1. j + 1 \in 1 .. k + 1 /\ ~(j + 1 < p) /\ j + 1 # p /\ (j + 1) - 1 = j
        BY <1>5, <3>2
      <4>2. more[j + 1] = list[(j + 1) - 1]
        BY <1>4, <4>1
      <4> QED
        BY <3>2, <4>1, <4>2
    <3> QED
      BY <3>1, <3>2
  <2> QED
    BY <2>1, <2>2
<1>7. ASSUME NEW w \in Words, NEW f \in Files
      PROVE  SumFunctionOnSet(Column(more, names, w, f), DOMAIN more)
                 = SumFunctionOnSet(d, OfWord(w, f))
  <2>1. PICK old, now : old = Column(list, names, w, f) /\ now = Column(more, names, w, f)
    OBVIOUS
  <2>2. \A i \in 1 .. k : old[i] \in Nat /\ old[i] = Cell(list[i], names, w, f)
    BY <1>5, <2>1, ColumnTypes
  <2>3. \A i \in 1 .. k + 1 : now[i] = Cell(more[i], names, w, f)
    BY <1>4, <1>5, <2>1, ColumnTypes
  <2>4. now[p] = IF Cut[v] = w /\ f = g THEN 1 ELSE 0
    BY <1>2, <1>5, <1>6, <2>3
  <2>5. ASSUME NEW j \in 1 .. k PROVE now[IF j < p THEN j ELSE j + 1] = old[j]
    <3>1. PICK i : i = IF j < p THEN j ELSE j + 1
      OBVIOUS
    <3>2. i \in 1 .. k + 1
      BY <1>5, <3>1
    <3>3. now[i] = Cell(more[i], names, w, f) /\ more[i] = list[j]
      BY <1>6, <2>3, <3>1, <3>2
    <3> QED
      BY <2>2, <3>1, <3>3
  <2>6. SumFunctionOnSet(now, 1 .. k + 1) = now[p] + SumFunctionOnSet(old, 1 .. k)
    <3>1. \A j \in 1 .. k : old[j] \in Nat
      BY <2>2
    <3>2. now[p] \in Nat
      BY <2>4
    <3> QED
      BY <1>5, <2>5, <3>1, <3>2, SumInserted
  <2>7. SumFunctionOnSet(old, 1 .. k) = SumFunctionOnSet(c, OfWord(w, f))
    BY <1>5, <2>1 DEF Counted
  <2>8. SumFunctionOnSet(d, OfWord(w, f)) =
            IF Cut[v] = w /\ f = g THEN SumFunctionOnSet(c, OfWord(w, f)) + 1
                                   ELSE SumFunctionOnSet(c, OfWord(w, f))
    BY <1>0
  <2>9. SumFunctionOnSet(old, 1 .. k) \in Nat
    <3>1. IsFiniteSet(1 .. k)
      BY FS_Interval
    <3> QED
      BY <2>2, <3>1, SumType
  <2>10. PICK a \in Nat : a = SumFunctionOnSet(old, 1 .. k)
    BY <2>9
  <2>11. SumFunctionOnSet(now, 1 .. k + 1) = IF Cut[v] = w /\ f = g THEN a + 1 ELSE a
    BY <2>4, <2>6, <2>10
  <2>12. SumFunctionOnSet(d, OfWord(w, f)) = IF Cut[v] = w /\ f = g THEN a + 1 ELSE a
    BY <2>7, <2>8, <2>10
  <2> QED
    BY <1>5, <2>1, <2>11, <2>12
<1> QED
  BY <1>7 DEF Counted

\* What the memory holds still adds up when the file has been recorded.
LEMMA RecordedKeepsCounted ==
    ASSUME IInv, MemoryMatches, NEW g \in Files, HasRoom(g)
    PROVE  Counted(head, Recorded(g), seen)
<1>1. PICK names : names = Recorded(g)
  OBVIOUS
<1>2. /\ MemoryTypes /\ Distinct(filenames) /\ Counted(head, filenames, seen)
      /\ head \in Seq(Entry) /\ filenames \in Names
      /\ \A i \in DOMAIN head, n \in 1 .. MAXFILES :
            n \notin DOMAIN filenames => head[i].freq[n] = 0
  BY DEF IInv, MemoryTypes, MemoryMatches, Matching
<1>3. /\ names \in Names
      /\ \A e \in Entry : (\A n \in 1 .. MAXFILES : n \notin DOMAIN filenames => e.freq[n] = 0)
            => \A w, f : Cell(e, names, w, f) = Cell(e, filenames, w, f)
  BY <1>1, <1>2, RecordedProperties
<1>4. \A i \in DOMAIN head : \A w, f : Cell(head[i], names, w, f) = Cell(head[i], filenames, w, f)
  BY <1>2, <1>3, ListTypes
<1>5. ASSUME NEW w \in Words, NEW f \in Files
      PROVE  SumFunctionOnSet(Column(head, names, w, f), DOMAIN head)
                 = SumFunctionOnSet(seen, OfWord(w, f))
  <2>1. PICK old, now, D : /\ old = Column(head, filenames, w, f)
                           /\ now = Column(head, names, w, f) /\ D = DOMAIN head
    OBVIOUS
  <2>2. IsFiniteSet(D) /\ \A i \in D : old[i] = Cell(head[i], filenames, w, f)
    BY <1>2, <2>1, ColumnTypes
  <2>3. \A i \in D : now[i] = Cell(head[i], names, w, f)
    BY <1>2, <1>3, <2>1, ColumnTypes
  <2>4. \A i \in D : old[i] = now[i]
    BY <1>4, <2>1, <2>2, <2>3
  <2>5. SumFunctionOnSet(old, D) = SumFunctionOnSet(now, D)
    BY <2>2, <2>4, SumAgrees
  <2>6. SumFunctionOnSet(old, D) = SumFunctionOnSet(seen, OfWord(w, f))
    BY <1>2, <2>1 DEF Counted
  <2> QED
    BY <2>1, <2>5, <2>6
<1> QED
  BY <1>1, <1>5 DEF Counted

\* When no word was cut yet, none had been before.
LEMMA StillUncut ==
    ASSUME NEW c \in Seen, NEW v \in Words, NEW g \in Files, Uncut(OneMoreIn(c, v, g))
    PROVE  Uncut(c) /\ Cut[v] = v
<1>1. PICK d : d = OneMoreIn(c, v, g)
  OBVIOUS
<1>2. \A x \in Words \X Files : c[x] \in Nat /\ d[x] = IF x = <<v, g>> THEN c[x] + 1 ELSE c[x]
  BY <1>1 DEF OneMoreIn, Seen
<1>3. ASSUME NEW w \in Words, NEW f \in Files
      PROVE  c[<<w, f>>] \in Nat /\ (c[<<w, f>>] > 0 => d[<<w, f>>] > 0)
  BY <1>2
<1>4. d[<<v, g>>] > 0
  BY <1>2, <1>3
<1> QED
  BY <1>1, <1>3, <1>4 DEF Uncut

\* The word has a node, and no other word is left of it.
LEMMA InPlaceKeepsMatching ==
    ASSUME IInv, IInv', MemoryMatches, NEW v \in Words, NEW g \in Files, add_word(v, g),
           Place(v) \in DOMAIN head, head[Place(v)].word = v
    PROVE  /\ Matching(head, filenames, seen)'
           /\ (\A i \in DOMAIN head, n \in 1 .. MAXFILES :
                  n \notin DOMAIN filenames => head[i].freq[n] = 0)'
<1>1. PICK names, p : names = Recorded(g) /\ p = Place(v)
  OBVIOUS
<1>2. PICK m : m = Number(names, g)
  OBVIOUS
<1>3. /\ MemoryTypes /\ Distinct(filenames) /\ HasRoom(g)
      /\ head \in Seq(Entry) /\ seen \in Seen /\ filenames \in Names
  BY DEF IInv, MemoryTypes, MemoryMatches, Matching, add_word
<1>4. /\ names \in Names /\ Distinct(names) /\ In(names, g) /\ get_filenum(g) = m
      /\ DOMAIN filenames \subseteq DOMAIN names
  BY <1>1, <1>2, <1>3, RecordedProperties
<1>5. p \in DOMAIN head /\ head[p].word = v /\ Cut[v] = v
  BY <1>1 DEF IInv, KeptUncut
<1>6. /\ filenames' = names /\ seen' = OneMoreIn(seen, v, g)
      /\ head' = [head EXCEPT ![p].freq[m] = @ + 1]
  BY <1>1, <1>4 DEF add_word, OneMoreIn
<1>7. PICK h, d : h = head' /\ d = seen'
  OBVIOUS
<1>8. /\ h \in Seq(Entry) /\ DOMAIN h = DOMAIN head
      /\ h[p] = OneMoreFor(head[p], Number(names, g))
      /\ \A i \in DOMAIN head : i # p => h[i] = head[i]
  <2>1. h \in Seq(Entry)
    BY <1>7 DEF IInv, MemoryTypes
  <2> QED
    BY <1>2, <1>3, <1>5, <1>6, <1>7, <2>1 DEF OneMoreFor
<1>9. Counted(head, names, seen)
  BY <1>1, <1>3, RecordedKeepsCounted
<1>10. /\ Counted(h, names, d)
       /\ \A i \in DOMAIN head :
             /\ h[i].word = head[i].word
             /\ \A n \in 1 .. MAXFILES : n \notin DOMAIN names => h[i].freq[n] = head[i].freq[n]
  <2>1. head[p].word = Cut[v] /\ d = OneMoreIn(seen, v, g)
    BY <1>5, <1>6, <1>7
  <2> QED
    BY <1>3, <1>4, <1>5, <1>8, <1>9, <2>1, CountedInNode
<1>11. \A i \in DOMAIN h : Cut[h[i].word] = h[i].word
  BY <1>7 DEF IInv, KeptUncut
<1>12. Uncut(d) => OneNode(h)
  <2>1. ASSUME Uncut(d) PROVE OneNode(h)
    <3>1. Uncut(seen)
      BY <1>3, <1>6, <1>7, <2>1, StillUncut
    <3>2. OneNode(head)
      BY <3>1 DEF MemoryMatches, Matching
    <3> QED
      BY <1>8, <1>10, <3>2 DEF OneNode
  <2> QED
    BY <2>1
<1>13. \A i \in DOMAIN h, n \in 1 .. MAXFILES : n \notin DOMAIN names => h[i].freq[n] = 0
  <2>1. \A i \in DOMAIN head, n \in 1 .. MAXFILES :
            n \notin DOMAIN filenames => head[i].freq[n] = 0
    BY DEF MemoryMatches
  <2> QED
    BY <1>4, <1>8, <1>10, <2>1
<1>14. Matching(h, names, d)
  BY <1>4, <1>10, <1>11, <1>12 DEF Matching
<1> QED
  BY <1>6, <1>7, <1>13, <1>14

\* The word has no node; a new one is for what is left of it.
LEMMA NewNodeKeepsMatching ==
    ASSUME IInv, IInv', MemoryMatches, NEW v \in Words, NEW g \in Files, add_word(v, g),
           ~(Place(v) \in DOMAIN head /\ head[Place(v)].word = v)
    PROVE  /\ Matching(head, filenames, seen)'
           /\ (\A i \in DOMAIN head, n \in 1 .. MAXFILES :
                  n \notin DOMAIN filenames => head[i].freq[n] = 0)'
<1>1. PICK names, p : names = Recorded(g) /\ p = Place(v)
  OBVIOUS
<1>2. PICK m, e : m = Number(names, g) /\ e = create_node(v, m)
  OBVIOUS
<1>3. /\ MemoryTypes /\ Distinct(filenames) /\ HasRoom(g)
      /\ head \in Seq(Entry) /\ seen \in Seen /\ filenames \in Names
  BY DEF IInv, MemoryTypes, MemoryMatches, Matching, add_word
<1>4. /\ names \in Names /\ Distinct(names) /\ In(names, g) /\ get_filenum(g) = m
      /\ DOMAIN filenames \subseteq DOMAIN names
  BY <1>1, <1>2, <1>3, RecordedProperties
<1>5. /\ p \in 1 .. Len(head) + 1 /\ ~(p \in DOMAIN head /\ head[p].word = v)
      /\ \A i \in DOMAIN head : i < p => head[i].word < v
      /\ p \in DOMAIN head => head[p].word >= v
  BY <1>1, <1>3, PlaceProperties
<1>6. /\ filenames' = names /\ seen' = OneMoreIn(seen, v, g)
      /\ head' = InsertAt(head, p, e)
  BY <1>1, <1>2, <1>4 DEF add_word, OneMoreIn
<1>7. PICK h, d : h = head' /\ d = seen'
  OBVIOUS
<1>8. PICK k \in Nat : k = Len(head)
  BY <1>3, ListTypes
<1>9. /\ e \in Entry /\ e.word = Cut[v]
      /\ \A n \in 1 .. MAXFILES : n \notin DOMAIN names => e.freq[n] = 0
  BY <1>2, <1>4, CellOfNewNode
<1>10. IsInserted(h, head, p, e)
  <2>1. PICK list \in Seq(Entry) : list = head
    BY <1>3
  <2>2. p \in 1 .. Len(list) + 1 /\ e \in Entry
    BY <1>5, <1>9, <2>1
  <2>3. IsInserted(InsertAt(list, p, e), list, p, e)
    BY <2>2, WithInserted
  <2> QED
    BY <1>6, <1>7, <2>1, <2>3
<1>11. /\ DOMAIN head = 1 .. k /\ DOMAIN h = 1 .. k + 1 /\ h[p] = e
       /\ \A j \in 1 .. k + 1 : j < p => j \in 1 .. k /\ h[j] = head[j]
       /\ \A j \in 1 .. k + 1 : p < j => j - 1 \in 1 .. k /\ h[j] = head[j - 1]
  BY <1>8, <1>10, Zenon DEF IsInserted
<1>12. /\ DOMAIN head = 1 .. k /\ DOMAIN h = 1 .. k + 1 /\ p \in 1 .. k + 1 /\ h[p] = e
       /\ \A j \in 1 .. k + 1 : j < p => j \in 1 .. k /\ h[j] = head[j]
       /\ \A j \in 1 .. k + 1 : p < j => j - 1 \in 1 .. k /\ h[j] = head[j - 1]
  <2>1. p \in 1 .. k + 1
    BY <1>5, <1>8
  <2> QED
    BY <1>11, <2>1, Zenon
<1>13. Counted(h, names, d)
  <2>1. Counted(head, names, seen)
    BY <1>1, <1>3, RecordedKeepsCounted
  <2>2. h = InsertAt(head, p, create_node(v, Number(names, g))) /\ d = OneMoreIn(seen, v, g)
    BY <1>2, <1>6, <1>7
  <2> QED
    BY <1>3, <1>4, <1>5, <2>1, <2>2, CountedInNewNode
<1>14. \A i \in DOMAIN h : Cut[h[i].word] = h[i].word
  BY <1>7 DEF IInv, KeptUncut
<1>15. Uncut(d) => OneNode(h)
  <2>1. SUFFICES ASSUME Uncut(d) PROVE OneNode(h)
    OBVIOUS
  <2>2. Uncut(seen) /\ Cut[v] = v
    BY <1>3, <1>6, <1>7, <2>1, StillUncut
  <2>3. OneNode(head)
    BY <2>2 DEF MemoryMatches, Matching
  <2>4. ASSUME NEW i \in 1 .. k PROVE head[i].word # v
    <3>1. /\ v \in Nat /\ \A j \in DOMAIN head : head[j].word \in Nat
      BY <1>3, HeadTypes, IndexAssumption DEF Words
    <3>2. CASE i < p
      BY <1>5, <1>12, <3>1, <3>2
    <3>3. CASE ~(i < p)
      <4>1. p \in DOMAIN head /\ p <= i
        BY <1>12, <3>3
      <4>2. head[p].word <= head[i].word
        <5>1. p = i \/ p < i
          BY <1>12, <4>1
        <5>2. CASE p < i
          BY <1>12, <4>1, <5>2 DEF IInv, Sorted
        <5>3. CASE p = i
          BY <1>12, <3>1, <5>3
        <5> QED
          BY <5>1, <5>2, <5>3
      <4>3. head[p].word > v
        BY <1>5, <3>1, <4>1
      <4> QED
        BY <1>12, <3>1, <4>1, <4>2, <4>3
    <3> QED
      BY <3>2, <3>3
  <2>5. e.word = v
    BY <1>9, <2>2
  <2>6. ASSUME NEW i \in 1 .. k + 1, NEW j \in 1 .. k + 1, h[i].word = h[j].word PROVE i = j
    <3>1. i = p <=> j = p
      <4>1. \A l \in 1 .. k + 1 : l # p => h[l].word # v
        BY <1>12, <2>4
      <4> QED
        BY <1>12, <2>5, <2>6, <4>1
    <3>2. CASE i # p
      <4>1. PICK x \in 1 .. k : h[i] = head[x] /\ (i < p => x = i) /\ (p < i => x = i - 1)
        BY <1>12, <3>2
      <4>2. PICK y \in 1 .. k : h[j] = head[y] /\ (j < p => y = j) /\ (p < j => y = j - 1)
        BY <1>12, <3>1, <3>2
      <4>3. x = y
        BY <1>12, <2>3, <2>6, <4>1, <4>2 DEF OneNode
      <4>4. /\ (i < p => h[i] = head[i] /\ i \in 1 .. k) /\ (p < i => x = i - 1)
            /\ (j < p => y = j) /\ (p < j => y = j - 1) /\ (i < p => x = i)
        BY <1>12, <4>1, <4>2
      <4>5. x < p <=> i < p
        BY <1>12, <3>2, <4>4
      <4>6. y < p <=> j < p
        BY <1>12, <3>1, <3>2, <4>4
      <4> QED
        BY <1>12, <3>1, <3>2, <4>3, <4>4, <4>5, <4>6
    <3> QED
      BY <3>1, <3>2
  <2> QED
    BY <1>12, <2>6 DEF OneNode
<1>16. \A i \in DOMAIN h, n \in 1 .. MAXFILES : n \notin DOMAIN names => h[i].freq[n] = 0
  <2>1. \A i \in 1 .. k, n \in 1 .. MAXFILES :
            n \notin DOMAIN filenames => head[i].freq[n] = 0
    BY <1>12 DEF MemoryMatches
  <2>2. ASSUME NEW i \in 1 .. k + 1, NEW n \in 1 .. MAXFILES, n \notin DOMAIN names
        PROVE  h[i].freq[n] = 0
    <3>1. n \notin DOMAIN filenames
      BY <1>4, <2>2
    <3>2. CASE i = p
      BY <1>9, <1>12, <2>2, <3>2
    <3>3. CASE i # p
      <4>1. PICK x \in 1 .. k : h[i] = head[x]
        BY <1>12, <3>3
      <4> QED
        BY <2>1, <3>1, <4>1
    <3> QED
      BY <3>2, <3>3
  <2> QED
    BY <1>12, <2>2
<1>17. Matching(h, names, d)
  BY <1>4, <1>13, <1>14, <1>15 DEF Matching
<1> QED
  BY <1>6, <1>7, <1>16, <1>17

LEMMA AddWordKeepsMatching ==
    ASSUME IInv, IInv', MemoryMatches, phase = "indexing", Tokens < MaxTokens[run],
           NEW v \in Words, NEW g \in Files, add_word(v, g)
    PROVE  MemoryMatches'
<1>1. /\ Matching(head, filenames, seen)'
      /\ (\A i \in DOMAIN head, n \in 1 .. MAXFILES :
             n \notin DOMAIN filenames => head[i].freq[n] = 0)'
  BY InPlaceKeepsMatching, NewNodeKeepsMatching
<1>2. Tokens' = Tokens + 1
  <2>1. seen \in Seen /\ seen' = OneMoreIn(seen, v, g)
    BY DEF IInv, MemoryTypes, add_word, OneMoreIn
  <2>2. PICK c \in Seen, d \in Seen : c = seen /\ d = seen'
    BY DEF IInv, MemoryTypes
  <2>3. d = OneMoreIn(c, v, g)
    BY <2>1, <2>2
  <2>4. SumFunctionOnSet(d, Words \X Files) = SumFunctionOnSet(c, Words \X Files) + 1
    <3>1. PICK S : S = Words \X Files
      OBVIOUS
    <3>2. SumFunctionOnSet(d, S) = SumFunctionOnSet(c, S) + 1
      BY <2>3, <3>1, OneMoreOccurrence
    <3> QED
      BY <3>1, <3>2
  <2> QED
    BY <2>2, <2>4 DEF Tokens
<1>3. Tokens \in Nat
  <2>1. \A x \in Words \X Files : seen[x] \in Nat
    BY DEF IInv, MemoryTypes, Seen
  <2> QED
    BY <2>1, OccurrencesTypes, SumType DEF Tokens
<1>4. run' = run /\ phase' = "indexing" /\ MaxTokens[run] \in Nat
  BY MostTokensBound DEF IInv, DiskTypes, add_word
<1>5. Tokens' <= MaxTokens[run']
  BY <1>2, <1>3, <1>4
<1> QED
  BY <1>1, <1>4, <1>5 DEF MemoryMatches

-----------------------------------------------------------------------------
(* Nothing counts for more than the words that were read. *)

LEMMA NodesBounded ==
    ASSUME IInv, MemoryMatches
    PROVE  head \in Seq(Node) /\ seen \in Counts
<1>1. /\ head \in Seq(Entry) /\ filenames \in Names /\ seen \in Seen
      /\ run \in 1 .. MaxRuns
  BY DEF IInv, MemoryTypes, DiskTypes
<1>2. PICK all : all = Words \X Files
  OBVIOUS
<1>3. IsFiniteSet(all) /\ \A x \in all : seen[x] \in Nat
  BY <1>1, <1>2, OccurrencesTypes DEF Seen
<1>4. PICK t \in Nat : t = SumFunctionOnSet(seen, all)
  BY <1>3, SumType
<1>5. PICK most \in Nat : most = MostTokens /\ t <= most
  <2>1. t <= MaxTokens[run]
    BY <1>2, <1>4 DEF MemoryMatches, Tokens
  <2>2. MaxTokens[run] \in Nat /\ MostTokens \in Nat /\ MaxTokens[run] <= MostTokens
    BY <1>1, MostTokensBound
  <2>3. PICK a \in Nat, b \in Nat : a = MaxTokens[run] /\ b = MostTokens
    BY <2>2
  <2>4. t <= b
    BY <2>1, <2>2, <2>3
  <2> QED
    BY <2>3, <2>4
<1>6. seen \in Counts
  <2>1. \A x \in all : seen[x] <= t
    BY <1>3, <1>4, SumMember
  <2>2. \A x \in all : seen[x] \in 0 .. most
    BY <1>3, <1>5, <2>1
  <2>3. seen = [x \in all |-> seen[x]]
    BY <1>1, <1>2 DEF Seen
  <2> QED
    BY <1>2, <1>5, <2>2, <2>3 DEF Counts
<1>7. ASSUME NEW i \in DOMAIN head, NEW n \in 1 .. MAXFILES PROVE head[i].freq[n] \in 0 .. most
  <2>1. head[i] \in Entry /\ head[i].word \in Words /\ head[i].freq[n] \in Nat
    BY <1>1, ListTypes
  <2>2. CASE n \notin DOMAIN filenames
    BY <1>5, <2>2 DEF MemoryMatches
  <2>3. CASE n \in DOMAIN filenames
    <3>1. PICK f \in Files, w \in Words : f = filenames[n] /\ w = head[i].word
      BY <1>1, <2>1, <2>3, NumberProperties
    <3>2. Distinct(filenames) /\ Counted(head, filenames, seen)
      BY DEF MemoryMatches, Matching
    <3>3. In(filenames, f) /\ Number(filenames, f) = n
      BY <1>1, <2>3, <3>1, <3>2, NumberUnique
    <3>4. Cell(head[i], filenames, w, f) = head[i].freq[n]
      BY <3>1, <3>3 DEF Cell
    <3>5. PICK c, D, S : c = Column(head, filenames, w, f) /\ D = DOMAIN head /\ S = OfWord(w, f)
      OBVIOUS
    <3>6. /\ IsFiniteSet(D) /\ i \in D /\ c[i] = Cell(head[i], filenames, w, f)
          /\ \A j \in D : c[j] \in Nat
      BY <1>1, <3>5, ColumnTypes
    <3>7. c[i] <= SumFunctionOnSet(c, D)
      BY <3>6, SumMember
    <3>8. SumFunctionOnSet(c, D) = SumFunctionOnSet(seen, S)
      BY <3>2, <3>5 DEF Counted
    <3>9. S \in SUBSET all
      BY <1>2, <3>5, OccurrencesTypes
    <3>10. SumFunctionOnSet(seen, S) <= SumFunctionOnSet(seen, all)
      BY <1>3, <3>9, SumOfFewer
    <3>11. SumFunctionOnSet(c, D) \in Nat
      BY <3>6, SumType
    <3>12. PICK a \in Nat, b \in Nat : a = head[i].freq[n] /\ b = SumFunctionOnSet(c, D)
      BY <2>1, <3>11
    <3>13. a <= b /\ b <= t
      BY <1>4, <3>4, <3>6, <3>7, <3>8, <3>10, <3>12
    <3>14. a \in 0 .. most
      BY <1>5, <3>12, <3>13
    <3> QED
      BY <3>12, <3>14
  <2> QED
    BY <2>2, <2>3
<1>8. ASSUME NEW i \in DOMAIN head PROVE head[i] \in Node
  <2>1. head[i] \in [word : Words, freq : [1 .. MAXFILES -> Nat]]
    BY <1>1, ListTypes DEF Entry
  <2>2. PICK w \in Words, freq \in [1 .. MAXFILES -> Nat] : head[i] = [word |-> w, freq |-> freq]
    BY <2>1
  <2>3. \A n \in 1 .. MAXFILES : freq[n] \in 0 .. most
    <3>1. freq = head[i].freq
      BY <2>2
    <3> QED
      BY <1>7, <3>1
  <2>4. freq \in [1 .. MAXFILES -> 0 .. most]
    BY <2>3
  <2> QED
    BY <1>5, <2>2, <2>4 DEF Node
<1>9. head \in Seq(Node)
  <2>1. Len(head) \in Nat /\ DOMAIN head = 1 .. Len(head) /\ head = [i \in 1 .. Len(head) |-> head[i]]
    BY <1>1, LenProperties
  <2>2. PICK k \in Nat : k = Len(head)
    BY <2>1
  <2>3. head \in [1 .. k -> Node]
    BY <1>8, <2>1, <2>2
  <2> QED
    BY <2>3, SeqDef
<1> QED
  BY <1>6, <1>9

-----------------------------------------------------------------------------
(* The other steps. *)

\* An empty memory matches no occurrences.
LEMMA EmptyMatches ==
    /\ Matching(<< >>, << >>, None) /\ << >> \in Seq(Node) /\ None \in Counts
    /\ \A S : S = Words \X Files => SumFunctionOnSet(None, S) = 0
<1>1. DOMAIN << >> = {}
  BY EmptySeq
<1>2. Distinct(<< >>) /\ OneNode(<< >>)
  BY <1>1 DEF Distinct, OneNode
<1>3. ASSUME NEW w \in Words, NEW f \in Files
      PROVE  SumFunctionOnSet(Column(<< >>, << >>, w, f), DOMAIN << >>)
                 = SumFunctionOnSet(None, OfWord(w, f))
  <2>1. SumFunctionOnSet(Column(<< >>, << >>, w, f), {}) = 0
    BY SumOfNone
  <2>2. SumFunctionOnSet(None, OfWord(w, f)) = 0
    BY OccurrencesTypes, NoOccurrence
  <2> QED
    BY <1>1, <2>1, <2>2
<1>4. Matching(<< >>, << >>, None)
  BY <1>1, <1>2, <1>3 DEF Matching, Counted
<1>5. None \in Counts
  <2>1. 0 \in 0 .. MostTokens
    BY MostTokensBound
  <2> QED
    BY <2>1 DEF None, Counts
<1>6. ASSUME NEW S, S = Words \X Files PROVE SumFunctionOnSet(None, S) = 0
  BY <1>6, NoOccurrence
<1> QED
  BY <1>4, <1>5, <1>6, EmptySeq

\* So it does at the beginning of a run, and when the process is gone.
LEMMA EmptyMemoryMatches ==
    ASSUME head = << >>, filenames = << >>, seen = None, run \in 1 .. MaxRuns
    PROVE  MemoryMatches
<1>1. Matching(head, filenames, seen)
  BY EmptyMatches
<1>2. DOMAIN head = {}
  BY EmptySeq
<1>3. Tokens = 0
  BY EmptyMatches DEF Tokens
<1>4. MaxTokens[run] \in Nat
  BY MostTokensBound
<1> QED
  BY <1>1, <1>2, <1>3, <1>4 DEF MemoryMatches

LEMMA EmptyMemoryMatchesNext ==
    ASSUME head' = << >>, filenames' = << >>, seen' = None, run' \in 1 .. MaxRuns
    PROVE  MemoryMatches'
<1>1. Matching(head, filenames, seen)'
  BY EmptyMatches
<1>2. DOMAIN head' = {}
  BY EmptySeq
<1>3. Tokens' = 0
  BY EmptyMatches DEF Tokens
<1>4. MaxTokens[run'] \in Nat
  BY MostTokensBound
<1> QED
  BY <1>1, <1>2, <1>3, <1>4 DEF MemoryMatches

LEMMA EndKeepsCInv ==
    ASSUME IInv, IInv', CInv, Ended, UNCHANGED <<disk, whole>>
    PROVE  CInv'
<1>1. run' \in 1 .. MaxRuns /\ head' = << >> /\ filenames' = << >> /\ seen' = None
  BY DEF IInv, DiskTypes, Ended
<1>2. MemoryMatches'
  BY <1>1, EmptyMemoryMatchesNext
<1>3. DiskFollows' /\ WholeMatches' /\ ReaderMatches'
  BY DEF CInv, DiskFollows, WholeMatches, ReaderMatches, Ended
<1> QED
  BY <1>2, <1>3 DEF CInv

\* Memory is as it was: what is left are the files and the reader.
LEMMA SameMemory ==
    ASSUME MemoryMatches, phase # "ended", phase' # "ended",
           UNCHANGED <<run, head, filenames, seen>>
    PROVE  MemoryMatches'
BY DEF MemoryMatches, Tokens

\* Sequences of nodes or names that start a longer one.
LEMMA StartOfNothing ==
    ASSUME NEW S, NEW all \in Seq(S)
    PROVE  StartOf(<< >>, all)
BY EmptySeq, LenProperties DEF StartOf

LEMMA StartOfOneMore ==
    ASSUME NEW S, NEW written \in Seq(S), NEW all \in Seq(S),
           StartOf(written, all), Len(written) < Len(all)
    PROVE  /\ all[Len(written) + 1] \in S
           /\ Append(written, all[Len(written) + 1]) \in Seq(S)
           /\ StartOf(Append(written, all[Len(written) + 1]), all)
<1>1. /\ Len(written) \in Nat /\ DOMAIN written = 1 .. Len(written)
      /\ Len(all) \in Nat /\ DOMAIN all = 1 .. Len(all)
  BY LenProperties
<1>2. PICK k \in Nat : k = Len(written)
  BY <1>1
<1>3. k + 1 \in 1 .. Len(all)
  BY <1>1, <1>2
<1>4. PICK e \in S : e = all[k + 1]
  BY <1>3, ElementOfSeq
<1>5. PICK more : more = Append(written, e)
  OBVIOUS
<1>6. /\ more \in Seq(S) /\ Len(more) = k + 1 /\ more[k + 1] = e
      /\ \A i \in 1 .. k : more[i] = written[i]
  BY <1>2, <1>4, <1>5, AppendProperties
<1>7. DOMAIN more = 1 .. k + 1
  BY <1>6, LenProperties
<1>8. \A i \in 1 .. k : written[i] = all[i]
  BY <1>1, <1>2 DEF StartOf
<1>9. ASSUME NEW i \in 1 .. k + 1 PROVE more[i] = all[i]
  <2>1. CASE i = k + 1
    BY <1>4, <1>6, <2>1
  <2>2. CASE i # k + 1
    <3>1. i \in 1 .. k
      BY <1>2, <2>2
    <3> QED
      BY <1>6, <1>8, <3>1
  <2> QED
    BY <2>1, <2>2
<1>10. StartOf(more, all)
  BY <1>1, <1>3, <1>6, <1>7, <1>9 DEF StartOf
<1> QED
  BY <1>2, <1>4, <1>5, <1>6, <1>10

LEMMA StartIsAll ==
    ASSUME NEW S, NEW written \in Seq(S), NEW all \in Seq(S),
           StartOf(written, all), Len(written) >= Len(all)
    PROVE  written = all
<1>1. Len(written) \in Nat /\ DOMAIN written = 1 .. Len(written) /\ Len(all) \in Nat
  BY LenProperties
<1>2. Len(written) = Len(all) /\ \A i \in 1 .. Len(written) : written[i] = all[i]
  BY <1>1 DEF StartOf
<1> QED
  BY <1>2, SeqEqual

\* write_list, before its end: no complete result is on disk, as there will be none
\* until both files have been written.
LEMMA WriteKeepsCInv ==
    ASSUME IInv, IInv', CInv, reader.at \in {"start", "counted", "list"}, write_list
    PROVE  CInv'
<1>1. /\ head \in Seq(Entry) /\ disk.list \in Seq(Entry) /\ head \in Seq(Node)
      /\ seen \in Counts
      /\ disk.list \in Seq(Node) /\ whole.seen \in Counts
      /\ filenames \in Seq(Files) /\ disk.names \in Seq(Files)
      /\ disk \in [list : Seq(Entry), names : Names, made : SUBSET {"list", "names"}]
      /\ whole \in [run : 0 .. MaxRuns, seen : Seen]
      /\ run \in Nat /\ run > 0 /\ MemoryMatches
  BY NodesBounded DEF IInv, MemoryTypes, DiskTypes, Names, CInv, DiskFollows
<1>2. /\ reader.run <= run /\ (phase # "ended" => reader.run < run) /\ reader.list \in Seq(Node)
      /\ reader.run \in Nat
  BY DEF CInv, ReaderMatches, IInv, ReaderTypes
<1>3. CASE /\ phase \in {"indexing", "listing", "naming"} /\ phase' \in {"listing", "naming"}
           /\ UNCHANGED <<run, memory, reader>>
           /\ whole'.run = 0 /\ DiskFollows'
  <2>1. MemoryMatches'
    BY <1>1, <1>3, SameMemory DEF memory
  <2>2. WholeMatches'
    BY <1>1, <1>3 DEF WholeMatches
  <2>3. ReaderMatches'
    BY <1>2, <1>3 DEF ReaderMatches
  <2> QED
    BY <1>3, <2>1, <2>2, <2>3 DEF CInv
<1>4. CASE /\ phase = "indexing" /\ todo = {} /\ phase' = "listing"
           /\ disk' = [disk EXCEPT !.list = << >>, !.made = @ \cup {"list"}]
           /\ whole' = [run |-> 0, seen |-> None]
           /\ UNCHANGED <<run, memory, reader>>
  <2>1. disk'.list = << >> /\ whole'.run = 0 /\ whole'.seen = None
    BY <1>1, <1>4
  <2>2. StartOf(<< >>, head) /\ head' = head
    BY <1>1, <1>4, StartOfNothing DEF memory
  <2>3. DiskFollows'
    BY <1>4, <2>1, <2>2, EmptyMatches DEF DiskFollows
  <2> QED
    BY <1>3, <1>4, <2>1, <2>3
<1>5. CASE /\ phase = "listing" /\ Len(disk.list) < Len(head)
           /\ disk' = [disk EXCEPT !.list = Append(@, head[Len(@) + 1])]
           /\ UNCHANGED <<run, phase, memory, reader, whole>>
  <2>1. PICK written \in Seq(Node), all \in Seq(Node) : written = disk.list /\ all = head
    BY <1>1
  <2>2. StartOf(written, all) /\ Len(written) < Len(all)
    BY <1>5, <2>1 DEF CInv, DiskFollows
  <2>3. /\ Append(written, all[Len(written) + 1]) \in Seq(Node)
        /\ StartOf(Append(written, all[Len(written) + 1]), all)
    BY <2>2, StartOfOneMore
  <2>4. disk'.list = Append(written, all[Len(written) + 1])
    BY <1>1, <1>5, <2>1
  <2>5. DiskFollows'
    BY <1>1, <1>5, <2>1, <2>3, <2>4 DEF DiskFollows, memory
  <2>6. whole'.run = 0
    BY <1>5 DEF CInv, WholeMatches
  <2> QED
    BY <1>3, <1>5, <2>5, <2>6
<1>6. CASE /\ phase = "listing" /\ phase' = "naming"
           /\ disk' = [disk EXCEPT !.names = << >>, !.made = @ \cup {"names"}]
           /\ UNCHANGED <<run, memory, reader, whole>>
  <2>1. StartOf(disk.list, head)
    BY <1>6 DEF CInv, DiskFollows
  <2>3. disk'.list = disk.list /\ disk'.names = << >>
    BY <1>1, <1>6
  <2>4. StartOf(<< >>, filenames)
    BY <1>1, StartOfNothing
  <2>5. DiskFollows'
    BY <1>1, <1>6, <2>1, <2>3, <2>4 DEF DiskFollows, memory
  <2>6. whole'.run = 0
    BY <1>6 DEF CInv, WholeMatches
  <2> QED
    BY <1>3, <1>6, <2>5, <2>6
<1>7. CASE /\ phase = "naming" /\ Len(disk.names) < Len(filenames)
           /\ disk' = [disk EXCEPT !.names = Append(@, filenames[Len(@) + 1])]
           /\ UNCHANGED <<run, phase, memory, reader, whole>>
  <2>1. PICK written \in Seq(Files), all \in Seq(Files) : written = disk.names /\ all = filenames
    BY <1>1
  <2>2. StartOf(written, all) /\ Len(written) < Len(all) /\ StartOf(disk.list, head)
    BY <1>7, <2>1 DEF CInv, DiskFollows
  <2>3. StartOf(Append(written, all[Len(written) + 1]), all)
    BY <2>2, StartOfOneMore
  <2>4. disk'.names = Append(written, all[Len(written) + 1]) /\ disk'.list = disk.list
    BY <1>1, <1>7, <2>1
  <2>5. DiskFollows'
    BY <1>1, <1>7, <2>1, <2>2, <2>3, <2>4 DEF DiskFollows, memory
  <2>6. whole'.run = 0
    BY <1>7 DEF CInv, WholeMatches
  <2> QED
    BY <1>3, <1>7, <2>5, <2>6
<1>8. CASE /\ phase = "naming" /\ Len(disk.names) = Len(filenames)
           /\ whole' = IF disk.list = head THEN [run |-> run, seen |-> seen] ELSE whole
           /\ Ended /\ UNCHANGED disk
  <2>1. CASE disk.list # head
    BY <1>8, <2>1, EndKeepsCInv
  <2>2. CASE disk.list = head
    <3>1. StartOf(disk.names, filenames)
      BY <1>8 DEF CInv, DiskFollows
    <3>2. disk.names = filenames
      <4>1. Len(disk.names) \in Nat
        BY <1>1, LenProperties
      <4>2. Len(disk.names) >= Len(filenames)
        BY <1>8, <4>1
      <4> QED
        BY <1>1, <3>1, <4>2, StartIsAll
    <3>3. Matching(disk.list, disk.names, seen)
      BY <2>2, <3>2 DEF CInv, MemoryMatches
    <3>4. /\ disk' = disk /\ whole'.run = run /\ whole'.seen = seen /\ run' = run
          /\ phase' = "ended" /\ reader' = reader
      BY <1>8, <2>2 DEF Ended
    <3>5. DiskFollows'
      BY <1>1, <3>4 DEF DiskFollows
    <3>6. WholeMatches'
      BY <1>1, <3>3, <3>4 DEF WholeMatches
    <3>7. ReaderMatches'
      <4>1. reader.run < run
        BY <1>2, <1>8
      <4> QED
        BY <1>1, <1>2, <3>4, <4>1 DEF ReaderMatches
    <3>8. MemoryMatches'
      <4>1. run' \in 1 .. MaxRuns /\ head' = << >> /\ filenames' = << >> /\ seen' = None
        BY <1>8 DEF IInv, DiskTypes, Ended
      <4> QED
        BY <4>1, EmptyMemoryMatchesNext
    <3> QED
      BY <3>5, <3>6, <3>7, <3>8 DEF CInv
  <2> QED
    BY <2>1, <2>2
<1> QED
  BY <1>4, <1>5, <1>6, <1>7, <1>8 DEF write_list

\* A reader: what it reads is only said to be of a run if all of it is there.
LEMMA ReadKeepsCInv ==
    ASSUME IInv, IInv', CInv, Reads
    PROVE  CInv'
<1>1. /\ disk.list \in Seq(Node) /\ reader.list \in Seq(Node)
      /\ reader \in [at : Stages, count : 0 .. MAXFILES, list : Seq(Entry),
                     names : Names, run : 0 .. MaxRuns]
      /\ run \in Nat /\ run > 0
  BY DEF IInv, DiskTypes, ReaderTypes, CInv, DiskFollows, ReaderMatches
<1>2. UNCHANGED <<run, phase, head, filenames, seen, disk, whole>>
  BY DEF Reads, read_list, memory
<1>3. MemoryMatches' /\ DiskFollows' /\ WholeMatches'
  BY <1>2 DEF CInv, MemoryMatches, Tokens, DiskFollows, WholeMatches
<1>4. /\ reader.run <= run /\ (phase # "ended" => reader.run < run)
      /\ whole.run <= run /\ (phase # "ended" => whole.run < run)
  BY DEF CInv, ReaderMatches, WholeMatches
<1>5. CASE reader' = [Unread EXCEPT !.at = "refused"]
  <2>1. reader'.at = "refused" /\ reader'.run = 0 /\ reader'.list = << >>
    BY <1>5 DEF Unread
  <2>2. ReaderMatches'
    BY <1>1, <1>2, <2>1, EmptyMatches DEF ReaderMatches
  <2> QED
    BY <1>3, <2>2 DEF CInv
<1>6. CASE reader' = [Unread EXCEPT !.at = "counted", !.count = Len(disk.names),
                                    !.run = whole.run]
  <2>1. /\ reader'.at = "counted" /\ reader'.count = Len(disk.names)
        /\ reader'.run = whole.run /\ reader'.list = << >>
    BY <1>6 DEF Unread
  <2>2. ReaderMatches'
    BY <1>1, <1>2, <1>4, <2>1, EmptyMatches DEF ReaderMatches
  <2> QED
    BY <1>3, <2>2 DEF CInv
<1>7. CASE /\ reader.at = "counted"
           /\ reader' = [reader EXCEPT !.at = "list", !.list = disk.list, !.run = SameRun]
  <2>1. /\ reader'.at = "list" /\ reader'.count = reader.count /\ reader'.list = disk.list
        /\ reader'.run = IF reader.run = whole.run THEN reader.run ELSE 0
    BY <1>1, <1>7 DEF SameRun
  <2>2. reader.run # 0 /\ reader.run = whole.run => reader.count = Len(disk.names)
    BY <1>7 DEF CInv, ReaderMatches
  <2>3. ReaderMatches'
    BY <1>1, <1>2, <1>4, <2>1, <2>2 DEF ReaderMatches
  <2> QED
    BY <1>3, <2>3 DEF CInv
<1>8. CASE read_names
  <2>1. PICK at : /\ reader' = [reader EXCEPT !.at = at, !.names = disk.names, !.run = SameRun]
                  /\ at \notin {"counted", "list"} /\ reader.at = "list"
    <3> DEFINE a == IF Len(disk.names) > reader.count THEN "overrun"
                      ELSE IF Len(disk.names) < MAXFILES THEN "loaded" ELSE "refused"
    <3>1. a \notin {"counted", "list"} /\ reader.at = "list"
      BY <1>8 DEF read_names
    <3>2. reader' = [reader EXCEPT !.at = a, !.names = disk.names, !.run = SameRun]
      BY <1>8 DEF read_names
    <3> HIDE DEF a
    <3> QED
      BY <3>1, <3>2
  <2>2. /\ reader'.at = at /\ reader'.list = reader.list /\ reader'.names = disk.names
        /\ reader'.count = reader.count
        /\ reader'.run = IF reader.run = whole.run THEN reader.run ELSE 0
    BY <1>1, <2>1 DEF SameRun
  <2>3. reader.run # 0 /\ reader.run = whole.run =>
          reader.list = disk.list /\ reader.count = Len(disk.names)
    BY <2>1 DEF CInv, ReaderMatches
  <2>4. ReaderMatches'
    BY <1>1, <1>2, <1>4, <2>1, <2>2, <2>3 DEF ReaderMatches
  <2> QED
    BY <1>3, <2>4 DEF CInv
<1> QED
  BY <1>5, <1>6, <1>7, <1>8 DEF Reads, count_names, read_list, read_nodes

LEMMA InitHasCInv == Init => CInv
<1> SUFFICES ASSUME Init PROVE CInv
  OBVIOUS
<1>1. run \in 1 .. MaxRuns /\ run = 1
  BY EmptyMemory DEF Init
<1>2. MemoryMatches
  BY <1>1, EmptyMemoryMatches DEF Init
<1>3. DiskFollows /\ WholeMatches /\ ReaderMatches
  BY EmptyMatches DEF Init, Unread, DiskFollows, WholeMatches, ReaderMatches
<1> QED
  BY <1>2, <1>3 DEF CInv

LEMMA StepKeepsCInv == IInv /\ IInv' /\ CInv /\ [Next]_vars => CInv'
<1> SUFFICES ASSUME IInv, IInv', CInv, [Next]_vars PROVE CInv'
  OBVIOUS
<1>1. CASE NextFile
  <2>1. UNCHANGED <<run, phase, head, filenames, seen, disk, reader, whole>>
    BY <1>1 DEF NextFile
  <2> QED
    BY <2>1 DEF CInv, MemoryMatches, Tokens, DiskFollows, WholeMatches, ReaderMatches
<1>2. CASE index_file
  <2>1. PICK f \in open, w \in Words :
            \/ Tokens < MaxTokens[run] /\ add_word(w, f)
            \/ ~HasRoom(f) /\ Ended /\ UNCHANGED <<disk, whole>>
    BY <1>2 DEF index_file
  <2>2. CASE Tokens < MaxTokens[run] /\ add_word(w, f)
    <3>1. f \in Files /\ phase = "indexing" /\ MemoryMatches
      BY <1>2 DEF IInv, MemoryTypes, CInv, index_file
    <3>2. MemoryMatches'
      BY <2>2, <3>1, AddWordKeepsMatching
    <3>3. UNCHANGED <<run, phase, disk, reader, whole>>
      BY <2>2 DEF add_word
    <3>4. DiskFollows' /\ WholeMatches' /\ ReaderMatches'
      BY <3>1, <3>3 DEF CInv, DiskFollows, WholeMatches, ReaderMatches
    <3> QED
      BY <3>2, <3>4 DEF CInv
  <2>3. CASE Ended /\ UNCHANGED <<disk, whole>>
    BY <2>3, EndKeepsCInv
  <2> QED
    BY <2>1, <2>2, <2>3
<1>3. CASE write_list /\ reader.at \in {"start", "counted", "list"}
  BY <1>3, WriteKeepsCInv
<1>4. CASE Stop
  BY <1>4, EndKeepsCInv DEF Stop
<1>5. CASE Rerun
  <2>1. /\ phase = "ended" /\ run' = run + 1 /\ phase' = "indexing"
        /\ UNCHANGED <<head, filenames, seen, disk, reader, whole>>
    BY <1>5 DEF Rerun
  <2>2. MemoryMatches'
    <3>1. run' \in 1 .. MaxRuns /\ head' = << >> /\ filenames' = << >> /\ seen' = None
      BY <2>1 DEF IInv, DiskTypes, CInv, MemoryMatches
    <3> QED
      BY <3>1, EmptyMemoryMatchesNext
  <2>3. run \in Nat /\ whole.run \in Nat /\ reader.run \in Nat
    BY DEF IInv, DiskTypes, ReaderTypes
  <2>4. DiskFollows'
    BY <2>1 DEF CInv, DiskFollows
  <2>5. WholeMatches'
    BY <2>1, <2>3 DEF CInv, WholeMatches
  <2>6. ReaderMatches'
    BY <2>1, <2>3 DEF CInv, ReaderMatches
  <2> QED
    BY <2>2, <2>4, <2>5, <2>6 DEF CInv
<1>6. CASE Reads
  BY <1>6, ReadKeepsCInv
<1>7. CASE UNCHANGED vars
  BY <1>7 DEF vars, memory, CInv, MemoryMatches, Tokens, DiskFollows, WholeMatches, ReaderMatches
<1> QED
  BY <1>1, <1>2, <1>3, <1>4, <1>5, <1>6, <1>7 DEF Next, Reads

LEMMA CountsHold == Spec => [](IInv /\ CInv)
<1>1. Init => IInv /\ CInv
  BY InitHasIInv, InitHasCInv
<1>2. IInv /\ CInv /\ [Next]_vars => (IInv /\ CInv)'
  BY StepKeepsIInv, StepKeepsCInv
<1> QED
  BY <1>1, <1>2, PTL DEF Spec

-----------------------------------------------------------------------------
(* What get_word tells, of a list and names that match. *)

\* The column of a word that was counted uncut holds its occurrences in the file,
\* and is empty but for the one node of the word.
LEMMA OccurrencesOfWord ==
    ASSUME NEW c \in Seen, Uncut(c), NEW w \in Words, Cut[w] = w, NEW f \in Files
    PROVE  SumFunctionOnSet(c, OfWord(w, f)) = c[<<w, f>>]
<1>1. PICK S, o : S = OfWord(w, f) /\ o = <<w, f>>
  OBVIOUS
<1>2. IsFiniteSet(S) /\ S \in SUBSET (Words \X Files)
  BY <1>1, OccurrencesTypes
<1>3. o \in S
  BY <1>1 DEF OfWord
<1>4. \A x \in S : c[x] \in Nat
  BY <1>2 DEF Seen
<1>5. ASSUME NEW x \in S, x # o PROVE c[x] = 0
  <2>1. PICK u \in Words : x = <<u, f>> /\ Cut[u] = w
    BY <1>1 DEF OfWord
  <2>2. Cut[u] # u
    BY <1>1, <1>5, <2>1
  <2>3. ~(c[<<u, f>>] > 0) /\ c[<<u, f>>] \in Nat
    BY <1>4, <2>1, <2>2 DEF Uncut
  <2> QED
    BY <2>1, <2>3
<1>6. SumFunctionOnSet(c, S) = c[o]
  BY <1>2, <1>3, <1>4, <1>5, SumOfOne
<1> QED
  BY <1>1, <1>6

LEMMA CellsTellOccurrences ==
    ASSUME NEW list \in Seq(Entry), NEW names \in Names, NEW c \in Seen,
           Matching(list, names, c), Uncut(c), NEW w \in Words, Cut[w] = w, NEW f \in Files
    PROVE  /\ (\A i \in DOMAIN list : list[i].word # w) => c[<<w, f>>] = 0
           /\ \A i \in DOMAIN list : list[i].word = w =>
                 c[<<w, f>>] = Cell(list[i], names, w, f)
<1>1. PICK column, D, S : /\ column = Column(list, names, w, f) /\ D = DOMAIN list
                          /\ S = OfWord(w, f)
  OBVIOUS
<1>2. IsFiniteSet(D) /\ \A i \in D : column[i] \in Nat /\ column[i] = Cell(list[i], names, w, f)
  BY <1>1, ColumnTypes
<1>3. SumFunctionOnSet(column, D) = c[<<w, f>>]
  <2>1. SumFunctionOnSet(column, D) = SumFunctionOnSet(c, S)
    BY <1>1 DEF Matching, Counted
  <2> QED
    BY <1>1, <2>1, OccurrencesOfWord
<1>4. \A i \in D : list[i].word # w => column[i] = 0
  BY <1>2 DEF Cell
<1>5. ASSUME \A i \in DOMAIN list : list[i].word # w PROVE c[<<w, f>>] = 0
  <2>1. \A i \in D : column[i] = 0
    BY <1>1, <1>4, <1>5
  <2> QED
    BY <1>2, <1>3, <2>1, SumOfZeros
<1>6. ASSUME NEW i \in DOMAIN list, list[i].word = w
      PROVE  c[<<w, f>>] = Cell(list[i], names, w, f)
  <2>1. OneNode(list)
    BY DEF Matching
  <2>2. \A j \in D : j # i => column[j] = 0
    BY <1>1, <1>4, <1>6, <2>1 DEF OneNode
  <2>3. i \in D /\ column[i] \in Nat
    BY <1>1, <1>2
  <2>4. SumFunctionOnSet(column, D) = column[i]
    BY <1>2, <2>2, <2>3, SumOfOne
  <2> QED
    BY <1>2, <1>3, <2>3, <2>4
<1> QED
  BY <1>5, <1>6

\* run_worker reports the files with the word whose names it sends, each with its count.
Records(names, freq) ==
    {<<names[n], freq[n]>> : n \in {m \in DOMAIN names : freq[m] > 0 /\ names[m] \in Dotted}}
InFiles(c, w) == {<<f, c[<<w, f>>]>> : f \in {g \in Dotted : c[<<w, g>>] > 0}}

LEMMA RecordsTellOccurrences ==
    ASSUME NEW list \in Seq(Entry), NEW names \in Names, NEW c \in Seen,
           Matching(list, names, c), Uncut(c), NEW w \in Words,
           NEW k \in DOMAIN list, list[k].word = w
    PROVE  Records(names, list[k].freq) = InFiles(c, w)
<1>1. Cut[w] = w
  BY DEF Matching
<1>2. PICK freq : freq = list[k].freq
  OBVIOUS
<1>3. \A f \in Files : c[<<w, f>>] = Cell(list[k], names, w, f)
  BY <1>1, CellsTellOccurrences
<1>4. ASSUME NEW n \in DOMAIN names
      PROVE  names[n] \in Files /\ c[<<w, names[n]>>] = freq[n]
  <2>1. PICK f \in Files : f = names[n]
    BY NumberProperties
  <2>2. In(names, f) /\ Number(names, f) = n
    BY <2>1, NumberUnique DEF Matching
  <2>3. Cell(list[k], names, w, f) = freq[n]
    BY <1>2, <2>2 DEF Cell
  <2> QED
    BY <1>3, <2>1, <2>3
<1>5. ASSUME NEW f \in Files, c[<<w, f>>] > 0
      PROVE  \E n \in DOMAIN names : names[n] = f /\ freq[n] = c[<<w, f>>]
  <2>1. In(names, f)
    <3>1. Cell(list[k], names, w, f) # 0
      BY <1>3, <1>5
    <3> QED
      BY <3>1 DEF Cell
  <2>2. PICK n \in DOMAIN names : names[n] = f
    BY <2>1 DEF In
  <2> QED
    BY <1>4, <2>2
<1>6. {<<names[n], freq[n]>> : n \in {m \in DOMAIN names : freq[m] > 0 /\ names[m] \in Dotted}}
         = {<<f, c[<<w, f>>]>> : f \in {g \in Dotted : c[<<w, g>>] > 0}}
  <2>1. ASSUME NEW n \in DOMAIN names, freq[n] > 0, names[n] \in Dotted
        PROVE  <<names[n], freq[n]>> \in {<<f, c[<<w, f>>]>> : f \in {g \in Dotted : c[<<w, g>>] > 0}}
    <3>1. PICK f \in Dotted : f = names[n] /\ c[<<w, f>>] = freq[n]
      BY <1>4, <2>1
    <3>2. f \in {g \in Dotted : c[<<w, g>>] > 0}
      BY <2>1, <3>1
    <3> QED
      BY <3>1, <3>2
  <2>2. ASSUME NEW f \in Dotted, c[<<w, f>>] > 0
        PROVE  <<f, c[<<w, f>>]>> \in {<<names[n], freq[n]>> :
                     n \in {m \in DOMAIN names : freq[m] > 0 /\ names[m] \in Dotted}}
    <3>1. PICK n \in DOMAIN names : names[n] = f /\ freq[n] = c[<<w, f>>]
      BY <1>5, <2>2, IndexAssumption
    <3>2. n \in {m \in DOMAIN names : freq[m] > 0 /\ names[m] \in Dotted}
      BY <2>2, <3>1
    <3> QED
      BY <3>1, <3>2
  <2> QED
    BY <2>1, <2>2
<1> QED
  BY <1>2, <1>6 DEF Records, InFiles

-----------------------------------------------------------------------------
(* Theorems *)

\* Nodes, names and file numbers are of their types in memory, on disk and with a
\* reader: no node counts for a file beyond its array, no list of names is too long,
\* and no count is more than the words of the longest run.
THEOREM TypeCorrect == Spec => []TypeOK
<1>1. ASSUME IInv, CInv PROVE TypeOK
  <2>1. head \in Seq(Node) /\ seen \in Counts
    BY <1>1, NodesBounded DEF CInv
  <2>2. /\ disk.list \in Seq(Node) /\ whole.seen \in Counts /\ reader.list \in Seq(Node)
    BY <1>1 DEF CInv, DiskFollows, ReaderMatches
  <2>3. whole \in [run : 0 .. MaxRuns, seen : Counts]
    <3>1. whole \in [run : 0 .. MaxRuns, seen : Seen]
      BY <1>1 DEF IInv, DiskTypes
    <3> QED
      BY <2>2, <3>1
  <2> QED
    BY <1>1, <2>1, <2>2, <2>3
       DEF TypeOK, IInv, MemoryTypes, DiskTypes, ReaderTypes, Stages, Names
<1>2. IInv /\ CInv => TypeOK
  BY <1>1
<1> QED
  BY <1>2, CountsHold, PTL

\* add_word keeps the list in alphabetical order, although it compares words in full
\* with words that were cut, for every way of cutting that keeps their order.
THEOREM AlwaysSorted == Spec => []Sorted
<1>1. IInv => Sorted
  BY DEF IInv
<1> QED
  BY <1>1, InvariantHolds, PTL

\* add_word loses no occurrence and counts none for another file: for every word and
\* file the nodes together hold what was read, also when words were cut to the same
\* one, when a file got its number only after nodes for the word were made, and when
\* nodes have moved to make room.
THEOREM AlwaysCountedOnce == Spec => []CountedOnce
<1>1. ASSUME IInv, CInv PROVE CountedOnce
  <2>1. /\ Counted(head, filenames, seen) /\ head \in Seq(Entry)
    BY <1>1 DEF IInv, MemoryTypes, CInv, MemoryMatches, Matching
  <2>2. ASSUME NEW w \in Words, NEW f \in Files
        PROVE  LET n == get_filenum(f)
                   column == [i \in DOMAIN head |->
                        IF Known(f) /\ head[i].word = w THEN head[i].freq[n] ELSE 0]
               IN  SumFunctionOnSet(column, DOMAIN head) = Occurrences(w, f)
    <3> DEFINE column == [i \in DOMAIN head |->
                  IF Known(f) /\ head[i].word = w THEN head[i].freq[get_filenum(f)] ELSE 0]
    <3>1. Known(f) => get_filenum(f) = Number(filenames, f)
      BY DEF get_filenum, Recorded, Number
    <3>2. Known(f) <=> In(filenames, f)
      BY DEF Known, In
    <3>3. PICK D : D = DOMAIN head
      OBVIOUS
    <3>4. column = Column(head, filenames, w, f)
      BY <3>1, <3>2 DEF Column, Cell
    <3>5. Occurrences(w, f) = SumFunctionOnSet(seen, OfWord(w, f))
      BY DEF Occurrences, OfWord
    <3>6. SumFunctionOnSet(Column(head, filenames, w, f), DOMAIN head)
              = SumFunctionOnSet(seen, OfWord(w, f))
      BY <2>1 DEF Counted
    <3> QED
      BY <3>4, <3>5, <3>6
  <2> QED
    BY <2>2, Zenon DEF CountedOnce
<1>2. IInv /\ CInv => CountedOnce
  BY <1>1
<1> QED
  BY <1>2, CountsHold, PTL

\* A reader whose count, list and names are all of one run, whatever runs before it
\* left, sends for every word what that run read in the files it sends records of, as
\* long as no word was cut: read_list, get_word and run_worker work, and so does
\* write_list, which empties a file before it writes to it.
THEOREM LookupsAreAlwaysRight == Spec => []LookupsAreRight
<1>1. ASSUME IInv, CInv PROVE LookupsAreRight
  <2>1. SUFFICES ASSUME reader.at = "loaded", reader.run # 0, NothingCut, NEW w \in Words
                 PROVE  /\ NodesOf(w) = {} => \A f \in Files : whole.seen[<<w, f>>] = 0
                        /\ NodesOf(w) # {} => SendRecords(w) = Lookup(w)
    BY DEF LookupsAreRight
  <2>2. PICK list, names, c : list = reader.list /\ names = reader.names /\ c = whole.seen
    OBVIOUS
  <2>3. list \in Seq(Entry) /\ names \in Names /\ c \in Seen
    BY <1>1, <2>2 DEF IInv, DiskTypes, ReaderTypes
  <2>4. /\ reader.run = whole.run /\ reader.count = Len(disk.names)
        /\ reader.list = disk.list /\ reader.names = disk.names
    BY <1>1, <2>1 DEF CInv, ReaderMatches
  <2>5. Matching(list, names, c)
    <3>1. Matching(disk.list, disk.names, whole.seen)
      BY <1>1, <2>1, <2>4 DEF CInv, WholeMatches
    <3> QED
      BY <2>2, <2>4, <3>1
  <2>6. DOMAIN names = 1 .. reader.count
    BY <2>2, <2>3, <2>4, LenProperties DEF Names
  <2>7. Uncut(c)
    BY <2>1, <2>2 DEF NothingCut, Uncut
  <2>8. NodesOf(w) = {i \in DOMAIN list : list[i].word = w}
    BY <2>2 DEF NodesOf
  <2>9. Lookup(w) = InFiles(c, w)
    BY <2>2 DEF Lookup, InFiles
  <2>10. ASSUME NodesOf(w) = {}, NEW f \in Files PROVE whole.seen[<<w, f>>] = 0
    <3>1. CASE Cut[w] = w
      BY <2>2, <2>3, <2>5, <2>7, <2>8, <2>10, <3>1, CellsTellOccurrences
    <3>2. CASE Cut[w] # w
      <4>1. c[<<w, f>>] \in Nat
        BY <2>3 DEF Seen
      <4> QED
        BY <2>2, <2>7, <3>2, <4>1 DEF Uncut
    <3> QED
      BY <3>1, <3>2
  <2>11. ASSUME NodesOf(w) # {} PROVE SendRecords(w) = Lookup(w)
    <3>1. PICK k \in DOMAIN list : NodesOf(w) = {k} /\ list[k].word = w
      BY <2>5, <2>7, <2>8, <2>11 DEF Matching, OneNode
    <3>2. k \in Nat /\ Max({k}) = k
      <4>1. k \in Nat
        BY <2>3, ListTypes
      <4> QED
        BY <4>1 DEF Max
    <3>3. get_word(w) = list[k].freq
      BY <2>2, <3>1, <3>2, Zenon DEF get_word
    <3>4. SendRecords(w) = Records(names, list[k].freq)
      BY <2>2, <2>6, <3>3, Zenon DEF SendRecords, Sent, Records
    <3>5. Records(names, list[k].freq) = InFiles(c, w)
      BY <2>3, <2>5, <2>7, <3>1, RecordsTellOccurrences
    <3> QED
      BY <2>9, <3>4, <3>5, Zenon
  <2> QED
    BY <2>10, <2>11
<1>2. IInv /\ CInv => LookupsAreRight
  BY <1>1
<1> QED
  BY <1>2, CountsHold, PTL
=============================================================================
