------------------------- MODULE LineReader_proofs -------------------------
(***************************************************************************)
(* Proofs about the input buffer of one connection (LineReader), for every *)
(* size of the buffer, whatever the user sends, however it is cut.         *)
(* Behind them, those about Lab10's server (BufServer), for every message, *)
(* every size of its buffer and of the pieces the client writes.           *)
(***************************************************************************)
EXTENDS LineReader, BufServer, FiniteSetTheorems, SequenceTheorems, WellFoundedInduction, TLAPS

-----------------------------------------------------------------------------
(* The inductive invariant.  The bytes handled so far are a prefix of the   *)
(* stream that is empty or ends in a newline, and holds as many newlines as *)
(* commands were handled; the rest of the stream is in the buffer.  A crash *)
(* is preceded by one more command, the line that an LF behind the stream   *)
(* would end.                                                               *)

\* Each command is the line of its number, and that line has ended.
LinesOf(s) ==
    \A k \in 1 .. Len(commands) :
        \E i \in NewlinesIn(s) : Rank(s, i) = k /\ commands[k] = LineIn(s, k)

\* The first p bytes of s are what the commands came from.
HandledUpTo(s, p) ==
    /\ p \in Nat
    /\ p = 0 \/ p - 1 \in NewlinesIn(s)
    /\ Rank(s, p - 1) = Len(commands)

\* Buffer m holds in its first n bytes the end of s.
Holds(m, n, s) ==
    /\ n <= Len(s)
    /\ \A i \in 0 .. n - 1 : m[i] = s[Len(s) - n + i + 1]

\* What the next read asks for is positive and fits.
RoomFits == inbuf < INPUT_BUFFER_SIZE => room > 0 /\ inbuf + room <= Size

InputSplit ==
    alive # "crashed" =>
        /\ Holds(buf, inbuf, stream)
        /\ HandledUpTo(stream, Len(stream) - inbuf)

IInv ==
    /\ TypeOK
    /\ LinesOf(Taken)
    /\ InputSplit
    /\ alive # "crashed" => RoomFits

-----------------------------------------------------------------------------
(* The smallest number of a set. *)

Less == {p \in Nat \X Nat : p[1] < p[2]}

LEMMA MinNat ==
    ASSUME NEW S \in SUBSET Nat, S # {}
    PROVE  Min(S) \in S /\ \A y \in S : Min(S) <= y
<1>1. Less = OpToRel(<, Nat)
  BY Zenon DEF OpToRel, Less
<1>2. PICK x \in S : \A y \in S : ~(<<y, x>> \in Less)
  BY NatLessThanWellFounded, WFMin, <1>1
<1>3. ASSUME NEW y \in S PROVE x <= y
  <2>1. x \in Nat /\ y \in Nat /\ <<y, x>> \notin Less
    BY <1>2
  <2>2. ~(y < x)
    BY <2>1, Zenon DEF Less
  <2> QED
    BY <2>1, <2>2
<1> QED
  BY <1>3 DEF Min

LEMMA MinOfTwo ==
    ASSUME NEW a \in Int, NEW b \in Int
    PROVE  Min({a, b}) \in Int /\ Min({a, b}) <= a /\ Min({a, b}) <= b
<1>1. CASE a <= b
  BY <1>1 DEF Min
<1>2. CASE b < a
  BY <1>2 DEF Min
<1> QED
  BY <1>1, <1>2

LEMMA OfOne ==
    ASSUME NEW a \in Int
    PROVE  Min({a}) = a /\ Max({a}) = a
  BY DEF Min, Max

-----------------------------------------------------------------------------
(* Newlines, ranks and lines. *)

LEMMA ByteFacts ==
    /\ INPUT_BUFFER_SIZE \in Nat /\ INPUT_BUFFER_SIZE >= 3
    /\ Size \in Nat /\ Size = INPUT_BUFFER_SIZE + 2
    /\ CR # LF /\ NUL \notin Bytes /\ CR \in Bytes /\ LF \in Bytes
  BY ReaderAssumption DEF Size, Bytes

LEMMA LengthFromDomain ==
    ASSUME NEW S, NEW t \in Seq(S), NEW k \in Nat, DOMAIN t = 1 .. k
    PROVE  Len(t) = k
<1>1. Len(t) \in Nat /\ 1 .. Len(t) = 1 .. k
  BY LenProperties
<1>2. \A a, b \in Nat : 1 .. a = 1 .. b => a <= b
  <2> SUFFICES ASSUME NEW a \in Nat, NEW b \in Nat, 1 .. a = 1 .. b, a > b PROVE FALSE
    OBVIOUS
  <2>1. a \in 1 .. a /\ a \notin 1 .. b
    OBVIOUS
  <2> QED
    BY <2>1
<1> QED
  BY <1>1, <1>2

LEMMA NewlinesAreNumbers ==
    ASSUME NEW s \in Seq(Bytes)
    PROVE  Len(s) \in Nat /\ \A i \in NewlinesIn(s) : i \in Int /\ 1 <= i /\ i < Len(s)
<1>1. Len(s) \in Nat
  BY LenProperties
<1> QED
  BY <1>1 DEF NewlinesIn

LEMMA NewlinesFinite ==
    ASSUME NEW s \in Seq(Bytes), NEW i \in Int
    PROVE  /\ Len(s) \in Nat /\ NewlinesIn(s) \subseteq 1 .. Len(s) - 1
           /\ IsFiniteSet(NewlinesIn(s)) /\ Cardinality(NewlinesIn(s)) \in Nat
           /\ IsFiniteSet({j \in NewlinesIn(s) : j <= i})
           /\ Rank(s, i) \in Nat /\ Rank(s, i) <= Cardinality(NewlinesIn(s))
<1>1. Len(s) \in Nat /\ NewlinesIn(s) \subseteq 1 .. Len(s) - 1
  BY LenProperties DEF NewlinesIn
<1>2. IsFiniteSet(1 .. Len(s) - 1)
  BY <1>1, FS_Interval
<1>3. IsFiniteSet(NewlinesIn(s)) /\ Cardinality(NewlinesIn(s)) \in Nat
  BY <1>1, <1>2, FS_Subset, FS_CardinalityType
<1>4. {j \in NewlinesIn(s) : j <= i} \subseteq NewlinesIn(s)
  OBVIOUS
<1>5. /\ IsFiniteSet({j \in NewlinesIn(s) : j <= i})
      /\ Cardinality({j \in NewlinesIn(s) : j <= i}) <= Cardinality(NewlinesIn(s))
  BY <1>3, <1>4, FS_Subset
<1>6. Cardinality({j \in NewlinesIn(s) : j <= i}) \in Nat
  BY <1>5, FS_CardinalityType
<1> QED
  BY <1>1, <1>3, <1>5, <1>6 DEF Rank

\* A newline further on has a higher rank.
LEMMA RankGrows ==
    ASSUME NEW s \in Seq(Bytes), NEW i \in Int, NEW j \in NewlinesIn(s), i < j
    PROVE  Rank(s, i) < Rank(s, j)
<1> DEFINE A == {x \in NewlinesIn(s) : x <= i}
           B == {x \in NewlinesIn(s) : x <= j}
<1>1. j \in Int /\ \A x \in NewlinesIn(s) : x \in Int
  BY NewlinesAreNumbers
<1>2. IsFiniteSet(A) /\ IsFiniteSet(B)
  BY <1>1, NewlinesFinite
<1>3. A \subseteq B /\ A # B
  <2>1. j \in B /\ j \notin A
    <3>1. j <= j /\ ~(j <= i)
      BY <1>1
    <3> QED
      BY <3>1
  <2>2. ASSUME NEW x \in NewlinesIn(s), x <= i PROVE x <= j
    BY <1>1, <2>2
  <2> QED
    BY <2>1, <2>2
<1>4. Cardinality(A) < Cardinality(B)
  BY <1>2, <1>3, FS_Subset, FS_CardinalityType
<1> QED
  BY <1>4 DEF Rank

\* The line that newline i ends, from behind the newline before it.
LEMMA LineEnding ==
    ASSUME NEW s \in Seq(Bytes), NEW i \in NewlinesIn(s), NEW k \in Nat \ {0}, Rank(s, i) = k,
           NEW h, k = 1 \/ (h \in NewlinesIn(s) /\ Rank(s, h) = k - 1)
    PROVE  LineIn(s, k) = SubSeq(s, IF k = 1 THEN 1 ELSE h + 2, i - 1)
<1>1. \A x \in NewlinesIn(s) : x \in Int
  BY NewlinesAreNumbers
<1>2. ASSUME NEW x \in NewlinesIn(s), NEW y \in NewlinesIn(s), Rank(s, x) = Rank(s, y)
      PROVE  x = y
  <2>1. Rank(s, x) \in Nat
    BY <1>1, NewlinesFinite
  <2>2. ~(x < y) /\ ~(y < x)
    BY <1>1, <1>2, <2>1, RankGrows
  <2> QED
    BY <1>1, <2>2
<1>3. {x \in NewlinesIn(s) : Rank(s, x) = k} = {i}
  BY <1>2
<1>4. k # 1 => {x \in NewlinesIn(s) : Rank(s, x) = k - 1} = {h} /\ h \in Int
  BY <1>1, <1>2
<1>5. Min({i}) = i
  BY <1>1, OfOne
<1>6. k # 1 => Max({h}) = h
  BY <1>4, OfOne
<1> QED
  BY <1>3, <1>4, <1>5, <1>6 DEF LineIn

-----------------------------------------------------------------------------
(* More bytes do not change the lines that have ended. *)

LEMMA Longer ==
    ASSUME NEW s \in Seq(Bytes), NEW t \in Seq(Bytes)
    PROVE  /\ s \o t \in Seq(Bytes) /\ Len(s \o t) = Len(s) + Len(t)
           /\ Len(s) \in Nat /\ Len(t) \in Nat
           /\ \A i \in 1 .. Len(s) : (s \o t)[i] = s[i]
           /\ \A i \in 1 .. Len(t) : (s \o t)[Len(s) + i] = t[i]
<1>1. Len(s) \in Nat /\ Len(t) \in Nat
  BY LenProperties
<1>2. s \o t \in Seq(Bytes) /\ Len(s \o t) = Len(s) + Len(t)
  BY ConcatProperties
<1>3. \A i \in 1 .. Len(s) + Len(t) : (s \o t)[i] = IF i <= Len(s) THEN s[i] ELSE t[i - Len(s)]
  BY ConcatProperties
<1>4. \A i \in 1 .. Len(s) : (s \o t)[i] = s[i]
  BY <1>1, <1>3
<1>5. ASSUME NEW i \in 1 .. Len(t) PROVE (s \o t)[Len(s) + i] = t[i]
  <2>1. Len(s) + i \in 1 .. Len(s) + Len(t) /\ ~(Len(s) + i <= Len(s)) /\ Len(s) + i - Len(s) = i
    BY <1>1
  <2> QED
    BY <1>3, <2>1
<1> QED
  BY <1>1, <1>2, <1>4, <1>5

LEMMA SameNewlines ==
    ASSUME NEW s \in Seq(Bytes), NEW t \in Seq(Bytes), NEW i \in Int, i < Len(s)
    PROVE  /\ i \in NewlinesIn(s) <=> i \in NewlinesIn(s \o t)
           /\ Rank(s \o t, i) = Rank(s, i)
<1>1. ASSUME NEW j \in Int, j < Len(s) PROVE j \in NewlinesIn(s) <=> j \in NewlinesIn(s \o t)
  <2>1. CASE j < 1
    BY <2>1, <1>1, Longer DEF NewlinesIn
  <2>2. CASE j >= 1
    <3>1. /\ j \in 1 .. Len(s) - 1 /\ j \in 1 .. Len(s \o t) - 1
          /\ (s \o t)[j] = s[j] /\ (s \o t)[j + 1] = s[j + 1]
      BY <1>1, <2>2, Longer
    <3> QED
      BY <3>1 DEF NewlinesIn
  <2> QED
    BY <1>1, <2>1, <2>2
<1>2. {j \in NewlinesIn(s \o t) : j <= i} = {j \in NewlinesIn(s) : j <= i}
  <2>1. (\A j \in NewlinesIn(s) : j \in Int) /\ \A j \in NewlinesIn(s \o t) : j \in Int
    <3>1. s \o t \in Seq(Bytes)
      BY Longer
    <3> QED
      BY <3>1, NewlinesAreNumbers
  <2>2. \A j \in Int : j <= i => j < Len(s)
    BY Longer
  <2> QED
    BY <1>1, <2>1, <2>2
<1> QED
  BY <1>1, <1>2 DEF Rank

PartOf(s, a, b) ==
    /\ SubSeq(s, a, b) \in Seq(Bytes)
    /\ Len(SubSeq(s, a, b)) = IF a <= b THEN b - a + 1 ELSE 0
    /\ \A j \in 1 .. b - a + 1 : SubSeq(s, a, b)[j] = s[a + j - 1]

LEMMA PartIs ==
    ASSUME NEW s, NEW a \in Int, NEW b \in Int, \A j \in a .. b : s[j] \in Bytes
    PROVE  PartOf(s, a, b)
  BY SubSeqProperties DEF PartOf

LEMMA SamePart ==
    ASSUME NEW s \in Seq(Bytes), NEW t \in Seq(Bytes), NEW a \in Nat \ {0}, NEW b \in Int, b <= Len(s)
    PROVE  SubSeq(s \o t, a, b) = SubSeq(s, a, b)
<1>1. \A j \in a .. b : (s \o t)[j] = s[j] /\ s[j] \in Bytes
  <2>1. \A j \in a .. b : j \in 1 .. Len(s)
    BY Longer
  <2>2. \A j \in 1 .. Len(s) : s[j] \in Bytes
    BY ElementOfSeq
  <2> QED
    BY <2>1, <2>2, Longer
<1>2. PartOf(s, a, b)
  <2>1. \A j \in a .. b : s[j] \in Bytes
    BY <1>1
  <2> QED
    BY <2>1, PartIs
<1>3. PartOf(s \o t, a, b)
  <2> DEFINE r == s \o t
  <2>1. \A j \in a .. b : r[j] \in Bytes
    BY <1>1
  <2> HIDE DEF r
  <2>2. PartOf(r, a, b)
    BY <2>1, PartIs
  <2> QED
    BY <2>2 DEF r
<1>4. PICK u \in Seq(Bytes) : u = SubSeq(s, a, b)
  BY <1>2 DEF PartOf
<1>5. PICK v \in Seq(Bytes) : v = SubSeq(s \o t, a, b)
  BY <1>3 DEF PartOf
<1>6. Len(u) = Len(v) /\ Len(u) = IF a <= b THEN b - a + 1 ELSE 0
  BY <1>2, <1>3, <1>4, <1>5 DEF PartOf
<1>7. ASSUME NEW j \in 1 .. Len(u) PROVE u[j] = v[j]
  <2>1. j \in 1 .. b - a + 1 /\ a + j - 1 \in a .. b
    BY <1>6
  <2>2. u[j] = s[a + j - 1] /\ v[j] = (s \o t)[a + j - 1]
    BY <1>2, <1>3, <1>4, <1>5, <2>1 DEF PartOf
  <2> QED
    BY <1>1, <2>1, <2>2
<1>8. u = v
  BY <1>6, <1>7, SeqEqual
<1> QED
  BY <1>4, <1>5, <1>8

LEMMA LinesLonger ==
    ASSUME NEW s \in Seq(Bytes), NEW t \in Seq(Bytes), Len(commands) \in Nat, LinesOf(s)
    PROVE  LinesOf(s \o t)
<1> SUFFICES ASSUME NEW k \in 1 .. Len(commands)
             PROVE  \E i \in NewlinesIn(s \o t) :
                       Rank(s \o t, i) = k /\ commands[k] = LineIn(s \o t, k)
  BY DEF LinesOf
<1> DEFINE r == s \o t
<1>1. r \in Seq(Bytes)
  BY Longer
<1>2. PICK i \in NewlinesIn(s) : Rank(s, i) = k /\ commands[k] = LineIn(s, k)
  BY DEF LinesOf
<1>3. PICK h : k = 1 \/ (h \in NewlinesIn(s) /\ Rank(s, h) = k - 1)
  <2>1. CASE k = 1
    BY <2>1
  <2>2. CASE k # 1
    <3>1. k - 1 \in 1 .. Len(commands)
      BY <2>2
    <3> QED
      BY <3>1 DEF LinesOf
  <2> QED
    BY <2>1, <2>2
<1>4. k \in Nat \ {0} /\ i \in Int /\ i < Len(s) /\ k # 1 => h \in Int /\ 1 <= h /\ h < Len(s)
  BY <1>2, <1>3, NewlinesAreNumbers
<1>5. i \in Int /\ i < Len(s)
  BY <1>2, NewlinesAreNumbers
<1>6. i \in NewlinesIn(r) /\ Rank(r, i) = k
  BY <1>2, <1>5, SameNewlines
<1>7. k = 1 \/ (h \in NewlinesIn(r) /\ Rank(r, h) = k - 1)
  BY <1>3, <1>4, <1>5, SameNewlines
<1> DEFINE a == IF k = 1 THEN 1 ELSE h + 2
<1>8. LineIn(s, k) = SubSeq(s, a, i - 1)
  BY <1>2, <1>3, LineEnding
<1> HIDE DEF r
<1>9. LineIn(r, k) = SubSeq(r, a, i - 1)
  BY <1>1, <1>6, <1>7, LineEnding
<1>10. SubSeq(r, a, i - 1) = SubSeq(s, a, i - 1)
  <2>1. a \in Nat \ {0} /\ i - 1 \in Int /\ i - 1 <= Len(s)
    BY <1>4, <1>5, NewlinesAreNumbers
  <2> HIDE DEF a
  <2> QED
    BY <2>1, SamePart DEF r
<1> QED
  BY <1>2, <1>6, <1>8, <1>9, <1>10 DEF r

LEMMA HandledLonger ==
    ASSUME NEW s \in Seq(Bytes), NEW t \in Seq(Bytes), NEW p \in Nat, p <= Len(s), HandledUpTo(s, p)
    PROVE  HandledUpTo(s \o t, p)
<1>1. p - 1 \in Int /\ p - 1 < Len(s)
  BY NewlinesAreNumbers
<1> QED
  BY <1>1, SameNewlines DEF HandledUpTo

-----------------------------------------------------------------------------
(* The line found in the buffer is the next one of the stream. *)

LEMMA Found ==
    ASSUME NEW m \in [0 .. Size - 1 -> Bytes \cup {NUL}], NEW n \in 0 .. Size,
           NEW w, w = find_network_newline(m, n, INPUT_BUFFER_SIZE - 2), w # -1
    PROVE  /\ w \in Int /\ 2 <= w /\ w <= n + 1 /\ n <= INPUT_BUFFER_SIZE - 2
           /\ m[w - 2] = CR /\ m[w - 1] = LF
           /\ \A i \in 0 .. w - 3 : ~(m[i] = CR /\ m[i + 1] = LF)
<1> DEFINE hits == {i \in 0 .. n - 1 : m[i] = CR /\ i + 1 \in DOMAIN m /\ m[i + 1] = LF}
<1>1. n <= INPUT_BUFFER_SIZE - 2 /\ hits # {} /\ w = Min(hits) + 2
  BY ByteFacts DEF find_network_newline
<1>2. n \in Nat /\ Size \in Nat /\ n < Size - 1 /\ DOMAIN m = 0 .. Size - 1
  BY <1>1, ByteFacts
<1>3. hits \in SUBSET Nat
  BY <1>2
<1>4. Min(hits) \in hits /\ \A y \in hits : Min(hits) <= y
  BY <1>1, <1>3, MinNat
<1>5. PICK x \in hits : x = Min(hits)
  BY <1>4
<1>6. \A y \in hits : x <= y
  BY <1>4, <1>5
<1>7. x \in 0 .. n - 1 /\ m[x] = CR /\ m[x + 1] = LF /\ w = x + 2
  BY <1>1, <1>5
<1>8. ASSUME NEW i \in 0 .. w - 3, m[i] = CR, m[i + 1] = LF PROVE FALSE
  <2>1. i \in 0 .. n - 1 /\ i + 1 \in DOMAIN m /\ ~(x <= i)
    BY <1>2, <1>7
  <2>2. i \in hits
    BY <1>8, <2>1
  <2> QED
    BY <1>6, <2>1, <2>2
<1>9. w - 2 = x /\ w - 1 = x + 1 /\ w \in Int /\ 2 <= w /\ w <= n + 1
  BY <1>2, <1>7
<1> QED
  BY <1>1, <1>7, <1>8, <1>9

LEMMA NextLine ==
    ASSUME NEW s \in Seq(Bytes), NEW m, NEW n \in Nat, Holds(m, n, s), Len(commands) \in Nat,
           NEW p, p = Len(s) - n, HandledUpTo(s, p),
           NEW w \in Int, 2 <= w, w <= n, m[w - 2] = CR, m[w - 1] = LF,
           \A i \in 0 .. w - 3 : ~(m[i] = CR /\ m[i + 1] = LF)
    PROVE  /\ p + w - 1 \in NewlinesIn(s)
           /\ Rank(s, p + w - 1) = Len(commands) + 1
           /\ LineText(m, w) = LineIn(s, Len(commands) + 1)
           /\ LineText(m, w) \in Seq(Bytes)
<1>1. /\ Len(s) \in Nat /\ p \in Nat /\ p + n = Len(s) /\ CR # LF
      /\ \A i \in 0 .. n - 1 : m[i] = s[p + i + 1]
  BY NewlinesAreNumbers, ByteFacts DEF Holds
<1>n. p \in Int /\ n \in Int /\ w \in Int /\ p >= 0
  BY <1>1
<1> DEFINE e == p + w - 1
<1>2. e \in Int /\ e \in 1 .. Len(s) - 1 /\ e >= p
  BY <1>1
<1>3. e \in NewlinesIn(s)
  <2>1. /\ w - 2 \in 0 .. n - 1 /\ p + (w - 2) + 1 = e
        /\ w - 1 \in 0 .. n - 1 /\ p + (w - 1) + 1 = e + 1
    BY <1>1
  <2>2. s[e] = CR /\ s[e + 1] = LF
    BY <1>1, <2>1
  <2> QED
    BY <1>2, <2>2 DEF NewlinesIn
<1>4. ASSUME NEW j \in NewlinesIn(s), j <= e, j # e PROVE j <= p - 1
  <2>1. j \in Int /\ 1 <= j /\ j < Len(s) /\ s[j] = CR /\ s[j + 1] = LF
    BY NewlinesAreNumbers DEF NewlinesIn
  <2>2. CASE j = p
    <3>1. p # 0 /\ p - 1 \in NewlinesIn(s)
      BY <2>1, <2>2 DEF HandledUpTo
    <3>2. s[p - 1 + 1] = LF /\ p - 1 + 1 = p
      BY <1>1, <3>1 DEF NewlinesIn
    <3> QED
      BY <1>1, <2>1, <2>2, <3>2
  <2>3. CASE j > p
    <3> DEFINE x == j - p - 1
    <3>1. x \in Int /\ x = j - p - 1 /\ j \in Int
      BY <1>n, <2>1
    <3>2. 0 <= x /\ x <= w - 3
      <4>1. j <= p + w - 2
        BY <1>n, <1>4, <3>1
      <4> QED
        BY <1>n, <2>3, <3>1, <4>1
    <3> HIDE DEF x
    <3>3. x \in 0 .. n - 1 /\ x + 1 \in 0 .. n - 1
      BY <3>1, <3>2
    <3>4. p + x + 1 = j /\ p + (x + 1) + 1 = j + 1
      BY <1>1, <2>1, <3>1
    <3>5. m[x] = CR /\ m[x + 1] = LF
      BY <1>1, <2>1, <3>3, <3>4
    <3> QED
      BY <3>1, <3>2, <3>5
  <2>4. CASE j < p
    <3>1. j \in Int /\ p \in Int
      BY <1>n, <2>1
    <3> QED
      BY <2>4, <3>1
  <2>5. j < p \/ j = p \/ j > p
    <3>1. j \in Int /\ p \in Int
      BY <1>n, <2>1
    <3> QED
      BY <3>1
  <2> QED
    BY <2>2, <2>3, <2>4, <2>5, Zenon
<1>5. Rank(s, e) = Len(commands) + 1
  <2> DEFINE A == {j \in NewlinesIn(s) : j <= p - 1}
  <2>1. \A j \in NewlinesIn(s) : j \in Int
    BY NewlinesAreNumbers
  <2>2. {j \in NewlinesIn(s) : j <= e} = A \cup {e} /\ e \notin A
    BY <1>1, <1>2, <1>3, <1>4, <2>1
  <2>3. IsFiniteSet(A)
    <3>1. p - 1 \in Int
      BY <1>1
    <3> QED
      BY <3>1, NewlinesFinite
  <2>4. Cardinality(A \cup {e}) = Cardinality(A) + 1
    BY <2>2, <2>3, FS_AddElement
  <2> QED
    BY <2>2, <2>4 DEF Rank, HandledUpTo
<1>6. LineIn(s, Len(commands) + 1) = SubSeq(s, p + 1, e - 1)
  <2>1. CASE p = 0
    <3>1. Rank(s, p - 1) = 0
      <4>1. {j \in NewlinesIn(s) : j <= p - 1} = {}
        BY <2>1, NewlinesAreNumbers
      <4> QED
        BY <4>1, FS_EmptySet DEF Rank
    <3>2. Len(commands) = 0
      BY <3>1 DEF HandledUpTo
    <3>3. LineIn(s, 1) = SubSeq(s, IF 1 = 1 THEN 1 ELSE e + 2, e - 1)
      BY <1>3, <1>5, <3>2, LineEnding
    <3> QED
      BY <2>1, <3>2, <3>3
  <2>2. CASE p # 0
    <3>1. p - 1 \in NewlinesIn(s) /\ p - 1 \in Int /\ Rank(s, p - 1) = Len(commands)
      BY <1>1, <2>2 DEF HandledUpTo
    <3>2. Len(commands) # 0
      <4>1. -1 \in Int /\ -1 < p - 1
        BY <1>1, <2>2
      <4>2. Rank(s, -1) \in Nat /\ Rank(s, -1) < Rank(s, p - 1)
        BY <3>1, <4>1, RankGrows, NewlinesFinite
      <4> QED
        BY <3>1, <4>2
    <3>3. PICK k \in Nat \ {0} : k = Len(commands) + 1
      OBVIOUS
    <3>4. k # 1 /\ k - 1 = Len(commands)
      BY <3>2, <3>3
    <3>5. PICK h \in NewlinesIn(s) : h = p - 1
      BY <3>1
    <3>6. Rank(s, e) = k /\ Rank(s, h) = k - 1
      BY <1>5, <3>1, <3>3, <3>4, <3>5
    <3> HIDE DEF e
    <3>7. LineIn(s, k) = SubSeq(s, IF k = 1 THEN 1 ELSE h + 2, e - 1)
      BY <1>3, <3>5, <3>6, LineEnding
    <3>8. h + 2 = p + 1
      BY <1>1, <3>5
    <3> QED
      BY <3>3, <3>4, <3>7, <3>8
  <2> QED
    BY <2>1, <2>2
<1>7. LineText(m, w) = SubSeq(s, p + 1, e - 1) /\ LineText(m, w) \in Seq(Bytes)
  <2>1. ASSUME NEW j \in 1 .. w - 2
        PROVE  /\ m[j - 1] = s[p + j] /\ s[p + j] \in Bytes
               /\ p + j \in 1 .. Len(s)
    <3>1. j - 1 \in 0 .. n - 1 /\ p + (j - 1) + 1 = p + j /\ p + j \in 1 .. Len(s)
      BY <1>1
    <3> QED
      BY <1>1, <3>1, ElementOfSeq
  <2>2. LineText(m, w) = [j \in 1 .. w - 2 |-> s[p + j]]
    BY <2>1 DEF LineText
  <2>3. PICK u \in Seq(Bytes) : /\ u = LineText(m, w) /\ Len(u) = w - 2
                                /\ \A j \in 1 .. w - 2 : u[j] = s[p + j]
    <3>1. w - 2 \in Nat /\ [j \in 1 .. w - 2 |-> s[p + j]] \in [1 .. w - 2 -> Bytes]
      BY <2>1
    <3> DEFINE f == [j \in 1 .. w - 2 |-> s[p + j]]
    <3>2. f \in Seq(Bytes) /\ DOMAIN f = 1 .. w - 2 /\ \A j \in 1 .. w - 2 : f[j] = s[p + j]
      <4>1. Seq(Bytes) = UNION {[1 .. n1 -> Bytes] : n1 \in Nat}
        BY SeqDef
      <4> QED
        BY <3>1, <4>1
    <3>3. f = LineText(m, w)
      BY <2>2
    <3> HIDE DEF f
    <3>4. Len(f) = w - 2
      BY <3>1, <3>2, LengthFromDomain
    <3> QED
      BY <3>2, <3>3, <3>4
  <2> DEFINE a == p + 1
             b == e - 1
  <2>4. a \in Int /\ b \in Int /\ a = p + 1 /\ b = e - 1
    BY <1>n, <1>2
  <2> HIDE DEF a, b
  <2>5. PICK v \in Seq(Bytes) : /\ v = SubSeq(s, a, b) /\ Len(v) = w - 2
                                /\ \A j \in 1 .. w - 2 : v[j] = s[p + j]
    <3>1. b - a + 1 = w - 2 /\ (IF a <= b THEN b - a + 1 ELSE 0) = w - 2
      BY <1>1, <2>4
    <3>2. \A j \in Int : a + j - 1 = p + j
      BY <1>1, <2>4
    <3>3. ASSUME NEW j \in a .. b PROVE s[j] \in Bytes
      BY <1>1, <1>2, <2>4, ElementOfSeq
    <3>4. PartOf(s, a, b)
      BY <2>4, <3>3, PartIs
    <3>5. /\ SubSeq(s, a, b) \in Seq(Bytes) /\ Len(SubSeq(s, a, b)) = w - 2
          /\ \A j \in 1 .. w - 2 : SubSeq(s, a, b)[j] = s[a + j - 1]
      BY <3>1, <3>4 DEF PartOf
    <3>6. \A j \in 1 .. w - 2 : SubSeq(s, a, b)[j] = s[p + j]
      <4>1. \A j \in 1 .. w - 2 : a + j - 1 = p + j
        BY <3>2
      <4> QED
        BY <3>5, <4>1
    <3> DEFINE v == SubSeq(s, a, b)
    <3>7. v \in Seq(Bytes) /\ v = SubSeq(s, a, b) /\ Len(v) = w - 2 /\ \A j \in 1 .. w - 2 : v[j] = s[p + j]
      BY <3>5, <3>6
    <3> HIDE DEF v
    <3> QED
      BY <3>7
  <2>6. Len(u) = Len(v) /\ \A j \in 1 .. Len(u) : u[j] = v[j]
    BY <2>3, <2>5
  <2>7. u = v
    BY <2>6, SeqEqual
  <2> QED
    BY <2>3, <2>4, <2>5, <2>7
<1> QED
  BY <1>3, <1>5, <1>6, <1>7

-----------------------------------------------------------------------------
(* Each step keeps the invariant. *)

\* The buffer is looked at after a read, whatever it delivered.
LEMMA HandleKeeps ==
    ASSUME TypeOK, NEW s \in Seq(Bytes), stream' = s, eof' \in BOOLEAN, alive = "yes",
           NEW m \in [0 .. Size - 1 -> Bytes \cup {NUL}], NEW n \in 0 .. Size,
           LinesOf(s), Holds(m, n, s), HandledUpTo(s, Len(s) - n), handle_input(m, n)
    PROVE  IInv'
<1> DEFINE w == find_network_newline(m, n, INPUT_BUFFER_SIZE - 2)
           left == IF w = -1 THEN n ELSE n - w
<1>1. /\ commands \in Seq(Seq(Bytes)) /\ Len(commands) \in Nat /\ n \in Nat /\ n <= Size
      /\ Size \in Nat /\ Size = INPUT_BUFFER_SIZE + 2 /\ Len(s) \in Nat
      /\ INPUT_BUFFER_SIZE \in Nat
  BY ByteFacts, LenProperties DEF TypeOK
<1>2. \/ /\ w # -1 /\ Overrun(w, n) /\ alive' = "crashed"
         /\ commands' = Append(commands, LineText(m, w))
         /\ UNCHANGED <<buf, inbuf, room>>
      \/ /\ w = -1 \/ ~Overrun(w, n)
         /\ commands' = IF w = -1 THEN commands ELSE Append(commands, LineText(m, w))
         /\ buf' = IF w = -1 THEN m ELSE Shift([m EXCEPT ![w - 2] = NUL], w, left)
         /\ inbuf' = left /\ room' = INPUT_BUFFER_SIZE - left /\ alive' = "yes"
  BY DEF handle_input, Room
<1>t. LinesOf(s)
  BY DEF Taken
<1>3. CASE /\ w # -1 /\ Overrun(w, n) /\ alive' = "crashed"
           /\ commands' = Append(commands, LineText(m, w))
           /\ UNCHANGED <<buf, inbuf, room>>
  <2> DEFINE t == <<LF>>
             r == s \o t
  <2>1. /\ w \in Int /\ 2 <= w /\ m[w - 2] = CR /\ m[w - 1] = LF /\ w = n + 1
        /\ \A i \in 0 .. w - 3 : ~(m[i] = CR /\ m[i + 1] = LF)
    <3>1. /\ w \in Int /\ 2 <= w /\ w <= n + 1 /\ m[w - 2] = CR /\ m[w - 1] = LF
          /\ \A i \in 0 .. w - 3 : ~(m[i] = CR /\ m[i + 1] = LF)
      BY <1>3, Found
    <3>2. w > n
      BY <1>3 DEF Overrun
    <3> HIDE DEF w
    <3> QED
      BY <1>1, <3>1, <3>2
  <2>2. t \in Seq(Bytes) /\ Len(t) = 1 /\ t[1] = LF
    BY ByteFacts
  <2> HIDE DEF t, w
  <2>3. /\ r \in Seq(Bytes) /\ Len(r) = Len(s) + 1 /\ r[Len(s) + 1] = LF
        /\ \A i \in 1 .. Len(s) : r[i] = s[i]
    <3>1. 1 \in 1 .. Len(t)
      BY <2>2
    <3>2. /\ s \o t \in Seq(Bytes) /\ Len(s \o t) = Len(s) + Len(t)
          /\ \A i \in 1 .. Len(s) : (s \o t)[i] = s[i]
          /\ \A i \in 1 .. Len(t) : (s \o t)[Len(s) + i] = t[i]
      BY <2>2, Longer
    <3>3. (s \o t)[Len(s) + 1] = t[1]
      BY <3>1, <3>2
    <3> HIDE DEF r
    <3>4. r = s \o t
      BY DEF r
    <3> QED
      BY <2>2, <3>2, <3>3, <3>4
  <2>4. Taken' = r
    BY <1>3 DEF Taken, t
  <2>5. LinesOf(r) /\ HandledUpTo(r, Len(s) - n)
    <3>1. Len(s) - n \in Nat /\ Len(s) - n <= Len(s)
      BY <1>1 DEF HandledUpTo
    <3> QED
      BY <1>1, <1>t, <2>2, <3>1, LinesLonger, HandledLonger
  <2> HIDE DEF r
  <2> DEFINE p == Len(s) - n
             k == n + 1
  <2>6. p = Len(r) - k /\ p \in Nat /\ k \in Nat /\ w <= k
    BY <1>1, <2>1, <2>3, <2>5 DEF HandledUpTo
  <2>7. Holds(m, k, r)
    <3>1. ASSUME NEW i \in 0 .. k - 1 PROVE m[i] = r[Len(r) - k + i + 1]
      <4>1. CASE i = n
        <5>1. Len(r) - k + i + 1 = Len(s) + 1 /\ w - 1 = i
          BY <1>1, <2>1, <2>3, <4>1
        <5> QED
          BY <2>1, <2>3, <5>1
      <4>2. CASE i # n
        <5>1. /\ i \in 0 .. n - 1 /\ Len(r) - k + i + 1 = Len(s) - n + i + 1
              /\ Len(s) - n + i + 1 \in 1 .. Len(s)
          BY <1>1, <2>3, <2>6, <4>2
        <5>2. m[i] = s[Len(s) - n + i + 1]
          BY <5>1 DEF Holds
        <5> QED
          BY <2>3, <5>1, <5>2
      <4> QED
        BY <4>1, <4>2
    <3>2. k <= Len(r)
      BY <1>1, <2>3, <2>6
    <3> QED
      BY <3>1, <3>2 DEF Holds
  <2> HIDE DEF p, k
  <2>8. HandledUpTo(r, p)
    BY <2>5 DEF p
  <2>9. /\ p + w - 1 \in NewlinesIn(r)
        /\ Rank(r, p + w - 1) = Len(commands) + 1
        /\ LineText(m, w) = LineIn(r, Len(commands) + 1)
        /\ LineText(m, w) \in Seq(Bytes)
    <3>1. /\ r \in Seq(Bytes) /\ k \in Nat /\ Len(commands) \in Nat /\ p = Len(r) - k
          /\ w \in Int /\ 2 <= w /\ w <= k
      BY <1>1, <2>1, <2>3, <2>6
    <3> QED
      BY <2>1, <2>7, <2>8, <3>1, NextLine
  <2>10. /\ commands' \in Seq(Seq(Bytes)) /\ Len(commands') = Len(commands) + 1
         /\ \A j \in 1 .. Len(commands) : commands'[j] = commands[j]
         /\ commands'[Len(commands) + 1] = LineText(m, w)
    BY <1>1, <1>3, <2>9, AppendProperties
  <2>11. TypeOK'
    BY <1>3, <2>10 DEF TypeOK
  <2>12. LinesOf(Taken)'
    <3>1. ASSUME NEW j \in 1 .. Len(commands) + 1
          PROVE  \E i \in NewlinesIn(r) : Rank(r, i) = j /\ commands'[j] = LineIn(r, j)
      <4>1. CASE j \in 1 .. Len(commands)
        BY <2>5, <2>10, <4>1 DEF LinesOf
      <4>2. CASE j = Len(commands) + 1
        BY <2>9, <2>10, <4>2
      <4> QED
        BY <1>1, <4>1, <4>2
    <3> QED
      BY <2>4, <2>10, <3>1 DEF LinesOf
  <2> QED
    BY <1>3, <2>11, <2>12 DEF IInv, InputSplit
<1>4. CASE /\ w = -1 /\ commands' = commands /\ buf' = m /\ inbuf' = n
           /\ room' = INPUT_BUFFER_SIZE - n /\ alive' = "yes"
  <2>1. TypeOK'
    BY <1>1, <1>4 DEF TypeOK
  <2>2. LinesOf(Taken)'
    BY <1>t, <1>4 DEF LinesOf, Taken
  <2>3. InputSplit'
    BY <1>4 DEF InputSplit, Holds, HandledUpTo
  <2>4. RoomFits'
    BY <1>1, <1>4 DEF RoomFits
  <2> QED
    BY <2>1, <2>2, <2>3, <2>4 DEF IInv
<1>5. CASE /\ w # -1 /\ ~Overrun(w, n) /\ alive' = "yes"
           /\ commands' = Append(commands, LineText(m, w))
           /\ buf' = Shift([m EXCEPT ![w - 2] = NUL], w, n - w)
           /\ inbuf' = n - w /\ room' = INPUT_BUFFER_SIZE - (n - w)
  <2>1. /\ w \in Int /\ 2 <= w /\ w <= n /\ n <= INPUT_BUFFER_SIZE - 2
        /\ m[w - 2] = CR /\ m[w - 1] = LF
        /\ \A i \in 0 .. w - 3 : ~(m[i] = CR /\ m[i + 1] = LF)
    <3>1. /\ w \in Int /\ 2 <= w /\ w <= n + 1 /\ n <= INPUT_BUFFER_SIZE - 2
          /\ m[w - 2] = CR /\ m[w - 1] = LF
          /\ \A i \in 0 .. w - 3 : ~(m[i] = CR /\ m[i + 1] = LF)
      BY <1>5, Found
    <3>2. ~(w > n)
      BY <1>5 DEF Overrun
    <3> HIDE DEF w
    <3> QED
      BY <1>1, <3>1, <3>2
  <2> DEFINE p == Len(s) - n
  <2> HIDE DEF w, p
  <2>2. p = Len(s) - n /\ p \in Nat /\ p + n = Len(s)
    BY <1>1 DEF p, HandledUpTo
  <2>3. /\ p + w - 1 \in NewlinesIn(s)
        /\ Rank(s, p + w - 1) = Len(commands) + 1
        /\ LineText(m, w) = LineIn(s, Len(commands) + 1)
        /\ LineText(m, w) \in Seq(Bytes)
    BY <1>1, <2>1, <2>2, NextLine
  <2>4. /\ commands' \in Seq(Seq(Bytes)) /\ Len(commands') = Len(commands) + 1
        /\ \A k \in 1 .. Len(commands) : commands'[k] = commands[k]
        /\ commands'[Len(commands) + 1] = LineText(m, w)
    BY <1>1, <1>5, <2>3, AppendProperties
  <2>5. /\ buf' \in [0 .. Size - 1 -> Bytes \cup {NUL}]
        /\ \A i \in 0 .. n - w - 1 : buf'[i] = m[w + i]
    <3> DEFINE c == [m EXCEPT ![w - 2] = NUL]
    <3>1. /\ c \in [0 .. Size - 1 -> Bytes \cup {NUL}]
          /\ \A i \in 0 .. Size - 1 : i # w - 2 => c[i] = m[i]
      OBVIOUS
    <3> HIDE DEF c
    <3>2. buf' = [i \in 0 .. Size - 1 |->
                    CASE i < n - w -> c[w + i]
                      [] i >= n - w /\ i < w - 1 -> NUL
                      [] OTHER -> c[i]]
      BY <1>5, <3>1 DEF Shift, c
    <3>3. ASSUME NEW i \in 0 .. Size - 1, i < n - w PROVE buf'[i] = c[w + i] /\ c[w + i] = m[w + i]
      <4>1. w + i \in 0 .. Size - 1 /\ w + i # w - 2
        BY <1>1, <2>1, <3>3
      <4>2. ~(i >= n - w)
        BY <1>1, <2>1, <3>3
      <4>3. buf'[i] = c[w + i]
        BY <3>2, <3>3, <4>2
      <4> QED
        BY <3>1, <4>1, <4>3
    <3>4. ASSUME NEW i \in 0 .. Size - 1 PROVE buf'[i] \in Bytes \cup {NUL}
      <4>1. CASE i < n - w
        <5>1. w + i \in 0 .. Size - 1
          BY <1>1, <2>1, <4>1
        <5> QED
          BY <3>1, <3>3, <4>1, <5>1
      <4>2. CASE ~(i < n - w)
        BY <3>1, <3>2, <4>2
      <4> QED
        BY <4>1, <4>2
    <3>5. \A i \in 0 .. n - w - 1 : i \in 0 .. Size - 1 /\ i < n - w
      BY <1>1, <2>1
    <3> QED
      BY <3>2, <3>3, <3>4, <3>5
  <2>6. n - w \in 0 .. Size /\ INPUT_BUFFER_SIZE - (n - w) \in -2 .. Size
    BY <1>1, <2>1
  <2>7. TypeOK'
    BY <1>5, <2>4, <2>5, <2>6 DEF TypeOK
  <2>8. LinesOf(Taken)'
    <3>1. ASSUME NEW k \in 1 .. Len(commands) + 1
          PROVE  \E i \in NewlinesIn(s) : Rank(s, i) = k /\ commands'[k] = LineIn(s, k)
      <4>1. CASE k \in 1 .. Len(commands)
        BY <1>t, <2>4, <4>1 DEF LinesOf
      <4>2. CASE k = Len(commands) + 1
        BY <2>3, <2>4, <4>2
      <4> QED
        BY <1>1, <4>1, <4>2
    <3> QED
      BY <1>5, <2>4, <3>1 DEF LinesOf, Taken
  <2>9. InputSplit'
    <3>1. Holds(buf', n - w, s)
      <4>1. ASSUME NEW i \in 0 .. n - w - 1
            PROVE  buf'[i] = s[Len(s) - (n - w) + i + 1]
        <5>1. w + i \in 0 .. n - 1 /\ Len(s) - n + (w + i) + 1 = Len(s) - (n - w) + i + 1
          BY <1>1, <2>1
        <5>2. m[w + i] = s[Len(s) - n + (w + i) + 1]
          BY <5>1 DEF Holds
        <5> QED
          BY <2>5, <5>1, <5>2
      <4>2. n - w <= Len(s)
        BY <1>1, <2>1, <2>2
      <4> QED
        BY <4>1, <4>2 DEF Holds
    <3>2. /\ Len(s) - (n - w) \in Nat
          /\ Len(s) - (n - w) - 1 \in NewlinesIn(s)
          /\ Rank(s, Len(s) - (n - w) - 1) = Len(commands')
      <4>1. Len(s) - (n - w) - 1 = p + w - 1 /\ Len(s) - (n - w) \in Nat
        BY <1>1, <2>1, <2>2
      <4> QED
        BY <2>3, <2>4, <4>1
    <3> QED
      BY <1>5, <3>1, <3>2 DEF InputSplit, HandledUpTo, Holds
  <2>10. RoomFits'
    BY <1>1, <1>5, <2>1 DEF RoomFits
  <2> QED
    BY <2>7, <2>8, <2>9, <2>10 DEF IInv
<1> QED
  BY <1>2, <1>3, <1>4, <1>5

LEMMA ReceiveKeeps == IInv /\ receive => IInv'
<1> SUFFICES ASSUME IInv, receive PROVE IInv'
  OBVIOUS
<1>1. /\ alive = "yes" /\ ~eof /\ inbuf < INPUT_BUFFER_SIZE /\ eof' = eof
      /\ TypeOK /\ LinesOf(stream) /\ room > 0 /\ inbuf + room <= Size
      /\ Holds(buf, inbuf, stream) /\ HandledUpTo(stream, Len(stream) - inbuf)
  BY DEF receive, IInv, InputSplit, RoomFits, Taken
<1>2. /\ stream \in Seq(Bytes) /\ Len(stream) \in Nat /\ inbuf \in Nat /\ room \in Int
      /\ buf \in [0 .. Size - 1 -> Bytes \cup {NUL}] /\ DOMAIN buf = 0 .. Size - 1
      /\ Size \in Nat /\ MaxBytes \in Nat /\ Len(commands) \in Nat /\ eof' \in BOOLEAN
  BY <1>1, ByteFacts, LenProperties, ReaderAssumption DEF TypeOK
<1>3. PICK t \in Input :
        /\ stream' = stream \o t
        /\ handle_input([i \in DOMAIN buf |->
                           IF i - inbuf + 1 \in DOMAIN t THEN t[i - inbuf + 1] ELSE buf[i]],
                        inbuf + Len(t))
  BY DEF receive
<1>4. t \in Seq(Bytes) /\ Len(t) \in Nat /\ Len(t) <= room /\ DOMAIN t = 1 .. Len(t)
  <2>1. PICK k \in 1 .. Min({room, MaxBytes - Len(stream)}) : t \in [1 .. k -> Bytes]
    BY <1>3 DEF Input
  <2>2. /\ Min({room, MaxBytes - Len(stream)}) \in Int
        /\ Min({room, MaxBytes - Len(stream)}) <= room
    <3>1. MaxBytes - Len(stream) \in Int /\ room \in Int
      BY <1>2
    <3> QED
      BY <3>1, MinOfTwo
  <2>3. k \in Nat /\ k <= room
    BY <1>2, <2>2
  <2>4. t \in Seq(Bytes)
    BY <2>1, <2>3, SeqDef
  <2>5. Len(t) = k
    BY <2>1, <2>3, <2>4, LenProperties
  <2> QED
    BY <2>3, <2>4, <2>5, LenProperties
<1> DEFINE n == inbuf + Len(t)
           m == [i \in DOMAIN buf |->
                   IF i - inbuf + 1 \in DOMAIN t THEN t[i - inbuf + 1] ELSE buf[i]]
           s == stream \o t
<1>5. n \in 0 .. Size /\ n \in Nat
  BY <1>1, <1>2, <1>4
<1>6. /\ s \in Seq(Bytes) /\ Len(s) = Len(stream) + Len(t)
      /\ \A i \in 1 .. Len(stream) : s[i] = stream[i]
      /\ \A i \in 1 .. Len(t) : s[Len(stream) + i] = t[i]
  BY <1>2, <1>4, Longer
<1>7. /\ m \in [0 .. Size - 1 -> Bytes \cup {NUL}]
      /\ \A i \in 0 .. inbuf - 1 : i \in 0 .. Size - 1 => m[i] = buf[i]
      /\ \A i \in inbuf .. n - 1 : i \in 0 .. Size - 1 => m[i] = t[i - inbuf + 1]
  <2>1. \A i \in 1 .. Len(t) : t[i] \in Bytes
    BY <1>4, ElementOfSeq
  <2>2. m \in [0 .. Size - 1 -> Bytes \cup {NUL}]
    BY <1>2, <1>4, <2>1
  <2>3. \A i \in 0 .. inbuf - 1 : i \in 0 .. Size - 1 => m[i] = buf[i]
    BY <1>2, <1>4
  <2>4. \A i \in inbuf .. n - 1 : i \in 0 .. Size - 1 => m[i] = t[i - inbuf + 1]
    BY <1>2, <1>4
  <2> QED
    BY <2>2, <2>3, <2>4
<1> HIDE DEF m, s
<1>8. Holds(m, n, s)
  <2>1. n <= Len(s)
    BY <1>1, <1>2, <1>4, <1>6 DEF Holds
  <2>2. ASSUME NEW i \in 0 .. n - 1 PROVE m[i] = s[Len(s) - n + i + 1]
    <3>1. i \in Int /\ 0 <= i /\ i <= n - 1 /\ i \in 0 .. Size - 1 /\ inbuf <= Len(stream)
          /\ Len(s) - n = Len(stream) - inbuf
      BY <1>1, <1>2, <1>4, <1>5, <1>6 DEF Holds
    <3> HIDE DEF n
    <3>2. CASE i < inbuf
      <4>1. i \in 0 .. inbuf - 1 /\ Len(stream) - inbuf + i + 1 \in 1 .. Len(stream)
        BY <1>2, <3>1, <3>2
      <4>2. buf[i] = stream[Len(stream) - inbuf + i + 1]
        BY <1>1, <4>1 DEF Holds
      <4> QED
        BY <1>6, <1>7, <3>1, <4>1, <4>2
    <3>3. CASE i >= inbuf
      <4>1. /\ i \in inbuf .. n - 1 /\ i - inbuf + 1 \in 1 .. Len(t)
            /\ Len(stream) - inbuf + i + 1 = Len(stream) + (i - inbuf + 1)
        BY <1>2, <1>4, <3>1, <3>3 DEF n
      <4> QED
        BY <1>6, <1>7, <3>1, <4>1
    <3> QED
      BY <1>2, <3>1, <3>2, <3>3
  <2> QED
    BY <2>1, <2>2 DEF Holds
<1>9. HandledUpTo(s, Len(s) - n)
  <2> DEFINE p == Len(stream) - inbuf
  <2>1. p \in Nat /\ p <= Len(stream) /\ HandledUpTo(stream, p)
    BY <1>1, <1>2 DEF HandledUpTo
  <2>2. Len(s) - n = p
    BY <1>2, <1>4, <1>6
  <2> HIDE DEF p
  <2>3. HandledUpTo(stream \o t, p)
    BY <1>2, <1>4, <2>1, HandledLonger
  <2> QED
    BY <2>2, <2>3 DEF s
<1>10. LinesOf(s)
  BY <1>1, <1>2, <1>4, LinesLonger DEF s
<1>11. handle_input(m, n) /\ stream' = s
  BY <1>3 DEF m, s
<1> HIDE DEF n
<1> QED
  BY <1>1, <1>2, <1>5, <1>6, <1>7, <1>8, <1>9, <1>10, <1>11, HandleKeeps

LEMMA AtEofKeeps == IInv /\ at_eof => IInv'
<1> SUFFICES ASSUME IInv, at_eof PROVE IInv'
  OBVIOUS
<1>1. /\ alive = "yes" /\ eof' \in BOOLEAN /\ stream' = stream /\ handle_input(buf, inbuf)
      /\ TypeOK /\ LinesOf(stream)
      /\ Holds(buf, inbuf, stream) /\ HandledUpTo(stream, Len(stream) - inbuf)
  BY DEF at_eof, IInv, InputSplit, TypeOK, Taken
<1>2. /\ stream \in Seq(Bytes) /\ inbuf \in 0 .. Size
      /\ buf \in [0 .. Size - 1 -> Bytes \cup {NUL}]
  BY <1>1 DEF TypeOK
<1> QED
  BY <1>1, <1>2, HandleKeeps

LEMMA InitHolds == Init => IInv
<1> SUFFICES ASSUME Init PROVE IInv
  OBVIOUS
<1>1. /\ inbuf = 0 /\ room = Size /\ eof = FALSE /\ alive = "yes"
      /\ stream = << >> /\ commands = << >>
  BY DEF Init
<1>2. /\ Len(stream) = 0 /\ Len(commands) = 0 /\ stream \in Seq(Bytes) /\ commands \in Seq(Seq(Bytes))
      /\ Size \in Nat /\ Size > 0 /\ Len(stream) - inbuf = 0
  BY <1>1, ByteFacts
<1>3. TypeOK
  BY <1>1, <1>2 DEF Init, TypeOK
<1>4. LinesOf(Taken)
  BY <1>2 DEF LinesOf
<1>5. Rank(stream, -1) = 0
  <2>1. {j \in NewlinesIn(stream) : j <= -1} = {}
    <3>1. \A j \in NewlinesIn(stream) : j \in Int /\ 1 <= j
      BY <1>2, NewlinesAreNumbers
    <3>2. \A j \in Int : 1 <= j => ~(j <= -1)
      OBVIOUS
    <3> QED
      BY <3>1, <3>2
  <2> QED
    BY <2>1, FS_EmptySet DEF Rank
<1>6. Holds(buf, inbuf, stream)
  BY <1>1, <1>2 DEF Holds
<1>7. HandledUpTo(stream, 0)
  <2>1. 0 - 1 = -1
    OBVIOUS
  <2> QED
    BY <1>2, <1>5, <2>1 DEF HandledUpTo
<1> QED
  BY <1>1, <1>2, <1>3, <1>4, <1>6, <1>7 DEF IInv, InputSplit, RoomFits

\* A read, the end of the input, a full buffer and the user keep the invariant.
THEOREM StepKeepsIInv == IInv /\ [Next]_vars => IInv'
<1> SUFFICES ASSUME IInv, [Next]_vars PROVE IInv'
  OBVIOUS
<1>1. CASE kick \/ close
  <2>1. /\ UNCHANGED <<buf, inbuf, room, stream, commands>>
        /\ alive = "yes" /\ alive' \in {"yes", "kicked"} /\ eof' \in BOOLEAN
    BY <1>1 DEF kick, close, IInv, TypeOK
  <2> QED
    BY <2>1 DEF IInv, TypeOK, Taken, LinesOf, InputSplit, Holds, HandledUpTo, RoomFits
<1>2. CASE UNCHANGED vars
  BY <1>2 DEF vars, IInv, TypeOK, Taken, LinesOf, InputSplit, Holds, HandledUpTo, RoomFits
<1> QED
  BY <1>1, <1>2, ReceiveKeeps, AtEofKeeps DEF Next, handle_client

\* The inductive invariant holds in every state that is reached.
THEOREM InvariantHolds == Spec => []IInv
  BY InitHolds, StepKeepsIInv, PTL DEF Spec

-----------------------------------------------------------------------------
(* The properties. *)

\* Buffer, counts and histories keep their types: no read goes past the buffer.
THEOREM TypeCorrect == Spec => []TypeOK
<1>1. IInv => TypeOK
  BY DEF IInv
<1> QED
  BY <1>1, InvariantHolds, PTL

LEMMA CommandsLines == IInv => CommandsAreLines
<1> SUFFICES ASSUME IInv PROVE CommandsAreLines
  OBVIOUS
<1> DEFINE r == Taken
<1>0. r \in Seq(Bytes)
  BY ByteFacts, AppendProperties DEF IInv, TypeOK, Taken
<1>1. r \in Seq(Bytes) /\ Len(commands) \in Nat /\ DOMAIN commands = 1 .. Len(commands)
  BY <1>0, LenProperties DEF IInv, TypeOK
<1>2. \A k \in 1 .. Len(commands) :
        \E i \in NewlinesIn(r) : Rank(r, i) = k /\ commands[k] = LineIn(r, k)
  BY DEF IInv, LinesOf
<1> HIDE DEF r
<1>3. Len(commands) <= Cardinality(NewlinesIn(r))
  <2>1. CASE Len(commands) = 0
    <3>1. 0 \in Int
      OBVIOUS
    <3>2. Cardinality(NewlinesIn(r)) \in Nat
      BY <1>1, <3>1, NewlinesFinite
    <3> QED
      BY <2>1, <3>2
  <2>2. CASE Len(commands) # 0
    <3>1. Len(commands) \in 1 .. Len(commands)
      BY <1>1, <2>2
    <3>2. PICK i \in NewlinesIn(r) : Rank(r, i) = Len(commands)
      BY <1>2, <3>1
    <3>3. i \in Int
      BY <1>1, NewlinesAreNumbers
    <3> QED
      BY <1>1, <3>2, <3>3, NewlinesFinite
  <2> QED
    BY <2>1, <2>2
<1> QED
  BY <1>1, <1>2, <1>3 DEF CommandsAreLines, r

LEMMA RestBuffered == IInv => RestIsBuffered
  BY DEF IInv, InputSplit, Holds, RoomFits, RestIsBuffered

\* The commands handled are the lines of what the user sent, in order, each once,
\* and what follows them is in the buffer, with room behind it for the next read;
\* if the server has crashed, the last of them may be a line that lacks its LF.
THEOREM StreamIsAlwaysSplit == Spec => []StreamIsSplit
<1>1. IInv => StreamIsSplit
  BY CommandsLines, RestBuffered DEF StreamIsSplit
<1> QED
  BY <1>1, InvariantHolds, PTL

-----------------------------------------------------------------------------
(* The server of Lab10, whose buffer is emptied line by line.  The inductive *)
(* invariant adds to what is checked who may be ahead of whom: the server    *)
(* has read no more than was written, a client that hung up has written      *)
(* everything, and the server reads only when it has no complete line, so    *)
(* that it always has room for a byte.                                       *)

\* Behind so many bytes the message starts again.
Period == Len(MESSAGE)
Line == SubSeq(MESSAGE, 1, Period - 2)

LinesPrinted == \A k \in DOMAIN printed : printed[k] = Line

Buffered ==
    pc \in {"read", "scan"} =>
        /\ taken = Len(printed) * Period + inuse
        /\ taken <= current_byte
        /\ \A i \in 0 .. inuse - 1 : bytes[i] = StreamByte(Len(printed) * Period + i)

BufInv ==
    /\ BufTypeOK
    /\ LinesPrinted
    /\ Buffered
    /\ pc = "read" => inuse < Period
    /\ hungup => current_byte = total_bytes

\* What is known of the constants.
LEMMA BufFacts ==
    /\ BUFSIZE \in Nat /\ Period \in Nat /\ 2 <= Period /\ Period <= BUFSIZE
    /\ MINCHARS \in Nat /\ MAXCHARS \in Nat /\ 1 <= MINCHARS
    /\ \A i \in 1 .. Period : /\ MESSAGE[i] = CR <=> i = Period - 1
                              /\ MESSAGE[i] = LF <=> i = Period
<1>1. BUFSIZE \in Nat /\ Period \in 2 .. BUFSIZE
  BY BufAssumption DEF Period
<1>2. MAXCHARS \in Nat /\ MINCHARS \in 1 .. MAXCHARS
  BY BufAssumption
<1>3. \A i \in 1 .. Period : (MESSAGE[i] = CR <=> i = Period - 1) /\ (MESSAGE[i] = LF <=> i = Period)
  BY BufAssumption DEF Period
<1> QED
  BY <1>1, <1>2, <1>3

LEMMA TotalBytes ==
    TIMES \in Nat /\ total_bytes = TIMES * Period /\ total_bytes \in Nat
<1>1. TIMES \in Nat
  BY BufAssumption
<1>2. total_bytes = TIMES * Period
  BY DEF total_bytes, Period
<1>3. \A a, b \in Nat : a * b \in Nat
  OBVIOUS
<1>4. Period \in Nat
  BY BufFacts
<1> QED
  BY <1>1, <1>2, <1>3, <1>4

\* Byte i of a message, whichever message of the stream it is.
LEMMA Periodic ==
    ASSUME NEW q \in Nat, NEW i \in 0 .. Period - 1
    PROVE  StreamByte(q * Period + i) = MESSAGE[i + 1]
<1>1. \A p \in Nat : p > 0 => \A j \in 0 .. p - 1 : (q * p + j) % p = j
  OBVIOUS
<1>2. Period \in Nat /\ Period > 0
  BY BufFacts
<1>3. (q * Period + i) % Period = i
  BY <1>1, <1>2
<1> QED
  BY <1>3 DEF StreamByte, Period

\* The first newline of the buffer, if any, ends the message its bytes come from:
\* its CR is read, its LF is read or was left from the message before.
LEMMA LineIsMessage ==
    ASSUME BufInv, pc = "scan"
    PROVE  /\ where # -1 => where = Period /\ Period - 1 <= inuse
           /\ where = -1 => inuse < Period
<1> DEFINE hits == {i \in 0 .. inuse - 1 :
                       bytes[i] = CR /\ i + 1 \in DOMAIN bytes /\ bytes[i + 1] = LF}
           q == Len(printed)
<1>1. /\ BUFSIZE \in Nat /\ Period \in Nat /\ 2 <= Period /\ Period <= BUFSIZE
      /\ inuse \in Nat /\ inuse <= BUFSIZE /\ q \in Nat /\ DOMAIN bytes = 0 .. BUFSIZE - 1
  BY BufFacts, LenProperties DEF BufInv, BufTypeOK
<1>2. ~(inuse > BUFSIZE)
  BY <1>1
<1>3. where = IF hits = {} THEN -1 ELSE Min(hits) + 2
  BY <1>2 DEF where, find_network_newline
<1> HIDE DEF q
<1>4. ASSUME NEW i \in 0 .. inuse - 1, i < Period PROVE bytes[i] = MESSAGE[i + 1]
  <2>1. bytes[i] = StreamByte(q * Period + i)
    BY DEF BufInv, Buffered, q
  <2>2. i \in 0 .. Period - 1
    BY <1>1, <1>4
  <2> QED
    BY <1>1, <2>1, <2>2, Periodic
<1>5. ASSUME NEW i \in 0 .. inuse - 1, bytes[i] = CR PROVE i >= Period - 2
  <2> SUFFICES ASSUME i < Period - 2 PROVE FALSE
    BY <1>1
  <2>1. i \in Int /\ i < Period /\ i + 1 \in 1 .. Period /\ i + 1 # Period - 1
    BY <1>1
  <2>2. bytes[i] = MESSAGE[i + 1]
    BY <1>4, <2>1
  <2> QED
    BY <1>5, <2>1, <2>2, BufFacts
<1>6. Period <= inuse => Period - 2 \in hits
  <2> SUFFICES ASSUME Period <= inuse PROVE Period - 2 \in hits
    OBVIOUS
  <2>1. Period - 2 \in 0 .. inuse - 1 /\ Period - 1 \in 0 .. inuse - 1 /\ Period - 1 \in DOMAIN bytes
    BY <1>1
  <2>2. bytes[Period - 2] = MESSAGE[Period - 2 + 1] /\ bytes[Period - 1] = MESSAGE[Period - 1 + 1]
    BY <1>1, <1>4, <2>1
  <2>3. Period - 2 + 1 = Period - 1 /\ Period - 1 + 1 = Period /\ Period - 1 \in 1 .. Period /\ Period \in 1 .. Period
    BY <1>1
  <2>4. bytes[Period - 2] = CR /\ bytes[Period - 1] = LF
    BY <2>2, <2>3, BufFacts
  <2> QED
    BY <2>1, <2>3, <2>4
<1>7. hits \in SUBSET Nat /\ Min(hits) = Min(hits)
  BY <1>1 DEF Min, Min
<1>n. \A i \in hits : i \in 0 .. inuse - 1 /\ bytes[i] = CR
  OBVIOUS
<1> HIDE DEF hits
<1>8. CASE hits = {}
  <2>1. where = -1 /\ ~(Period <= inuse)
    BY <1>3, <1>6, <1>8
  <2> QED
    BY <1>1, <2>1
<1>9. CASE hits # {}
  <2>1. PICK x \in hits : x = Min(hits) /\ \A y \in hits : x <= y
    BY <1>7, <1>9, MinNat
  <2>2. x \in 0 .. inuse - 1 /\ bytes[x] = CR /\ where = x + 2
    BY <1>3, <1>7, <1>9, <1>n, <2>1
  <2>3. x >= Period - 2
    BY <1>5, <2>2
  <2>4. x = Period - 2
    <3>1. x \in Int /\ x <= inuse - 1
      BY <1>1, <2>2
    <3>2. CASE Period <= inuse
      <4>1. x <= Period - 2
        BY <1>6, <2>1, <3>2
      <4> QED
        BY <1>1, <2>3, <3>1, <4>1
    <3>3. CASE ~(Period <= inuse)
      BY <1>1, <2>3, <3>1, <3>3
    <3> QED
      BY <3>2, <3>3
  <2>5. where = Period /\ Period - 1 <= inuse /\ where # -1
    BY <1>1, <2>2, <2>4
  <2> QED
    BY <2>5
<1> QED
  BY <1>8, <1>9

\* The line that is printed then.
LEMMA LineIsPrinted ==
    ASSUME BufInv, pc = "scan", where # -1
    PROVE  LineText(bytes, where) = Line /\ Line \in Seq(MessageBytes)
<1>1. /\ where = Period /\ Period - 1 <= inuse /\ inuse \in Nat /\ Period \in Nat /\ 2 <= Period
      /\ Len(printed) \in Nat
  BY BufFacts, LineIsMessage, LenProperties DEF BufInv, BufTypeOK
<1> DEFINE text == [i \in 1 .. Period - 2 |-> MESSAGE[i]]
<1>2. ASSUME NEW i \in 1 .. Period - 2 PROVE bytes[i - 1] = MESSAGE[i]
  <2>1. i - 1 \in 0 .. inuse - 1 /\ i - 1 \in 0 .. Period - 1 /\ i - 1 + 1 = i
    BY <1>1
  <2>2. bytes[i - 1] = StreamByte(Len(printed) * Period + (i - 1))
    BY <2>1 DEF BufInv, Buffered
  <2>3. StreamByte(Len(printed) * Period + (i - 1)) = MESSAGE[i - 1 + 1]
    BY <1>1, <2>1, Periodic
  <2> QED
    BY <2>1, <2>2, <2>3
<1>3. LineText(bytes, where) = text
  BY <1>1, <1>2 DEF LineText
<1>4. ASSUME NEW i \in 1 .. Period - 2 PROVE MESSAGE[i] \in MessageBytes
  <2>1. MESSAGE[i] = bytes[i - 1] /\ bytes \in [0 .. BUFSIZE - 1 -> MessageBytes]
    BY <1>2 DEF BufInv, BufTypeOK
  <2>2. i - 1 \in 0 .. BUFSIZE - 1
    BY <1>1, BufFacts
  <2> QED
    BY <2>1, <2>2
<1>5. text \in [1 .. Period - 2 -> MessageBytes] /\ Period - 2 \in Nat
  BY <1>1, <1>4
<1>6. text \in Seq(MessageBytes) /\ Len(text) = Period - 2 /\ \A i \in 1 .. Period - 2 : text[i] = MESSAGE[i]
  <2> DEFINE k == Period - 2
  <2>1. text \in Seq(MessageBytes) /\ DOMAIN text = 1 .. Period - 2
    <3>1. k \in Nat /\ text \in [1 .. k -> MessageBytes]
      BY <1>5
    <3> HIDE DEF k, text
    <3>2. text \in Seq(MessageBytes) /\ DOMAIN text = 1 .. k
      BY <3>1, SeqDef
    <3> QED
      BY <3>2 DEF k
  <2>2. \A i \in 1 .. Period - 2 : text[i] = MESSAGE[i]
    OBVIOUS
  <2> HIDE DEF text
  <2> QED
    BY <1>5, <2>1, <2>2, LengthFromDomain
<1>7. /\ Line \in Seq(MessageBytes) /\ Len(Line) = Period - 2
      /\ \A i \in 1 .. Period - 2 : Line[i] = MESSAGE[i]
  BY <1>1, <1>4, SubSeqProperties DEF Line
<1> HIDE DEF text
<1>8. text = Line
  <2>1. \A i \in 1 .. Len(text) : text[i] = Line[i]
    BY <1>6, <1>7
  <2>2. Len(text) = Len(Line)
    BY <1>6, <1>7
  <2> QED
    BY <1>6, <1>7, <2>1, <2>2, SeqEqual
<1> QED
  BY <1>3, <1>7, <1>8

\* Clients write, connect and hang up; none of it touches the server.
LEMMA ClientKeeps ==
    ASSUME BufInv, ClientStep
    PROVE  BufInv'
<1>1. /\ total_bytes \in Nat /\ current_byte \in -1 .. total_bytes
      /\ MINCHARS \in Nat /\ MAXCHARS \in Nat /\ 1 <= MINCHARS
      /\ taken \in Nat /\ hungup \in BOOLEAN
  BY BufFacts, TotalBytes DEF BufInv, BufTypeOK
<1>2. /\ UNCHANGED <<pc, taken, bytes, inuse, printed>>
      /\ hungup' \in BOOLEAN
      /\ current_byte' \in -1 .. total_bytes /\ current_byte <= current_byte'
      /\ hungup' => current_byte' = total_bytes
  <2>1. CASE connect_to_server
    BY <1>1, <2>1 DEF connect_to_server, server, BufInv
  <2>2. CASE write_random_pieces
    <3>1. PICK n \in MINCHARS .. MAXCHARS :
              current_byte' = Min({current_byte + n, total_bytes})
      BY <2>2 DEF write_random_pieces
    <3> DEFINE b == current_byte + n
    <3>2. b \in Int /\ b > current_byte /\ current_byte \in 0 .. total_bytes - 1
      BY <1>1, <2>2 DEF write_random_pieces
    <3>3. current_byte' = Min({b, total_bytes})
      BY <3>1 DEF Min, Min
    <3> HIDE DEF b
    <3>4. (current_byte' = b /\ b <= total_bytes) \/ current_byte' = total_bytes
      <4>1. CASE b <= total_bytes
        BY <1>1, <3>2, <3>3, <4>1 DEF Min
      <4>2. CASE ~(b <= total_bytes)
        BY <1>1, <3>2, <3>3, <4>2 DEF Min
      <4> QED
        BY <4>1, <4>2
    <3>5. ~hungup /\ hungup' = hungup /\ UNCHANGED <<pc, taken, bytes, inuse, printed>>
      BY <1>1, <2>2, <3>2 DEF write_random_pieces, server, BufInv
    <3> QED
      BY <1>1, <3>2, <3>4, <3>5
  <2>3. CASE close_client
    BY <1>1, <2>3 DEF close_client, server, BufInv
  <2> QED
    BY <2>1, <2>2, <2>3 DEF ClientStep
<1>3. BufTypeOK'
  BY <1>2 DEF BufInv, BufTypeOK, total_bytes
<1>4. Buffered'
  <2> SUFFICES ASSUME pc \in {"read", "scan"} PROVE taken <= current_byte'
    BY <1>2 DEF BufInv, Buffered, StreamByte
  <2> QED
    BY <1>1, <1>2 DEF BufInv, Buffered
<1> QED
  BY <1>2, <1>3, <1>4 DEF BufInv, LinesPrinted, total_bytes

\* A new connection starts with nothing read and nothing printed.
LEMMA AcceptKeeps ==
    ASSUME BufInv, accept_connection
    PROVE  BufInv'
<1>1. /\ pc' = "read" /\ taken' = 0 /\ bytes' = EmptyBuf /\ inuse' = 0 /\ printed' = << >>
      /\ UNCHANGED <<current_byte, hungup>> /\ current_byte # -1
  BY DEF accept_connection, client
<1>2. /\ total_bytes \in Nat /\ Period \in Nat /\ 2 <= Period /\ BUFSIZE \in Nat
      /\ current_byte \in -1 .. total_bytes
  BY BufFacts, TotalBytes DEF BufInv, BufTypeOK
<1>3. BufTypeOK'
  <2>1. EmptyBuf \in [0 .. BUFSIZE - 1 -> MessageBytes]
    BY DEF EmptyBuf, MessageBytes
  <2>2. << >> \in Seq(Seq(MessageBytes)) /\ 0 \in 0 .. BUFSIZE /\ 0 \in 0 .. total_bytes
    BY <1>2
  <2>3. hungup \in BOOLEAN
    BY DEF BufInv, BufTypeOK
  <2> QED
    BY <1>1, <1>2, <2>1, <2>2, <2>3 DEF BufTypeOK, total_bytes
<1>4. Len(printed') = 0 /\ 0 <= current_byte
  BY <1>1, <1>2
<1>5. Buffered'
  BY <1>1, <1>2, <1>4 DEF Buffered
<1>6. LinesPrinted'
  BY <1>1 DEF LinesPrinted
<1> QED
  BY <1>1, <1>2, <1>3, <1>5, <1>6 DEF BufInv, total_bytes

\* Whatever read returns is put behind what is in the buffer.
LEMMA ReadKeeps ==
    ASSUME BufInv, read
    PROVE  BufInv'
<1>1. /\ total_bytes \in Nat /\ Period \in Nat /\ 2 <= Period /\ BUFSIZE \in Nat
      /\ current_byte \in -1 .. total_bytes /\ taken \in Nat /\ inuse \in 0 .. BUFSIZE
      /\ Len(printed) \in Nat /\ DOMAIN bytes = 0 .. BUFSIZE - 1 /\ pc = "read"
      /\ bytes \in [0 .. BUFSIZE - 1 -> MessageBytes]
      /\ taken <= current_byte /\ taken = Len(printed) * Period + inuse
  BY BufFacts, TotalBytes, LenProperties DEF BufInv, Buffered, BufTypeOK, read
<1>2. PICK n \in 1 .. Min({space, current_byte - taken}) :
        /\ bytes' = [i \in DOMAIN bytes |->
                       IF i \in inuse .. inuse + n - 1
                         THEN StreamByte(taken + i - inuse) ELSE bytes[i]]
        /\ inuse' = inuse + n
        /\ taken' = taken + n
  BY DEF read
<1>3. pc' = "scan" /\ UNCHANGED <<current_byte, hungup, printed>>
  BY DEF read, client
<1>4. n \in Nat /\ 1 <= n /\ inuse + n <= BUFSIZE /\ taken + n <= current_byte
  <2> DEFINE a == BUFSIZE - inuse
             b == current_byte - taken
  <2>1. a \in Int /\ b \in Int
    BY <1>1
  <2>2. Min({space, b}) = Min({a, b})
    BY DEF Min, Min, space
  <2> HIDE DEF a, b
  <2>3. Min({a, b}) \in Int /\ Min({a, b}) <= a /\ Min({a, b}) <= b
    BY <2>1, MinOfTwo
  <2>4. n \in Int /\ 1 <= n /\ n <= a /\ n <= b
    BY <1>2, <2>1, <2>2, <2>3 DEF b
  <2> QED
    BY <1>1, <2>4 DEF a, b
<1>5. \A k \in Nat : StreamByte(k) \in MessageBytes
  <2> SUFFICES ASSUME NEW k \in Nat PROVE StreamByte(k) \in MessageBytes
    OBVIOUS
  <2>1. (k % Period) + 1 \in 1 .. Period
    BY <1>1
  <2>2. DOMAIN MESSAGE = 1 .. Period
    BY LenProperties, BufAssumption DEF Period
  <2>3. (k % Len(MESSAGE)) + 1 \in DOMAIN MESSAGE
    BY <2>1, <2>2 DEF Period
  <2> QED
    BY <2>3 DEF StreamByte, MessageBytes
<1>6. BufTypeOK'
  <2>1. bytes' \in [0 .. BUFSIZE - 1 -> MessageBytes]
    <3>1. ASSUME NEW i \in DOMAIN bytes, i \in inuse .. inuse + n - 1
          PROVE  StreamByte(taken + i - inuse) \in MessageBytes
      <4>1. taken + i - inuse \in Nat
        BY <1>1, <1>4, <3>1
      <4> QED
        BY <1>5, <4>1
    <3> QED
      BY <1>1, <1>2, <3>1
  <2>2. inuse' \in 0 .. BUFSIZE /\ taken' \in 0 .. total_bytes
    BY <1>1, <1>2, <1>4
  <2> QED
    BY <1>3, <2>1, <2>2 DEF BufInv, BufTypeOK, total_bytes
<1>7. Buffered'
  <2>1. taken' = Len(printed) * Period + inuse' /\ taken' <= current_byte
    BY <1>1, <1>2, <1>4
  <2>2. ASSUME NEW i \in 0 .. inuse' - 1
        PROVE  bytes'[i] = StreamByte(Len(printed) * Period + i)
    <3>1. i \in 0 .. BUFSIZE - 1 /\ i \in Int /\ i < inuse + n
      BY <1>1, <1>2, <1>4
    <3>2. CASE i < inuse
      <4>1. bytes'[i] = bytes[i] /\ i \in 0 .. inuse - 1
        BY <1>1, <1>2, <3>1, <3>2
      <4> QED
        BY <1>1, <4>1 DEF BufInv, Buffered
    <3>3. CASE i >= inuse
      <4>1. bytes'[i] = StreamByte(taken + i - inuse)
        BY <1>1, <1>2, <1>4, <3>1, <3>3
      <4>2. taken + i - inuse = Len(printed) * Period + i
        BY <1>1, <3>1
      <4> QED
        BY <4>1, <4>2
    <3> QED
      BY <1>1, <3>1, <3>2, <3>3
  <2> QED
    BY <1>3, <2>1, <2>2 DEF Buffered, StreamByte
<1> QED
  BY <1>3, <1>6, <1>7 DEF BufInv, LinesPrinted, total_bytes

\* The line is printed, and what follows it moved to the front.
LEMMA TakeKeeps ==
    ASSUME BufInv, take_line
    PROVE  BufInv'
<1>1. /\ pc = "scan" /\ where = Period /\ Period - 1 <= inuse
      /\ printed' = Append(printed, Line) /\ Line \in Seq(MessageBytes)
      /\ UNCHANGED <<current_byte, hungup, taken>>
  BY LineIsMessage, LineIsPrinted DEF take_line, client
<1>2. /\ total_bytes \in Nat /\ Period \in Nat /\ 2 <= Period /\ Period <= BUFSIZE
      /\ BUFSIZE \in Nat /\ taken \in Nat /\ inuse \in 0 .. BUFSIZE
      /\ Len(printed) \in Nat /\ printed \in Seq(Seq(MessageBytes))
      /\ bytes \in [0 .. BUFSIZE - 1 -> MessageBytes] /\ DOMAIN bytes = 0 .. BUFSIZE - 1
      /\ taken <= current_byte /\ taken = Len(printed) * Period + inuse
  BY <1>1, BufFacts, TotalBytes, LenProperties DEF BufInv, Buffered, BufTypeOK
<1>3. /\ printed' \in Seq(Seq(MessageBytes)) /\ Len(printed') = Len(printed) + 1
      /\ \A k \in 1 .. Len(printed) : printed'[k] = printed[k]
      /\ printed'[Len(printed) + 1] = Line
  BY <1>1, <1>2, AppendProperties
<1>4. LinesPrinted'
  <2>1. DOMAIN printed' = 1 .. Len(printed) + 1 /\ DOMAIN printed = 1 .. Len(printed)
    BY <1>2, <1>3, LenProperties
  <2>2. ASSUME NEW k \in 1 .. Len(printed) + 1 PROVE printed'[k] = Line
    <3>1. CASE k = Len(printed) + 1
      BY <1>3, <3>1
    <3>2. CASE k # Len(printed) + 1
      <4>1. k \in 1 .. Len(printed) /\ k \in DOMAIN printed
        BY <1>2, <2>1, <3>2
      <4> QED
        BY <1>3, <4>1 DEF BufInv, LinesPrinted
    <3> QED
      BY <3>1, <3>2
  <2> QED
    BY <2>1, <2>2 DEF LinesPrinted
<1>5. CASE Overrun(Period, inuse)
  <2>1. pc' = "crashed" /\ UNCHANGED <<bytes, inuse>>
    BY <1>1, <1>5 DEF take_line
  <2>2. BufTypeOK'
    BY <1>1, <1>3, <2>1 DEF BufInv, BufTypeOK, total_bytes
  <2> QED
    BY <1>1, <1>4, <2>1, <2>2 DEF BufInv, Buffered, total_bytes
<1>6. CASE ~Overrun(Period, inuse)
  <2>1. /\ inuse' = inuse - Period /\ pc' = "scan"
        /\ bytes' = Shift([bytes EXCEPT ![Period - 2] = NUL], Period, inuse - Period)
    BY <1>1, <1>6 DEF take_line
  <2>2. Period <= inuse
    BY <1>2, <1>6 DEF Overrun
  <2> DEFINE c == [bytes EXCEPT ![Period - 2] = NUL]
  <2>3. /\ c \in [0 .. BUFSIZE - 1 -> MessageBytes] /\ DOMAIN c = 0 .. BUFSIZE - 1
        /\ \A i \in 0 .. BUFSIZE - 1 : i # Period - 2 => c[i] = bytes[i]
    BY <1>2 DEF MessageBytes
  <2> HIDE DEF c
  <2>4. bytes' = [i \in 0 .. BUFSIZE - 1 |->
                    CASE i < inuse - Period -> c[Period + i]
                      [] i >= inuse - Period /\ i < Period - 1 -> NUL
                      [] OTHER -> c[i]]
    BY <2>1, <2>3 DEF Shift, c
  <2>5. ASSUME NEW i \in 0 .. BUFSIZE - 1, i < inuse - Period
        PROVE  bytes'[i] = bytes[Period + i] /\ Period + i \in 0 .. inuse - 1
    <3>1. Period + i \in 0 .. inuse - 1 /\ Period + i \in 0 .. BUFSIZE - 1 /\ Period + i # Period - 2
      BY <1>2, <2>5
    <3>2. ~(i >= inuse - Period)
      BY <1>2, <2>5
    <3>3. bytes'[i] = c[Period + i]
      BY <2>4, <2>5, <3>2
    <3> QED
      BY <2>3, <3>1, <3>3
  <2>6. bytes' \in [0 .. BUFSIZE - 1 -> MessageBytes]
    <3>1. ASSUME NEW i \in 0 .. BUFSIZE - 1 PROVE bytes'[i] \in MessageBytes
      <4>1. CASE i < inuse - Period
        <5>1. Period + i \in 0 .. BUFSIZE - 1
          BY <1>2, <2>5, <4>1
        <5> QED
          BY <1>2, <2>5, <4>1, <5>1
      <4>2. CASE ~(i < inuse - Period)
        BY <2>3, <2>4, <4>2 DEF MessageBytes
      <4> QED
        BY <4>1, <4>2
    <3> QED
      BY <2>4, <3>1
  <2>7. BufTypeOK'
    <3>1. inuse' \in 0 .. BUFSIZE
      BY <1>2, <2>1, <2>2
    <3> QED
      BY <1>1, <1>3, <2>1, <2>6, <3>1 DEF BufInv, BufTypeOK, total_bytes
  <2>8. Buffered'
    <3>1. taken' = Len(printed') * Period + inuse' /\ taken' <= current_byte'
      BY <1>1, <1>2, <1>3, <2>1
    <3>2. ASSUME NEW i \in 0 .. inuse' - 1
          PROVE  bytes'[i] = StreamByte(Len(printed') * Period + i)
      <4>1. i \in 0 .. BUFSIZE - 1 /\ i < inuse - Period /\ i \in Int
        BY <1>2, <2>1, <2>2
      <4>2. bytes'[i] = StreamByte(Len(printed) * Period + (Period + i))
        BY <1>1, <2>5, <4>1 DEF BufInv, Buffered
      <4>3. Len(printed) * Period + (Period + i) = Len(printed') * Period + i
        BY <1>2, <1>3, <4>1
      <4> QED
        BY <4>2, <4>3
    <3> QED
      BY <3>1, <3>2 DEF Buffered, StreamByte
  <2> QED
    BY <1>1, <1>4, <2>1, <2>7, <2>8 DEF BufInv, total_bytes
<1> QED
  BY <1>5, <1>6

LEMMA NoLineKeeps ==
    ASSUME BufInv, no_line
    PROVE  BufInv'
<1>1. pc = "scan" /\ pc' = "read" /\ inuse < Period
  BY LineIsMessage DEF no_line
<1>2. UNCHANGED <<current_byte, hungup, taken, bytes, inuse, printed>>
  BY DEF no_line, client
<1> QED
  BY <1>1, <1>2
     DEF BufInv, BufTypeOK, LinesPrinted, Buffered, StreamByte, total_bytes

LEMMA EndConnectionKeeps ==
    ASSUME BufInv, end_connection
    PROVE  BufInv'
<1>1. /\ pc' = "accept" /\ current_byte' = -1 /\ hungup' = FALSE
      /\ UNCHANGED <<taken, bytes, inuse, printed>>
  BY DEF end_connection
<1>2. total_bytes \in Nat /\ -1 \in -1 .. total_bytes
  BY TotalBytes
<1>3. BufTypeOK'
  <2>1. current_byte' \in -1 .. total_bytes /\ hungup' \in BOOLEAN
    BY <1>1, <1>2
  <2> QED
    BY <1>1, <2>1 DEF BufInv, BufTypeOK, total_bytes
<1> QED
  BY <1>1, <1>3 DEF BufInv, LinesPrinted, Buffered

LEMMA BufInitHolds == BufInit => BufInv
<1> SUFFICES ASSUME BufInit PROVE BufInv
  OBVIOUS
<1>1. total_bytes \in Nat /\ BUFSIZE \in Nat
  BY BufFacts, TotalBytes
<1>2. EmptyBuf \in [0 .. BUFSIZE - 1 -> MessageBytes]
  BY DEF EmptyBuf, MessageBytes
<1>3. BufTypeOK
  <2>1. -1 \in -1 .. total_bytes /\ 0 \in 0 .. total_bytes /\ 0 \in 0 .. BUFSIZE
    BY <1>1
  <2>2. << >> \in Seq(Seq(MessageBytes))
    OBVIOUS
  <2>3. /\ current_byte = -1 /\ hungup = FALSE /\ pc = "accept" /\ taken = 0
        /\ bytes = EmptyBuf /\ inuse = 0 /\ printed = << >>
    BY DEF BufInit
  <2> QED
    BY <1>2, <2>1, <2>2, <2>3 DEF BufTypeOK
<1> QED
  BY <1>3 DEF BufInit, BufInv, LinesPrinted, Buffered

LEMMA BufStep == BufInv /\ [BufNext]_bufvars => BufInv'
<1> SUFFICES ASSUME BufInv, [BufNext]_bufvars PROVE BufInv'
  OBVIOUS
<1>1. CASE UNCHANGED bufvars
  BY <1>1 DEF bufvars, client, server, BufInv, BufTypeOK, LinesPrinted, Buffered,
              StreamByte, total_bytes
<1> QED
  BY <1>1, ClientKeeps, AcceptKeeps, ReadKeeps, TakeKeeps, NoLineKeeps, EndConnectionKeeps
     DEF BufNext, ServerStep

LEMMA BufInvariantHolds == BufSpec => []BufInv
  BY BufInitHolds, BufStep, PTL DEF BufSpec

\* Client and server keep their types: the server never reads past its buffer.
THEOREM BufTypeCorrect == BufSpec => []BufTypeOK
<1>1. BufInv => BufTypeOK
  BY DEF BufInv
<1> QED
  BY <1>1, BufInvariantHolds, PTL

\* However the stream is cut, each line printed is the message, and what was read is
\* the lines printed followed by what is in the buffer; also when the server stops at
\* a newline it takes from an earlier message.
THEOREM StreamIsAlwaysKept == BufSpec => []StreamIsKept
<1>1. BufInv => StreamIsKept
  BY DEF BufInv, LinesPrinted, Buffered, StreamIsKept, Line, Period
<1> QED
  BY <1>1, BufInvariantHolds, PTL

\* The server never runs out of room, and so ends a connection only when its client
\* has, and when it has printed all lines.
THEOREM ServedToTheEnd == BufSpec => HangsUpOnlyAtTheEnd
<1>1. BufInv /\ [BufNext]_bufvars =>
        [end_connection => hungup /\ Len(printed) = TIMES]_bufvars
  <2> SUFFICES ASSUME BufInv, end_connection PROVE hungup /\ Len(printed) = TIMES
    OBVIOUS
  <2>1. /\ Period \in Nat /\ 2 <= Period /\ Period <= BUFSIZE /\ BUFSIZE \in Nat
        /\ TIMES \in Nat /\ total_bytes = TIMES * Period
        /\ inuse \in 0 .. BUFSIZE /\ Len(printed) \in Nat
    BY BufFacts, TotalBytes, LenProperties DEF BufInv, BufTypeOK
  <2>2. pc = "read" /\ inuse < Period /\ ((hungup /\ taken = current_byte) \/ inuse = BUFSIZE)
    BY DEF BufInv, end_connection, ReadsNothing
  <2>3. hungup /\ taken = TIMES * Period /\ taken = Len(printed) * Period + inuse
    BY <2>1, <2>2 DEF BufInv, Buffered
  <2>4. Len(printed) = TIMES
    <3> DEFINE d == TIMES - Len(printed)
    <3>1. d \in Int /\ d * Period = inuse
      <4>1. \A p, q, t \in Nat, r \in Int : t * p = q * p + r => (t - q) * p = r
        OBVIOUS
      <4>2. TIMES * Period = Len(printed) * Period + inuse /\ inuse \in Int
        BY <2>1, <2>3
      <4> QED
        BY <2>1, <4>1, <4>2
    <3> HIDE DEF d
    <3>2. ~(d >= 1) /\ ~(d <= -1)
      <4>1. ASSUME d >= 1 PROVE d * Period >= Period
        BY <2>1, <3>1, <4>1
      <4>2. ASSUME d <= -1 PROVE d * Period <= -Period
        <5>1. PICK e \in Nat : e = -1 - d
          BY <3>1, <4>2
        <5>2. e * Period \in Nat
          BY <2>1
        <5>3. d = -1 - e /\ d * Period = -Period - e * Period
          BY <2>1, <3>1, <5>1
        <5> QED
          BY <2>1, <5>2, <5>3
      <4> QED
        BY <2>1, <2>2, <3>1, <4>1, <4>2
    <3> QED
      BY <2>1, <3>1, <3>2 DEF d
  <2> QED
    BY <2>3, <2>4
<1> QED
  BY <1>1, BufInvariantHolds, PTL DEF BufSpec, HangsUpOnlyAtTheEnd
=============================================================================
