------------------------- MODULE HcqCourses_proofs -------------------------
(***************************************************************************)
(* Proofs about the two threadings of the first help centre (HcqCourses),  *)
(* for every set of addresses, names and courses.                          *)
(***************************************************************************)
EXTENDS HcqCourses, FiniteSetTheorems, SequenceTheorems, WellFoundedInduction, TLAPS

-----------------------------------------------------------------------------
(* Lists in memory.  A sequence of different nodes is threaded from h along *)
(* a field when h is its first node, the field of each node its successor,  *)
(* and that of the last NULL.                                               *)

\* What comes after the first i elements of q, as a pointer.
Follow(q, i) == IF i < Len(q) THEN q[i + 1] ELSE NULL

Different(q) == \A i, j \in 1 .. Len(q) : q[i] = q[j] => i = j

Threaded(q, h, field) ==
    /\ q \in Seq(SAddr)
    /\ Different(q)
    /\ h = Follow(q, 0)
    /\ \A i \in 1 .. Len(q) : field[q[i]] = Follow(q, i)

LEMMA MinNat ==
    ASSUME NEW S \in SUBSET Nat, S # {}
    PROVE  \E x \in S : \A y \in S : x <= y
<1> DEFINE less == {p \in Nat \X Nat : p[1] < p[2]}
<1>1. less = OpToRel(<, Nat)
  BY Zenon DEF OpToRel
<1>2. PICK x \in S : \A y \in S : ~(<<y, x>> \in less)
  BY NatLessThanWellFounded, WFMin, <1>1
<1>3. ASSUME NEW y \in S PROVE x <= y
  <2>1. x \in Nat /\ y \in Nat /\ <<y, x>> \notin less
    BY <1>2
  <2>2. ~(y < x)
    BY <2>1, Zenon
  <2> QED
    BY <2>1, <2>2
<1> QED
  BY <1>3

LEMMA UpTo ==
    ASSUME NEW n \in Nat
    PROVE  IsFiniteSet(1 .. n) /\ Cardinality(1 .. n) = n
  BY FS_Interval

\* A sequence without repetitions has as many members as positions.
LEMMA Distinct ==
    ASSUME NEW S, NEW q \in Seq(S), Different(q)
    PROVE  /\ Len(q) \in Nat /\ DOMAIN q = 1 .. Len(q)
           /\ IsFiniteSet(ToSet(q)) /\ Cardinality(ToSet(q)) = Len(q)
           /\ ToSet(q) \subseteq S
<1>1. Len(q) \in Nat /\ DOMAIN q = 1 .. Len(q) /\ q \in [1 .. Len(q) -> S]
  BY LenProperties
<1>2. q \in Bijection(1 .. Len(q), ToSet(q))
  BY <1>1 DEF Bijection, Injection, Surjection, IsInjective, ToSet, Different
<1>3. IsFiniteSet(1 .. Len(q)) /\ Cardinality(1 .. Len(q)) = Len(q)
  BY <1>1, UpTo
<1>4. ExistsBijection(1 .. Len(q), ToSet(q))
  BY <1>2 DEF ExistsBijection
<1>5. IsFiniteSet(ToSet(q)) /\ Cardinality(ToSet(q)) = Len(q)
  BY <1>3, <1>4, FS_Bijection
<1> QED
  BY <1>1, <1>5 DEF ToSet

\* The walk of the code over a list in memory finds the sequence it holds.
LEMMA NodesOfThreaded ==
    ASSUME NEW q, NEW h, NEW field, Threaded(q, h, field)
    PROVE  Nodes(h, field) = q
<1> DEFINE N == Cardinality(SAddr) + 1
           Walked(g) == [k \in 1 .. N |-> IF k = 1 THEN h
                            ELSE IF g[k - 1] = NULL THEN NULL ELSE field[g[k - 1]]]
           walk == [k \in 1 .. N |-> Follow(q, k - 1)]
<1>1. /\ q \in Seq(SAddr) /\ Len(q) \in Nat /\ DOMAIN q = 1 .. Len(q)
      /\ Cardinality(SAddr) \in Nat /\ Len(q) <= Cardinality(SAddr)
  <2>1. Different(q)
    BY DEF Threaded
  <2>2. q \in Seq(SAddr)
    BY DEF Threaded
  <2>3. /\ Len(q) \in Nat /\ DOMAIN q = 1 .. Len(q)
        /\ Cardinality(ToSet(q)) = Len(q) /\ ToSet(q) \subseteq SAddr
    BY <2>1, <2>2, Distinct
  <2>4. IsFiniteSet(SAddr)
    BY CoursesAssumption
  <2> QED
    BY <2>2, <2>3, <2>4, FS_CardinalityType, FS_Subset
<1>2. /\ N \in Nat /\ Len(q) < N /\ h = Follow(q, 0)
      /\ \A i \in 1 .. Len(q) : q[i] \in SAddr /\ q[i] # NULL /\ field[q[i]] = Follow(q, i)
  BY <1>1, ElementOfSeq, CoursesAssumption DEF Threaded
<1> HIDE DEF N
<1>3. ASSUME NEW k \in 1 .. N
      PROVE  walk[k] = IF k = 1 THEN h ELSE IF walk[k - 1] = NULL THEN NULL
                                            ELSE field[walk[k - 1]]
  <2>1. CASE k = 1
    BY <2>1, <1>2
  <2>2. CASE k # 1
    <3>1. k - 1 \in 1 .. N /\ walk[k - 1] = Follow(q, k - 2) /\ walk[k] = Follow(q, k - 1)
      BY <2>2, <1>2
    <3>2. CASE k - 2 < Len(q)
      <4>1. Follow(q, k - 2) = q[k - 1] /\ k - 1 \in 1 .. Len(q)
        BY <3>2, <2>2, <1>1, <1>2 DEF Follow
      <4> QED
        BY <4>1, <3>1, <2>2, <1>2
    <3>3. CASE ~(k - 2 < Len(q))
      BY <3>3, <3>1, <2>2, <1>1, <1>2 DEF Follow
    <3> QED
      BY <3>2, <3>3
  <2> QED
    BY <2>1, <2>2
<1>4. walk = Walked(walk)
  BY <1>3
<1>5. ASSUME NEW g, g = Walked(g), g # walk PROVE FALSE
  <2> DEFINE bad == {k \in 1 .. N : g[k] # walk[k]}
  <2>1. bad # {} /\ bad \in SUBSET Nat
    <3>1. g = [k \in 1 .. N |-> g[k]]
      BY <1>5
    <3> QED
      BY <3>1, <1>5, <1>2
  <2>2. PICK k \in bad : \A m \in bad : k <= m
    BY <2>1, MinNat
  <2>3. /\ k \in 1 .. N
        /\ g[k] = IF k = 1 THEN h ELSE IF g[k - 1] = NULL THEN NULL ELSE field[g[k - 1]]
    BY <1>5
  <2>4. k # 1 => g[k - 1] = walk[k - 1]
    BY <2>2, <2>3, <1>2
  <2> QED
    BY <2>2, <2>3, <2>4, <1>3
<1> HIDE DEF Walked
<1>6. (CHOOSE g : g = Walked(g)) = walk
  BY <1>4, <1>5
<1>7. {j \in DOMAIN walk : walk[j] # NULL} = 1 .. Len(q)
  BY <1>1, <1>2 DEF Follow
<1>8. Cardinality({j \in DOMAIN walk : walk[j] # NULL}) = Len(q)
  <2>1. Len(q) \in Nat
    BY <1>1
  <2>2. Cardinality(1 .. Len(q)) = Len(q)
    BY <2>1, UpTo
  <2> QED
    BY <2>2, <1>7
<1>9. \A k \in 1 .. Len(q) : walk[k] = q[k]
  BY <1>1, <1>2 DEF Follow
<1> HIDE DEF walk
<1>10. Nodes(h, field) = [k \in 1 .. Len(q) |-> walk[k]]
  <2>1. Nodes(h, field) = LET node == CHOOSE g : g = Walked(g)
                          IN  [k \in 1 .. Cardinality({j \in DOMAIN node : node[j] # NULL})
                                  |-> node[k]]
    BY DEF Nodes, Walked, N
  <2> QED
    BY <2>1, <1>6, <1>8
<1>11. [k \in 1 .. Len(q) |-> walk[k]] = [k \in 1 .. Len(q) |-> q[k]]
  BY <1>9
<1>12. q = [k \in 1 .. Len(q) |-> q[k]]
  BY <1>1
<1> QED
  BY <1>10, <1>11, <1>12

-----------------------------------------------------------------------------
(* What the operations do to a list: a node is put at its end, or a node is *)
(* taken out of it.                                                         *)

Without(q, k) == [i \in 1 .. Len(q) - 1 |-> IF i < k THEN q[i] ELSE q[i + 1]]

\* The first node of a list, and what its length says.
LEMMA ThreadedFacts ==
    ASSUME NEW q, NEW h, NEW field, Threaded(q, h, field)
    PROVE  /\ q \in Seq(SAddr) /\ Len(q) \in Nat /\ DOMAIN q = 1 .. Len(q)
           /\ \A i \in 1 .. Len(q) : q[i] \in SAddr /\ q[i] # NULL
           /\ h = NULL <=> Len(q) = 0
           /\ h # NULL => 1 \in 1 .. Len(q) /\ h = q[1]
           /\ NULL \notin ToSet(q)
<1>1. /\ q \in Seq(SAddr) /\ Len(q) \in Nat /\ DOMAIN q = 1 .. Len(q)
      /\ \A i \in 1 .. Len(q) : q[i] \in SAddr /\ q[i] # NULL
  BY LenProperties, ElementOfSeq, CoursesAssumption DEF Threaded
<1>2. h = IF 0 < Len(q) THEN q[1] ELSE NULL
  BY DEF Threaded, Follow
<1>3. NULL \notin ToSet(q)
  BY <1>1 DEF ToSet
<1> QED
  BY <1>1, <1>2, <1>3

LEMMA ThreadedSame ==
    ASSUME NEW q, NEW h, NEW field, NEW other, Threaded(q, h, field),
           \A i \in 1 .. Len(q) : other[q[i]] = field[q[i]]
    PROVE  Threaded(q, h, other)
  BY DEF Threaded

LEMMA AppendFacts ==
    ASSUME NEW S, NEW q \in Seq(S), NEW a \in S
    PROVE  /\ Append(q, a) \in Seq(S) /\ Len(q) \in Nat
           /\ Len(Append(q, a)) = Len(q) + 1
           /\ DOMAIN q = 1 .. Len(q) /\ DOMAIN Append(q, a) = 1 .. Len(q) + 1
           /\ \A i \in 1 .. Len(q) + 1 : Append(q, a)[i] = IF i <= Len(q) THEN q[i] ELSE a
           /\ ToSet(Append(q, a)) = ToSet(q) \cup {a}
<1>1. /\ Append(q, a) \in Seq(S) /\ Len(q) \in Nat
      /\ Len(Append(q, a)) = Len(q) + 1
      /\ DOMAIN q = 1 .. Len(q) /\ DOMAIN Append(q, a) = 1 .. Len(q) + 1
      /\ \A i \in 1 .. Len(q) + 1 : Append(q, a)[i] = IF i <= Len(q) THEN q[i] ELSE a
  BY AppendProperties, LenProperties
<1> HIDE DEF Append
<1>2. ToSet(Append(q, a)) = ToSet(q) \cup {a}
  <2>1. ASSUME NEW x \in ToSet(Append(q, a)) PROVE x \in ToSet(q) \cup {a}
    BY <2>1, <1>1 DEF ToSet
  <2>2. a \in ToSet(Append(q, a))
    <3>1. Append(q, a)[Len(q) + 1] = a /\ Len(q) + 1 \in 1 .. Len(q) + 1
      BY <1>1
    <3> QED
      BY <3>1, <1>1 DEF ToSet
  <2>3. ASSUME NEW i \in 1 .. Len(q) PROVE q[i] \in ToSet(Append(q, a))
    <3>1. Append(q, a)[i] = q[i] /\ i \in 1 .. Len(q) + 1
      BY <1>1
    <3> QED
      BY <3>1, <1>1 DEF ToSet
  <2> QED
    BY <2>1, <2>2, <2>3, <1>1 DEF ToSet
<1> QED
  BY <1>1, <1>2

LEMMA ThreadedAppend ==
    ASSUME NEW q, NEW h, NEW field, NEW other, Threaded(q, h, field),
           NEW a \in SAddr, a \notin ToSet(q), other[a] = NULL,
           \A i \in 1 .. Len(q) : other[q[i]] = IF i = Len(q) THEN a ELSE field[q[i]]
    PROVE  Threaded(Append(q, a), IF h = NULL THEN a ELSE h, other)
<1> DEFINE r == Append(q, a)
<1>1. /\ q \in Seq(SAddr) /\ Len(q) \in Nat
      /\ h = NULL <=> Len(q) = 0
      /\ h # NULL => h = q[1]
  BY ThreadedFacts
<1>2. /\ r \in Seq(SAddr) /\ Len(r) = Len(q) + 1
      /\ \A i \in 1 .. Len(q) + 1 : r[i] = IF i <= Len(q) THEN q[i] ELSE a
  <2>1. q \in Seq(SAddr)
    BY <1>1
  <2> QED
    BY <2>1, AppendFacts
<1>3. /\ Different(q)
      /\ \A i \in 1 .. Len(q) : /\ field[q[i]] = Follow(q, i) /\ q[i] # a
                               /\ other[q[i]] = IF i = Len(q) THEN a ELSE field[q[i]]
  <2>1. DOMAIN q = 1 .. Len(q)
    BY ThreadedFacts
  <2>2. \A i \in 1 .. Len(q) : q[i] # a
    BY <2>1 DEF ToSet
  <2> QED
    BY <2>2 DEF Threaded
<1> HIDE DEF r
<1>4. \A i, j \in 1 .. Len(r) : r[i] = r[j] => i = j
  <2>1. ASSUME NEW i \in 1 .. Len(r), NEW j \in 1 .. Len(r), r[i] = r[j] PROVE i = j
    <3>1. CASE i <= Len(q) /\ j <= Len(q)
      BY <3>1, <2>1, <1>1, <1>2, <1>3 DEF Different
    <3>2. CASE ~(i <= Len(q) /\ j <= Len(q))
      BY <3>2, <2>1, <1>1, <1>2, <1>3
    <3> QED
      BY <3>1, <3>2
  <2> QED
    BY <2>1
<1>5. (IF h = NULL THEN a ELSE h) = Follow(r, 0)
  <2>1. r[1] = (IF 1 <= Len(q) THEN q[1] ELSE a) /\ 0 < Len(r)
    BY <1>1, <1>2
  <2> QED
    BY <2>1, <1>1 DEF Follow
<1>6. ASSUME NEW i \in 1 .. Len(r) PROVE other[r[i]] = Follow(r, i)
  <2>1. CASE i <= Len(q)
    <3>1. /\ r[i] = q[i] /\ i \in 1 .. Len(q) /\ r[i + 1] = (IF i + 1 <= Len(q) THEN q[i + 1] ELSE a)
          /\ i < Len(r)
      BY <2>1, <1>1, <1>2
    <3>2. other[r[i]] = IF i = Len(q) THEN a ELSE Follow(q, i)
      BY <3>1, <1>3
    <3> QED
      BY <3>1, <3>2, <1>1 DEF Follow
  <2>2. CASE i = Len(q) + 1
    <3>1. r[i] = a /\ ~(i < Len(r))
      BY <2>2, <1>1, <1>2
    <3> QED
      BY <3>1 DEF Follow
  <2> QED
    BY <2>1, <2>2, <1>1, <1>2
<1> QED
  BY <1>2, <1>4, <1>5, <1>6 DEF Threaded, r, Different

LEMMA WithoutFacts ==
    ASSUME NEW S, NEW q \in Seq(S), Different(q),
           NEW k \in 1 .. Len(q)
    PROVE  /\ Without(q, k) \in Seq(S) /\ Len(q) \in Nat
           /\ Len(Without(q, k)) = Len(q) - 1
           /\ DOMAIN q = 1 .. Len(q) /\ DOMAIN Without(q, k) = 1 .. Len(q) - 1
           /\ \A i \in 1 .. Len(q) - 1 :
                 Without(q, k)[i] = IF i < k THEN q[i] ELSE q[i + 1]
           /\ ToSet(Without(q, k)) = ToSet(q) \ {q[k]}
<1> DEFINE r == Without(q, k)
<1>1. Len(q) \in Nat /\ DOMAIN q = 1 .. Len(q) /\ \A i \in 1 .. Len(q) : q[i] \in S
  BY LenProperties, ElementOfSeq
<1>2. Len(q) - 1 \in Nat /\ r \in [1 .. Len(q) - 1 -> S]
  BY <1>1 DEF Without
<1>3. r \in Seq(S) /\ Len(r) = Len(q) - 1 /\ DOMAIN r = 1 .. Len(q) - 1
  <2>1. r \in Seq(S)
    BY <1>2, IsASeq
  <2>2. DOMAIN r = 1 .. Len(r) /\ DOMAIN r = 1 .. Len(q) - 1 /\ Len(r) \in Nat
    BY <2>1, <1>2, LenProperties
  <2> QED
    BY <2>1, <2>2, <1>2
<1>4. \A i \in 1 .. Len(q) - 1 : r[i] = IF i < k THEN q[i] ELSE q[i + 1]
  BY DEF Without
<1> HIDE DEF r
<1>5. ToSet(r) = ToSet(q) \ {q[k]}
  <2>1. ASSUME NEW i \in 1 .. Len(q) - 1 PROVE r[i] \in ToSet(q) \ {q[k]}
    <3>1. CASE i < k
      BY <3>1, <1>1, <1>4 DEF ToSet, Different
    <3>2. CASE ~(i < k)
      <4>1. i + 1 \in 1 .. Len(q) /\ i + 1 # k /\ r[i] = q[i + 1]
        BY <3>2, <1>1, <1>4
      <4> QED
        BY <4>1, <1>1 DEF ToSet, Different
    <3> QED
      BY <3>1, <3>2
  <2>2. ASSUME NEW i \in 1 .. Len(q), i # k PROVE q[i] \in ToSet(r)
    <3>1. CASE i < k
      <4>1. i \in 1 .. Len(q) - 1 /\ r[i] = q[i]
        BY <3>1, <1>1, <1>4
      <4> QED
        BY <4>1, <1>3 DEF ToSet
    <3>2. CASE ~(i < k)
      <4>1. i - 1 \in 1 .. Len(q) - 1 /\ r[i - 1] = q[i]
        BY <2>2, <3>2, <1>1, <1>4
      <4> QED
        BY <4>1, <1>3 DEF ToSet
    <3> QED
      BY <3>1, <3>2
  <2>3. ToSet(r) \subseteq ToSet(q) \ {q[k]}
    BY <2>1, <1>3 DEF ToSet
  <2>4. ASSUME NEW x \in ToSet(q) \ {q[k]} PROVE x \in ToSet(r)
    <3>1. PICK i \in 1 .. Len(q) : x = q[i]
      BY <1>1 DEF ToSet
    <3> QED
      BY <3>1, <2>2
  <2> QED
    BY <2>3, <2>4
<1> QED
  BY <1>1, <1>3, <1>4, <1>5 DEF r

LEMMA ThreadedWithout ==
    ASSUME NEW q, NEW h, NEW field, NEW other, Threaded(q, h, field),
           NEW k \in 1 .. Len(q),
           \A i \in 1 .. Len(q) :
              i # k => other[q[i]] = field[IF i + 1 = k THEN q[k] ELSE q[i]]
    PROVE  Threaded(Without(q, k), IF k = 1 THEN field[q[k]] ELSE h, other)
<1> DEFINE r == Without(q, k)
<1>1. /\ q \in Seq(SAddr) /\ Len(q) \in Nat /\ h = Follow(q, 0)
      /\ Different(q)
      /\ \A i \in 1 .. Len(q) : field[q[i]] = Follow(q, i)
  BY LenProperties DEF Threaded
<1>2. /\ r \in Seq(SAddr) /\ Len(r) = Len(q) - 1
      /\ \A i \in 1 .. Len(q) - 1 : r[i] = IF i < k THEN q[i] ELSE q[i + 1]
  BY <1>1, WithoutFacts
<1> HIDE DEF r
<1>3. \A i, j \in 1 .. Len(r) : r[i] = r[j] => i = j
  <2>1. ASSUME NEW i \in 1 .. Len(r), NEW j \in 1 .. Len(r), r[i] = r[j] PROVE i = j
    <3>1. PICK x \in 1 .. Len(q) : r[i] = q[x] /\ x = IF i < k THEN i ELSE i + 1
      BY <1>1, <1>2
    <3>2. PICK y \in 1 .. Len(q) : r[j] = q[y] /\ y = IF j < k THEN j ELSE j + 1
      BY <1>1, <1>2
    <3>3. x = y
      BY <2>1, <3>1, <3>2, <1>1 DEF Different
    <3>4. i \in Int /\ j \in Int /\ k \in Int
      BY <1>1, <1>2
    <3> QED
      BY <3>1, <3>2, <3>3, <3>4
  <2> QED
    BY <2>1
<1>4. (IF k = 1 THEN field[q[k]] ELSE h) = Follow(r, 0)
  BY <1>1, <1>2 DEF Follow
<1>5. ASSUME NEW i \in 1 .. Len(r) PROVE other[r[i]] = Follow(r, i)
  <2>1. CASE i + 1 < k
    <3>1. /\ r[i] = q[i] /\ i \in 1 .. Len(q) /\ i # k /\ i + 1 # k
          /\ r[i + 1] = q[i + 1] /\ i < Len(r) /\ i < Len(q)
      BY <2>1, <1>1, <1>2
    <3>2. other[r[i]] = Follow(q, i)
      BY <3>1, <1>1
    <3> QED
      BY <3>1, <3>2 DEF Follow
  <2>2. CASE i + 1 = k
    <3>1. r[i] = q[i] /\ other[q[i]] = Follow(q, k) /\ i \in 1 .. Len(q) /\ i # k
      BY <2>2, <1>1, <1>2
    <3>2. Follow(q, k) = Follow(r, i)
      BY <2>2, <1>1, <1>2 DEF Follow
    <3> QED
      BY <3>1, <3>2
  <2>3. CASE i >= k
    <3>1. r[i] = q[i + 1] /\ i + 1 \in 1 .. Len(q) /\ i + 1 # k /\ i + 2 # k
      BY <2>3, <1>1, <1>2
    <3>2. other[r[i]] = Follow(q, i + 1)
      BY <3>1, <1>1
    <3>3. Follow(q, i + 1) = Follow(r, i)
      BY <2>3, <1>1, <1>2 DEF Follow
    <3> QED
      BY <3>2, <3>3
  <2> QED
    BY <2>1, <2>2, <2>3, <1>1, <1>2
<1> QED
  BY <1>2, <1>3, <1>4, <1>5 DEF Threaded, r, Different

-----------------------------------------------------------------------------
(* A list restricted to a set of nodes, and how the two change together.    *)

\* Where the node at i of a list was before the k-th was taken out.
Before(k, i) == IF i < k THEN i ELSE i + 1

LEMMA Shift ==
    ASSUME NEW n \in Nat, NEW k \in 1 .. n
    PROVE  \A i, j \in 1 .. n - 1 : /\ Before(k, i) \in 1 .. n /\ Before(k, j) \in 1 .. n
                                    /\ Before(k, i) < Before(k, j) <=> i < j
  BY DEF Before

SameOrder(p, q) ==
    \A i, j \in 1 .. Len(p), k, l \in 1 .. Len(q) :
        p[i] = q[k] /\ p[j] = q[l] => (i < j <=> k < l)

LEMMA OrderOf ==
    ASSUME NEW p, NEW q, SameOrder(p, q), NEW i \in 1 .. Len(p), NEW j \in 1 .. Len(p),
           NEW k \in 1 .. Len(q), NEW l \in 1 .. Len(q), p[i] = q[k], p[j] = q[l]
    PROVE  i < j <=> k < l
  BY DEF SameOrder

LEMMA RestrictsByPosition ==
    ASSUME NEW T, NEW p \in Seq(T), NEW q \in Seq(T), NEW S
    PROVE  Restricts(p, q, S) <=> ToSet(p) = ToSet(q) \cap S /\ SameOrder(p, q)
<1>1. DOMAIN p = 1 .. Len(p) /\ DOMAIN q = 1 .. Len(q)
  BY LenProperties
<1> QED
  BY <1>1 DEF Restricts, SameOrder

LEMMA Positions ==
    ASSUME NEW T, NEW q \in Seq(T)
    PROVE  /\ \A i \in 1 .. Len(q) : q[i] \in ToSet(q)
           /\ \A x \in ToSet(q) : \E i \in 1 .. Len(q) : q[i] = x
<1>1. DOMAIN q = 1 .. Len(q)
  BY LenProperties
<1> QED
  BY <1>1 DEF ToSet

LEMMA RestrictsAppendIn ==
    ASSUME NEW T, NEW p \in Seq(T), NEW q \in Seq(T), NEW S, NEW S2, Restricts(p, q, S),
           NEW a \in T, a \notin ToSet(q), a \in S2,
           \A x \in ToSet(q) : x \in S2 <=> x \in S
    PROVE  Restricts(Append(p, a), Append(q, a), S2)
<1> DEFINE pa == Append(p, a)
           qa == Append(q, a)
<1>1. ToSet(p) = ToSet(q) \cap S /\ SameOrder(p, q)
  BY RestrictsByPosition
<1>2. /\ pa \in Seq(T) /\ Len(p) \in Nat /\ Len(pa) = Len(p) + 1 /\ ToSet(pa) = ToSet(p) \cup {a}
      /\ \A i \in 1 .. Len(p) + 1 : pa[i] = IF i <= Len(p) THEN p[i] ELSE a
  BY AppendFacts
<1>3. /\ qa \in Seq(T) /\ Len(q) \in Nat /\ Len(qa) = Len(q) + 1 /\ ToSet(qa) = ToSet(q) \cup {a}
      /\ \A i \in 1 .. Len(q) + 1 : qa[i] = IF i <= Len(q) THEN q[i] ELSE a
  BY AppendFacts
<1>4. /\ \A i \in 1 .. Len(p) : p[i] # a
      /\ \A i \in 1 .. Len(q) : q[i] # a
  <2>1. \A i \in 1 .. Len(p) : p[i] \in ToSet(p)
    BY Positions
  <2>2. \A i \in 1 .. Len(q) : q[i] \in ToSet(q)
    BY Positions
  <2> QED
    BY <2>1, <2>2, <1>1
<1> HIDE DEF pa, qa
<1>5. ToSet(pa) = ToSet(qa) \cap S2
  BY <1>1, <1>2, <1>3
<1>6. SameOrder(pa, qa)
  <2> SUFFICES ASSUME NEW i \in 1 .. Len(pa), NEW j \in 1 .. Len(pa),
                      NEW k \in 1 .. Len(qa), NEW l \in 1 .. Len(qa),
                      pa[i] = qa[k], pa[j] = qa[l]
               PROVE  i < j <=> k < l
    BY DEF SameOrder
  <2>1. (i = Len(p) + 1 <=> k = Len(q) + 1) /\ (j = Len(p) + 1 <=> l = Len(q) + 1)
    <3>1. ASSUME NEW u \in 1 .. Len(pa), NEW v \in 1 .. Len(qa), pa[u] = qa[v]
          PROVE  u = Len(p) + 1 <=> v = Len(q) + 1
      <4>1. u <= Len(p) => pa[u] # a
        BY <1>2, <1>4
      <4>2. v <= Len(q) => qa[v] # a
        BY <1>3, <1>4
      <4> QED
        BY <4>1, <4>2, <3>1, <1>2, <1>3
    <3> QED
      BY <3>1
  <2>2. CASE i <= Len(p) /\ j <= Len(p)
    <3>1. k <= Len(q) /\ l <= Len(q)
      BY <2>1, <2>2, <1>2, <1>3
    <3>2. p[i] = q[k] /\ p[j] = q[l]
      BY <3>1, <2>2, <1>2, <1>3
    <3> QED
      BY <3>1, <3>2, <2>2, <1>1, <1>2, <1>3 DEF SameOrder
  <2>3. CASE ~(i <= Len(p) /\ j <= Len(p))
    BY <2>1, <2>3, <1>2, <1>3
  <2> QED
    BY <2>2, <2>3
<1> QED
  BY <1>2, <1>3, <1>5, <1>6, RestrictsByPosition DEF pa, qa

LEMMA RestrictsAppendOut ==
    ASSUME NEW T, NEW p \in Seq(T), NEW q \in Seq(T), NEW S, NEW S2, Restricts(p, q, S),
           NEW a \in T, a \notin ToSet(q), a \notin S2,
           \A x \in ToSet(q) : x \in S2 <=> x \in S
    PROVE  Restricts(p, Append(q, a), S2)
<1> DEFINE qa == Append(q, a)
<1>1. ToSet(p) = ToSet(q) \cap S /\ SameOrder(p, q)
  BY RestrictsByPosition
<1>3. /\ qa \in Seq(T) /\ Len(q) \in Nat /\ Len(qa) = Len(q) + 1 /\ ToSet(qa) = ToSet(q) \cup {a}
      /\ \A i \in 1 .. Len(q) + 1 : qa[i] = IF i <= Len(q) THEN q[i] ELSE a
  BY AppendFacts
<1>4. \A i \in 1 .. Len(p) : p[i] # a
  <2>1. \A i \in 1 .. Len(p) : p[i] \in ToSet(p)
    BY Positions
  <2> QED
    BY <2>1, <1>1
<1> HIDE DEF qa
<1>5. ToSet(p) = ToSet(qa) \cap S2
  BY <1>1, <1>3
<1>6. SameOrder(p, qa)
  <2> SUFFICES ASSUME NEW i \in 1 .. Len(p), NEW j \in 1 .. Len(p),
                      NEW k \in 1 .. Len(qa), NEW l \in 1 .. Len(qa),
                      p[i] = qa[k], p[j] = qa[l]
               PROVE  i < j <=> k < l
    BY DEF SameOrder
  <2>1. k <= Len(q) /\ l <= Len(q)
    BY <1>3, <1>4
  <2>2. p[i] = q[k] /\ p[j] = q[l]
    BY <2>1, <1>3
  <2> QED
    BY <2>1, <2>2, <1>1, <1>3 DEF SameOrder
<1> QED
  BY <1>3, <1>5, <1>6, RestrictsByPosition DEF qa

LEMMA OrderWithout ==
    ASSUME NEW p, NEW q, NEW pw, NEW qw, SameOrder(p, q), Len(p) \in Nat, Len(q) \in Nat,
           NEW m \in 1 .. Len(p), NEW k \in 1 .. Len(q),
           Len(pw) = Len(p) - 1, \A i \in 1 .. Len(p) - 1 : pw[i] = p[Before(m, i)],
           Len(qw) = Len(q) - 1, \A i \in 1 .. Len(q) - 1 : qw[i] = q[Before(k, i)]
    PROVE  SameOrder(pw, qw)
<1> SUFFICES ASSUME NEW i \in 1 .. Len(pw), NEW j \in 1 .. Len(pw),
                    NEW x \in 1 .. Len(qw), NEW y \in 1 .. Len(qw),
                    pw[i] = qw[x], pw[j] = qw[y]
             PROVE  i < j <=> x < y
  BY DEF SameOrder
<1>1. PICK u \in 1 .. Len(p), v \in 1 .. Len(p) : pw[i] = p[u] /\ pw[j] = p[v] /\ (u < v <=> i < j)
  BY Shift
<1>2. PICK c \in 1 .. Len(q), d \in 1 .. Len(q) : qw[x] = q[c] /\ qw[y] = q[d] /\ (c < d <=> x < y)
  BY Shift
<1>3. p[u] = q[c] /\ p[v] = q[d]
  BY <1>1, <1>2
<1>4. u < v <=> c < d
  BY <1>3 DEF SameOrder
<1> QED
  BY <1>1, <1>2, <1>4

LEMMA RestrictsWithoutIn ==
    ASSUME NEW T, NEW p \in Seq(T), NEW q \in Seq(T), NEW S, Restricts(p, q, S),
           Different(p),
           Different(q),
           NEW m \in 1 .. Len(p), NEW k \in 1 .. Len(q), p[m] = q[k]
    PROVE  Restricts(Without(p, m), Without(q, k), S)
<1> DEFINE pw == Without(p, m)
           qw == Without(q, k)
<1>1. ToSet(p) = ToSet(q) \cap S /\ SameOrder(p, q)
  BY RestrictsByPosition
<1>2. /\ pw \in Seq(T) /\ Len(p) \in Nat /\ Len(pw) = Len(p) - 1 /\ ToSet(pw) = ToSet(p) \ {p[m]}
      /\ \A i \in 1 .. Len(p) - 1 : pw[i] = p[Before(m, i)]
  <2>1. /\ pw \in Seq(T) /\ Len(p) \in Nat /\ Len(pw) = Len(p) - 1 
        /\ ToSet(pw) = ToSet(p) \ {p[m]}
        /\ \A i \in 1 .. Len(p) - 1 : pw[i] = IF i < m THEN p[i] ELSE p[i + 1]
    BY WithoutFacts
  <2> QED
    BY <2>1 DEF Before
<1>3. /\ qw \in Seq(T) /\ Len(q) \in Nat /\ Len(qw) = Len(q) - 1 /\ ToSet(qw) = ToSet(q) \ {q[k]}
      /\ \A i \in 1 .. Len(q) - 1 : qw[i] = q[Before(k, i)]
  <2>1. /\ qw \in Seq(T) /\ Len(q) \in Nat /\ Len(qw) = Len(q) - 1 
        /\ ToSet(qw) = ToSet(q) \ {q[k]}
        /\ \A i \in 1 .. Len(q) - 1 : qw[i] = IF i < k THEN q[i] ELSE q[i + 1]
    BY WithoutFacts
  <2> QED
    BY <2>1 DEF Before
<1> HIDE DEF pw, qw
<1>4. ToSet(pw) = ToSet(qw) \cap S
  BY <1>1, <1>2, <1>3
<1>5. SameOrder(pw, qw)
  BY <1>1, <1>2, <1>3, OrderWithout
<1> QED
  BY <1>2, <1>3, <1>4, <1>5, RestrictsByPosition DEF pw, qw

LEMMA RestrictsWithoutOut ==
    ASSUME NEW T, NEW p \in Seq(T), NEW q \in Seq(T), NEW S, Restricts(p, q, S),
           Different(q),
           NEW k \in 1 .. Len(q), q[k] \notin S
    PROVE  Restricts(p, Without(q, k), S)
<1> DEFINE qw == Without(q, k)
<1>1. ToSet(p) = ToSet(q) \cap S /\ SameOrder(p, q)
  BY RestrictsByPosition
<1>3. /\ qw \in Seq(T) /\ Len(q) \in Nat /\ Len(qw) = Len(q) - 1 /\ ToSet(qw) = ToSet(q) \ {q[k]}
      /\ \A i \in 1 .. Len(q) - 1 : qw[i] = q[Before(k, i)]
  <2>1. /\ qw \in Seq(T) /\ Len(q) \in Nat /\ Len(qw) = Len(q) - 1 
        /\ ToSet(qw) = ToSet(q) \ {q[k]}
        /\ \A i \in 1 .. Len(q) - 1 : qw[i] = IF i < k THEN q[i] ELSE q[i + 1]
    BY WithoutFacts
  <2> QED
    BY <2>1 DEF Before
<1> HIDE DEF qw
<1>4. ToSet(p) = ToSet(qw) \cap S
  BY <1>1, <1>3
<1>5. SameOrder(p, qw)
  <2> SUFFICES ASSUME NEW i \in 1 .. Len(p), NEW j \in 1 .. Len(p),
                      NEW x \in 1 .. Len(qw), NEW y \in 1 .. Len(qw),
                      p[i] = qw[x], p[j] = qw[y]
               PROVE  i < j <=> x < y
    BY DEF SameOrder
  <2>2. /\ Before(k, x) \in 1 .. Len(q) /\ Before(k, y) \in 1 .. Len(q)
        /\ Before(k, x) < Before(k, y) <=> x < y
    BY <1>3, Shift
  <2>3. p[i] = q[Before(k, x)] /\ p[j] = q[Before(k, y)]
    BY <1>3
  <2> QED
    BY <2>2, <2>3, <1>1 DEF SameOrder
<1> QED
  BY <1>3, <1>4, <1>5, RestrictsByPosition DEF qw

LEMMA RestrictsSame ==
    ASSUME NEW p, NEW q, NEW S, NEW S2, Restricts(p, q, S),
           \A x \in ToSet(q) : x \in S2 <=> x \in S
    PROVE  Restricts(p, q, S2)
  BY DEF Restricts

\* The first node of a list comes first among those with the same course.
LEMMA RestrictsFirst ==
    ASSUME NEW T, NEW p \in Seq(T), NEW q \in Seq(T), NEW S, Restricts(p, q, S),
           1 \in 1 .. Len(q), q[1] \in S
    PROVE  1 \in 1 .. Len(p) /\ p[1] = q[1]
<1>1. ToSet(p) = ToSet(q) \cap S /\ SameOrder(p, q)
  BY RestrictsByPosition
<1>2. /\ \A i \in 1 .. Len(p) : p[i] \in ToSet(p)
      /\ \A x \in ToSet(p) : \E i \in 1 .. Len(p) : p[i] = x
  BY Positions
<1>3. /\ \A i \in 1 .. Len(q) : q[i] \in ToSet(q)
      /\ \A x \in ToSet(q) : \E i \in 1 .. Len(q) : q[i] = x
  BY Positions
<1>4. Len(p) \in Nat /\ Len(q) \in Nat
  BY LenProperties
<1>5. PICK m \in 1 .. Len(p) : p[m] = q[1]
  BY <1>1, <1>2, <1>3
<1>6. 1 \in 1 .. Len(p)
  BY <1>4
<1>7. PICK k \in 1 .. Len(q) : q[k] = p[1]
  BY <1>1, <1>2, <1>3, <1>6
<1>8. ~(1 < m)
  <2>1. 1 < m <=> k < 1
    BY <1>1, <1>5, <1>6, <1>7 DEF SameOrder
  <2> QED
    BY <2>1, <1>4
<1> QED
  BY <1>4, <1>5, <1>6, <1>8

-----------------------------------------------------------------------------
(* The inductive invariant.  It holds also when TAs are not careful: who is *)
(* counted as being helped is every struct in use that is neither queued    *)
(* nor leaked, which are the structs the TAs hold only while TAs are careful.*)

NextOverall == [a \in Allocated |-> student[a].next_overall]
NextCourse == [a \in Allocated |-> student[a].next_course]
Of(c) == {a \in Allocated : student[a].course = c}
Taken(c) == Of(c) \ (Queued \cup leaked)

Types ==
    /\ status \in {"run", "crashed"}
    /\ student \in [SAddr -> Student \cup {Freed}]
    /\ stu_list \in Ptr /\ head \in [Courses -> Ptr] /\ tail \in [Courses -> Ptr]
    /\ ta_list \in Seq(Ta)
    /\ helped \in [Courses -> Nat] /\ bailed \in [Courses -> Nat]
    /\ arrived \in [Courses -> Nat]
    /\ \A c \in Courses : bailed[c] <= MaxBailed /\ arrived[c] <= MaxCount
    /\ leaked \in SUBSET SAddr

\* Every walk over a list follows different structs, all in use, and ends.
Chains ==
    /\ Threaded(Overall, stu_list, NextOverall) /\ Queued \subseteq Allocated
    /\ \A c \in Courses : Threaded(InCourse(c), head[c], NextCourse)

Accounts ==
    \A c \in Courses : arrived[c] = Len(InCourse(c)) + helped[c] + Cardinality(Taken(c))

\* A careful TA holds a struct of its own that is in use and not queued.
Owners ==
    CarefulTas =>
        /\ Served = Allocated \ (Queued \cup leaked)
        /\ \A i, j \in DOMAIN ta_list :
              /\ ta_list[i].current_student # NULL
              /\ ta_list[i].current_student = ta_list[j].current_student
              => i = j

\* The structs of refused students stay in use and are in no list.
Leaks == leaked \subseteq Allocated \ Queued

IInv == Types /\ Chains /\ CourseListsAgree /\ Accounts /\ Owners /\ Leaks

LEMMA Records ==
    /\ Freed \notin Student /\ NULL \notin SAddr
    /\ \A s \in Student : /\ s.name \in Names /\ s.course \in Courses
                          /\ s.next_overall \in Ptr /\ s.next_course \in Ptr
<1>1. ASSUME NEW s \in Student PROVE s # Freed
  <2>1. s.name \in Names /\ Freed.name = NULL
    BY DEF Student, Freed
  <2> QED
    BY <2>1, CoursesAssumption
<1>2. NULL \notin SAddr
  BY CoursesAssumption
<1>3. \A s \in Student : /\ s.name \in Names /\ s.course \in Courses
                         /\ s.next_overall \in Ptr /\ s.next_course \in Ptr
  BY DEF Student
<1> QED
  BY <1>1, <1>2, <1>3

LEMMA StructsInUse ==
    ASSUME Types
    PROVE  \A a : a \in Allocated <=> a \in SAddr /\ student[a] \in Student
  BY Records DEF Types, Allocated

\* What the lists are, spelled out.
LEMMA OverallFacts ==
    ASSUME Types, Chains
    PROVE  /\ Overall \in Seq(SAddr) /\ Len(Overall) \in Nat /\ Different(Overall)
           /\ DOMAIN Overall = 1 .. Len(Overall)
           /\ \A i \in 1 .. Len(Overall) :
                 /\ Overall[i] \in Queued /\ student[Overall[i]] \in Student
                 /\ student[Overall[i]].next_overall = Follow(Overall, i)
           /\ \A a \in Queued : \E i \in 1 .. Len(Overall) : Overall[i] = a
           /\ stu_list = NULL <=> Len(Overall) = 0
           /\ stu_list # NULL => 1 \in 1 .. Len(Overall) /\ stu_list = Overall[1]
<1>1. Threaded(Overall, stu_list, NextOverall) /\ Queued \subseteq Allocated
  BY DEF Chains
<1> HIDE DEF Overall
<1>2. /\ Overall \in Seq(SAddr) /\ Len(Overall) \in Nat /\ DOMAIN Overall = 1 .. Len(Overall)
      /\ stu_list = NULL <=> Len(Overall) = 0
      /\ stu_list # NULL => 1 \in 1 .. Len(Overall) /\ stu_list = Overall[1]
  BY <1>1, ThreadedFacts
<1>3. /\ \A i \in 1 .. Len(Overall) : Overall[i] \in Queued
      /\ \A a \in Queued : \E i \in 1 .. Len(Overall) : Overall[i] = a
  BY <1>2, Positions DEF Queued
<1>4. Different(Overall) /\ \A i \in 1 .. Len(Overall) : NextOverall[Overall[i]] = Follow(Overall, i)
  BY <1>1 DEF Threaded
<1>5. ASSUME NEW i \in 1 .. Len(Overall)
      PROVE  /\ student[Overall[i]] \in Student
             /\ student[Overall[i]].next_overall = Follow(Overall, i)
  <2>1. Overall[i] \in Allocated
    BY <1>1, <1>3
  <2> QED
    BY <2>1, <1>4, StructsInUse DEF NextOverall
<1> QED
  BY <1>2, <1>3, <1>4, <1>5

LEMMA CourseFacts ==
    ASSUME Types, Chains, CourseListsAgree, NEW c \in Courses
    PROVE  /\ InCourse(c) \in Seq(SAddr) /\ Len(InCourse(c)) \in Nat /\ Different(InCourse(c))
           /\ DOMAIN InCourse(c) = 1 .. Len(InCourse(c))
           /\ Restricts(InCourse(c), Overall, Of(c))
           /\ \A i \in 1 .. Len(InCourse(c)) :
                 /\ InCourse(c)[i] \in Queued /\ student[InCourse(c)[i]] \in Student
                 /\ student[InCourse(c)[i]].course = c
                 /\ student[InCourse(c)[i]].next_course = Follow(InCourse(c), i)
           /\ head[c] = NULL <=> Len(InCourse(c)) = 0
           /\ head[c] # NULL => 1 \in 1 .. Len(InCourse(c)) /\ head[c] = InCourse(c)[1]
           /\ tail[c] = IF head[c] = NULL THEN NULL ELSE InCourse(c)[Len(InCourse(c))]
<1> DEFINE p == InCourse(c)
<1>1. Threaded(p, head[c], NextCourse) /\ Queued \subseteq Allocated
  BY DEF Chains
<1>2. /\ Restricts(p, Overall, Of(c))
      /\ tail[c] = IF head[c] = NULL THEN NULL ELSE p[Len(p)]
  BY DEF CourseListsAgree, Of, Last
<1> HIDE DEF p
<1>3. /\ p \in Seq(SAddr) /\ Len(p) \in Nat /\ DOMAIN p = 1 .. Len(p)
      /\ head[c] = NULL <=> Len(p) = 0
      /\ head[c] # NULL => 1 \in 1 .. Len(p) /\ head[c] = p[1]
  BY <1>1, ThreadedFacts
<1>4. Different(p) /\ \A i \in 1 .. Len(p) : NextCourse[p[i]] = Follow(p, i)
  BY <1>1 DEF Threaded
<1>5. ASSUME NEW i \in 1 .. Len(p)
      PROVE  /\ p[i] \in Queued /\ student[p[i]] \in Student
             /\ student[p[i]].course = c /\ student[p[i]].next_course = Follow(p, i)
  <2>1. p[i] \in Queued /\ p[i] \in Of(c)
    <3>1. p[i] \in ToSet(p)
      BY <1>3, Positions
    <3> QED
      BY <3>1, <1>2 DEF Restricts, Queued
  <2>2. p[i] \in Allocated
    BY <2>1, <1>1
  <2> QED
    BY <2>1, <2>2, <1>4, StructsInUse DEF NextCourse, Of
<1> QED
  BY <1>2, <1>3, <1>4, <1>5 DEF p

\* Lists found in memory after a step are the lists the operations walk over.
LEMMA NewLists ==
    ASSUME NEW q, NEW r, Threaded(q, stu_list', NextOverall'),
           \A c \in Courses : Threaded(r[c], head'[c], NextCourse')
    PROVE  Overall' = q /\ \A c \in Courses : InCourse(c)' = r[c]
<1>1. Overall' = q
  <2>1. Nodes(stu_list', NextOverall') = q
    BY NodesOfThreaded
  <2> QED
    BY <2>1 DEF Overall, NextOverall
<1>2. ASSUME NEW c \in Courses PROVE InCourse(c)' = r[c]
  <2>1. Nodes(head'[c], NextCourse') = r[c]
    BY NodesOfThreaded
  <2> QED
    BY <2>1 DEF InCourse, NextCourse
<1> QED
  BY <1>1, <1>2

-----------------------------------------------------------------------------
(* The operations on the lists.  Each of the three lemmas says what a step  *)
(* that changes the structs in a certain way makes of both threadings.      *)

\* A struct that is not queued is freed, or nothing happens to the structs.
Release(s) ==
    /\ s = NULL \/ s \in Allocated \ Queued
    /\ student' = Released(s)

LEMMA ReleasedStructs ==
    ASSUME Types, NEW s, s = NULL \/ s \in Allocated \ Queued
    PROVE  /\ Released(s) \in [SAddr -> Student \cup {Freed}]
           /\ \A a \in SAddr : Released(s)[a] = IF a = s THEN Freed ELSE student[a]
  BY Records DEF Released, Types, Allocated

\* Whatever happens to structs that are not queued, the lists stay as they are.
LEMMA QueuedUntouched ==
    ASSUME Types, Chains, CourseListsAgree, UNCHANGED <<stu_list, head, tail>>,
           \A a \in Queued : student'[a] = student[a]
    PROVE  /\ Overall' = Overall /\ Queued' = Queued
           /\ \A c \in Courses : InCourse(c)' = InCourse(c)
           /\ Chains' /\ CourseListsAgree'
<1>1. \A a \in Queued : /\ a \in Allocated /\ a \in Allocated' /\ student'[a] = student[a]
                        /\ \A c : a \in Of(c)' <=> a \in Of(c)
  BY DEF Chains, Allocated, Of
<1>2. Threaded(Overall, stu_list', NextOverall')
  <2>1. \A i \in 1 .. Len(Overall) : NextOverall'[Overall[i]] = NextOverall[Overall[i]]
    BY <1>1, OverallFacts DEF NextOverall
  <2>2. Threaded(Overall, stu_list, NextOverall)
    BY DEF Chains
  <2> QED
    BY <2>1, <2>2, ThreadedSame
<1>3. ASSUME NEW c \in Courses PROVE Threaded(InCourse(c), head'[c], NextCourse')
  <2>1. \A i \in 1 .. Len(InCourse(c)) : NextCourse'[InCourse(c)[i]] = NextCourse[InCourse(c)[i]]
    BY <1>1, CourseFacts DEF NextCourse
  <2>2. Threaded(InCourse(c), head[c], NextCourse)
    BY DEF Chains
  <2> QED
    BY <2>1, <2>2, ThreadedSame
<1> DEFINE r == [c \in Courses |-> InCourse(c)]
<1>4. \A c \in Courses : Threaded(r[c], head'[c], NextCourse')
  BY <1>3
<1>5. \A c \in Courses : r[c] = InCourse(c)
  OBVIOUS
<1> HIDE DEF r
<1>6. Overall' = Overall /\ \A c \in Courses : InCourse(c)' = InCourse(c)
  BY <1>2, <1>4, <1>5, NewLists
<1>7. Queued' = Queued
  BY <1>6 DEF Queued
<1>8. Chains'
  BY <1>1, <1>2, <1>3, <1>6, <1>7 DEF Chains
<1>9. CourseListsAgree'
  <2> SUFFICES ASSUME NEW c \in Courses
               PROVE  /\ Restricts(InCourse(c), Overall, Of(c)')
                      /\ tail'[c] = IF head'[c] = NULL THEN NULL ELSE Last(InCourse(c))
    BY <1>6 DEF CourseListsAgree, Of
  <2>1. Restricts(InCourse(c), Overall, Of(c))
    BY CourseFacts
  <2>2. \A x \in ToSet(Overall) : x \in Of(c)' <=> x \in Of(c)
    BY <1>1 DEF Queued
  <2>3. Restricts(InCourse(c), Overall, Of(c)')
    BY <2>1, <2>2, RestrictsSame
  <2> QED
    BY <2>3 DEF CourseListsAgree
<1> QED
  BY <1>6, <1>7, <1>8, <1>9

LEMMA ReleaseKeepsLists ==
    ASSUME Types, Chains, CourseListsAgree, NEW s, Release(s), UNCHANGED <<stu_list, head, tail>>
    PROVE  /\ Overall' = Overall /\ Queued' = Queued
           /\ \A c \in Courses : InCourse(c)' = InCourse(c) /\ Of(c)' = Of(c) \ {s}
           /\ Allocated' = Allocated \ {s}
           /\ Chains' /\ CourseListsAgree'
<1>1. \A a \in SAddr : student'[a] = IF a = s THEN Freed ELSE student[a]
  BY ReleasedStructs DEF Release
<1>2. s \notin Queued
  <2>1. NULL \notin Queued
    BY ThreadedFacts DEF Chains, Queued
  <2> QED
    BY <2>1 DEF Release
<1>3. Allocated' = Allocated \ {s}
  BY <1>1 DEF Allocated
<1>4. /\ \A a \in Queued : student'[a] = student[a]
      /\ \A c : Of(c)' = Of(c) \ {s}
  <2>1. Queued \subseteq Allocated /\ Allocated \subseteq SAddr
    BY DEF Chains, Allocated
  <2>2. \A a \in Allocated' : student'[a] = student[a] /\ a \in Allocated /\ a # s
    BY <1>1, <1>3, <2>1
  <2>3. \A c : Of(c)' = Of(c) \ {s}
    BY <1>3, <2>2 DEF Of
  <2> QED
    BY <1>1, <1>2, <2>1, <2>3
<1>5. /\ Overall' = Overall /\ Queued' = Queued
      /\ \A c \in Courses : InCourse(c)' = InCourse(c)
      /\ Chains' /\ CourseListsAgree'
  BY <1>4, QueuedUntouched
<1> QED
  BY <1>3, <1>4, <1>5

\* A struct is allocated and linked nowhere: the student is refused.
Refuse(n, c, a) ==
    student' = [student EXCEPT ![a] = [name |-> n, course |-> c, next_overall |-> NULL,
                                       next_course |-> NULL]]

LEMMA RefuseKeepsLists ==
    ASSUME Types, Chains, CourseListsAgree, NEW n \in Names, NEW c \in Courses,
           NEW a \in SAddr, student[a] = Freed, Refuse(n, c, a),
           UNCHANGED <<stu_list, head, tail>>
    PROVE  /\ Overall' = Overall /\ Queued' = Queued
           /\ a \notin Queued /\ Allocated' = Allocated \cup {a}
           /\ \A d \in Courses :
                 /\ InCourse(d)' = InCourse(d)
                 /\ Of(d)' = IF d = c THEN Of(d) \cup {a} ELSE Of(d)
           /\ student' \in [SAddr -> Student \cup {Freed}]
           /\ Chains' /\ CourseListsAgree'
<1> DEFINE new == [name |-> n, course |-> c, next_overall |-> NULL, next_course |-> NULL]
<1>1. new \in Student /\ new.course = c
  BY DEF Student, Ptr
<1>2. new # Freed
  BY <1>1, Records
<1>3. student' = [student EXCEPT ![a] = new]
  BY DEF Refuse
<1> HIDE DEF new
<1>4. /\ student' \in [SAddr -> Student \cup {Freed}]
      /\ \A x \in SAddr : student'[x] = IF x = a THEN new ELSE student[x]
  BY <1>1, <1>3 DEF Types
<1>5. a \notin Allocated /\ a \notin Queued
  BY DEF Allocated, Chains
<1>6. Allocated' = Allocated \cup {a}
  BY <1>2, <1>4 DEF Allocated
<1>7. \A x \in Allocated : x # a /\ student'[x] = student[x]
  BY <1>4, <1>5 DEF Allocated
<1>8. ASSUME NEW d \in Courses PROVE Of(d)' = IF d = c THEN Of(d) \cup {a} ELSE Of(d)
  BY <1>1, <1>4, <1>6, <1>7 DEF Of
<1>9. \A x \in Queued : student'[x] = student[x]
  BY <1>7 DEF Chains
<1>10. /\ Overall' = Overall /\ Queued' = Queued
       /\ \A d \in Courses : InCourse(d)' = InCourse(d)
       /\ Chains' /\ CourseListsAgree'
  BY <1>9, QueuedUntouched
<1> QED
  BY <1>4, <1>5, <1>6, <1>8, <1>10

LEMMA SetNextOverall ==
    ASSUME NEW s \in [SAddr -> Student \cup {Freed}], NEW x \in SAddr, s[x] \in Student,
           NEW y \in Ptr
    PROVE  LET s2 == [s EXCEPT ![x].next_overall = y]
           IN  /\ s2 \in [SAddr -> Student \cup {Freed}]
               /\ \A z \in SAddr : z # x => s2[z] = s[z]
               /\ s2[x] \in Student /\ s2[x].next_overall = y /\ s2[x].name = s[x].name
               /\ s2[x].course = s[x].course /\ s2[x].next_course = s[x].next_course
  BY DEF Student

LEMMA SetNextCourse ==
    ASSUME NEW s \in [SAddr -> Student \cup {Freed}], NEW x \in SAddr, s[x] \in Student,
           NEW y \in Ptr
    PROVE  LET s2 == [s EXCEPT ![x].next_course = y]
           IN  /\ s2 \in [SAddr -> Student \cup {Freed}]
               /\ \A z \in SAddr : z # x => s2[z] = s[z]
               /\ s2[x] \in Student /\ s2[x].next_course = y /\ s2[x].name = s[x].name
               /\ s2[x].course = s[x].course /\ s2[x].next_overall = s[x].next_overall
  BY DEF Student

\* What add_student does when the name is new and the course exists.
Enqueue(n, c, a) ==
    LET new == [name |-> n, course |-> c, next_overall |-> NULL, next_course |-> NULL]
        allocated == [student EXCEPT ![a] = new]
    IN  /\ LinkCourse(IF Overall = << >> THEN allocated
                      ELSE [allocated EXCEPT ![Last(Overall)].next_overall = a],
                      a, c)
        /\ stu_list' = IF stu_list = NULL THEN a ELSE stu_list

LEMMA EnqueuedStructs ==
    ASSUME Types, Chains, CourseListsAgree, NEW n \in Names, NEW c \in Courses,
           NEW a \in SAddr, student[a] = Freed, Enqueue(n, c, a)
    PROVE  /\ student' \in [SAddr -> Student \cup {Freed}]
           /\ student'[a] = [name |-> n, course |-> c, next_overall |-> NULL,
                             next_course |-> NULL]
           /\ \A x \in SAddr \ {a} : student[x] = Freed => student'[x] = Freed
           /\ \A x \in Allocated :
                 /\ student'[x] \in Student /\ student'[x].course = student[x].course
                 /\ student'[x].next_overall =
                       IF Len(Overall) # 0 /\ x = Overall[Len(Overall)] THEN a
                       ELSE student[x].next_overall
                 /\ student'[x].next_course =
                       IF head[c] # NULL /\ x = tail[c] THEN a ELSE student[x].next_course
<1> DEFINE new == [name |-> n, course |-> c, next_overall |-> NULL, next_course |-> NULL]
           s1 == [student EXCEPT ![a] = new]
           s2 == IF Overall = << >> THEN s1 ELSE [s1 EXCEPT ![Last(Overall)].next_overall = a]
           s3 == IF head[c] = NULL THEN s2 ELSE [s2 EXCEPT ![tail[c]].next_course = a]
<1>1. student' = s3
  BY DEF Enqueue, LinkCourse
<1>2. new \in Student /\ NULL \in Ptr /\ a \in Ptr
  BY DEF Student, Ptr
<1> HIDE DEF new
<1>3. /\ s1 \in [SAddr -> Student \cup {Freed}]
      /\ s1[a] = new /\ \A x \in SAddr : x # a => s1[x] = student[x]
  BY <1>2 DEF Types
<1>4. \A x \in Allocated : x \in SAddr /\ x # a /\ student[x] \in Student
  BY StructsInUse, Records
<1> HIDE DEF s1
<1>5. /\ s2 \in [SAddr -> Student \cup {Freed}] /\ s2[a] = new
      /\ \A x \in SAddr \ {a} : student[x] = Freed => s2[x] = Freed
      /\ \A x \in Allocated :
            /\ s2[x] \in Student /\ s2[x].course = student[x].course
            /\ s2[x].next_overall = IF Len(Overall) # 0 /\ x = Overall[Len(Overall)] THEN a
                                    ELSE student[x].next_overall
            /\ s2[x].next_course = student[x].next_course
  <2>1. Overall \in Seq(SAddr) /\ Len(Overall) \in Nat /\ (Overall = << >> <=> Len(Overall) = 0)
    BY OverallFacts, EmptySeq
  <2>2. CASE Len(Overall) = 0
    BY <2>1, <2>2, <1>3, <1>4
  <2>3. CASE Len(Overall) # 0
    <3> DEFINE o == Overall[Len(Overall)]
    <3>1. o \in Allocated
      <4>1. Len(Overall) \in 1 .. Len(Overall)
        BY <2>1, <2>3
      <4> QED
        BY <4>1, OverallFacts DEF Chains
    <3>2. s2 = [s1 EXCEPT ![o].next_overall = a]
      BY <2>1, <2>3 DEF Last
    <3> HIDE DEF o, s2
    <3>3. o \in SAddr /\ o # a /\ s1[o] = student[o] /\ s1[o] \in Student
      BY <3>1, <1>3, <1>4
    <3>4. /\ s2 \in [SAddr -> Student \cup {Freed}]
          /\ \A z \in SAddr : z # o => s2[z] = s1[z]
          /\ s2[o] \in Student /\ s2[o].next_overall = a
          /\ s2[o].course = s1[o].course /\ s2[o].next_course = s1[o].next_course
      BY <3>2, <3>3, <1>2, <1>3, SetNextOverall
    <3>5. student[o] # Freed
      BY <3>3, Records
    <3> QED
      BY <3>3, <3>4, <3>5, <2>3, <1>3, <1>4 DEF o
  <2> QED
    BY <2>2, <2>3
<1> HIDE DEF s2
<1>6. CASE head[c] = NULL
  BY <1>1, <1>5, <1>6 DEF new
<1>7. CASE head[c] # NULL
  <2> DEFINE o == tail[c]
  <2>1. o \in Allocated
    <3>1. Len(InCourse(c)) \in 1 .. Len(InCourse(c)) /\ o = InCourse(c)[Len(InCourse(c))]
      BY <1>7, CourseFacts
    <3> QED
      BY <3>1, CourseFacts DEF Chains
  <2>2. student' = [s2 EXCEPT ![o].next_course = a]
    BY <1>1, <1>7
  <2> HIDE DEF o
  <2>3. o \in SAddr /\ o # a /\ s2[o] \in Student /\ student[o] # Freed
    BY <2>1, <1>4, <1>5, Records
  <2>4. /\ student' \in [SAddr -> Student \cup {Freed}]
        /\ \A z \in SAddr : z # o => student'[z] = s2[z]
        /\ student'[o] \in Student /\ student'[o].next_course = a
        /\ student'[o].course = s2[o].course /\ student'[o].next_overall = s2[o].next_overall
    BY <2>2, <2>3, <1>2, <1>5, SetNextCourse
  <2> QED
    BY <2>3, <2>4, <1>4, <1>5, <1>7 DEF o, new
<1> QED
  BY <1>6, <1>7

LEMMA EnqueueKeepsLists ==
    ASSUME Types, Chains, CourseListsAgree, NEW n \in Names, NEW c \in Courses,
           NEW a \in SAddr, student[a] = Freed, Enqueue(n, c, a)
    PROVE  /\ Overall' = Append(Overall, a) /\ Queued' = Queued \cup {a}
           /\ a \notin Queued /\ Allocated' = Allocated \cup {a}
           /\ \A d \in Courses :
                 /\ InCourse(d)' = IF d = c THEN Append(InCourse(d), a) ELSE InCourse(d)
                 /\ Of(d)' = IF d = c THEN Of(d) \cup {a} ELSE Of(d)
           /\ stu_list' \in Ptr /\ head' \in [Courses -> Ptr] /\ tail' \in [Courses -> Ptr]
           /\ Chains' /\ CourseListsAgree'
<1>1. /\ student'[a] = [name |-> n, course |-> c, next_overall |-> NULL, next_course |-> NULL]
      /\ \A x \in SAddr \ {a} : student[x] = Freed => student'[x] = Freed
      /\ \A x \in Allocated :
            /\ student'[x] \in Student /\ student'[x].course = student[x].course
            /\ student'[x].next_overall =
                  IF Len(Overall) # 0 /\ x = Overall[Len(Overall)] THEN a
                  ELSE student[x].next_overall
            /\ student'[x].next_course =
                  IF head[c] # NULL /\ x = tail[c] THEN a ELSE student[x].next_course
  BY EnqueuedStructs
<1>2. /\ stu_list' = IF stu_list = NULL THEN a ELSE stu_list
      /\ head' = IF head[c] = NULL THEN [head EXCEPT ![c] = a] ELSE head
      /\ tail' = [tail EXCEPT ![c] = a]
  BY DEF Enqueue, LinkCourse
<1>3. a \notin Allocated /\ Queued \subseteq Allocated /\ a \notin Queued
  BY StructsInUse, Records DEF Chains
<1>4. Allocated' = Allocated \cup {a}
  <2>1. student'[a] # Freed
    <3>1. student'[a].name = n /\ Freed.name = NULL
      BY <1>1 DEF Freed
    <3> QED
      BY <3>1, CoursesAssumption
  <2>2. \A x \in Allocated : x \in SAddr /\ student'[x] # Freed
    BY <1>1, StructsInUse, Records
  <2>3. \A x \in SAddr \ {a} : x \notin Allocated => student'[x] = Freed
    BY <1>1 DEF Allocated
  <2>4. Allocated' = {x \in SAddr : student'[x] # Freed}
    BY DEF Allocated
  <2> QED
    BY <2>1, <2>2, <2>3, <2>4
<1>5. ASSUME NEW d \in Courses PROVE Of(d)' = IF d = c THEN Of(d) \cup {a} ELSE Of(d)
  <2>1. student'[a].course = c
    BY <1>1
  <2>2. Of(d)' = {x \in Allocated \cup {a} : student'[x].course = d}
    BY <1>4 DEF Of
  <2> QED
    BY <2>1, <2>2, <1>1, <1>3 DEF Of
<1>6. Threaded(Append(Overall, a), stu_list', NextOverall')
  <2>1. Threaded(Overall, stu_list, NextOverall)
    BY DEF Chains
  <2>2. NextOverall'[a] = NULL
    BY <1>1, <1>4 DEF NextOverall
  <2>3. \A i \in 1 .. Len(Overall) :
           NextOverall'[Overall[i]] = IF i = Len(Overall) THEN a ELSE NextOverall[Overall[i]]
    <3> SUFFICES ASSUME NEW i \in 1 .. Len(Overall)
                 PROVE  NextOverall'[Overall[i]] =
                           IF i = Len(Overall) THEN a ELSE NextOverall[Overall[i]]
      OBVIOUS
    <3>1. Overall[i] \in Allocated /\ Len(Overall) \in Nat /\ Different(Overall)
      BY <1>3, OverallFacts
    <3>2. /\ Len(Overall) # 0
          /\ Overall[i] = Overall[Len(Overall)] <=> i = Len(Overall)
      BY <3>1 DEF Different
    <3>3. NextOverall'[Overall[i]] = student'[Overall[i]].next_overall
      BY <3>1, <1>4 DEF NextOverall
    <3>4. NextOverall[Overall[i]] = student[Overall[i]].next_overall
      BY <3>1 DEF NextOverall
    <3> QED
      BY <3>1, <3>2, <3>3, <3>4, <1>1
  <2>4. a \notin ToSet(Overall)
    BY <1>3 DEF Queued
  <2> QED
    BY <2>1, <2>2, <2>3, <2>4, <1>2, ThreadedAppend
<1> DEFINE r == [d \in Courses |-> IF d = c THEN Append(InCourse(d), a) ELSE InCourse(d)]
<1>7. ASSUME NEW d \in Courses PROVE Threaded(r[d], head'[d], NextCourse')
  <2>1. Threaded(InCourse(d), head[d], NextCourse)
    BY DEF Chains
  <2>2. head \in [Courses -> Ptr]
    BY DEF Types
  <2>3. CASE d # c
    <3>1. \A i \in 1 .. Len(InCourse(d)) :
             NextCourse'[InCourse(d)[i]] = NextCourse[InCourse(d)[i]]
      <4> SUFFICES ASSUME NEW i \in 1 .. Len(InCourse(d))
                   PROVE  NextCourse'[InCourse(d)[i]] = NextCourse[InCourse(d)[i]]
        OBVIOUS
      <4>1. InCourse(d)[i] \in Allocated /\ student[InCourse(d)[i]].course = d
        BY <1>3, CourseFacts
      <4>2. head[c] # NULL => InCourse(d)[i] # tail[c]
        <5>1. head[c] # NULL => /\ Len(InCourse(c)) \in 1 .. Len(InCourse(c))
                                /\ tail[c] = InCourse(c)[Len(InCourse(c))]
          BY CourseFacts
        <5>2. head[c] # NULL => student[tail[c]].course = c
          BY <5>1, CourseFacts
        <5> QED
          BY <5>2, <4>1, <2>3
      <4> QED
        BY <4>1, <4>2, <1>1, <1>4 DEF NextCourse
    <3>2. head'[d] = head[d] /\ r[d] = InCourse(d)
      BY <2>3, <1>2, <2>2
    <3> QED
      BY <2>1, <3>1, <3>2, ThreadedSame
  <2>4. CASE d = c
    <3>1. NextCourse'[a] = NULL
      BY <1>1, <1>4 DEF NextCourse
    <3>2. \A i \in 1 .. Len(InCourse(c)) :
             NextCourse'[InCourse(c)[i]] = IF i = Len(InCourse(c)) THEN a
                                           ELSE NextCourse[InCourse(c)[i]]
      <4> SUFFICES ASSUME NEW i \in 1 .. Len(InCourse(c))
                   PROVE  NextCourse'[InCourse(c)[i]] =
                             IF i = Len(InCourse(c)) THEN a ELSE NextCourse[InCourse(c)[i]]
        OBVIOUS
      <4>1. /\ InCourse(c)[i] \in Allocated /\ Len(InCourse(c)) \in Nat
            /\ Different(InCourse(c))
        BY <1>3, CourseFacts
      <4>2. head[c] # NULL /\ tail[c] = InCourse(c)[Len(InCourse(c))]
        BY CourseFacts
      <4>3. InCourse(c)[i] = InCourse(c)[Len(InCourse(c))] <=> i = Len(InCourse(c))
        BY <4>1 DEF Different
      <4>4. NextCourse'[InCourse(c)[i]] = student'[InCourse(c)[i]].next_course
        BY <4>1, <1>4 DEF NextCourse
      <4>5. NextCourse[InCourse(c)[i]] = student[InCourse(c)[i]].next_course
        BY <4>1 DEF NextCourse
      <4> QED
        BY <4>1, <4>2, <4>3, <4>4, <4>5, <1>1
    <3>3. a \notin ToSet(InCourse(c))
      BY <1>3, CourseFacts, Positions
    <3>4. head'[c] = IF head[c] = NULL THEN a ELSE head[c]
      BY <1>2, <2>2
    <3>5. Threaded(Append(InCourse(c), a), IF head[c] = NULL THEN a ELSE head[c], NextCourse')
      BY <2>1, <2>4, <3>1, <3>2, <3>3, ThreadedAppend
    <3> QED
      BY <2>4, <3>4, <3>5
  <2> QED
    BY <2>3, <2>4
<1>8. \A d \in Courses : r[d] = IF d = c THEN Append(InCourse(d), a) ELSE InCourse(d)
  OBVIOUS
<1> HIDE DEF r
<1>9. /\ Overall' = Append(Overall, a)
      /\ \A d \in Courses : InCourse(d)' = IF d = c THEN Append(InCourse(d), a) ELSE InCourse(d)
  BY <1>6, <1>7, <1>8, NewLists
<1>10. Queued' = Queued \cup {a}
  <2>1. ToSet(Append(Overall, a)) = ToSet(Overall) \cup {a}
    BY OverallFacts, AppendFacts
  <2> QED
    BY <1>9, <2>1 DEF Queued
<1>11. Chains'
  <2>1. Threaded(Overall', stu_list', NextOverall')
    BY <1>6, <1>9
  <2>2. \A d \in Courses : Threaded(InCourse(d)', head'[d], NextCourse')
    BY <1>7, <1>8, <1>9
  <2>3. Queued' \subseteq Allocated'
    BY <1>3, <1>4, <1>10
  <2> QED
    BY <2>1, <2>2, <2>3 DEF Chains
<1>12. ASSUME NEW d \in Courses
       PROVE  /\ Restricts(InCourse(d)', Overall', Of(d)')
              /\ tail'[d] = IF head'[d] = NULL THEN NULL ELSE Last(InCourse(d)')
  <2>1. /\ Restricts(InCourse(d), Overall, Of(d)) /\ InCourse(d) \in Seq(SAddr)
        /\ Overall \in Seq(SAddr) /\ a \notin ToSet(Overall)
    BY CourseFacts, OverallFacts, <1>3 DEF Queued
  <2>2. /\ head \in [Courses -> Ptr] /\ tail \in [Courses -> Ptr]
        /\ tail[d] = IF head[d] = NULL THEN NULL ELSE Last(InCourse(d))
    BY DEF CourseListsAgree, Types
  <2>3. \A x \in ToSet(Overall) : x \in Of(d)' <=> x \in Of(d)
    BY <1>5, <2>1
  <2>4. CASE d = c
    <3>1. a \in Of(d)'
      BY <1>5, <2>4
    <3>2. Restricts(Append(InCourse(d), a), Append(Overall, a), Of(d)')
      BY <2>1, <2>3, <3>1, RestrictsAppendIn
    <3>3. tail'[d] = a /\ head'[d] # NULL
      BY <1>2, <2>2, <2>4, Records
    <3>4. Last(Append(InCourse(d), a)) = a
      BY <2>1, AppendProperties DEF Last
    <3> QED
      BY <3>2, <3>3, <3>4, <1>9, <2>4
  <2>5. CASE d # c
    <3>1. a \notin Of(d)'
      BY <1>3, <1>5, <2>5 DEF Of
    <3>2. Restricts(InCourse(d), Append(Overall, a), Of(d)')
      BY <2>1, <2>3, <3>1, RestrictsAppendOut
    <3>3. tail'[d] = tail[d] /\ head'[d] = head[d]
      BY <1>2, <2>2, <2>5
    <3> QED
      BY <3>2, <3>3, <1>9, <2>2, <2>5
  <2> QED
    BY <2>4, <2>5
<1>13. CourseListsAgree'
  BY <1>12 DEF CourseListsAgree, Of
<1>14. stu_list' \in Ptr /\ head' \in [Courses -> Ptr] /\ tail' \in [Courses -> Ptr]
  BY <1>2 DEF Types, Ptr
<1> QED
  BY <1>3, <1>4, <1>5, <1>9, <1>10, <1>11, <1>13, <1>14

\* What both forms of next do to the structs and the lists when the student at k of
\* the overall queue, the first of course c, is taken by a TA who is done with s.
Dequeue(k, c, s) ==
    LET took == Overall[k]
    IN  /\ PopCourse(c, took)
        /\ stu_list' = IF k = 1 THEN student[took].next_overall ELSE stu_list
        /\ student' = IF k = 1 THEN Released(s)
                      ELSE [Released(s) EXCEPT ![Overall[k - 1]].next_overall =
                                                  student[took].next_overall]

LEMMA DequeuedStructs ==
    ASSUME Types, Chains, CourseListsAgree, NEW k \in 1 .. Len(Overall), NEW c,
           NEW s, s = NULL \/ s \in Allocated \ Queued, Dequeue(k, c, s)
    PROVE  /\ student' \in [SAddr -> Student \cup {Freed}]
           /\ Allocated' = Allocated \ {s} /\ s \notin Queued
           /\ \A x \in Allocated' :
                 /\ student'[x].course = student[x].course
                 /\ student'[x].next_course = student[x].next_course
                 /\ student'[x].next_overall =
                       IF k # 1 /\ x = Overall[k - 1] THEN student[Overall[k]].next_overall
                       ELSE student[x].next_overall
<1>1. /\ Released(s) \in [SAddr -> Student \cup {Freed}]
      /\ \A a \in SAddr : Released(s)[a] = IF a = s THEN Freed ELSE student[a]
  BY ReleasedStructs
<1>2. s \notin Queued /\ Queued \subseteq Allocated /\ Allocated \subseteq SAddr
  <2>1. NULL \notin Queued
    BY ThreadedFacts DEF Chains, Queued
  <2> QED
    BY <2>1 DEF Chains, Allocated
<1>3. student' = IF k = 1 THEN Released(s)
                 ELSE [Released(s) EXCEPT ![Overall[k - 1]].next_overall =
                                             student[Overall[k]].next_overall]
  BY DEF Dequeue
<1>4. CASE k = 1
  <2>1. student' = Released(s)
    BY <1>3, <1>4
  <2>2. Allocated' = Allocated \ {s}
    BY <2>1, <1>1 DEF Allocated
  <2>3. \A x \in Allocated' : student'[x] = student[x]
    BY <2>1, <2>2, <1>1, <1>2
  <2> QED
    BY <2>1, <2>2, <2>3, <1>1, <1>2, <1>4
<1>5. CASE k # 1
  <2> DEFINE p == Overall[k - 1]
             y == student[Overall[k]].next_overall
             free == Released(s)
  <2>1. p \in Queued /\ student[p] \in Student
    <3>1. k - 1 \in 1 .. Len(Overall)
      BY <1>5, OverallFacts
    <3> QED
      BY <3>1, OverallFacts
  <2>2. y \in Ptr
    BY OverallFacts, Records
  <2>3. student' = [free EXCEPT ![p].next_overall = y]
    BY <1>3, <1>5
  <2> HIDE DEF p, y, free
  <2>4. p \in SAddr /\ p # s /\ free[p] = student[p]
    BY <2>1, <1>1, <1>2 DEF free
  <2>5. free \in [SAddr -> Student \cup {Freed}]
    BY <1>1 DEF free
  <2>6. /\ student' \in [SAddr -> Student \cup {Freed}]
        /\ \A z \in SAddr : z # p => student'[z] = free[z]
        /\ student'[p] \in Student /\ student'[p].next_overall = y
        /\ student'[p].course = free[p].course
        /\ student'[p].next_course = free[p].next_course
    BY <2>1, <2>2, <2>3, <2>4, <2>5, SetNextOverall
  <2>7. Allocated' = Allocated \ {s}
    <3>1. \A z \in SAddr : student'[z] # Freed <=> z # s /\ student[z] # Freed
      <4>1. ASSUME NEW z \in SAddr PROVE student'[z] # Freed <=> z # s /\ student[z] # Freed
        <5>1. CASE z = p
          BY <5>1, <2>1, <2>4, <2>6, Records
        <5>2. CASE z # p
          BY <5>2, <2>6, <1>1 DEF free
        <5> QED
          BY <5>1, <5>2
      <4> QED
        BY <4>1
    <3> QED
      BY <3>1 DEF Allocated
  <2>8. \A x \in Allocated' : x \in SAddr /\ free[x] = student[x]
    BY <2>7, <1>1, <1>2 DEF free
  <2> QED
    BY <2>4, <2>6, <2>7, <2>8, <1>2, <1>5 DEF p, y
<1> QED
  BY <1>4, <1>5

LEMMA DequeueKeepsLists ==
    ASSUME Types, Chains, CourseListsAgree, NEW k \in 1 .. Len(Overall), NEW c \in Courses,
           head[c] = Overall[k],
           NEW s, s = NULL \/ s \in Allocated \ Queued, Dequeue(k, c, s)
    PROVE  /\ Overall' = Without(Overall, k) /\ Queued' = Queued \ {Overall[k]}
           /\ Allocated' = Allocated \ {s}
           /\ \A d \in Courses :
                 /\ InCourse(d)' = IF d = c THEN Without(InCourse(d), 1) ELSE InCourse(d)
                 /\ Of(d)' = Of(d) \ {s}
           /\ stu_list' \in Ptr /\ head' \in [Courses -> Ptr] /\ tail' \in [Courses -> Ptr]
           /\ Chains' /\ CourseListsAgree'
<1> DEFINE took == Overall[k]
<1>1. /\ Allocated' = Allocated \ {s} /\ s \notin Queued
      /\ \A x \in Allocated' :
            /\ student'[x].course = student[x].course
            /\ student'[x].next_course = student[x].next_course
            /\ student'[x].next_overall =
                  IF k # 1 /\ x = Overall[k - 1] THEN student[Overall[k]].next_overall
                  ELSE student[x].next_overall
  BY DequeuedStructs
<1>2. /\ PopCourse(c, took)
      /\ stu_list' = IF k = 1 THEN student[took].next_overall ELSE stu_list
  BY DEF Dequeue
<1>3. \A x \in Queued : x \in Allocated /\ x \in Allocated'
  BY <1>1 DEF Chains
<1>4. ASSUME NEW d PROVE Of(d)' = Of(d) \ {s}
  BY <1>1 DEF Of
<1>5. /\ 1 \in 1 .. Len(InCourse(c)) /\ head[c] = InCourse(c)[1] /\ head[c] # NULL
      /\ took \in Queued /\ took # NULL /\ student[took] \in Student
      /\ student[took].course = c
      /\ student[took].next_course = Follow(InCourse(c), 1)
      /\ student[took].next_overall = Follow(Overall, k)
  <2>1. took \in Queued /\ took # NULL /\ student[took] \in Student
        /\ student[took].next_overall = Follow(Overall, k)
    BY OverallFacts, ThreadedFacts DEF Chains
  <2>2. 1 \in 1 .. Len(InCourse(c)) /\ head[c] = InCourse(c)[1]
    BY <2>1, CourseFacts
  <2> QED
    BY <2>1, <2>2, CourseFacts
<1>6. Threaded(Without(Overall, k), stu_list', NextOverall')
  <2>1. Threaded(Overall, stu_list, NextOverall)
    BY DEF Chains
  <2>2. ASSUME NEW i \in 1 .. Len(Overall), i # k
        PROVE  NextOverall'[Overall[i]] =
                  NextOverall[IF i + 1 = k THEN Overall[k] ELSE Overall[i]]
    <3>1. Overall[i] \in Queued /\ Overall[k] \in Queued /\ Different(Overall)
          /\ Len(Overall) \in Nat
      BY OverallFacts
    <3>2. Overall[i] \in Allocated /\ Overall[i] \in Allocated' /\ Overall[k] \in Allocated
      BY <3>1, <1>3
    <3>3. k # 1 => k - 1 \in 1 .. Len(Overall)
      BY <3>1
    <3>4. k # 1 /\ Overall[i] = Overall[k - 1] <=> i + 1 = k
      BY <3>1, <3>3 DEF Different
    <3>5. NextOverall'[Overall[i]] = student'[Overall[i]].next_overall
      BY <3>2 DEF NextOverall
    <3>6. /\ NextOverall[Overall[i]] = student[Overall[i]].next_overall
          /\ NextOverall[Overall[k]] = student[Overall[k]].next_overall
      BY <3>2 DEF NextOverall
    <3> QED
      BY <3>2, <3>4, <3>5, <3>6, <1>1
  <2>3. stu_list' = IF k = 1 THEN NextOverall[Overall[k]] ELSE stu_list
    BY <1>2, <1>3, <1>5 DEF NextOverall
  <2>4. Threaded(Without(Overall, k), IF k = 1 THEN NextOverall[Overall[k]] ELSE stu_list,
                 NextOverall')
    BY <2>1, <2>2, ThreadedWithout
  <2> QED
    BY <2>3, <2>4
<1> DEFINE r == [d \in Courses |-> IF d = c THEN Without(InCourse(d), 1) ELSE InCourse(d)]
<1>7. /\ head' \in [Courses -> Ptr] /\ tail' \in [Courses -> Ptr]
      /\ head'[c] = Follow(InCourse(c), 1)
      /\ tail'[c] = IF Len(InCourse(c)) = 1 THEN NULL ELSE tail[c]
      /\ \A d \in Courses : d # c => head'[d] = head[d] /\ tail'[d] = tail[d]
  <2>1. head \in [Courses -> Ptr] /\ tail \in [Courses -> Ptr] /\ NULL \in Ptr
    BY DEF Types, Ptr
  <2>2. tail[c] = InCourse(c)[Len(InCourse(c))] /\ Len(InCourse(c)) \in 1 .. Len(InCourse(c))
        /\ Len(InCourse(c)) \in Nat
    BY <1>5, CourseFacts
  <2>3. head[c] = tail[c] <=> Len(InCourse(c)) = 1
    <3>1. Different(InCourse(c))
      BY CourseFacts
    <3> QED
      BY <3>1, <2>2, <1>5 DEF Different
  <2>4. CASE Len(InCourse(c)) = 1
    <3>1. head' = [head EXCEPT ![c] = NULL] /\ tail' = [tail EXCEPT ![c] = NULL]
      BY <1>2, <2>3, <2>4 DEF PopCourse
    <3>2. Follow(InCourse(c), 1) = NULL
      BY <2>4 DEF Follow
    <3> QED
      BY <3>1, <3>2, <2>1, <2>4
  <2>5. CASE Len(InCourse(c)) # 1
    <3>1. head' = [head EXCEPT ![c] = student[took].next_course] /\ tail' = tail
      BY <1>2, <2>3, <2>5 DEF PopCourse
    <3>2. student[took].next_course \in Ptr
      BY <1>5, Records
    <3> QED
      BY <3>1, <3>2, <1>5, <2>1, <2>5
  <2> QED
    BY <2>4, <2>5
<1>8. ASSUME NEW d \in Courses PROVE Threaded(r[d], head'[d], NextCourse')
  <2>1. Threaded(InCourse(d), head[d], NextCourse)
    BY DEF Chains
  <2>2. \A i \in 1 .. Len(InCourse(d)) :
           NextCourse'[InCourse(d)[i]] = NextCourse[InCourse(d)[i]]
    BY <1>1, <1>3, CourseFacts DEF NextCourse
  <2>3. CASE d # c
    BY <2>1, <2>2, <2>3, <1>7, ThreadedSame
  <2>4. CASE d = c
    <3>1. NextCourse[InCourse(c)[1]] = Follow(InCourse(c), 1)
      BY <1>5, <2>1, <2>4 DEF Threaded
    <3>2. ASSUME NEW i \in 1 .. Len(InCourse(c)), i # 1
          PROVE  NextCourse'[InCourse(c)[i]] =
                    NextCourse[IF i + 1 = 1 THEN InCourse(c)[1] ELSE InCourse(c)[i]]
      BY <2>2, <2>4
    <3>3. Threaded(Without(InCourse(c), 1),
                   IF 1 = 1 THEN NextCourse[InCourse(c)[1]] ELSE head[c], NextCourse')
      BY <2>1, <2>4, <3>2, <1>5, ThreadedWithout
    <3> QED
      BY <2>4, <3>1, <3>3, <1>7
  <2> QED
    BY <2>3, <2>4
<1>9. \A d \in Courses : r[d] = IF d = c THEN Without(InCourse(d), 1) ELSE InCourse(d)
  OBVIOUS
<1> HIDE DEF r
<1>10. /\ Overall' = Without(Overall, k)
       /\ \A d \in Courses : InCourse(d)' = IF d = c THEN Without(InCourse(d), 1) ELSE InCourse(d)
  BY <1>6, <1>8, <1>9, NewLists
<1>11. Queued' = Queued \ {took}
  <2>1. ToSet(Without(Overall, k)) = ToSet(Overall) \ {took}
    <3>1. Overall \in Seq(SAddr) /\ Different(Overall)
      BY OverallFacts
    <3>2. Overall \in Seq(SAddr)
      BY <3>1
    <3> QED
      BY <3>1, <3>2, WithoutFacts
  <2> QED
    BY <1>10, <2>1 DEF Queued
<1>12. Chains'
  <2>1. Threaded(Overall', stu_list', NextOverall')
    BY <1>6, <1>10
  <2>2. \A d \in Courses : Threaded(InCourse(d)', head'[d], NextCourse')
    BY <1>8, <1>9, <1>10
  <2>3. Queued' \subseteq Allocated'
    BY <1>3, <1>11
  <2> QED
    BY <2>1, <2>2, <2>3 DEF Chains
<1>13. ASSUME NEW d \in Courses
       PROVE  /\ Restricts(InCourse(d)', Overall', Of(d)')
              /\ tail'[d] = IF head'[d] = NULL THEN NULL ELSE Last(InCourse(d)')
  <2>1. /\ Restricts(InCourse(d), Overall, Of(d)) /\ InCourse(d) \in Seq(SAddr)
        /\ Overall \in Seq(SAddr) /\ Different(Overall) /\ Different(InCourse(d))
    BY CourseFacts, OverallFacts
  <2>2. /\ tail[d] = IF head[d] = NULL THEN NULL ELSE Last(InCourse(d))
    BY DEF CourseListsAgree
  <2>3. \A x \in ToSet(Overall') : x \in Of(d)' <=> x \in Of(d)
    BY <1>1, <1>4, <1>11 DEF Queued
  <2>4. CASE d = c
    <3>1. Restricts(Without(InCourse(c), 1), Without(Overall, k), Of(c))
      BY <2>1, <2>4, <1>5, RestrictsWithoutIn
    <3>2. Restricts(InCourse(c)', Overall', Of(c)')
      BY <3>1, <2>3, <2>4, <1>10, RestrictsSame
    <3>3. CASE Len(InCourse(c)) = 1
      BY <3>2, <3>3, <2>4, <1>7 DEF Follow
    <3>4. CASE Len(InCourse(c)) # 1
      <4>1. /\ Len(InCourse(c)) \in Nat /\ Len(InCourse(c)) > 1
            /\ Len(Without(InCourse(c), 1)) = Len(InCourse(c)) - 1
            /\ \A i \in 1 .. Len(InCourse(c)) - 1 :
                  Without(InCourse(c), 1)[i] = IF i < 1 THEN InCourse(c)[i] ELSE InCourse(c)[i + 1]
        <5> DEFINE p == InCourse(c)
        <5>1. p \in Seq(SAddr) /\ Different(p) /\ 1 \in 1 .. Len(p)
          BY <2>1, <2>4, <1>5
        <5> HIDE DEF p
        <5>2. p \in Seq(SAddr)
          BY <5>1
        <5>3. /\ Len(p) \in Nat /\ Len(Without(p, 1)) = Len(p) - 1
              /\ \A i \in 1 .. Len(p) - 1 : Without(p, 1)[i] = IF i < 1 THEN p[i] ELSE p[i + 1]
          BY <5>1, <5>2, WithoutFacts
        <5> QED
          BY <5>1, <5>3, <3>4 DEF p
      <4>2. Last(Without(InCourse(c), 1)) = Last(InCourse(c))
        BY <4>1 DEF Last
      <4>3. head[c] # NULL /\ head'[c] # NULL
        <5>1. InCourse(c)[2] # NULL
          BY <4>1, <2>1, <2>4, CourseFacts, ThreadedFacts DEF Chains
        <5> QED
          BY <5>1, <4>1, <1>5, <1>7 DEF Follow
      <4> QED
        BY <3>2, <3>4, <4>2, <4>3, <2>2, <2>4, <1>7, <1>10
    <3> QED
      BY <3>3, <3>4
  <2>5. CASE d # c
    <3>1. took \notin Of(d)
      BY <1>5, <2>5 DEF Of
    <3>2. Restricts(InCourse(d), Without(Overall, k), Of(d))
      BY <2>1, <3>1, RestrictsWithoutOut
    <3>3. Restricts(InCourse(d)', Overall', Of(d)')
      BY <3>2, <2>3, <2>5, <1>10, RestrictsSame
    <3> QED
      BY <3>3, <2>2, <2>5, <1>7, <1>10
  <2> QED
    BY <2>4, <2>5
<1>14. CourseListsAgree'
  BY <1>13 DEF CourseListsAgree, Of
<1>15. stu_list' \in Ptr
  BY <1>2, <1>5, Records DEF Types
<1> QED
  BY <1>1, <1>4, <1>7, <1>10, <1>11, <1>12, <1>14, <1>15

-----------------------------------------------------------------------------
(* The TA list: which structs the TAs hold, and what the operations on the  *)
(* list change of that.                                                     *)

\* Taking an element out of a sequence keeps the others, in order.
LEMMA RemoveAtProperties ==
    ASSUME NEW S, NEW s \in Seq(S), NEW i \in 1 .. Len(s)
    PROVE  /\ RemoveAt(s, i) \in Seq(S)
           /\ Len(RemoveAt(s, i)) = Len(s) - 1
           /\ \A j \in 1 .. Len(s) - 1 :
                 RemoveAt(s, i)[j] = IF j < i THEN s[j] ELSE s[j + 1]
<1> DEFINE front == SubSeq(s, 1, i - 1)
           back == SubSeq(s, i + 1, Len(s))
<1>1. /\ front \in Seq(S) /\ Len(front) = i - 1
      /\ \A j \in 1 .. i - 1 : front[j] = s[j]
  <2>1. CASE i = 1
    BY <2>1, SubSeqEmpty, EmptySeq, LenProperties
  <2>2. CASE i # 1
    BY <2>2, SubSeqProperties, LenProperties
  <2> QED
    BY <2>1, <2>2
<1>2. /\ back \in Seq(S) /\ Len(back) = Len(s) - i
      /\ \A j \in 1 .. Len(s) - i : back[j] = s[i + j]
  <2>1. CASE i = Len(s)
    BY <2>1, SubSeqEmpty, EmptySeq, LenProperties
  <2>2. CASE i # Len(s)
    BY <2>2, SubSeqProperties, LenProperties
  <2> QED
    BY <2>1, <2>2
<1>3. RemoveAt(s, i) = front \o back
  BY DEF RemoveAt
<1>4. Len(s) \in Nat
  BY LenProperties
<1> HIDE DEF front, back
<1>5. /\ front \o back \in Seq(S)
      /\ Len(front \o back) = Len(front) + Len(back)
      /\ \A j \in 1 .. Len(front) + Len(back) :
            (front \o back)[j] = IF j <= Len(front) THEN front[j] ELSE back[j - Len(front)]
  BY <1>1, <1>2, ConcatProperties
<1>6. ASSUME NEW j \in 1 .. Len(s) - 1
      PROVE  (front \o back)[j] = IF j < i THEN s[j] ELSE s[j + 1]
  <2>1. CASE j < i
    BY <2>1, <1>1, <1>2, <1>4, <1>5
  <2>2. CASE ~(j < i)
    <3>1. j - (i - 1) \in 1 .. Len(s) - i /\ i + (j - (i - 1)) = j + 1
      BY <2>2, <1>4
    <3>2. (front \o back)[j] = back[j - (i - 1)]
      BY SMTT(30), <2>2, <1>1, <1>2, <1>4, <1>5
    <3>3. back[j - (i - 1)] = s[i + (j - (i - 1))]
      BY <3>1, <1>2
    <3> QED
      BY <2>2, <3>1, <3>2, <3>3
  <2> QED
    BY <2>1, <2>2
<1> QED
  BY <1>1, <1>2, <1>3, <1>4, <1>5, <1>6

LEMMA ConsProperties ==
    ASSUME NEW S, NEW s \in Seq(S), NEW e \in S
    PROVE  /\ Cons(e, s) \in Seq(S)
           /\ Len(Cons(e, s)) = Len(s) + 1
           /\ Cons(e, s)[1] = e
           /\ \A j \in 1 .. Len(s) : Cons(e, s)[j + 1] = s[j]
  BY ConcatProperties, LenProperties DEF Cons

HeldBy(t) == {t[i].current_student : i \in DOMAIN t} \ {NULL}
Single(t) ==
    \A i, j \in DOMAIN t :
        t[i].current_student # NULL /\ t[i].current_student = t[j].current_student => i = j

LEMMA OwnersAre ==
    Owners <=> (CarefulTas => HeldBy(ta_list) = Allocated \ (Queued \cup leaked) /\ Single(ta_list))
  BY DEF Owners, Served, HeldBy, Single

LEMMA SequenceFacts ==
    ASSUME NEW t \in Seq(Ta)
    PROVE  /\ Len(t) \in Nat /\ DOMAIN t = 1 .. Len(t)
           /\ \A i \in 1 .. Len(t) : t[i] \in Ta /\ t[i].current_student \in Ptr
<1>1. Len(t) \in Nat /\ DOMAIN t = 1 .. Len(t) /\ \A i \in 1 .. Len(t) : t[i] \in Ta
  BY LenProperties, ElementOfSeq
<1>2. \A e \in Ta : e.current_student \in Ptr
  BY DEF Ta
<1> QED
  BY <1>1, <1>2

LEMMA HoldAdd ==
    ASSUME NEW t \in Seq(Ta), NEW n \in Names, NEW u,
           u = Cons([name |-> n, current_student |-> NULL], t)
    PROVE  u \in Seq(Ta) /\ HeldBy(u) = HeldBy(t) /\ (Single(t) => Single(u))
<1> DEFINE e == [name |-> n, current_student |-> NULL]
<1>1. e \in Ta /\ e.current_student = NULL
  BY DEF Ta, Ptr
<1> HIDE DEF e
<1>2. /\ u \in Seq(Ta) /\ Len(u) = Len(t) + 1 /\ u[1] = e
      /\ \A j \in 1 .. Len(t) : u[j + 1] = t[j]
  <2>1. u = Cons(e, t)
    BY DEF e
  <2>2. e \in Ta
    BY <1>1
  <2>3. /\ Cons(e, t) \in Seq(Ta) /\ Len(Cons(e, t)) = Len(t) + 1 /\ Cons(e, t)[1] = e
        /\ \A j \in 1 .. Len(t) : Cons(e, t)[j + 1] = t[j]
    BY <2>2, ConsProperties
  <2> QED
    BY <2>1, <2>3
<1>3. /\ Len(t) \in Nat /\ DOMAIN t = 1 .. Len(t) /\ DOMAIN u = 1 .. Len(t) + 1
  BY <1>2, SequenceFacts
<1>4. \A j \in 1 .. Len(t) + 1 : j # 1 => j - 1 \in 1 .. Len(t) /\ u[j] = t[j - 1]
  <2> SUFFICES ASSUME NEW j \in 1 .. Len(t) + 1, j # 1
               PROVE  j - 1 \in 1 .. Len(t) /\ u[j] = t[j - 1]
    OBVIOUS
  <2>1. j - 1 \in 1 .. Len(t) /\ (j - 1) + 1 = j
    BY <1>3
  <2> QED
    BY <2>1, <1>2
<1>5. HeldBy(u) = HeldBy(t)
  <2>1. ASSUME NEW x \in HeldBy(u) PROVE x \in HeldBy(t)
    <3>1. PICK j \in 1 .. Len(t) + 1 : x = u[j].current_student /\ x # NULL
      BY <1>3 DEF HeldBy
    <3>2. j # 1
      BY <3>1, <1>1, <1>2
    <3> QED
      BY <3>1, <3>2, <1>3, <1>4 DEF HeldBy
  <2>2. ASSUME NEW x \in HeldBy(t) PROVE x \in HeldBy(u)
    <3>1. PICK j \in 1 .. Len(t) : x = t[j].current_student /\ x # NULL
      BY <1>3 DEF HeldBy
    <3>2. j + 1 \in 1 .. Len(t) + 1 /\ u[j + 1] = t[j]
      BY <1>2, <1>3
    <3> QED
      BY <3>1, <3>2, <1>3 DEF HeldBy
  <2> QED
    BY <2>1, <2>2
<1>6. ASSUME Single(t) PROVE Single(u)
  <2> SUFFICES ASSUME NEW i \in 1 .. Len(t) + 1, NEW j \in 1 .. Len(t) + 1,
                      u[i].current_student # NULL,
                      u[i].current_student = u[j].current_student
               PROVE  i = j
    BY <1>3 DEF Single
  <2>1. i # 1 /\ j # 1
    BY <1>1, <1>2
  <2>2. /\ i - 1 \in DOMAIN t /\ u[i] = t[i - 1]
        /\ j - 1 \in DOMAIN t /\ u[j] = t[j - 1]
    BY <2>1, <1>3, <1>4
  <2>3. PICK k \in DOMAIN t, l \in DOMAIN t : k = i - 1 /\ l = j - 1
    BY <2>2
  <2>4. k = l
    BY <2>2, <2>3, <1>6 DEF Single
  <2> QED
    BY <2>3, <2>4, <1>3
<1> QED
  BY <1>2, <1>5, <1>6

LEMMA HoldRemove ==
    ASSUME NEW t \in Seq(Ta), NEW i \in 1 .. Len(t), NEW u, u = RemoveAt(t, i)
    PROVE  /\ u \in Seq(Ta)
           /\ Single(t) => HeldBy(u) = HeldBy(t) \ {t[i].current_student} /\ Single(u)
<1>1. /\ u \in Seq(Ta) /\ Len(u) = Len(t) - 1
      /\ \A j \in 1 .. Len(t) - 1 : u[j] = IF j < i THEN t[j] ELSE t[j + 1]
  BY RemoveAtProperties
<1>2. /\ Len(t) \in Nat /\ DOMAIN t = 1 .. Len(t) /\ DOMAIN u = 1 .. Len(t) - 1
  BY <1>1, SequenceFacts
<1>3. \A j \in 1 .. Len(t) - 1 : \E k \in 1 .. Len(t) :
         u[j] = t[k] /\ k # i /\ k = IF j < i THEN j ELSE j + 1
  BY <1>1, <1>2
<1>4. \A k \in 1 .. Len(t) : k # i => \E j \in 1 .. Len(t) - 1 : u[j] = t[k]
  <2> SUFFICES ASSUME NEW k \in 1 .. Len(t), k # i
               PROVE  \E j \in 1 .. Len(t) - 1 : u[j] = t[k]
    OBVIOUS
  <2>1. CASE k < i
    BY <2>1, <1>1, <1>2
  <2>2. CASE k > i
    <3>1. k - 1 \in 1 .. Len(t) - 1 /\ ~(k - 1 < i) /\ (k - 1) + 1 = k
      BY <2>2, <1>2
    <3>2. u[k - 1] = t[k]
      BY <3>1, <1>1
    <3> QED
      BY <3>1, <3>2
  <2> QED
    BY <2>1, <2>2, <1>2
<1>5. ASSUME Single(t) PROVE HeldBy(u) = HeldBy(t) \ {t[i].current_student}
  <2>1. ASSUME NEW x \in HeldBy(u) PROVE x \in HeldBy(t) \ {t[i].current_student}
    <3>1. PICK j \in 1 .. Len(t) - 1 : x = u[j].current_student /\ x # NULL
      BY <1>2 DEF HeldBy
    <3>2. PICK k \in 1 .. Len(t) : u[j] = t[k] /\ k # i
      BY <1>3
    <3> QED
      BY <3>1, <3>2, <1>2, <1>5 DEF HeldBy, Single
  <2>2. ASSUME NEW x \in HeldBy(t), x # t[i].current_student PROVE x \in HeldBy(u)
    <3>1. PICK k \in 1 .. Len(t) : x = t[k].current_student /\ x # NULL
      BY <1>2 DEF HeldBy
    <3>2. PICK j \in 1 .. Len(t) - 1 : u[j] = t[k]
      BY <2>2, <3>1, <1>4
    <3> QED
      BY <3>1, <3>2, <1>2 DEF HeldBy
  <2> QED
    BY <2>1, <2>2
<1>6. ASSUME Single(t) PROVE Single(u)
  <2> SUFFICES ASSUME NEW j \in 1 .. Len(t) - 1, NEW k \in 1 .. Len(t) - 1,
                      u[j].current_student # NULL,
                      u[j].current_student = u[k].current_student
               PROVE  j = k
    BY <1>2 DEF Single
  <2>1. PICK x \in 1 .. Len(t) : u[j] = t[x] /\ x = IF j < i THEN j ELSE j + 1
    BY <1>3
  <2>2. PICK y \in 1 .. Len(t) : u[k] = t[y] /\ y = IF k < i THEN k ELSE k + 1
    BY <1>3
  <2>3. x = y
    BY <2>1, <2>2, <1>2, <1>6 DEF Single
  <2> QED
    BY <2>1, <2>2, <2>3, <1>2
<1> QED
  BY <1>1, <1>5, <1>6

Gives(t, i, x) == [t EXCEPT ![i].current_student = x]

LEMMA HoldChange ==
    ASSUME NEW t \in Seq(Ta), NEW i \in 1 .. Len(t), NEW x \in Ptr, NEW u, u = Gives(t, i, x)
    PROVE  /\ u \in Seq(Ta)
           /\ Single(t) /\ (x = NULL \/ x \notin HeldBy(t)) =>
                 /\ HeldBy(u) = (HeldBy(t) \ {t[i].current_student}) \cup ({x} \ {NULL})
                 /\ Single(u)
<1>1. /\ Len(t) \in Nat /\ DOMAIN t = 1 .. Len(t)
      /\ \A j \in 1 .. Len(t) : t[j] \in Ta
  BY SequenceFacts
<1>2. /\ u \in Seq(Ta) /\ DOMAIN u = 1 .. Len(t)
      /\ u[i].current_student = x
      /\ \A j \in 1 .. Len(t) : j # i => u[j] = t[j]
  <2>1. [t[i] EXCEPT !.current_student = x] \in Ta
    BY <1>1 DEF Ta
  <2>2. u = [t EXCEPT ![i] = [t[i] EXCEPT !.current_student = x]]
    BY DEF Gives
  <2>3. u \in Seq(Ta)
    BY <2>1, <2>2, ExceptSeq
  <2>4. DOMAIN u = 1 .. Len(t) /\ \A j \in 1 .. Len(t) : j # i => u[j] = t[j]
    BY <1>1, <2>2
  <2>5. u[i].current_student = x
    BY <2>2, <1>1 DEF Ta
  <2> QED
    BY <2>3, <2>4, <2>5
<1>3. ASSUME Single(t), x = NULL \/ x \notin HeldBy(t)
      PROVE  /\ HeldBy(u) = (HeldBy(t) \ {t[i].current_student}) \cup ({x} \ {NULL})
             /\ Single(u)
  <2>1. ASSUME NEW y \in HeldBy(u)
        PROVE  y \in (HeldBy(t) \ {t[i].current_student}) \cup ({x} \ {NULL})
    <3>1. PICK j \in 1 .. Len(t) : y = u[j].current_student /\ y # NULL
      BY <1>2 DEF HeldBy
    <3> QED
      BY <3>1, <1>1, <1>2, <1>3 DEF HeldBy, Single
  <2>2. ASSUME NEW y \in HeldBy(t), y # t[i].current_student PROVE y \in HeldBy(u)
    <3>1. PICK j \in 1 .. Len(t) : y = t[j].current_student /\ y # NULL
      BY <1>1 DEF HeldBy
    <3> QED
      BY <3>1, <2>2, <1>2 DEF HeldBy
  <2>3. x # NULL => x \in HeldBy(u)
    BY <1>2 DEF HeldBy
  <2>4. Single(u)
    BY <1>1, <1>2, <1>3 DEF HeldBy, Single
  <2> QED
    BY <2>1, <2>2, <2>3, <2>4
<1> QED
  BY <1>2, <1>3

-----------------------------------------------------------------------------
(* Every operation keeps the invariant.                                     *)

LEMMA TakenFinite ==
    ASSUME NEW S \in SUBSET SAddr
    PROVE  IsFiniteSet(S) /\ Cardinality(S) \in Nat
  BY CoursesAssumption, FS_Subset, FS_CardinalityType

\* Releasing a student moves it from being helped to having been helped.
LEMMA HelpedCounts ==
    ASSUME Types, NEW s, s = NULL \/ s \in Allocated \ Queued, s \notin leaked
    PROVE  /\ Helped(s) \in [Courses -> Nat]
           /\ \A d \in Courses :
                 Helped(s)[d] + Cardinality(Taken(d) \ {s}) = helped[d] + Cardinality(Taken(d))
<1>1. helped \in [Courses -> Nat]
  BY DEF Types
<1>2. ASSUME NEW d \in Courses
      PROVE  /\ Cardinality(Taken(d)) \in Nat
             /\ s \in Taken(d) => Cardinality(Taken(d)) # 0
             /\ Cardinality(Taken(d) \ {s}) =
                   IF s \in Taken(d) THEN Cardinality(Taken(d)) - 1 ELSE Cardinality(Taken(d))
  <2> DEFINE S == Taken(d)
  <2>1. S \in SUBSET SAddr
    BY DEF Taken, Of, Allocated
  <2> HIDE DEF S
  <2>2. IsFiniteSet(S) /\ Cardinality(S) \in Nat
    BY <2>1, TakenFinite
  <2>3. Cardinality(S \ {s}) = IF s \in S THEN Cardinality(S) - 1 ELSE Cardinality(S)
    BY <2>2, FS_RemoveElement
  <2>4. s \in S => Cardinality(S) # 0
    BY <2>2, FS_EmptySet
  <2> QED
    BY <2>2, <2>3, <2>4 DEF S
<1>3. CASE s = NULL
  <2>1. \A d : s \notin Taken(d)
    BY <1>3, Records DEF Taken, Of, Allocated
  <2> QED
    BY <1>1, <1>2, <1>3, <2>1 DEF Helped
<1>4. CASE s # NULL
  <2> DEFINE c == student[s].course
  <2>1. s \in Allocated \ Queued /\ c \in Courses
    BY <1>4, StructsInUse, Records
  <2>2. \A d : s \in Taken(d) <=> d = c
    BY <2>1 DEF Taken, Of
  <2>3. Helped(s) = [helped EXCEPT ![c] = @ + 1]
    BY <1>4 DEF Helped
  <2> HIDE DEF c
  <2>4. \A d \in Courses : Helped(s)[d] = IF d = c THEN helped[d] + 1 ELSE helped[d]
    BY <2>1, <2>3, <1>1
  <2>5. ASSUME NEW d \in Courses
        PROVE  Helped(s)[d] + Cardinality(Taken(d) \ {s}) = helped[d] + Cardinality(Taken(d))
    <3>1. helped[d] \in Nat
      BY <1>1
    <3> QED
      BY <3>1, <2>2, <2>4, <1>2
  <2> QED
    BY <2>1, <2>3, <2>5, <1>1
<1> QED
  BY <1>3, <1>4

\* A TA who may be done with a struct holds one that is in use and not queued.
LEMMA CareOfHeld ==
    ASSUME IInv, NEW i \in DOMAIN ta_list, ~Misused(ta_list[i].current_student)
    PROVE  LET s == ta_list[i].current_student
           IN  /\ s = NULL \/ s \in Allocated \ Queued
               /\ s \notin leaked
               /\ i \in 1 .. Len(ta_list) /\ s \in Ptr
<1> DEFINE s == ta_list[i].current_student
<1>1. s \in Ptr /\ i \in 1 .. Len(ta_list)
  BY SequenceFacts DEF IInv, Types
<1>2. ASSUME s # NULL PROVE s \in Allocated \ Queued
  <2>1. s \in SAddr /\ student[s] # Freed
    BY <1>1, <1>2 DEF Ptr, Misused, Dangles
  <2>2. s \notin Queued
    <3>1. ~ \E k \in 1 .. Len(Overall) : Overall[k] = s
      BY <1>2 DEF Misused, Contains
    <3> QED
      BY <3>1, OverallFacts DEF IInv
  <2> QED
    BY <2>1, <2>2 DEF Allocated
<1>3. s \notin leaked
  <2>1. NULL \notin leaked
    BY Records DEF IInv, Types
  <2> QED
    BY <2>1 DEF Misused
<1> QED
  BY <1>1, <1>2, <1>3

LEMMA SameLists ==
    ASSUME IInv, UNCHANGED <<queues, leaked>>
    PROVE  /\ Overall' = Overall /\ Queued' = Queued /\ Allocated' = Allocated
           /\ \A c : InCourse(c)' = InCourse(c) /\ Of(c)' = Of(c) /\ Taken(c)' = Taken(c)
           /\ Chains' /\ CourseListsAgree' /\ Leaks'
<1>1. UNCHANGED <<student, stu_list, head, tail>>
  BY DEF queues
<1>2. /\ Overall' = Overall /\ Queued' = Queued /\ Allocated' = Allocated
      /\ \A c : InCourse(c)' = InCourse(c) /\ Of(c)' = Of(c) /\ Taken(c)' = Taken(c)
      /\ NextOverall' = NextOverall /\ NextCourse' = NextCourse
  BY <1>1 DEF Overall, InCourse, Queued, Allocated, NextOverall, NextCourse, Taken, Of
<1>3. Chains'
  BY <1>1, <1>2 DEF IInv, Chains
<1>4. CourseListsAgree' /\ Leaks'
  BY <1>1, <1>2 DEF IInv, CourseListsAgree, Leaks
<1> QED
  BY <1>2, <1>3, <1>4

LEMMA StutterKeeps ==
    ASSUME IInv, UNCHANGED vars
    PROVE  IInv' /\ Queued' = Queued
<1>1. UNCHANGED <<status, queues, ta_list, stats>>
  BY DEF vars
<1>2. /\ Queued' = Queued /\ Allocated' = Allocated
      /\ \A c : InCourse(c)' = InCourse(c) /\ Taken(c)' = Taken(c)
      /\ Chains' /\ CourseListsAgree' /\ Leaks'
  BY <1>1, SameLists DEF stats
<1>3. Types'
  BY <1>1 DEF IInv, Types, queues, stats
<1>4. Accounts' /\ Owners'
  BY <1>1, <1>2 DEF IInv, Accounts, Owners, Served, stats
<1> QED
  BY <1>2, <1>3, <1>4 DEF IInv

LEMMA AddStudentKeeps ==
    ASSUME IInv, NEW n \in Names, NEW c, add_student(n, c),
           c \in Courses => arrived[c] < MaxCount /\ Cardinality(leaked) < MaxLeaked
    PROVE  IInv' /\ Queued \subseteq Queued'
<1>1. CASE UNCHANGED vars
  BY <1>1, StutterKeeps
<1>2. ASSUME NEW a \in SAddr, student[a] = Freed, c \in Courses, Enqueue(n, c, a),
             arrived' = [arrived EXCEPT ![c] = @ + 1],
             UNCHANGED <<status, ta_list, helped, bailed, leaked>>
      PROVE  IInv' /\ Queued \subseteq Queued'
  <2>1. /\ Overall' = Append(Overall, a) /\ Queued' = Queued \cup {a}
        /\ a \notin Queued /\ Allocated' = Allocated \cup {a}
        /\ \A d \in Courses :
              /\ InCourse(d)' = IF d = c THEN Append(InCourse(d), a) ELSE InCourse(d)
              /\ Of(d)' = IF d = c THEN Of(d) \cup {a} ELSE Of(d)
        /\ stu_list' \in Ptr /\ head' \in [Courses -> Ptr] /\ tail' \in [Courses -> Ptr]
        /\ Chains' /\ CourseListsAgree'
    BY <1>2, EnqueueKeepsLists DEF IInv
  <2>2. student' \in [SAddr -> Student \cup {Freed}] /\ a \notin Allocated
    BY <1>2, EnqueuedStructs DEF IInv, Allocated
  <2>3. /\ arrived \in [Courses -> Nat] /\ arrived' \in [Courses -> Nat]
        /\ \A d \in Courses : arrived'[d] = IF d = c THEN arrived[d] + 1 ELSE arrived[d]
        /\ \A d \in Courses : arrived'[d] <= MaxCount
    BY <1>2, CoursesAssumption DEF IInv, Types
  <2>4. Types'
    BY <2>1, <2>2, <2>3, <1>2 DEF IInv, Types
  <2>5. ASSUME NEW d \in Courses
        PROVE  arrived'[d] = Len(InCourse(d)') + helped'[d] + Cardinality(Taken(d)')
    <3>1. Taken(d)' = Taken(d)
      BY <2>1, <2>2, <1>2 DEF Taken, Of
    <3>2. Len(InCourse(d)') = IF d = c THEN Len(InCourse(d)) + 1 ELSE Len(InCourse(d))
      BY <2>1, <1>2, CourseFacts, AppendProperties DEF IInv
    <3>3. arrived[d] = Len(InCourse(d)) + helped[d] + Cardinality(Taken(d))
      BY DEF IInv, Accounts
    <3>4. Len(InCourse(d)) \in Nat /\ helped[d] \in Nat /\ Cardinality(Taken(d)) \in Nat
      <4>1. Taken(d) \in SUBSET SAddr
        BY DEF Taken, Of, Allocated
      <4> QED
        BY <4>1, CourseFacts, TakenFinite DEF IInv, Types
    <3> QED
      BY <3>1, <3>2, <3>3, <3>4, <2>3, <1>2
  <2>6. Accounts'
    BY <2>5 DEF Accounts
  <2>7. Owners'
    <3>1. Allocated' \ (Queued' \cup leaked') = Allocated \ (Queued \cup leaked)
      BY <2>1, <2>2, <1>2
    <3> QED
      BY <3>1, <1>2 DEF IInv, Owners, Served
  <2>8. Leaks'
    BY <2>1, <2>2, <1>2 DEF IInv, Leaks
  <2> QED
    BY <2>1, <2>4, <2>6, <2>7, <2>8 DEF IInv
<1>3. ASSUME NEW a \in SAddr, student[a] = Freed, c \in Courses, Refuse(n, c, a),
             leaked' = leaked \cup {a},
             UNCHANGED <<stu_list, head, tail, arrived, status, ta_list, helped, bailed>>
      PROVE  IInv' /\ Queued \subseteq Queued'
  <2>1. /\ Overall' = Overall /\ Queued' = Queued
        /\ a \notin Queued /\ Allocated' = Allocated \cup {a}
        /\ \A d \in Courses :
              /\ InCourse(d)' = InCourse(d)
              /\ Of(d)' = IF d = c THEN Of(d) \cup {a} ELSE Of(d)
        /\ student' \in [SAddr -> Student \cup {Freed}]
        /\ Chains' /\ CourseListsAgree'
    BY <1>3, RefuseKeepsLists DEF IInv
  <2>2. a \notin Allocated
    BY <1>3 DEF Allocated
  <2>3. Types'
    BY <2>1, <1>3 DEF IInv, Types
  <2>4. \A d \in Courses : Taken(d)' = Taken(d)
    BY <2>1, <2>2, <1>3 DEF Taken, Of
  <2>5. Accounts'
    BY <2>1, <2>4, <1>3 DEF IInv, Accounts
  <2>6. Owners'
    <3>1. Allocated' \ (Queued' \cup leaked') = Allocated \ (Queued \cup leaked)
      BY <2>1, <2>2, <1>3
    <3> QED
      BY <3>1, <1>3 DEF IInv, Owners, Served
  <2>7. Leaks'
    BY <2>1, <2>2, <1>3 DEF IInv, Leaks
  <2> QED
    BY <2>1, <2>3, <2>5, <2>6, <2>7 DEF IInv
<1> QED
  BY <1>1, <1>2, <1>3 DEF add_student, Enqueue, Refuse

LEMMA CrashKeeps ==
    ASSUME IInv, Crash
    PROVE  IInv' /\ Queued' = Queued
<1>1. UNCHANGED <<queues, ta_list, stats>> /\ status' = "crashed"
  BY DEF Crash
<1>2. /\ Queued' = Queued /\ Allocated' = Allocated
      /\ \A c : InCourse(c)' = InCourse(c) /\ Taken(c)' = Taken(c)
      /\ Chains' /\ CourseListsAgree' /\ Leaks'
  BY <1>1, SameLists DEF stats
<1>3. Types'
  BY <1>1 DEF IInv, Types, queues, stats
<1>4. Accounts' /\ Owners'
  BY <1>1, <1>2 DEF IInv, Accounts, Owners, Served, stats
<1> QED
  BY <1>2, <1>3, <1>4 DEF IInv

LEMMA GiveUpKeeps ==
    ASSUME IInv, NEW n, give_up_waiting(n), \A c \in Courses : bailed[c] < MaxBailed
    PROVE  IInv' /\ Queued' = Queued
<1>1. CASE UNCHANGED vars
  BY <1>1, StutterKeeps
<1>2. CASE Crash
  BY <1>2, CrashKeeps
<1>3. ASSUME NEW i \in DOMAIN Overall,
             bailed' = [bailed EXCEPT ![student[Overall[i]].course] = @ + 1],
             UNCHANGED <<status, queues, ta_list, helped, arrived, leaked>>
      PROVE  IInv' /\ Queued' = Queued
  <2>1. /\ Queued' = Queued /\ Allocated' = Allocated
        /\ \A c : InCourse(c)' = InCourse(c) /\ Taken(c)' = Taken(c)
        /\ Chains' /\ CourseListsAgree' /\ Leaks'
    BY <1>3, SameLists
  <2> DEFINE c == student[Overall[i]].course
  <2>2. c \in Courses
    <3>1. i \in 1 .. Len(Overall)
      BY OverallFacts DEF IInv
    <3> QED
      BY <3>1, OverallFacts, Records DEF IInv
  <2>3. bailed' = [bailed EXCEPT ![c] = @ + 1]
    BY <1>3
  <2> HIDE DEF c
  <2>4. bailed' \in [Courses -> Nat] /\ \A d \in Courses : bailed'[d] <= MaxBailed
    BY <2>2, <2>3, CoursesAssumption DEF IInv, Types
  <2>5. Types'
    BY <1>3, <2>4 DEF IInv, Types, queues
  <2>6. Accounts' /\ Owners'
    BY <1>3, <2>1 DEF IInv, Accounts, Owners, Served
  <2> QED
    BY <2>1, <2>5, <2>6 DEF IInv
<1> QED
  BY <1>1, <1>2, <1>3 DEF give_up_waiting

LEMMA AddTaKeeps ==
    ASSUME IInv, NEW n \in Names, add_ta(n)
    PROVE  IInv' /\ Queued' = Queued
<1>1. UNCHANGED <<status, queues, stats>>
  BY DEF add_ta
<1>2. /\ Queued' = Queued /\ Allocated' = Allocated
      /\ \A c : InCourse(c)' = InCourse(c) /\ Taken(c)' = Taken(c)
      /\ Chains' /\ CourseListsAgree' /\ Leaks'
  BY <1>1, SameLists DEF stats
<1>3. /\ ta_list' \in Seq(Ta) /\ HeldBy(ta_list') = HeldBy(ta_list)
      /\ Single(ta_list) => Single(ta_list')
  BY HoldAdd DEF IInv, Types, add_ta
<1>4. Types'
  BY <1>1, <1>3 DEF IInv, Types, queues, stats
<1>5. Accounts'
  BY <1>1, <1>2 DEF IInv, Accounts, stats
<1>6. Owners'
  <2>1. CarefulTas => HeldBy(ta_list') = Allocated' \ (Queued' \cup leaked') /\ Single(ta_list')
    BY <1>1, <1>2, <1>3, OwnersAre DEF IInv, stats
  <2> QED
    BY <2>1 DEF Owners, Served, HeldBy, Single
<1> QED
  BY <1>2, <1>4, <1>5, <1>6 DEF IInv

\* When a struct is released the accounts still add up.
LEMMA ReleaseKeepsAccounts ==
    ASSUME IInv, NEW s, Release(s), s \notin leaked, helped' = Helped(s),
           UNCHANGED <<stu_list, head, tail, arrived, leaked>>
    PROVE  helped' \in [Courses -> Nat] /\ Accounts'
<1>1. /\ Queued' = Queued
      /\ \A c \in Courses : InCourse(c)' = InCourse(c) /\ Of(c)' = Of(c) \ {s}
  BY ReleaseKeepsLists DEF IInv, Release
<1>2. /\ Helped(s) \in [Courses -> Nat]
      /\ \A d \in Courses :
            Helped(s)[d] + Cardinality(Taken(d) \ {s}) = helped[d] + Cardinality(Taken(d))
  BY HelpedCounts DEF Release, IInv
<1>3. ASSUME NEW d \in Courses
      PROVE  arrived'[d] = Len(InCourse(d)') + helped'[d] + Cardinality(Taken(d)')
  <2>1. Taken(d)' = Taken(d) \ {s}
    BY <1>1 DEF Taken
  <2>2. arrived[d] = Len(InCourse(d)) + helped[d] + Cardinality(Taken(d))
    BY DEF IInv, Accounts
  <2>3. /\ Len(InCourse(d)) \in Nat /\ helped[d] \in Nat /\ Helped(s)[d] \in Nat
        /\ Cardinality(Taken(d)) \in Nat /\ Cardinality(Taken(d) \ {s}) \in Nat
    <3>1. Taken(d) \in SUBSET SAddr /\ Taken(d) \ {s} \in SUBSET SAddr
      BY DEF Taken, Of, Allocated
    <3> QED
      BY <3>1, <1>2, CourseFacts, TakenFinite DEF IInv, Types
  <2>4. Helped(s)[d] + Cardinality(Taken(d) \ {s}) = helped[d] + Cardinality(Taken(d))
    BY <1>2
  <2>5. /\ arrived'[d] = arrived[d] /\ helped'[d] = Helped(s)[d]
        /\ Len(InCourse(d)') = Len(InCourse(d))
        /\ Cardinality(Taken(d)') = Cardinality(Taken(d) \ {s})
    BY <1>1, <2>1
  <2> DEFINE before == Cardinality(Taken(d))
             after == Cardinality(Taken(d) \ {s})
             l == Len(InCourse(d))
             h == helped[d]
             h2 == Helped(s)[d]
             a == arrived[d]
  <2>6. /\ l \in Nat /\ h \in Nat /\ h2 \in Nat /\ before \in Nat /\ after \in Nat
        /\ a = l + h + before /\ h2 + after = h + before
    BY <2>2, <2>3, <2>4
  <2> HIDE DEF before, after, l, h, h2, a
  <2>7. a = l + h2 + after
    BY <2>6
  <2> QED
    BY <2>5, <2>7 DEF before, after, l, h, h2, a
<1> QED
  BY <1>2, <1>3 DEF Accounts

LEMMA RemoveTaKeeps ==
    ASSUME IInv, NEW n, remove_ta(n)
    PROVE  IInv' /\ Queued' = Queued
<1>1. CASE UNCHANGED vars
  BY <1>1, StutterKeeps
<1>2. CASE Crash
  BY <1>2, CrashKeeps
<1>3. ASSUME NEW i \in DOMAIN ta_list, ~Misused(ta_list[i].current_student),
             student' = Released(ta_list[i].current_student),
             helped' = Helped(ta_list[i].current_student),
             ta_list' = RemoveAt(ta_list, i),
             UNCHANGED <<status, stu_list, head, tail, bailed, arrived, leaked>>
      PROVE  IInv' /\ Queued' = Queued
  <2> DEFINE s == ta_list[i].current_student
  <2>1. Release(s) /\ s \notin leaked /\ i \in 1 .. Len(ta_list)
    BY <1>3, CareOfHeld DEF Release
  <2>2. helped' = Helped(s)
    BY <1>3
  <2>3. ta_list' \in Seq(Ta)
        /\ (Single(ta_list) => HeldBy(ta_list') = HeldBy(ta_list) \ {s} /\ Single(ta_list'))
    BY <1>3, <2>1, HoldRemove DEF IInv, Types
  <2> HIDE DEF s
  <2>4. /\ Queued' = Queued /\ Allocated' = Allocated \ {s}
        /\ Chains' /\ CourseListsAgree'
    BY <1>3, <2>1, ReleaseKeepsLists DEF IInv
  <2>5. helped' \in [Courses -> Nat] /\ Accounts'
    BY <1>3, <2>1, <2>2, ReleaseKeepsAccounts
  <2>6. student' \in [SAddr -> Student \cup {Freed}]
    BY <2>1, ReleasedStructs DEF IInv, Release
  <2>7. Types'
    BY <1>3, <2>3, <2>5, <2>6 DEF IInv, Types
  <2>8. Owners'
    <3>1. CarefulTas => HeldBy(ta_list') = Allocated' \ (Queued' \cup leaked') /\ Single(ta_list')
      BY <1>3, <2>3, <2>4, OwnersAre DEF IInv
    <3> QED
      BY <3>1 DEF Owners, Served, HeldBy, Single
  <2>9. Leaks'
    BY <1>3, <2>1, <2>4 DEF IInv, Leaks
  <2> QED
    BY <2>4, <2>5, <2>7, <2>8, <2>9 DEF IInv
<1> QED
  BY <1>1, <1>2, <1>3 DEF remove_ta

\* What FirstOfCourse says of one step.
FirstOut ==
    \A a \in (Queued \ Queued') \cap Served' :
        \A b \in Queued : (/\ student[b].course = student[a].course
                           /\ \E i, j \in DOMAIN Overall :
                                 i < j /\ Overall[i] = b /\ Overall[j] = a)
                          => b \notin Queued'

LEMMA NobodyOut ==
    ASSUME Queued \subseteq Queued'
    PROVE  FirstOut
  BY DEF FirstOut

\* The head of a course is the first of its students in the overall queue.
LEMMA HeadIsFirst ==
    ASSUME Types, Chains, CourseListsAgree, NEW k \in 1 .. Len(Overall), NEW c \in Courses,
           head[c] = Overall[k], NEW i \in 1 .. Len(Overall),
           student[Overall[i]].course = c
    PROVE  ~(i < k)
<1>1. /\ Overall \in Seq(SAddr) /\ Overall[i] \in Queued /\ Overall[i] \in Allocated
      /\ Overall[k] # NULL /\ Len(Overall) \in Nat
  BY OverallFacts, ThreadedFacts DEF Chains
<1>2. /\ InCourse(c) \in Seq(SAddr) /\ Len(InCourse(c)) \in Nat
      /\ Restricts(InCourse(c), Overall, Of(c))
      /\ 1 \in 1 .. Len(InCourse(c)) /\ InCourse(c)[1] = Overall[k]
  BY <1>1, CourseFacts
<1>3. /\ ToSet(InCourse(c)) = Queued \cap Of(c) /\ SameOrder(InCourse(c), Overall)
  BY <1>1, <1>2, RestrictsByPosition DEF Queued
<1>4. Overall[i] \in ToSet(InCourse(c))
  BY <1>1, <1>3 DEF Of
<1>5. PICK m \in 1 .. Len(InCourse(c)) : InCourse(c)[m] = Overall[i]
  BY <1>2, <1>4, Positions
<1>6. m < 1 <=> i < k
  BY <1>2, <1>3, <1>5 DEF SameOrder
<1> QED
  BY <1>2, <1>5, <1>6

LEMMA DequeueFirstOut ==
    ASSUME Types, Chains, CourseListsAgree, NEW k \in 1 .. Len(Overall), NEW c \in Courses,
           head[c] = Overall[k], student[Overall[k]].course = c,
           Queued' = Queued \ {Overall[k]}
    PROVE  FirstOut
<1> SUFFICES ASSUME NEW b \in Queued, student[b].course = student[Overall[k]].course,
                    NEW i \in DOMAIN Overall, NEW j \in DOMAIN Overall, i < j,
                    Overall[i] = b, Overall[j] = Overall[k]
             PROVE  FALSE
  BY DEF FirstOut
<1>1. /\ DOMAIN Overall = 1 .. Len(Overall) /\ Different(Overall) /\ Len(Overall) \in Nat
  BY OverallFacts
<1>2. j = k /\ i \in 1 .. Len(Overall)
  BY <1>1 DEF Different
<1> QED
  BY <1>2, HeadIsFirst

\* When a struct is released and a student taken the accounts still add up.
LEMMA DequeueKeepsAccounts ==
    ASSUME IInv, NEW k \in 1 .. Len(Overall), NEW c \in Courses, head[c] = Overall[k],
           NEW s, s = NULL \/ s \in Allocated \ Queued, s \notin leaked, Dequeue(k, c, s),
           helped' = Helped(s), arrived' = arrived, leaked' = leaked
    PROVE  helped' \in [Courses -> Nat] /\ Accounts'
<1> DEFINE took == Overall[k]
<1>1. /\ Queued' = Queued \ {took}
      /\ \A d \in Courses :
            /\ InCourse(d)' = IF d = c THEN Without(InCourse(d), 1) ELSE InCourse(d)
            /\ Of(d)' = Of(d) \ {s}
  BY DequeueKeepsLists DEF IInv
<1>2. /\ Helped(s) \in [Courses -> Nat]
      /\ \A d \in Courses :
            Helped(s)[d] + Cardinality(Taken(d) \ {s}) = helped[d] + Cardinality(Taken(d))
  BY HelpedCounts DEF IInv
<1>3. /\ took \in Queued /\ took \in Allocated /\ student[took].course = c /\ took # s
      /\ 1 \in 1 .. Len(InCourse(c)) /\ took \notin leaked
  <2>1. took \in Queued /\ took \in Allocated /\ took # NULL /\ took \notin leaked
    BY OverallFacts, Records DEF IInv, Chains, Allocated, Leaks
  <2>2. 1 \in 1 .. Len(InCourse(c)) /\ head[c] = InCourse(c)[1]
    BY <2>1, CourseFacts DEF IInv
  <2>3. student[took].course = c
    BY <2>2, CourseFacts DEF IInv
  <2> QED
    BY <2>1, <2>2, <2>3
<1> HIDE DEF took
<1>4. ASSUME NEW d \in Courses
      PROVE  arrived'[d] = Len(InCourse(d)') + helped'[d] + Cardinality(Taken(d)')
  <2> DEFINE S == Taken(d) \ {s}
             l == Len(InCourse(d))
             h == helped[d]
             h2 == Helped(s)[d]
             t == Cardinality(Taken(d))
             t2 == Cardinality(S)
             moved == IF d = c THEN 1 ELSE 0
  <2>1. /\ l \in Nat /\ h \in Nat /\ h2 \in Nat /\ t \in Nat /\ t2 \in Nat /\ IsFiniteSet(S)
        /\ arrived[d] = l + h + t /\ h2 + t2 = h + t
    <3>1. Taken(d) \in SUBSET SAddr /\ S \in SUBSET SAddr
      BY DEF Taken, Of, Allocated
    <3>2. arrived[d] = Len(InCourse(d)) + helped[d] + Cardinality(Taken(d))
      BY DEF IInv, Accounts
    <3> QED
      BY <3>1, <3>2, <1>2, CourseFacts, TakenFinite DEF IInv, Types
  <2>2. Taken(d)' = IF d = c THEN S \cup {took} ELSE S
    BY <1>1, <1>3 DEF Taken, Of
  <2>3. took \notin S
    BY <1>3 DEF Taken
  <2>4. Cardinality(Taken(d)') = t2 + moved
    <3>1. Cardinality(S \cup {took}) = t2 + 1
      BY <2>1, <2>3, FS_AddElement
    <3> HIDE DEF S
    <3> QED
      BY <3>1, <2>1, <2>2
  <2>5. Len(InCourse(d)') = l - moved
    <3>1. CASE d = c
      <4>1. InCourse(c) \in Seq(SAddr) /\ Different(InCourse(c))
        BY CourseFacts DEF IInv
      <4>2. InCourse(c) \in Seq(SAddr)
        BY <4>1
      <4>3. Len(Without(InCourse(c), 1)) = Len(InCourse(c)) - 1
        BY <4>1, <4>2, <1>3, WithoutFacts
      <4> QED
        BY <4>3, <3>1, <1>1
    <3>2. CASE d # c
      BY <3>2, <1>1, <2>1
    <3> QED
      BY <3>1, <3>2
  <2>6. moved \in {0, 1} /\ arrived'[d] = arrived[d] /\ helped'[d] = h2
    OBVIOUS
  <2> HIDE DEF l, h, h2, t, t2, moved, S
  <2>7. arrived[d] = (l - moved) + h2 + (t2 + moved)
    BY <2>1, <2>6
  <2> QED
    BY <2>4, <2>5, <2>6, <2>7
<1> QED
  BY <1>2, <1>4 DEF Accounts

\* A TA is done with s and takes the student at k, the first of course c.
LEMMA TakeKeeps ==
    ASSUME IInv, NEW i \in DOMAIN ta_list, NEW k \in 1 .. Len(Overall), NEW c \in Courses,
           head[c] = Overall[k],
           LET s == ta_list[i].current_student
           IN  /\ s = NULL \/ s \in Allocated \ Queued
               /\ s \notin leaked
               /\ Dequeue(k, c, s) /\ helped' = Helped(s),
           ta_list' = [ta_list EXCEPT ![i].current_student = Overall[k]],
           UNCHANGED <<status, bailed, arrived, leaked>>
    PROVE  IInv' /\ FirstOut
<1> DEFINE s == ta_list[i].current_student
           took == Overall[k]
<1>1. /\ s = NULL \/ s \in Allocated \ Queued
      /\ s \notin leaked
      /\ Dequeue(k, c, s) /\ helped' = Helped(s)
  OBVIOUS
<1>2. took \in Queued /\ took \in Allocated /\ took # NULL /\ took \in Ptr
      /\ student[took].course = c /\ i \in 1 .. Len(ta_list) /\ took \notin leaked
  <2>1. /\ took \in Queued /\ took \in Allocated /\ took # NULL /\ took \in Ptr
        /\ took \notin leaked
    BY OverallFacts, Records DEF IInv, Chains, Allocated, Ptr, Leaks
  <2>2. 1 \in 1 .. Len(InCourse(c)) /\ head[c] = InCourse(c)[1]
    BY <2>1, CourseFacts DEF IInv
  <2>3. student[took].course = c
    BY <2>2, CourseFacts DEF IInv
  <2> QED
    BY <2>1, <2>3, SequenceFacts DEF IInv, Types
<1>3. /\ ta_list' \in Seq(Ta)
      /\ Single(ta_list) /\ took \notin HeldBy(ta_list) =>
            /\ HeldBy(ta_list') = (HeldBy(ta_list) \ {s}) \cup ({took} \ {NULL})
            /\ Single(ta_list')
  <2>1. ta_list \in Seq(Ta)
    BY DEF IInv, Types
  <2>2. ta_list' = Gives(ta_list, i, took)
    BY DEF Gives
  <2>3. i \in 1 .. Len(ta_list) /\ took \in Ptr
    BY <1>2
  <2> HIDE DEF took
  <2> QED
    BY <2>1, <2>2, <2>3, HoldChange
<1> HIDE DEF s
<1>4. /\ Queued' = Queued \ {took} /\ Allocated' = Allocated \ {s}
      /\ stu_list' \in Ptr /\ head' \in [Courses -> Ptr] /\ tail' \in [Courses -> Ptr]
      /\ Chains' /\ CourseListsAgree'
  BY <1>1, DequeueKeepsLists DEF IInv
<1>5. helped' \in [Courses -> Nat] /\ Accounts'
  BY <1>1, DequeueKeepsAccounts
<1>6. student' \in [SAddr -> Student \cup {Freed}]
  BY <1>1, DequeuedStructs DEF IInv
<1>7. Types'
  BY <1>3, <1>4, <1>5, <1>6 DEF IInv, Types
<1>8. Owners'
  <2>1. took # s
    BY <1>1, <1>2
  <2> HIDE DEF took
  <2>2. CarefulTas => HeldBy(ta_list') = Allocated' \ (Queued' \cup leaked') /\ Single(ta_list')
    BY <2>1, <1>2, <1>3, <1>4, OwnersAre DEF IInv
  <2> QED
    BY <2>2 DEF Owners, Served, HeldBy, Single
<1>9. FirstOut
  BY <1>2, <1>4, DequeueFirstOut DEF IInv
<1>10. Leaks'
  BY <1>1, <1>2, <1>4 DEF IInv, Leaks
<1> QED
  BY <1>4, <1>5, <1>7, <1>8, <1>9, <1>10 DEF IInv

LEMMA NextOverallKeeps ==
    ASSUME IInv, NEW i \in DOMAIN ta_list, ~Misused(ta_list[i].current_student),
           take_next_overall(i), UNCHANGED <<status, bailed, arrived, leaked>>
    PROVE  IInv' /\ FirstOut
<1> DEFINE s == ta_list[i].current_student
<1>1. /\ s = NULL \/ s \in Allocated \ Queued
      /\ i \in 1 .. Len(ta_list) /\ s \notin leaked
  BY CareOfHeld
<1>2. /\ student' = Released(s) /\ helped' = Helped(s)
      /\ ta_list' = [ta_list EXCEPT ![i].current_student = stu_list]
      /\ \/ stu_list = NULL /\ UNCHANGED <<stu_list, head, tail>>
         \/ /\ stu_list # NULL
            /\ PopCourse(student[stu_list].course, stu_list)
            /\ stu_list' = student[stu_list].next_overall
  BY DEF take_next_overall
<1>3. CASE stu_list = NULL
  <2>1. UNCHANGED <<stu_list, head, tail>> /\ Release(s)
    BY <1>1, <1>2, <1>3 DEF Release
  <2>2. /\ ta_list' \in Seq(Ta)
        /\ Single(ta_list) =>
              HeldBy(ta_list') = HeldBy(ta_list) \ {s} /\ Single(ta_list')
    <3>1. ta_list \in Seq(Ta)
      BY DEF IInv, Types
    <3>2. NULL \in Ptr /\ ta_list' = Gives(ta_list, i, NULL)
      BY <1>2, <1>3 DEF Ptr, Gives
    <3> QED
      BY <3>1, <3>2, <1>1, HoldChange
  <2> HIDE DEF s
  <2>3. /\ Queued' = Queued /\ Allocated' = Allocated \ {s}
        /\ Chains' /\ CourseListsAgree'
    BY <2>1, ReleaseKeepsLists DEF IInv
  <2>4. helped' \in [Courses -> Nat] /\ Accounts'
    BY <1>1, <1>2, <2>1, ReleaseKeepsAccounts
  <2>5. student' \in [SAddr -> Student \cup {Freed}]
    BY <2>1, ReleasedStructs DEF IInv, Release
  <2>6. Types'
    BY <2>1, <2>2, <2>4, <2>5 DEF IInv, Types
  <2>7. Owners'
    <3>1. CarefulTas => HeldBy(ta_list') = Allocated' \ (Queued' \cup leaked') /\ Single(ta_list')
      BY <2>2, <2>3, OwnersAre DEF IInv
    <3> QED
      BY <3>1 DEF Owners, Served, HeldBy, Single
  <2>8. Leaks'
    BY <1>1, <2>3 DEF IInv, Leaks
  <2> QED
    BY <2>3, <2>4, <2>6, <2>7, <2>8, NobodyOut DEF IInv
<1>4. CASE stu_list # NULL
  <2> DEFINE c == student[stu_list].course
  <2>1. /\ 1 \in 1 .. Len(Overall) /\ stu_list = Overall[1] /\ Overall[1] \in Queued
        /\ student[Overall[1]] \in Student /\ Overall \in Seq(SAddr)
    BY <1>4, OverallFacts DEF IInv
  <2>2. c \in Courses /\ Overall[1] \in Of(c)
    BY <2>1, Records DEF IInv, Chains, Of
  <2>3. head[c] = Overall[1]
    <3>1. /\ InCourse(c) \in Seq(SAddr) /\ Restricts(InCourse(c), Overall, Of(c))
          /\ Len(InCourse(c)) \in Nat
          /\ head[c] = NULL <=> Len(InCourse(c)) = 0
          /\ head[c] # NULL => head[c] = InCourse(c)[1]
      BY <2>2, CourseFacts DEF IInv
    <3>2. 1 \in 1 .. Len(InCourse(c)) /\ InCourse(c)[1] = Overall[1]
      BY <2>1, <2>2, <3>1, RestrictsFirst
    <3> QED
      BY <3>1, <3>2
  <2>4. Dequeue(1, c, s)
    BY <1>2, <1>4, <2>1 DEF Dequeue
  <2>5. ta_list' = [ta_list EXCEPT ![i].current_student = Overall[1]]
    BY <1>2, <2>1
  <2> HIDE DEF c
  <2> QED
    BY <1>1, <1>2, <2>1, <2>2, <2>3, <2>4, <2>5, TakeKeeps
<1> QED
  BY <1>3, <1>4

LEMMA NextCourseKeeps ==
    ASSUME IInv, NEW i \in DOMAIN ta_list, ~Misused(ta_list[i].current_student),
           NEW c, take_next_course(i, c), UNCHANGED <<status, bailed, arrived, leaked>>,
           CarefulTas /\ c \in Courses => head[c] # NULL
    PROVE  IInv' /\ FirstOut
<1> DEFINE s == ta_list[i].current_student
<1>1. /\ s = NULL \/ s \in Allocated \ Queued
      /\ i \in 1 .. Len(ta_list) /\ s \notin leaked
  BY CareOfHeld
<1>2. helped' = Helped(s)
  BY DEF take_next_course
<1>3. ASSUME student' = Released(s), UNCHANGED <<stu_list, head, tail>>,
             \/ ta_list' = [ta_list EXCEPT ![i].current_student = NULL]
             \/ ta_list' = ta_list /\ ~CarefulTas
      PROVE  IInv' /\ FirstOut
  <2>1. Release(s)
    BY <1>1, <1>3 DEF Release
  <2>2. /\ ta_list' \in Seq(Ta)
        /\ CarefulTas /\ Single(ta_list) =>
              HeldBy(ta_list') = HeldBy(ta_list) \ {s} /\ Single(ta_list')
    <3>1. ta_list \in Seq(Ta)
      BY DEF IInv, Types
    <3>2. CASE ta_list' = [ta_list EXCEPT ![i].current_student = NULL]
      <4>1. NULL \in Ptr /\ ta_list' = Gives(ta_list, i, NULL)
        BY <3>2 DEF Ptr, Gives
      <4> QED
        BY <3>1, <4>1, <1>1, HoldChange
    <3>3. CASE ta_list' = ta_list /\ ~CarefulTas
      BY <3>1, <3>3
    <3> QED
      BY <1>3, <3>2, <3>3
  <2> HIDE DEF s
  <2>3. /\ Queued' = Queued /\ Allocated' = Allocated \ {s}
        /\ Chains' /\ CourseListsAgree'
    BY <1>3, <2>1, ReleaseKeepsLists DEF IInv
  <2>4. helped' \in [Courses -> Nat] /\ Accounts'
    BY <1>1, <1>2, <1>3, <2>1, ReleaseKeepsAccounts
  <2>5. student' \in [SAddr -> Student \cup {Freed}]
    BY <2>1, ReleasedStructs DEF IInv, Release
  <2>6. Types'
    BY <1>3, <2>2, <2>4, <2>5 DEF IInv, Types
  <2>7. Owners'
    <3>1. CarefulTas => HeldBy(ta_list') = Allocated' \ (Queued' \cup leaked') /\ Single(ta_list')
      BY <2>2, <2>3, OwnersAre DEF IInv
    <3> QED
      BY <3>1 DEF Owners, Served, HeldBy, Single
  <2>8. Leaks'
    BY <1>1, <2>3 DEF IInv, Leaks
  <2> QED
    BY <2>3, <2>4, <2>6, <2>7, <2>8, NobodyOut DEF IInv
<1>4. ASSUME c \in Courses, head[c] # NULL,
             ta_list' = [ta_list EXCEPT ![i].current_student = head[c]],
             PopCourse(c, head[c]),
             NEW p, p = NULL \/ p \in Queued,
             IF head[c] = stu_list
               THEN stu_list' = student[head[c]].next_overall /\ student' = Released(s)
               ELSE /\ p # NULL /\ student[p].next_overall = head[c]
                    /\ student' = [Released(s) EXCEPT ![p].next_overall =
                                                       student[head[c]].next_overall]
                    /\ UNCHANGED stu_list
      PROVE  IInv' /\ FirstOut
  <2>1. head[c] \in Queued
    BY <1>4, CourseFacts DEF IInv
  <2>2. PICK k \in 1 .. Len(Overall) : Overall[k] = head[c]
    BY <2>1, OverallFacts DEF IInv
  <2>3. Dequeue(k, c, s)
    <3>1. /\ Len(Overall) \in Nat /\ Different(Overall)
          /\ stu_list # NULL => 1 \in 1 .. Len(Overall) /\ stu_list = Overall[1]
          /\ stu_list = NULL <=> Len(Overall) = 0
      BY OverallFacts DEF IInv
    <3>2. head[c] = stu_list <=> k = 1
      BY <2>2, <3>1 DEF Different
    <3>3. CASE k = 1
      BY <1>4, <2>2, <3>2, <3>3 DEF Dequeue
    <3>4. CASE k # 1
      <4>1. p \in Queued /\ student[p].next_overall = Overall[k]
        BY <1>4, <2>2, <3>2, <3>4
      <4>2. PICK m \in 1 .. Len(Overall) : Overall[m] = p
        BY <4>1, OverallFacts DEF IInv
      <4>3. Follow(Overall, m) = Overall[k]
        BY <4>1, <4>2, OverallFacts DEF IInv
      <4>4. m < Len(Overall) /\ Overall[m + 1] = Overall[k]
        BY <4>3, <2>2, <1>4 DEF Follow
      <4>5. m = k - 1
        <5>1. m + 1 \in 1 .. Len(Overall)
          BY <4>4, <3>1
        <5> QED
          BY <5>1, <4>4, <3>1 DEF Different
      <4> QED
        BY <1>4, <2>2, <3>2, <3>4, <4>2, <4>5 DEF Dequeue
    <3> QED
      BY <3>3, <3>4
  <2> QED
    BY <1>1, <1>2, <1>4, <2>2, <2>3, TakeKeeps
<1>5. CASE c \notin Courses
  BY <1>3, <1>5 DEF take_next_course
<1>6. CASE c \in Courses /\ head[c] = NULL
  BY <1>3, <1>6 DEF take_next_course
<1>7. CASE c \in Courses /\ head[c] # NULL
  <2>1. CASE head[c] = stu_list
    <3>1. /\ ta_list' = [ta_list EXCEPT ![i].current_student = head[c]]
          /\ PopCourse(c, head[c])
          /\ stu_list' = student[head[c]].next_overall /\ student' = Released(s)
      BY <1>7, <2>1 DEF take_next_course
    <3> QED
      BY <3>1, <2>1, <1>4, <1>7
  <2>2. CASE head[c] # stu_list
    <3>1. /\ ta_list' = [ta_list EXCEPT ![i].current_student = head[c]]
          /\ PopCourse(c, head[c]) /\ UNCHANGED stu_list
      BY <1>7, <2>2 DEF take_next_course
    <3>2. PICK p \in Range(Overall) :
             /\ student[p].next_overall = head[c]
             /\ student' = [Released(s) EXCEPT ![p].next_overall =
                                                student[head[c]].next_overall]
      BY <1>7, <2>2 DEF take_next_course
    <3>3. p \in Queued /\ p # NULL
      BY OverallFacts, Records DEF Range, Queued, ToSet, IInv, Chains, Allocated
    <3> QED
      BY <3>1, <3>2, <3>3, <2>2, <1>4, <1>7
  <2> QED
    BY <2>1, <2>2
<1> QED
  BY <1>5, <1>6, <1>7

LEMMA NextKeeps ==
    ASSUME IInv, NEW n, NEW c, next(n, c), CarefulTas /\ c \in Courses => head[c] # NULL
    PROVE  IInv' /\ FirstOut
<1>1. CASE UNCHANGED vars
  BY <1>1, StutterKeeps, NobodyOut
<1>2. CASE Crash
  BY <1>2, CrashKeeps, NobodyOut
<1>3. ASSUME NEW i \in DOMAIN ta_list, ~Misused(ta_list[i].current_student),
             IF c = NULL THEN take_next_overall(i) ELSE take_next_course(i, c),
             UNCHANGED <<status, bailed, arrived, leaked>>
      PROVE  IInv' /\ FirstOut
  <2>1. CASE c = NULL
    BY <1>3, <2>1, NextOverallKeeps
  <2>2. CASE c # NULL
    BY <1>3, <2>2, NextCourseKeeps
  <2> QED
    BY <2>1, <2>2
<1> QED
  BY <1>1, <1>2, <1>3 DEF next

LEMMA StepKeeps == IInv /\ [process_args]_vars => IInv' /\ FirstOut
<1> SUFFICES ASSUME IInv, [process_args]_vars PROVE IInv' /\ FirstOut
  OBVIOUS
<1>1. ASSUME NEW n \in Names, NEW c \in Courses \cup {BadCourse},
             c \in Courses => arrived[c] < MaxCount /\ Cardinality(leaked) < MaxLeaked,
             add_student(n, c)
      PROVE  IInv' /\ FirstOut
  BY <1>1, AddStudentKeeps, NobodyOut
<1>2. ASSUME NEW n \in Names, \A c \in Courses : bailed[c] < MaxBailed, give_up_waiting(n)
      PROVE  IInv' /\ FirstOut
  BY <1>2, GiveUpKeeps, NobodyOut
<1>3. ASSUME NEW n \in Names, add_ta(n)
      PROVE  IInv' /\ FirstOut
  BY <1>3, AddTaKeeps, NobodyOut
<1>4. ASSUME NEW n \in Names, remove_ta(n)
      PROVE  IInv' /\ FirstOut
  BY <1>4, RemoveTaKeeps, NobodyOut
<1>5. ASSUME NEW n \in Names, next(n, NULL)
      PROVE  IInv' /\ FirstOut
  BY <1>5, NextKeeps, CoursesAssumption
<1>6. ASSUME NEW n \in Names, NEW c \in Courses \cup {BadCourse},
             CarefulTas /\ c \in Courses => head[c] # NULL, next(n, c)
      PROVE  IInv' /\ FirstOut
  BY <1>6, NextKeeps
<1>7. ASSUME NEW c, stats_by_course(c)
      PROVE  IInv' /\ FirstOut
  BY <1>7, CrashKeeps, NobodyOut DEF stats_by_course
<1>8. CASE UNCHANGED vars
  BY <1>8, StutterKeeps, NobodyOut
<1> QED
  BY <1>1, <1>2, <1>3, <1>4, <1>5, <1>6, <1>7, <1>8 DEF process_args

LEMMA InitHolds == Init => IInv
<1> SUFFICES ASSUME Init PROVE IInv
  OBVIOUS
<1>1. /\ status = "run" /\ student = [a \in SAddr |-> Freed] /\ stu_list = NULL
      /\ head = [c \in Courses |-> NULL] /\ tail = [c \in Courses |-> NULL]
      /\ ta_list = << >>
      /\ helped = [c \in Courses |-> 0] /\ bailed = [c \in Courses |-> 0]
      /\ arrived = [c \in Courses |-> 0] /\ leaked = {}
  BY DEF Init
<1>2. Allocated = {}
  BY <1>1 DEF Allocated
<1>3. << >> \in Seq(SAddr) /\ Len(<< >>) = 0
  BY EmptySeq
<1>4. ASSUME NEW field PROVE Threaded(<< >>, NULL, field)
  BY <1>3 DEF Threaded, Follow, Different
<1>5. Overall = << >>
  <2>1. Nodes(NULL, NextOverall) = << >>
    BY <1>4, NodesOfThreaded
  <2> QED
    BY <2>1, <1>1 DEF Overall, NextOverall
<1>6. ASSUME NEW c \in Courses PROVE InCourse(c) = << >> /\ head[c] = NULL
  <2>1. Nodes(NULL, NextCourse) = << >>
    BY <1>4, NodesOfThreaded
  <2>2. head[c] = NULL
    BY <1>1
  <2> QED
    BY <2>1, <2>2 DEF InCourse, NextCourse
<1>7. Queued = {}
  BY <1>5 DEF Queued, ToSet
<1>8. Types
  <2>1. << >> \in Seq(Ta)
    BY EmptySeq
  <2>2. 0 <= MaxCount /\ 0 <= MaxBailed
    BY CoursesAssumption
  <2> QED
    BY <2>1, <2>2, <1>1 DEF Types, Ptr
<1>9. Chains
  BY <1>1, <1>2, <1>4, <1>5, <1>6, <1>7 DEF Chains
<1>10. CourseListsAgree
  BY <1>1, <1>2, <1>5, <1>6, <1>7 DEF CourseListsAgree, Restricts, ToSet
<1>11. Accounts
  <2>1. \A c : Taken(c) = {}
    BY <1>2 DEF Taken, Of
  <2>2. Cardinality({}) = 0 /\ Len(<< >>) = 0
    BY <1>3, FS_EmptySet
  <2> SUFFICES ASSUME NEW c \in Courses
               PROVE  arrived[c] = Len(InCourse(c)) + helped[c] + Cardinality(Taken(c))
    BY DEF Accounts
  <2>3. arrived[c] = 0 /\ helped[c] = 0 /\ InCourse(c) = << >> /\ Taken(c) = {}
    BY <2>1, <1>1, <1>6
  <2>4. Len(InCourse(c)) = 0 /\ Cardinality(Taken(c)) = 0
    BY <2>2, <2>3
  <2> QED
    BY <2>3, <2>4
<1>12. Owners
  BY <1>1, <1>2, <1>7 DEF Owners, Served
<1>13. Leaks
  BY <1>1 DEF Leaks
<1> QED
  BY <1>8, <1>9, <1>10, <1>11, <1>12, <1>13 DEF IInv

LEMMA InvariantHolds == Spec => []IInv
<1>1. IInv /\ [process_args]_vars => IInv'
  BY StepKeeps
<1> QED
  BY <1>1, InitHolds, PTL DEF Spec

-----------------------------------------------------------------------------
(* The theorems.                                                            *)

\* Whatever the commands are, also those of careless TAs, every struct is allocated
\* as a whole or not at all, and no counter passes the number of arrivals.
THEOREM TypeCorrect == Spec => []TypeOK
<1>1. IInv => TypeOK
  <2> SUFFICES ASSUME IInv PROVE TypeOK
    OBVIOUS
  <2>1. ASSUME NEW c \in Courses PROVE helped[c] \in 0 .. MaxCount
    <3>1. Taken(c) \in SUBSET SAddr
      BY DEF Taken, Of, Allocated
    <3>2. /\ Len(InCourse(c)) \in Nat /\ helped[c] \in Nat /\ Cardinality(Taken(c)) \in Nat
          /\ arrived[c] = Len(InCourse(c)) + helped[c] + Cardinality(Taken(c))
          /\ arrived[c] <= MaxCount
      BY <3>1, CourseFacts, TakenFinite DEF IInv, Types, Accounts
    <3>3. \A l, h, t \in Nat : l + h + t <= MaxCount => h \in 0 .. MaxCount
      BY CoursesAssumption
    <3> QED
      BY <3>2, <3>3
  <2> QED
    BY <2>1, CoursesAssumption DEF IInv, Types, TypeOK
<1> QED
  BY <1>1, InvariantHolds, PTL

\* The queue of each course is the overall queue restricted to that course, in the
\* same order, and its tail is its last node, whatever the commands are.
THEOREM ThreadingsAgree == Spec => []CourseListsAgree
<1>1. IInv => CourseListsAgree
  BY DEF IInv
<1> QED
  BY <1>1, InvariantHolds, PTL

\* With careful TAs every student who was let in is somewhere, once, in the lists and
\* in the statistics, and the structs that are lost are those of refused students.
THEOREM NobodyIsLost == CarefulTas => (Spec => []EveryoneAccountedFor)
<1> SUFFICES ASSUME CarefulTas PROVE Spec => []EveryoneAccountedFor
  OBVIOUS
<1>1. IInv => EveryoneAccountedFor
  <2> SUFFICES ASSUME IInv PROVE EveryoneAccountedFor
    OBVIOUS
  <2>1. /\ Served = Allocated \ (Queued \cup leaked) /\ Queued \subseteq Allocated
        /\ \A i, j \in DOMAIN ta_list :
              /\ ta_list[i].current_student # NULL
              /\ ta_list[i].current_student = ta_list[j].current_student
              => i = j
    BY DEF IInv, Owners, Chains
  <2>2. Len(Overall) = Cardinality(Queued)
    <3>1. Overall \in Seq(SAddr) /\ Different(Overall)
      BY OverallFacts DEF IInv
    <3>2. Overall \in Seq(SAddr)
      BY <3>1
    <3> QED
      BY <3>1, <3>2, Distinct DEF Queued
  <2>3. OneOwner
    BY <2>1, <2>2 DEF OneOwner, IInv, Leaks
  <2>4. \A c : {a \in Served : student[a].course = c} = Taken(c)
    BY <2>1 DEF Taken, Of
  <2>5. StatisticsAddUp
    BY <2>4 DEF IInv, Accounts, StatisticsAddUp
  <2> QED
    BY <2>3, <2>5 DEF EveryoneAccountedFor
<1> QED
  BY <1>1, InvariantHolds, PTL

\* Whichever forms of next the TAs use, nobody is passed over by a student who asks
\* about the same course and came later.
THEOREM CoursesAreFair == Spec => FirstOfCourse
<1>1. IInv /\ [process_args]_vars => [FirstOut]_vars
  BY StepKeeps
<1>2. Spec => [][FirstOut]_vars
  BY <1>1, InvariantHolds, PTL DEF Spec
<1> QED
  BY <1>2 DEF FirstOfCourse, FirstOut
=============================================================================
